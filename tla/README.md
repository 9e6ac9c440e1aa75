# HIDAPI in TLA+

HIDAPI is one C interface (`hidapi/hidapi.h`) with five independent backends: libusb, Linux
hidraw, macOS IOKit, Windows and NetBSD. This directory holds TLA+ models of the parts that are
concurrent, stateful or easy to get wrong, TLC configurations that check them on small instances,
and machine-checked proofs, for every value of the constants, about every part but the Windows
descriptor reconstruction.

The read paths have a module for each backend that keeps its own queue (libusb, macOS, Windows), and one
for the two that leave it to the kernel (Linux, NetBSD); all four are shown to keep one promise. The
calls, and the way from a list of devices to an open one, are one module each for all five backends,
so that what differs between them stands side by side.

Line numbers below are those of the file named, under `src/`.

## 1. Inventory

| Component | State | Operations | What is hard | Correct means |
|---|---|---|---|---|
| **libusb input path** `libusb/hid.c` 1099-1241, 1307-1407, 1630-1771, 1937-1978 | report list, `mutex` and `condition`, one interrupt transfer, `shutdown_thread`, `transfer_loop_finished`, `blocking` | `read_thread`, `read_callback`, `hid_read`, `hid_read_timeout`, `hid_set_nonblocking`, the thread part of `hid_close` | a read thread, a callback run by whoever handles libusb's events, readers in any number of threads, a flag written without the mutex, unplugging and closing at any time | reports reach readers once and in order; no reader sleeps for ever; nothing is freed under a thread; every -1 has its reason |
| **thread abstraction** `libusb/hidapi_thread_pthread.h` | a mutex, a condition, a barrier (real or emulated) | init, wait, signal, broadcast, create, join | the emulated barrier waits once; the result of `pthread_create` is ignored | "Ensures correct startup sequence" (line 95) |
| **libusb open and close** 602-637, 1307-1581, 1937-1978 | the device structure, device list, configuration descriptor, handle, claim, kernel driver | `hid_init`, `hid_exit`, `hid_open_path`, `hid_libusb_wrap_sys_device`, `hid_close` | every libusb call can fail half-way; alternate settings are retried; two threads can open at once | nothing leaks, the kernel driver comes back, NULL has a reason |
| **libusb error context** 344-371, 1757-1763, 2068-2138 | code, context, message and the cached text | `register_*_error`, `hid_error`, `hid_read_error` | a cached text that outlives its error | the text told is that of the last error |
| **libusb report transfers** 1583-1627, 1773-1935 | the error context | write, feature, output, input report | the report ID is sent or not, by rules written out in every function | the device holds the report that was sent; a report fetched is the device's, after its ID; `hid_error` is about the last call |
| **libusb enumeration and descriptors** 196-590, 639-1097 | none kept | `hid_enumerate`, `hid_open`, strings, usages of the report descriptor | devices go between the list and the open; a path names a place | each interface once; the device opened is the one asked for |
| **macOS read path** `mac/hid.c` 53-101, 148-176, 855-994, 1071-1088, 1194-1430 | report list, `mutex`, `condition`, two barriers, `shutdown_thread`, `disconnected`, run loop and its source | the read thread's run loop and callbacks, reads, `hid_close` | a run loop stopped by unplugging or by `hid_close`; a thread that has to outlive a call of another one | as for libusb; the OS handle is closed |
| **macOS open, enumeration, reports** 440-1187, 1358-1582 | IOHIDManager, error texts | `hid_open_path`, `hid_enumerate`, set and get report | same device by several usages; what a failing open has to give back | as for libusb; nothing leaks |
| **Windows overlapped I/O** `windows/hid.c` 210-237, 1080-1264 | two `OVERLAPPED` structures with auto-reset events, `read_pending`, two buffers | `hid_read_timeout`, `hid_write` | an operation outlives the call that started it | a pending operation is collected, not overlapped by another one |
| **Windows enumeration, strings, reports** 357-1073, 1266-1608 | error texts, two buffers kept between calls, cached device information | as elsewhere (bus detection is not modelled) | a short report in a buffer that held a longer one; the interface list grows while it is fetched | as elsewhere |
| **Windows descriptor reconstruction** `hidapi_descriptor_reconstruct.c` | none | `hid_winapi_descriptor_reconstruct_pp_data` | a 1000-line pure algorithm on a tree of collections | the rebuilt descriptor declares the same fields at the same bits |
| **Linux hidraw** | a file descriptor, `blocking`, error texts | poll and read, write, ioctls, udev enumeration | a blocking descriptor read after a poll; the error contract | a read with a time limit returns; one record per usage |
| **NetBSD uhid** | one handle per report ID, a poll set | the same | which handle is read or written; the bus is walked from one of two addresses | as for Linux; each device once |

Bold rows are modelled, with the exceptions that they and section 6 name. The components meet as follows. An application calls the
interface; `hid_open_path` builds a device, starts its read thread and waits for it at a
barrier; the read thread (or the run loop in it) feeds the report list through a callback;
readers take from the list under the device's mutex, sleep on its condition, and are woken by a
signal per report or by the broadcast at the end; `hid_close` asks the read thread to stop, joins
it and releases everything. On Windows and Linux the kernel holds the queue and there is no
thread. Errors go to a context per device, a read context per device, and a global one.

The hazards of this code, each at its line, with the properties that watch for it, are listed in
`PROJECT.json` under `hazards`.

## 2. Modules

| Module | Models | Checked by | Proved in |
|---|---|---|---|
| `InputQueue` | the promise: what `hidapi.h` says of reads, for every backend | as a PROPERTY of four modules | |
| `LibusbRead` | libusb input path and thread abstraction | `MCLibusbRead` | `LibusbRead_proofs` |
| `LibusbError` | the error context as operators | `LibusbOpen` | with `LibusbOpen` |
| `LibusbOpen` | libusb open and close, with `LibusbError` for the global context | `MCLibusbOpen` | `LibusbOpen_proofs` |
| `MacRead` | macOS read path | `MCMacRead` | `MacRead_proofs` |
| `WinIO` | Windows reads and writes | `WinIO` itself | `WinIO_proofs` |
| `PollRead` | Linux and NetBSD reads | `MCPollRead` | `PollRead_proofs` |
| `DeviceCalls` | every other call on an open device, in all five backends | `MCDeviceCalls` | `DeviceCalls_proofs` |
| `Discovery` | init, enumerate, open, close, exit, in all five backends | `MCDiscovery` | `Discovery_proofs` |
| `UsageParser` | the walk of a report descriptor for usages: libusb, Linux and NetBSD | `MCUsageParser` | `UsageParser_proofs` |
| `DescriptorReconstruct` | Windows descriptor reconstruction | `MCDescriptorReconstruct` | |

**InputQueue** is a bounded FIFO queue of numbered reports that forgets its oldest one when full.
A read returns the oldest report, or 0 (never from a blocking read; from a non-blocking one only
if it found nothing), or -1 once the backend has stopped. It follows that reports are returned in the order
of their arrival and none twice (`HandedOutOnce`). `ErrorOvertakes` says whether a read may
fail while reports are queued: not in the libusb backend, which looks at the list once more after
it was told to stop; yes in the others.

**LibusbRead.** `app` is the program counter of the thread that opens and closes, `rt` that of the
read thread, `callback` that of `read_callback` (with `handler` saying whose thread it runs in),
`reader[r]` that of one `hid_read*` call. One step is what happens between two points where another
thread can intervene: taking the mutex, waiting on the condition, reading or writing a flag that
the mutex does not protect, calling libusb. A report is the number of its arrival. `Limit` stands
for the 30 in `read_callback`; the list really holds up to `Limit + 2`, because the code counts
links and appends before it removes. `OtherHandlers` lets a foreign thread handle libusb's events,
as another device's read thread or the application may. Readers act only while the device is not
freed: `hid_close` does not wait for them, so calls that overlap it are the caller's error.

**LibusbOpen.** Each opener has a program counter, a set `owned` of the resources it holds, and the
loop variables of `hid_open_path`; the interface has a kernel `driver` and a `claimed` owner. Every
call of libusb may fail. With `Concurrent = FALSE` calls do not overlap.

**MacRead** is built like `LibusbRead`. Its condition wait is the file's own `cond_wait`, which looks
at both flags before and after it sleeps. The two barriers are the emulation at 61-102, which loops
on its count. CFRunLoop's dispatch of callbacks is external: a registered report, a removal, the
signalled source; a ready callback is served before the loop times out.

**WinIO** has the kernel's side of an overlapped operation: it completes at any time, sets the state
of its `OVERLAPPED` and its event, and stays there until somebody looks. The calls of one reader and
one writer interleave with it. The kernel's ring of 64 reports does not fill within `MaxReports`.

**PollRead** has the kernel's queue of each descriptor: one on Linux, one per report ID on NetBSD. A
call is a `poll`, a choice and a `read`, and reports or an unplugging come between any two of them. The
descriptors block, so a wrong choice would wait for ever.

**DeviceCalls.** A buffer is a sequence of bytes with the report ID first, and the device holds the
contents of its reports, so what is skipped, completed or left over is seen. The five backends' functions
stand side by side: the order of their checks, the ID they send or leave out, the buffers that Windows
reuses, and where each sets and clears the error of the device. A transfer fails before or after the
report has arrived. One thread calls: the structure of a device has no lock around these calls.

**Discovery.** A call takes a snapshot of the system's devices, looks at each, describes it, builds
its list, and, for `hid_open`, chooses and opens by path; devices come and go between any two of these.
A path names a device (Windows, macOS) or a place (libusb, Linux, NetBSD). `held` is what a call or its
answer owns. `steady` are the places that nothing happened to since the call began: what is promised
of a list is promised for them. `hid_open_path` of libusb is one step here; its insides are `LibusbOpen`.

**UsageParser** declares a descriptor item by item, cuts it, and walks its bytes, a step for each turn
of the loops; `Discovery` knows only how many usages a device has. NetBSD has a copy of the Linux
functions, so `Backends` names one of the two. `Host` reads the items by the rules of HID, not by bytes.

**DescriptorReconstruct** has a `declare` phase in which a device builds a tree of collections and
Windows files its preparsed data (external, after the files of `windows/test/data`). Then the function
runs, one action for each loop, or for each turn where the state between turns matters. `Host` decodes
what it wrote into fields with their bit positions, which are compared with what was declared.

The MC modules hold what belongs to an instance: symmetry sets, devices, items. Operators named
`Action_Variant`, under a comment that begins with "Mutant", are wrong versions of the action they stand
beside; `PROJECT.json` says which property each of them breaks.

## 3. Runs

Passing runs:

| Run | Bounds | What it shows |
|---|---|---|
| `read_safety` | 2 readers (symmetric), `Limit` 1, 4 reports, foreign handlers, failing thread creation | types and the queue's real bound; `TransferQuietWhenFreed`: the transfer is freed only when it is idle, outside its callback, and the thread is gone; `CancelHasTransfer`; `NoSleeperAfterExit`; **refinement of `InputQueue`** |
| `read_live` | 1 reader, the rest the same, threads that start, fair threads | `NoLostWakeup` (signalling only when the list was empty is enough for one reader), `BlockingErrorExplained`, and liveness: readers are served, readers are released at shutdown, open and close return |
| `open` | 2 users whose calls do not overlap, 2 devices, 2 alternate settings | nothing is leaked on any failure path, the kernel driver is put back, an open device owns its interface, NULL has a registered reason, `hid_error` tells the error registered last |
| `mac_safety` | 2 readers (symmetric), `Limit` 1, 4 reports | `RunLoopAliveWhenWoken` (the second barrier's purpose), `NoReportStranded` (a signal per report strands nobody, for two readers), `NoSleeperAfterBroadcast`, refinement |
| `mac_live` | 1 reader, fair threads | `ThreadReadyWhenOpen` (the first barrier's purpose), readers are released, close returns and has closed the handle |
| `win_io` | 3 reports, 3 writes, each of which may time out | `PendingIsKnown`: no read is started over a pending one; -1 has its reason; a successful write was completed, as long as none timed out; `ReadServed`; refinement |
| `poll` | 4 reports over 1 to 3 descriptors, 1 reader | `ReadReturns`: a read with a time limit always returns, one without returns when there is something; refinement for one descriptor |
| `calls` | 5 backends, a device with and one without report IDs, buffers of 0 to 3 bytes, 3 calls | `DeviceHoldsWhatWasSent`, `FetchedIsTheReport`: no ID too many, no byte of another report; `ErrorTellsOfLastCall` |
| `enumerate` | 5 backends, 2 places, 3 kinds of device, 2 calls, 2 times a device comes or goes | `ListedOnce`, `OpenedIsRequested`, `NothingLeaked`, `NullExplained` |
| `usages` | descriptors of up to 6 items of 8 kinds, cut anywhere in the last one | `UsagesFound`: a record for each top-level collection, with its own usage; for libusb the usage of the first one |
| `reconstruct` | 3 main items in up to 3 collections, 1 or 2 report IDs | `SupportedLayoutKept`: every field at its bits, and always the same collections; `LengthKept`: reports as long as before |

One run finds what a comment says violated:

| Run | Found |
|---|---|
| `win_write` | a write after one that timed out takes the older one's completion for its own (`windows/hid.c` 1136) |

`LibusbOpen`, `MacRead` and `WinIO` state a type invariant that documents their variables; no run lists it.

**Why the bounds are enough.** Four reports overflow a list that holds three, so dropping, reuse of
a freed place, and a signal for a list that was empty, had one and had several are all there. Two readers
are enough for a report or a wakeup to be taken from under another one; a third would only
repeat it. `Limit` 1 and not 30 changes where the list overflows, and the proofs hold for any `Limit`.
Two alternate settings give a retry after a failure, two devices a skipped one. Three writes give a
late completion both a successor to deceive and one more after it. Three calls are an earlier one that
leaves something, one in between and one that finds it. Two changes of what is plugged in replace
a device by another one within a call or between two; two calls are a list and an open that uses its path.
Six items hold two top-level collections with their usages, or one in another. Three collections are
siblings or nested, and three items put a field before, in and behind them.

**Deadlock** is checked in `open`, `win_io` and `win_write`. Elsewhere a closed device, a finished function or the last
call is the end of the behaviour, so the configurations switch it off.

**Fairness.** `FairSpec` has weak fairness for each thread's own steps: a thread that can run runs.
In `LibusbRead` the end of the transfer is strongly fair: it was submitted with a timeout of
5000 ms (`libusb/hid.c` 1184) and `libusb_handle_events` handles what has ended; which of its ends
comes is left open. In `WinIO` and `PollRead` the steps of a read are weakly fair: the kernel lets time
limits expire and returns from a call that can end. Nothing is assumed of the application (it may never
read or close) nor of the
device (it may never send). Nothing makes a mutex fair, so liveness is checked with one reader: with two,
one reader that keeps calling can starve the other one, which is so in the code as well. Symmetry
is used in safety runs only.

## 4. Proofs

Each `*_proofs` module names the parts of an inductive invariant `IInv`, shows in one lemma per part that
every step keeps it, and derives the theorems. Nothing is assumed but the named assumptions of the modules
(bounds are natural numbers, `NoOwner` is no reader, and so on) and what the second column says. The runs check
the same properties on small instances.

### libusb: the input path (`LibusbRead_proofs`)

| Theorem | Statement, for any readers, any `Limit`, any number of reports, any setting of the flags |
|---|---|
| `TypeCorrect` | types, and at most `Limit + 2` reports in the list |
| `FreeIsSafe` | `TransferQuietWhenFreed` |
| `NobodySleeps` | `NoSleeperAfterExit` |
| `StartupSequence` | `CancelHasTransfer`, assuming the barrier has no spurious wakeups (`~SpuriousBarrier`) |
| `LoneReaderAwake` | `NoLostWakeup`, assuming a single reader |
| `BlockingErrorHasReason` | `BlockingErrorExplained`, assuming a single reader |
| `Refinement` | `LibusbRead` implements `InputQueue` |
| `HandsOutOnce` | `HandedOutOnce`, an action property: reports are returned in the order of their arrival and none twice, whichever readers get them |

`IInv == TypeOK /\ MutexInv /\ StartInv /\ FinishedInv /\ CloseInv /\ SleepInv`. None of the
properties is inductive alone. `MutexInv` ties the mutex to the program counters between lock and
unlock. `StartInv` says that the transfer does not exist before the read thread allocated it, and is
not in flight before it was submitted. `FinishedInv` is the heart of `FreeIsSafe`: once
`transfer_loop_finished` is set the transfer is idle, nobody is in its callback, and `shutdown_thread` is
set; so a read thread that leaves its drain loop leaves nothing behind. `CloseInv` orders join and
free. `SleepInv` strengthens `NoSleeperAfterExit` to readers that are about to sleep; it holds because a
reader tests the flag and goes to sleep in one hold of the mutex, and the broadcast takes the mutex too.

`StartupSequence` adds `BarrierInv` (nobody passes before both arrived), and `LoneReaderAwake` adds
`AwakeInv` (a lone reader that sleeps or is about to saw an empty list, and the next report signals it).
`BlockingErrorHasReason` adds `ExplainedInv`: the reason is there from the moment the result is decided, still
under the mutex. Both need a single reader, and so does the code: a second reader's call takes the report
behind the signal, or clears the error. `Refinement` needs `CallInv` (a reader inside a call whose result is
not decided has no result yet) and the lemma `EnqueuedFacts`, that the loop of `read_callback` is a
bounded append. A call ends for the abstraction when its result is decided, under the mutex, and
not when it returns.

`HandsOutOnce` is then proved of the promise, once for each backend that keeps a queue of its own. `OrderInv` says that every
queued report is newer than the one before it and none is newer than the last arrival. So the oldest report that may
still be handed out only ever grows, past each one that is handed out, also when reports are given up and
when `hid_close` empties the queue. No run lists `HandedOutOnce` of these modules, since the refinement that the
runs check implies it.

### libusb: open and close (`LibusbOpen_proofs`)

| Theorem | Statement, for any openers, any number of devices and alternate settings |
|---|---|
| `Invariance`, `TypeCorrect` | `IInv`, and the types |
| `NothingLeft` | `NothingHeld` |
| `OpenOwns` | `OpenDeviceOwns` |
| `AnswerTells` | `AnswerFits` |
| `DriverIsRestored` | `DriverRestored`, assuming that calls do not overlap (`~Concurrent`) |
| `NullIsExplained` | `NullExplained`, assuming the same |

`OwnershipInv` says for each program counter exactly what the call owns there; that is what makes
`NothingHeld` inductive, and what a failing `goto` in this code would break. `ClaimInv` says who has claimed the
interface (an opener with a good open still in its loops has), and that it then has no kernel driver. `ErrorInv` relates the
error, its context and the cached text: a text that is kept belongs to the code and context kept with
it. All of that holds when calls overlap. The last two theorems do not: `AlonePart` adds that only one opener is inside a
call (`AloneInv`), that `hid_libusb_wrap_sys_device` has an error before it cleans up (`CleanupInv`), and
`DriverInv`: the driver is missing exactly while somebody has it detached who holds the claim or is on the
way to put it back. Overlapping openers break it (section 5).

### macOS: the read path (`MacRead_proofs`)

| Theorem | Statement, for any finite set of readers, any `Limit`, any number of reports, old and new systems |
|---|---|
| `Invariance`, `TypeCorrect` | `IInv`, and the types with the bound of the list |
| `OpenFindsRunLoop` | `ThreadReadyWhenOpen` |
| `WokenRunLoopAlive` | `RunLoopAliveWhenWoken` |
| `NobodySleeps` | `NoSleeperAfterBroadcast` |
| `NobodyStranded` | `NoReportStranded` |
| `Refinement` | `MacRead` implements `InputQueue` |
| `HandsOutOnce` | `HandedOutOnce`, as for libusb |

`BarrierInv` says for each of the two emulated barriers where both threads are when its count is one, and
that nobody is past it before both have arrived. `SleepInv` is as for libusb; `EmptyInv`
says that who is about to sleep found the list empty and has held the mutex since. `NobodyStranded` counts:
while a reader sleeps there are no more reports in the list than readers on the way to them
(`StrandedInv`); each arrival signals one more, and a reader that takes a report or finds none goes away with
at most one. This is where finite sets of readers are needed, and why two readers are not a problem here as they
are in the libusb backend, which signals only when the list was empty.

### Windows: overlapped I/O (`WinIO_proofs`)

| Theorem | Statement, for any number of reports and writes |
|---|---|
| `NoReadOverAnother` | `PendingIsKnown` |
| `ErrorHasReason` | `ErrorExplained` |
| `SynchronousBeforeTimeout` | `WriteSynchronousBeforeTimeout` |
| `Refinement` | `WinIO` implements `InputQueue` |
| `HandsOutOnce` | `HandedOutOnce`, however many calls give up on a report before one collects it |

`ReadInv` is what makes `PendingIsKnown` inductive: the event is never set for an operation that is
still pending, so a read that woke up finds a result and may clear `read_pending`. `WriteInv` says that
before the first timeout at most one write is in flight, the one that is waited for, and the shared
`OVERLAPPED` is about it; that is exactly what a timeout breaks. The refinement shows the reader a queue made of the
buffer, if it holds a completed read, and of what the kernel keeps; `KernelInv` says that the kernel keeps
nothing while a read is pending, and that reads fail only after the device has gone.

### Linux and NetBSD: reads (`PollRead_proofs`)

| Theorem | Statement, for both backends, any number of descriptors and reports |
|---|---|
| `Invariance`, `TypeCorrect` | `IInv`, and the types |
| `ReadFollowsPoll` | `ReadNeverWaits`: the blocking `read()` after a poll finds a report, or the device gone |
| `ReportsOnceInOrder` | `HandedOutOnce`, an action property: a report leaves its queue only as the answer, no other descriptor has it, and what stays behind came later |
| `Refinement` | a device with one descriptor implements `InputQueue` |

`ReadNeverWaits` is the safety side of `ReadReturns`: descriptors block, so a wrong choice
would wait past the time limit. It holds because only the reader takes from a queue; `MinFacts` gives that the
descriptor chosen is one of those that are ready.

### Enumeration and opening (`Discovery_proofs`)

| Theorem | Statement, for all backends, any places, devices, changes and calls |
|---|---|
| `Invariance`, `TypeCorrect` | `IInv`, and the types |
| `ListsOnce` | `ListedOnce` |
| `NothingIsLeaked` | `NothingLeaked` |
| `NullIsExplained` | `NullExplained` |
| `OpensWhatWasAsked` | `OpenedIsRequested` |

`SeenInv` is about memory: what a call has seen of the bus was there, a number of plugging tells the device, and where
nothing changed since it is still there. `PhaseInv` says where each backend's calls can be, `HeldInv` what a call
holds there. `WishInv` follows `hid_open` from the entry that matched to the device: the path was found with a
device of the kind that is asked for, so what is found at it is of that kind or something changed.
`ListsOnce` adds `OnceInv`: every wanted device that is there all the time is either still to come and not
listed, or listed with each usage once. NetBSD is the interesting case: it walks the bus from address 1 when
address 0 gave nothing, and the invariant shows that then there was nothing to list twice.
Two assumptions are needed. `ChildrenAssumption`: the names of NetBSD's children are no names of the other things
a call owns (`held` has them side by side). And nobody asks `hid_open` for the empty serial number
(`Serials`), which would match a device whose number could not be read.

### The other calls (`DeviceCalls_proofs`)

| Theorem | Statement, for all backends, any devices, buffers and calls |
|---|---|
| `Invariance` | `IInv` |
| `ErrorTells` | `ErrorTellsOfLastCall` |
| `FetchesTheReport` | `FetchedIsTheReport` |
| `HoldsWhatWasSent` | `DeviceHoldsWhatWasSent` |

The three properties are inductive together with the types of the reports, because a call leaves nothing that the
next one reads but Windows' two buffers, and these are filled anew and completed with zeros each time. So the proof is about
one call of each function of each backend: what it puts before and behind the data
(lemmas on `Repeat`, `Upto`, concatenation and `IsCopy`) is what the device takes off again.
`DevicesAssumption` says what a device is: it has a report, its reports are numbered or there is one only, and no report is
longer than `MaxReport`, the 16 bits of a control transfer's `wLength`. `MaxFacts` needs that bound.

### Usages in the report descriptor (`UsageParser_proofs`)

| Theorem | Statement, for descriptors of any length, made of any items, cut anywhere in the last one |
|---|---|
| `WalkAgrees` | `IInv` |
| `UsagesAreFound` | `UsagesFound` |

`IInv == TypeOK /\ DeclareInv /\ DepthInv /\ FetchedInv /\ WalkInv /\ UsagesFound`. The walk works on bytes, the host on
items, and the invariant ties them together: between two turns of its loop the walk stands where an item begins, or
behind the end when the last item was cut, and what it remembers is what a host knows after the items
before it (`WalkInv`). What it remembers differs. The iterator of Linux and NetBSD is outside of a collection, where it
knows the page and the last usage (`Outside`), inside of one, with its level and the pair it will return
(`Inside`), or at the end; `get_usage` of libusb has neither, one or both of a page and a usage (`HalfFound`). Nothing is
claimed once the host has found the descriptor irregular, as `UsagesFound` claims nothing of it then. That the first
pair `get_usage` finds is still the answer when the whole descriptor has been read is `FirstPairKept`, by induction over
the items that it does not look at.

`Seen` is what the bytes at an item tell of it: its kind, its length, and its value if that was not cut off. It rests on
`Encodings`: the bytes of a prefix of the items are a prefix of the bytes. Both `Encodings` and `Readings` are recursive
functions; that they satisfy their equations, and what holds for every prefix, is shown by induction over a set
of numbers (`SetInduction`), which comes from the well-foundedness of `<` and needs no operator as a parameter.
`UsageAssumption` says what an item is: one of the kinds that `Encode` knows, with values that fit in a byte.

### Model-checked only

- Liveness: `BlockedReaderServed`, `ShutdownReleasesReaders`, `CloseCompletes`, `OpenCompletes`, `ReadServed` and
  `ReadReturns`. Fairness and ENABLED are outside the proof system's reach.
- `SupportedLayoutKept` and `LengthKept` of `DescriptorReconstruct`. They say what a dozen loops, over a list that
  several of them reorder and a tree of collections, make of a device together; an invariant would have to describe the list
  after each of these loops. The run covers all devices within its bounds, and the proof has not been tried.

## 5. Facts worth knowing

What the models show of the code beyond the properties, most of it built into them as an exception
that their comments name. Those of the first group were found by checking the property named with the
constant named; no run of the project repeats it.

Promises that do not hold in some corner:

- libusb: a timed read that sees `shutdown_thread` only in its loop test (1711) returns -1 with no error
  registered (`ErrorExplained` of `LibusbRead`). `BlockingErrorExplained` is what holds.
- libusb and macOS: when `pthread_create` fails the opener waits at the barrier for ever
  (`OpenCompletes` with `ThreadCreateMayFail = TRUE`).
- libusb: the emulated barrier of `hidapi_thread_pthread.h` waits once; after a spurious wakeup `hid_close`
  can find no transfer (`CancelHasTransfer` with `SpuriousBarrier = TRUE`).
- libusb: two overlapping opens of one interface can leave it without its kernel driver
  (`DriverRestored` with `Concurrent = TRUE`).
- libusb: `hid_open_path` can return a device and leave the error of an alternate setting that failed
  (`SuccessSilent` of `LibusbOpen`).
- Reconstruction: a field beside a collection that contains another one can be written in the wrong order. The loop
  at 286-298 goes on to the next child once per report and type, so a child is merged for one of them only, and
  a parent whose `FirstBit` is still -1 takes nothing over, where the comment at 280 says "Propagate the bit
  range of each report from the child collections to their parent". With `LayoutKept` as the invariant TLC shows
  the descriptor; `NestingSupported` excludes it.
- Reconstruction: padding at the beginning of a report is dropped (546), and padding has no
  report ID of its own (682). A device with reports 1 and 2 that declares 8 bits of report 1, 7 constant bits of
  report 1, 8 bits of report 2 and again 8 bits of report 1 gets the 7 bits in the wrong report (`GapsSupported`).

Reads:

- A resubmission can win over both cancellations of a closing libusb device; `CloseCompletes` then
  rests on the 5000 ms timeout of the transfer.
- The macOS read thread marks a device as disconnected whenever its run loop is stopped, by `hid_close` too;
  before 10.10 `hid_close` then skips `IOHIDDeviceClose`, so `CloseCompletes` promises that for later ones only.
- In `WinIO` a read that completed is still collected after the device has gone, but what the
  kernel holds by then is lost: a new read fails beside it. The refinement allows that by `ErrorOvertakes`.
- On Linux a polled read of a device that has gone fails although reports are queued; one without a limit still
  gets them. With two readers the second may wait in `read()` in spite of its time limit.
- On NetBSD the first descriptor that is ready is read, so reports of one that is busy keep those of
  the others waiting.

Other calls:

- `hid_libusb_wrap_sys_device` frees the configuration descriptor only when it fails; a success keeps it.
- Nothing on NetBSD clears the error of a device; on Windows `hid_get_report_descriptor` and on macOS the
  making of the device information leave the error as it was or set one after a success.
- NetBSD tests the address of the device and not the information (`if (!dev)`) before it copies a string, and
  `hid_winapi_get_container_id` does not test its own; both follow NULL once the device has gone (`crashed`).
- NetBSD's get calls answer the length of the buffer, and a report sent too short is completed by
  whatever the stack held. Windows' `hid_write` answers the padded length.

Lists and opens:

- Where a path names a place, the device behind it may be another one than the list said.
- An entry made while its Windows device goes has vendor 0. A Linux enumeration that succeeds may leave an error;
  an empty NetBSD list has none.
- Each success of NetBSD's `hid_open_path` loses the descriptor of drvctl, and a device that has gone by
  then is opened without any handle.
- The usage walks skip what is inside a collection, a usage page included, that HID leaves in force behind
  it; a usage with a page of its own changes the page for those after it; and of two usages before a
  collection they take the last (`get_usage` the first that follows a page).

## 6. Not modelled

- Contents of input reports, wording of errors, conversion of strings, choice of their language, text of uevent files:
  no property here tells them apart.
- Windows: detection of the bus, what is read from USB and BLE parent nodes, and `hid_close`: what the kernel does
  with operations that it cancelled but did not wait for is not decided by this code. `IOKit` with a handle of a
  device that has gone; libusb itself beyond when a transfer ends.
- Descriptor reconstruction: aliases, usage pages, limits, units and a buffer that is too small.
- Allocations that fail in the middle of an enumeration, and signals that interrupt a system call.
- Calls on a device that another thread is closing (undefined for every backend).
- Endpoint selection and the Xbox initialisation transfers: their results are ignored by the code.
- Test programs, build files, packaging and documentation.

## 7. Plan

Proofs to come:

1. `DescriptorReconstruct`: that the list always holds each main item once and never a position before the
   collection it belongs to, loop by loop, as the first parts of an invariant for `LengthKept` and
   `SupportedLayoutKept`.
