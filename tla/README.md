# A TLA+ verification of the P7 client

P7 is a C++ client library for fast logging and telemetry.  The threads of an
application trace messages and send samples of counters; the library cuts them
into packets of a fixed size and delivers the packets over UDP to a server
(Baical), which may send commands back.  This directory holds TLA+ modules that
model the concurrent core of the library, configurations with which TLC checks
them on small instances, and proofs, checked by TLAPS, that hold for every value
of the constants.  Paths below are relative to `src/`; `PROJECT.json` maps each
definition to the lines it models.

## 1. Inventory

### Components

| component | source | state | operations |
|---|---|---|---|
| delivery protocol | `Sources/Client.cpp` 814-1477, `TPackets.h` | data window with its cell, its limits and the resending flag; control packet; waiting flag; fails; last ID; client ID; reset counter | receive, send one packet, resend, report, ping, reset, connect, disconnect, exit |
| send queue | `Client.cpp` 1269-1325, 1688-1881 | `m_pData_Queue_Out`, the packet a sender holds | split a message over packets, fill the last packet, refuse |
| buffer pool | `Sources/PacketsPool.h` | list of free packets, packets made, packets out | pull, push, allocate a chunk, count the free |
| trace channel | `Sources/Trace.cpp` | status, marks of the channel and the descriptions, sequence, verbosity | trace, register, receive a command, share, destroy |
| telemetry channel | `Sources/Telemetry.cpp` | status, two marks, counters | create, find, add, receive a command, share, destroy |
| channel thread | `Client.cpp` 1482-1683 | `m_pData_Queue_In`, `m_pChannels` | dispatch commands, register, unregister |
| client lifecycle | `Client.cpp` 27-297, 365-809, `Client.h` | status, what has been made, reference count, threads | create, get shared, release, join, destroy |
| events | `Shared/Platforms/*/PMEvent.h` | counters of the events, a semaphore | init, set, clear, wait |
| shared registry | `Shared/Platforms/*/PShared.h` | named semaphores and memory | create, read, close |
| containers | `Shared/AList.h`, `Shared/RBTree.h` | cells in a pool, an index; a red-black tree | add, put, delete, push, find |
| packet formats | `Sources/TPackets.h`, `Shared/CRC32.*` | the bytes of a packet | build, test |
| format parser | `Trace.cpp` 139-543 | description of a format string | parse once |
| host name resolver | `Shared/Platforms/Windows_x86/PDnsResolve.h` | tree and lists of records, semaphore, timeout | ask for a name, look it up, refresh it, destroy |
| time | `Shared/Ticks.h`, `PTime.h` | | difference of two tick counts |
| threads, locks, atomics | `Shared/Platforms/*` | | wrappers of the system |
| sockets, journal, files, processes, strings | `Sources/Socket.h`, `Shared/TCP_NB.h`, `Shared/Platforms/*` | | I/O |

### How they interact

User threads call a channel (`Trace_Raw`, `Add`).  A channel reads the status of
the client (`Get_Status`), enters its own lock `m_sCS`, compares the reset counter
it read with its marks, and calls `Sent`.  `Sent` holds `m_hCS_User` from its
first test to its last packet, so users are served one by one; it pulls packets
from the pool (lock of the pool) and puts them into the queue
(`m_hCS_Data_Out`).  `Comm_Routine`, the communication thread, takes packets from
the queue into its window, sends them, and receives answers into packets of the
same pool.  Answers with commands go into `m_pData_Queue_In` (`m_hCS_Data_In`);
the thread signals `m_cChnl_Event`, and `Chnl_Routine` hands the commands to the
channels under `m_hCS_Channels`.  When the connection is lost or the server does
not know the client, `Reset_Connetion` empties window and queue and increments
the reset counter, from which the channels learn that the server needs their
descriptions again.  The destructor signals both threads and joins them.  Client
and channels are counted by references; `Share` puts one into a registry of the
process under a name, `P7_Get_Shared` finds it there and takes a reference, and
the destructor takes the name away.

### What is hard

The network loses, repeats, delays and damages datagrams, and the server may
restart.  IDs wrap and are kept sequential inside a window only by a test made
when the window is empty.  Users, both threads and the server act between any
two steps: between the reading of a status and its use, between the disconnect
and the reset, between the packets of one message, between a queued packet and
its signal, between a lookup in the table of channels and the call.  The pool is
shared by those who fill it and those who empty it, and its counts are unsigned.
The events are two counters that are changed in separate steps.  `PROJECT.json`
lists these hazards line by line with the properties that watch them.

### What makes each component correct

* *Delivery:* a packet leaves the client unreceived only with a reset the
  channels can see; answers are never mistaken for answers to something newer; a
  bye without a reset means that all was delivered.
* *Queue and pool:* messages are stored whole and in order; each packet has one
  owner; data leaves the packets that the others need.
* *Trace and telemetry:* what the server needs to decode a record is sent before
  it in every session; traces are numbered in the order they are sent; the
  arguments of a trace arrive as its format describes them.
* *Channel thread and events:* what is signalled is handled, in order, on a
  channel that lives; the exit is heard.
* *Registry and lifecycle:* an object is found while it is shared and never after
  its last owner released it; whichever step of the constructor fails, the threads
  find what they use, nothing is left behind, and the destructor comes to its end.
* *Containers, reports, resolver:* the tree is a dictionary and stays balanced, the
  list a sequence whatever becomes of its pool and its index, the report names the
  packets that were received, users wait as long as lookups take.

## 2. Modules

| module | what it is | extends or instantiates |
|---|---|---|
| `Session` | abstract specification: what the client promises about packets | |
| `Transport` | the delivery protocol, the network and the server | |
| `MCTransport` | the refinement mapping from `Transport` to `Session` | EXTENDS `Transport`, INSTANCE `Session` |
| `TransportProofs` | inductive invariants of `Transport`, the refinement of `Session` | EXTENDS `MCTransport` |
| `SendQueue` | `Sent`, the queue and the pool, with all who use the pool | |
| `SendQueueProofs` | conservation of packets, budget of `Sent`, whole messages | EXTENDS `SendQueue` |
| `Trace` | one trace channel used by several threads | |
| `TraceProofs` | marks, descriptions, order of numbers, verbosity; every argument of a trace arrives | EXTENDS `Trace`, `Format` |
| `Telemetry` | one telemetry channel used by several threads | |
| `TelemetryProofs` | what is sent in one call, marks, descriptions | EXTENDS `Telemetry` |
| `MEvent` | CMEvent of the Linux build | |
| `Shared` | objects shared under a name, and their references | |
| `SharedProofs` | the name and the memory of a shared object | EXTENDS `Shared` |
| `Channels` | the channel thread, its event, its queue, the channels and their locks | INSTANCE `MEvent` |
| `ChannelsProofs` | signals, callees, order of commands | EXTENDS `Channels` |
| `MCChannels` | the contents of packets for TLC | EXTENDS `Channels` |
| `Lifecycle` | a client from its constructor to the end of its destructor | |
| `Dictionary`, `Listing` | abstract specifications: a dictionary, a sequence | |
| `RBTree` | the red-black tree with its pool of nodes | INSTANCE `Dictionary` |
| `AList` | the linked list with its pool of cells and its index | INSTANCE `Listing` |
| `Resolver` | the host name resolver, on what `Dictionary` and `Listing` promise | |
| `Format` | the parser of format strings, and the arguments `Trace_Raw` passes on | |
| `WindowReport` | the bits of a window report | |
| `LibraryProofs` | no set event goes unnoticed, no time-out is false; the tree is sound and a dictionary | EXTENDS `MEvent`, `RBTree` |
| `PartsProofs` | a client has what it uses, reports are true, users wait as long as lookups take, the list is sound and a sequence | EXTENDS `Lifecycle`, `WindowReport`, `Resolver`, `AList` |
| `MCParts` | the last five models and `Lifecycle`, each on an instance of its own | EXTENDS them |

### Transport

`commPC` is where `Comm_Routine` stands: waiting for the exit or its idle time,
receiving, sending, looking at the status of the connection, dropping it.  The
window is a function from cells, numbered in the order in which they were added
to the list `m_pData_Wnd`, to packets; `wndCell` is the iterator that the
resending branch moves.  There is one action for each branch of
`Process_Incoming_Packet` (`Recv...`) and of `Get_Delivered_Packet` (`Pump...`),
for the two changes of the status, for `Reset_Connetion` after a disconnect, and
for the exit.  The wait for an answer, the resend timeout, the ping interval and
the exit timeout are choices: wherever the code compares a time with a limit,
both outcomes may happen.

The network is the two sets `toServer` and `toClient` of all datagrams ever sent.
A datagram may be received at any later moment, again, or never, which is loss,
delay, duplication and reordering; `RecvDamaged` is the datagram with a bad CRC.
The server is not in the repository.  It is modelled, and marked as external, as
the client's handlers describe its answers: it acknowledges hellos and pings,
answers a report with the IDs it lacks or with an acknowledgment, and refuses
packets of a client it does not know.  Two representations differ from the code:
the client ID that no server has assigned is 0 (0xFFFF in the code), and fails
are counted no further than the limit they are compared with.

A data packet is the number under which `Sent` put it into the queue.  Filling
the last packet of the queue is left to `SendQueue`, dispatching to `Channels`.

`Session` states the promise without IDs, windows, reports and retransmissions:
the client holds what it accepted until a server has it, or drops everything and
counts a reset, and the server never needs more than a window of buffers to
restore the order.  `MCTransport` maps `Transport` to it: what is held is what is
in the queue or in the window.

### SendQueue

A packet's payload is the sequence of the numbers of the messages its bytes
belong to.  `Sent` is cut where it takes a lock of the queue or of the pool, the
communication thread and the channel thread where they take or return packets.
`m_hCS_User` is the variable `sender`: only one user is inside `Sent`, and a
second one would add nothing but waiting.  When the thread sends, frees or resets is
a free choice, because `Transport` is about that.  `FreeCount` is the unsigned
difference of the code; the modulus is the constant `Word`.  `backlog` is a bound
on the environment that is chosen at the beginning: how many packets with
commands the channel thread may have in its queue and in its hands.

### Trace and Telemetry

The client is reduced to what the channels see of it: whether it is connected,
its reset counter, and `stream`, what `Sent` accepted since the queue was drained
last.  `Disconnect` and `Reset` are separate steps, as they are in `Comm_Routine`;
`dirty` is the time between them.  `Trace_Raw` and `Add` are cut at each access
to shared state: the read of the status, which goes into a member of the channel
outside its lock, its test, the lock, each comparison of a mark, each new mark,
and `Sent` with what happens to the marks when it refuses.  A description is a
value in `Trace`; what it is made of is `Format`.

### MEvent and Channels

`MEvent` is the Linux build of `CMEvent` without `PMEVENT_COND_VARIABLE`, which
the source leaves undefined: `Set` and `Clr` hold the mutex, `Wait` takes a count
of the semaphore first and looks for the event later.  Signals of the system may
interrupt the threads in `Interrupts`.  The two forms of `Wait` differ in what becomes
of an interrupted thread: without a time the result of `sem_wait` is not looked at, and
the thread looks for an event although it has no count; with a time it returns as if the
time were over.  The client uses the second form only (`INFINITE` is 0xFFFFFFFF
milliseconds), and so does the channel thread in `Chnl_Routine` (`Client.cpp:1495`),
which then waits again (`ChnlTimesOut`).  `Channels` instantiates `MEvent` for
`m_cChnl_Event` and adds the queue of commands, `Chnl_Routine` step by step, the table of channels with registration
and destruction, and the exit.  Two locks are in it, because they are taken one
inside the other: `m_hCS_Channels`, which the thread holds from its lookups to the
end of a packet, and `m_sCS` of a channel, which it takes inside `On_Receive` and
the application inside `Trace_Raw` and `Add` (`UserEnter`, `UserLeave`); what those
call while they hold it are the locks of `Sent`, inside which nothing else is
taken.  It starts when `Init_Members` is through; the time before is in
`Lifecycle`.

### Lifecycle

`main` is the step of the constructor or of the destructor that comes next, `made`
the set of what has been made and not been released.  A step of the constructor
does its work, or fails and leaves the rest out; the caller gets a client or
releases it at once.  The destructor undoes what is there, in the order of the
code.  Both threads run beside it: the communication thread lives from `StartComm`
on, before the event of the channel thread is made, so that a packet with commands
may come that nobody can be told of (`Set` before `Init` is refused); it lies in
the queue until the destructor returns it.  Packets are only counted, by the place
they are in, because the question is who holds them and whether all are back when
the pool is deleted.  `exiting` and `waited` are the exit signal and the time since
then; with them `CommAwakes` ends the thread as the code does, when the client is
disconnected or holds nothing more, or after `COMMUNICATION_THREAD_EXIT_TIMEOUT`.  `CThShell::Close` is
that of Linux, which joins without a limit.  `journalRefs` are the references to
the journal, one for each of those who were given it.

### RBTree and AList, Dictionary and Listing

The two containers are translated operation by operation, with the pools their
nodes and cells come from.  A node of the tree is named by the datum it holds; the
mirrored halves of insertion and deletion are one definition with a side.  A loop
of the code is a round, repeated as often as the tree has nodes (`Looped`); a round
at the end of the loop changes nothing, and that no loop takes more rounds is part
of what is proved.  A cell
of the list is a number with links in both directions, of which the free ones form
the pool; the index is kept or dropped as the code marks it broken.  Each is shown
to implement its abstract specification: what is stored in the tree is a
dictionary that answers `Find` by the key, what the list links forwards and
backwards is a sequence, on which every operation does what its name says.

### Resolver

`Get_Name` runs in several threads; what it does under `m_sCS` is one step, its
wait for the event of a record and the reading of the name after it are others.
The thread of the resolver looks names up, adapts the timeout of the users to how
long that took (`Difference` of two tick counts, which may have wrapped meanwhile),
and refreshes one record at a time when idle.  No file of the library includes the
resolver yet.

### Format and WindowReport

A format is a sequence of pieces, each with what `printf` takes from the stack for
it, as the documentation of Trace lists them (`Headers/P7_Trace.h:173-180`).  The
automaton of the constructor reads it character by character, `Add_Argument` grows
its array, the arguments are grouped into blocks of those that lie side by side,
and `Trace_Raw` makes a chunk of each block.  `Legible` says what a piece may be: a
character, two percent signs, or a percent sign with flags, one prefix or none, and a
character that converts.  What it takes then is what the table of the code (`ArgType`)
has for it (`PiecesAssumption`); the run evaluates that for what `printf` takes for
the conversions of the manual, written down apart from the table (three are left out,
see section 4).  `WindowReport` is the set of IDs that
`Set_ID` and `Is_ID` keep in the bytes of a report, with `ID_Difference` around the
wrap of the IDs.

### MCParts

Each part is small and has nothing to do with the others, so that one run checks
them all: the part is chosen at the beginning and the others stand still.

### Shared

`Shared` follows `Shared_Create`, `Shared_Read` and `Shared_Close` of the Linux
build system call by system call, for one name: `semName` and `memName` are what
the name stands for at the moment, `semVal` and `content` what exists with or
without a name.  An object shares itself once, a call of `P7_Get_Shared` reads
once, and there may be any number of both, so a semaphore is known by the object
or by the call that made it.  Around them are `Add_Ref`, `Release` and the
destructor up to `Shared_Close`.  The client, the trace and the telemetry channel
have the same code.  Every call of the system may fail.  Both calls of `sem_open`
in `Shared_Read` pass `O_CREAT` without the mode and the value
(`PShared.h:253`, 264); what they make has a value out of `Garbage`, or cannot be
opened by others, or is not made at all.  What happens after the use of a freed
object, or after a second destructor, is not followed: the call is `dangling`.

## 3. Runs

| run | module, configuration | question |
|---|---|---|
| delivery | `MCTransport`, `TransportDelivery` | does the protocol implement `Session`, with one server, commands, and an exit at any moment? |
| server_restart | `MCTransport`, `TransportRestart` | is every loss announced when the server forgets the client? |
| send_queue | `SendQueue`, `SendQueue` | are messages whole and packets conserved, and does data leave the reserve? |
| reserve_used_up | `SendQueue`, `SendQueueWrap` | violation: does it leave the reserve if the channel thread lags behind? |
| trace_channel | `Trace`, `Trace` | is what the server needs sent in time, in order, and at the right level? |
| trace_stale_status | `Trace`, `TraceStale` | violation: is every trace of a session described in it? |
| telemetry_channel | `Telemetry`, `Telemetry` | the same for counters: what the server knows, and what it needs for a value |
| events | `MEvent`, `MEvent` | is every event that is set noticed and returned? |
| channels | `MCChannels`, `Channels` | are commands handled in order, on living channels, whoever holds a channel's lock, and the exit heard? |
| shared | `Shared`, `Shared` | does a name stay with its object, and is what is read under its semaphore true? |
| shared_release | `Shared`, `SharedAlive` | violation: is an object alive that `P7_Get_Shared` returns? |
| parts | `MCParts`, `Parts` | do the containers, the resolver, the format parser and the report compute what they promise, and does a client that is built and destroyed have what it uses, and end? |

### Bounds

*Transport.*  A window of two packets has a first, a last and a place between
them for loss; three accepted packets fill it and leave one in the queue.  Five
IDs are enough for a hello, two data packets, their report and the report that
follows a retransmission (the packets that are sent again keep their IDs), or for
a hello, a reset and a second hello.  `MaxFails` 2 lets a
fail be counted and cleared; with 1 every fail is a disconnect.  That IDs are
sequential when they start over is proved for any number of them and needs no run.
In `delivery` every answer carries commands, in the others none does.
`IdBound` stops the drawing of IDs, `MaxAccepted` the users; in `delivery` the
client may end, so deadlock is not checked there.  Between `Set_Connected` and
`Reset_Connetion` the lock of the queue is free, and `Sent` turns users away because it
finds `m_bConnected` false; without that test `delivery` finds `KeepsPromise` violated.

*SendQueue.*  Packets of two bytes and messages of one, three and six make
messages that share a packet, end at its border, and cross several.  A pool of
seven packets in chunks of two is one whose last chunk exceeds the limit.  With a
backlog of two the channel thread keeps up with the reserve of three, with four
it does not.  Four messages in a session fill the pool.

*Trace, Telemetry.*  Two threads race each other and the client; two or three
resets give a session that is known, one that was missed and the present one.
Three traces with an ID of its own for one and room for one other make `Trace_Raw`
run out of IDs; three names for two counters do the same to `Create`.
`MaxSequence` and `MaxStream` bound what is sent between two drains.  The threads
may all have gone, so deadlock is not checked.

*MEvent, Channels.* Three events of any types make a ring with a place between
the current event and the next; two counts of the semaphore keep two of them
set, and two threads can be on their way at the same time, one of them
interrupted. Three channels and two IDs let a registration fail and an ID be
used again; two packets with one or two commands put a packet behind the one
that is handled.  One thread of the application at a time is inside a channel: the
channel thread waits for one channel only.

*Shared.*  Two objects follow one another under the name, or compete for it; of
two calls one can make and unlink a semaphore that the other has opened.  A
semaphore without a given value starts at 0 or 1, down or up.  Signals may
interrupt the `Shared_Close` of one of the objects; in `shared_release` there are
none, so that they are not to blame.  Everything comes to an end, so deadlock is
not checked.

*Parts.*  The tree: any pushes and deletions of five keys and of a second datum
with the key of one of them, and a tree that grew in ascending order to eleven
data, from which any may be deleted at any moment.  Nine nodes in three segments, fewer than there are data, let an
allocation fail.  The list: four cells in two segments, one of them in the hands
of the user at times, an index without a reserve, so that it has to grow.  The
resolver: two users, two addresses, ticks that wrap after eight, limits of one and
four, lookups that take three ticks, within the limits, or six, beyond them.
Formats of at most three of the pieces out of the manual, for pointers of four bytes;
the array of arguments grows by two, so that a third argument makes it grow again.  The report: two bytes, eighteen IDs, so that
a window wraps, and two packets marked.  The client: three packets, one for each
hand that may hold one, two owners, a timeout of two ticks.

### Fairness

`MEvent`, `Channels`, `Shared`, `Resolver` and `Lifecycle` have liveness properties.  `MEvent`: a thread that
waits goes on when it can, and comes back to wait, with a time or without, as
`Chnl_Routine` does in its loop; nothing is assumed of those who set events.
`Channels`: the communication thread finishes the signal it began and hears its own
exit event, and the channel thread goes on when it can; that its wait ends by the time
or by a signal is possible but not assumed.  `Shared`: who is
inside `Shared_Read` or `Shared_Close` goes on; nobody has to share, read or
release.  `Resolver`: its thread goes on.  `Lifecycle`: both threads and the
destructor go on, and time passes once the exit is measured.  Weak fairness is what
the scheduler of the system gives a thread that is not blocked.  Two actions of
`Channels` need strong fairness.  `ChnlTakesCount`: the thread takes a count of the
semaphore, if there is one again and again when it comes back to wait.  It is disabled
in between, because a wait may end without a count and has to be begun anew; with weak
fairness TLC finds the loop in which each wait is ended that way.  `sem_timedwait` takes
a count that is there when it is called without sleeping, so that neither a signal nor
the time ends every wait for ever.  `ChnlCall`: the channel thread that waits for `m_sCS` of a
channel, which threads of the application take again and again, gets it in the end;
a mutex of the system is not promised to be fair, but does not starve a thread for
ever while the others leave it.  Its holder leaves it (`WF` of `UserLeave`) because
what it waits for inside, the locks of `Sent`, is never held by one who waits for
the channel.  The semaphore that `Shared_Close` waits for is contended only as
often as there are calls.  Nothing is assumed of the server, the application or the
network.

## 4. What the runs found

* **reserve_used_up.**  `Sent` keeps three packets for the communication thread
  (`Client.cpp:1755-1757`), but the pool counts the packets that wait for the channel
  thread as taken and makes a chunk more than its limit allows.  With more of them
  than are reserved, `Get_Free_Count` (`PacketsPool.h:229`) subtracts below zero,
  and from then on any message passes the test until the pool is empty.
* **trace_stale_status.**  `Trace_Raw` reads the status before it takes its lock
  (`Trace.cpp:973`).  If the connection is reset between that and `Sent`, the
  trace opens the new session without its description.  `StaleOncePerThread`
  bounds the damage, and is proved.  `Telemetry.cpp:500` has the same race.
* **shared_release.**  `P7_Get_Shared` counts its reference after it has given
  the semaphore of the registry back (`Client.cpp:50-54`), and the name goes away
  inside the destructor (`Client.cpp:180`), when the count is zero already.  A
  caller in between gets an object that is being destroyed.  `LockedReadIsTrue`,
  which is proved, tells how far the registry protects the pointer.

Found on the way, without a run of their own:

* `Create` clears the mark from which the destructor of a telemetry channel tells
  whether the server knows it (`Telemetry.cpp:429`, 265), so that a channel that
  made a counter after its last value sends no close; the destructor of a trace
  looks at the other mark.
* `Test_02` ends all its threads with one manual event (`Tests/Trace/Main.cpp:483`),
  but `Set` posts the semaphore once, and the first thread that waits uses the
  count up (`PMEvent.h:415`).
* `Shared_Read` may make a semaphore that nobody removes (`PShared.h:264`, when
  the owner unlinks the name between the test and this line).  From then on
  `Share` fails for the name, although no object has it.
* The number of arguments of a conversion is one, or none for `%%`.  A `*` for a
  width takes an argument of its own that is not described, so that what follows
  is shifted; the manual of Trace does not list it.  `%wS` and `%wC` are taken for
  narrow strings and characters, which Microsoft documents as wide.
* `Get_Prefix` depends on a prefix being found, because the terminator of its table
  is commented out (`Trace.cpp:111`); it is only called on characters with which a
  prefix of one letter begins.
* `CRBTree::Del` with `m_bData_Free` releases the datum of the node it keeps, which
  is the successor's by then (`RBTree.h:226`).  The trace, whose tree owns its data,
  never deletes.
* `Create_Pool_Segment` clears as many times `sizeof(tPool_Segment)` as it made nodes
  or cells, not the size of those (`RBTree.h:313`, `AList.h:674`); each is
  initialised when it is given.
* The difference of two tick counts is one too small when the counter has wrapped
  (`Ticks.h:35`), which `TimeOutTracksSlowest` allows for.
* `CThShell::Close` of Windows gives up after 60 seconds, and the destructor goes on
  to delete what the thread uses; that of Linux waits, and is the one that is modelled.
* A channel that is registered gets the lowest ID that is free (`Client.cpp:1642`), so
  a command that is late reaches its successor.
* The help on the pool says that 4 MB are the default (`Headers/P7_Client.h:79`),
  `Init_Pool` takes 1 MB (`Client.cpp:556`).

A drop of the connection counts two resets, one in `Reset_Connetion` and one in
`Set_Connected(TRUE)`, while `Headers/P7_Client.h:118` calls `dwResets` the number
of connection drops; the channels only compare it, so nothing depends on that.

## 5. What is proved

The proofs hold for every value of the constants that satisfies the assumption of
the module; the properties, and the invariants the proofs need, were model-checked
on small instances first.  Induction over the steps is done once per invariant, one
step per action.  `WindowSequential`, `ReserveIsKept` and `SentNeverFails` are not
checked by a run any more, because they are proved.

**Transport, the window** (`TransportProofs`, theorem `Invariant`).  Assumption:
`MaxId > WndMaxCount + IdReserve + 1`, which 0xFFFFFFF (2^28 - 1), 128 and the window
size of the code satisfy by far.  *That the window is sequential is not inductive*:
the next packet could get an ID above `MaxId`, or one that does not follow.  The
invariant adds that the IDs left up to `MaxId` suffice for the packets that may
still join the window (`WindowHasRoom`), and that the last ID of a window that is
not reported yet is the last ID drawn (`WindowIsGrowing`); the restart of the
IDs cannot spoil this, because it happens in an empty window and leaves room for
a whole one.  From the limits of the window and the control packet
(`ControlFitsWindow`) follow `ReportCoversWindow`, `WindowIsReported` (the thread
never sleeps on an unreported window) and `WaitingHasControl` (no NULL is
followed when an answer comes).  `NothingLeaksIntoReconnect` is about the two
locks of a disconnect.

**Transport, the datagrams** (theorem `HistoryInvariant` and the six after it).  These
results relate the window to all datagrams that were ever sent, and have the
hypothesis `IdsSuffice`: no ID is drawn twice, which the code leaves to the size of
its counter (2^28 less the window).  It is necessary: once the IDs have started over,
an answer that the network kept since then would be taken for one to a new packet,
and a packet for received that is not.  `HInv` says that an ID stands for one packet,
that a report looks back on the packets it is about, that queue and window hold
consecutive packets, and that what a server has got and what its answers say is
true of packets that were sent.  A step has one of five effects on these (lemma
`StepEffect`): the client makes and answers nothing (`Quiet`), it drops window and
queue and makes a hello (`Restarted`), it takes the answer it waits for (`Answered`),
it sends a packet that was made before (`Repeated`), or it makes one (`MadePacket`);
each part of `HInv` is kept by each effect.  From it follow:

* `OrderIsKept`: the server can restore the order from the IDs;
* `LossNeedsReset`: no packet leaves the client unless a server has it or a reset is
  counted;
* `PromiseIsKept`: *`Transport` implements `Session`*; accepting a packet, its
  delivery, its leaving, and the drop with its reset map to the actions of `Session`,
  everything else to a stutter, and the window bounds what a server must buffer;
* `HelloComesFirst`: the newest hello precedes what is sent under it (`HelloInv`);
* `CommandsComeOnce`: an answer is taken for the control packet it is about and no
  later one (`DispatchInv`);
* `ByeComesLast`: a bye without a reset means that all was delivered.  Here the reset
  counter must not come round to zero either (`ResetsSuffice`); each of its values
  costs at least half an ID.

**SendQueue** (`SendQueueProofs`).  `PacketsConserved` needs that no packet holds
more than its size and that those who are gone are gone together.  It holds for
any backlog.  The other four, `ReserveIsLeft`, `MessagesAreStored`,
`AnswersAreRead` and `MessagesStayWhole`, have the condition `KeepsUp`: fewer packets
wait for the channel thread than `Sent` reserves.  The argument is a budget: while
packets out do not exceed the limit of the pool, the unsigned difference of
`Get_Free_Count` is the true one, the test at the beginning of `Sent` therefore
counts what the message needs, and what it counted stays free, because only the
communication thread and the channel thread take packets meanwhile, and those are in
the reserve.  The run `reserve_used_up` shows that the condition is necessary.
`MessagesStayWhole` is an equation of concatenations: what the thread took, what is
queued, what the sender has filled and what is left to store are the messages.  Its
steps take a packet off the front, append one, take the last one back to fill it,
and empty the queue; what each does to `FlattenSeq` is proved from its recursive
definition.  The library's induction theorems cannot be used for that (they have an
operator as a parameter), so these lemmas argue with the least number for which a
statement would fail (`LeastNat`).

**Trace** (`TraceProofs`).  `MarksTrue`: a mark that equals the reset counter
means that the description is in the stream of this session; the invariant says
the same of every place inside `Trace_Raw`, with the marks that a refusal will
take back.  `FreshDescribed` and `StaleOnce` add what each thread has read of the
status, `NumbersInOrder` that a number is drawn and sent under one lock.
`LevelObeyed` is an action property: the level was compared under the lock that
`Set_Verbosity` needs.

**Format** (`TraceProofs`).  `ArgumentsAlwaysArrive` holds for formats of any length,
made of any pieces that are legible.  While the constructor is in the loop, the
invariant `FormatIInv` says where it stands (`Reading`): behind the first pieces, with
what these take (`Between`), or at a certain character of the next one, with its prefix
read or not (`Inside`).  A turn goes on in the piece or ends it (`PieceBegins`,
`PieceGoesOn`).  That the first entry of `g_pPrefixes` that fits is the prefix of the
piece (`FirstPrefix`) is true because `I64`, `I32` and `ll` stand before `I` and `l` in
the table, and because behind `I` and `l` a character that converts follows, so that
none of the longer ones fits.  When the loop ends it cannot stand inside a piece (`EndReached`).  The blocks then cover the
arguments of any list of types, each where it lies on the stack (`Cover`,
`JoinedCovers`, `GroupedCovers`), and the chunks lie as the blocks do (`ChunksArrive`).

**Telemetry** (`TelemetryProofs`).  `MessageFacts` says what the chunks are that one
call gives to `Sent`: the value, if the counter is on, is the last of them, behind
what the call describes again.  With it `MarksTrue` follows as in `Trace`; but a
description is one of *all* the counters, so that the invariant (`CountersKnown`) must
hold for one that was made between the drop and the next value, which is why
`Create` has to clear the mark.  `FreshDescribed` follows from both.

**MEvent** (`LibraryProofs`).  `Noticed`: what is set is at most what the semaphore
counts and what threads are about to take.  The proof counts the threads between
`sem_wait` and the search, one more or one less with each step.  `SignalsAreSettings`:
`m_iSignals` is the number of settings that were not taken back (`Settled`), so it is
zero only when no event is set, and the branch "signal event wasn't found"
(`PMEvent.h:429`) is never reached.  `TimeOutsAreTrue` combines the two: who finds no
count of the semaphore, while nobody else is on the way, has left nothing.

**Shared** (`SharedProofs`, theorem `Invariant`).  That the name stays is not
inductive without knowing who may unlink it: the owner of the name, and a reader
that has just made it (`SemInv`).  `LockInv` is the mutual exclusion of the owner
and the readers that have opened its semaphore, `RefInv` that an object nobody
could read is deleted by its creator alone.  From them follow `NameStays` and
`LockedReads`.  Objects whose `Shared_Close` a signal may interrupt are excluded
from the second, because `sem_wait` then returns without the semaphore.

**Channels** (`ChannelsProofs`).  `SignalsMatch` needs what each step of the event
does to its counters, which is stated in lemmas about `MEvent`, and that a thread
takes from the queue only after a signal.  `CalleeIsAlive` follows from the lock:
between the lookup and the call the table does not change, and who is in the table
is registered.  `CommandsInOrder` says that the packet in hand is older than all
that are queued, and what was handled is not after the place in it.

**RBTree** (`LibraryProofs`).  `TreeStaysSound` and `TreeIsADictionary` hold for any
data, any keys and any size of the pool.  `TreeIsSound` is not inductive: it does not
say that the keys are in order, and what it does say is read off walks over the tree,
which no step can be compared with.  The invariant `TreeIInv` says that *there are*
two functions: what is below each node, and its black height (`Sound`).  `Shape` ties
the first to the links: they agree both ways, what is below a node is the node and
what is below its children, smaller keys on the left, so that the keys differ and
nothing hangs in two places.  `Balanced` ties the second to the colours: both children
of a node have the height of that node less what it counts itself, and no red node has
a red child.

A repair is the invariant with one thing wrong, at a place that moves.  Between two
rounds of `Fix_Push`, only the node in hand may have a red parent (`Pushing`); between
two of `Fix_Del`, only below one side of one node is a black one missing, and only the
node that hangs there may stand between reds (`Deleting`).  Each branch of a round
keeps this and brings the place nearer to the root, or ends the loop; a rotation
keeps what is below and changes the heights of two nodes (`TurnHeights`).  So the
rounds suffice, and the last assignment of the function, which blackens the root or
the node in hand, makes the tree balanced again (`PushBalances`, `DelBalances`).  `Del`
of a node with two children unlinks its successor and moves a datum; that the
successor is the next key (`LeftmostFacts`) keeps the order (`RemovedFacts`).  The
sentinel is written as the code writes it, its parent included, which `Fix_Del` reads.
The walks of `Clear` and `Get_Depth` reach every node (`ReachedFacts`), and a depth is
between the number of black nodes and twice that (`VisitsFacts`), so no leaf is twice
as deep as another.  With the order, a search that ends at the sentinel has excluded
every node (`DescendFacts`), hence the dictionary.  As elsewhere, the inductions over
the rounds are `LeastNat` arguments.

**The parts** (`PartsProofs`).  *Lifecycle:* `MadeWhileUsed` is not inductive: it does
not say what there is at each step of the constructor (`Building`), what is gone at
each step of the destructor (`Releasing`), that a thread which runs has not been
joined, whether or not the constructor succeeded (`Served`), that every packet is in
exactly one place (`PacketsKept`), and that each holder of the journal counts one
reference (`JournalKept`).  *WindowReport:* two packets have two distances from the
first one (`DistanceFacts`), across the restart of the IDs at 1, and so two bits
(`BitFacts`); `ReportsAreTrue` holds for any size of report and any number of IDs.
*Resolver:* `TimeOutIsSlowest` needs what the thread is going to do with the lookup
that it has just measured: `TimesInv` speaks of the time-out that `Adjust` would set.
`TicksLost` is the arithmetic of the wrap, where one tick is lost.
*AList:* `ListStandsSound` holds for any number of cells, and `ListPromiseKept` says
that `AList` implements `Listing`.  What can be read along the links is no invariant to
work with; `ListInv` therefore says that there are two sequences, the chain and the
spare cells, of which every link is the next or the previous element (`ListShape`),
and that they and the extracted cells share out all the cells that were made
(`Divided`).  That `Follow` reads exactly these sequences is proved from its recursive
definition (`FollowIs`), with `LeastNat` again in the place of an induction.
`PutChained` and `ReleasedChained` are what `Put_After` and `Cell_Release` do to a
chain, at its ends, in its middle and when it has one cell; with them each operation
inserts into, removes from or changes the sequence that users see (`ListStep`), and
the cells of a new segment and of `Clear` are a chain of spare ones.

## 6. What is only model-checked

Every invariant and every action property that a passing run checks is stated by a
theorem.  What is left:

* Liveness (`SetIsReturned`, `StoredIsTaken`, `ExitEnds`, `CloseEnds`,
  `EachIsLookedUp`, `DestructionEnds`): liveness under fairness and ENABLED are
  beyond the prover.

## 7. What is not modelled

* The passing of time in `Transport`.  Its timeouts are choices, so how long anything
  takes is not covered, nor that a client which lost the connection finds a server
  that is there (`Client.cpp:998`): over UDP nothing has to arrive.  That a client
  ends without a server is `DestructionEnds` of `Lifecycle`.
* The texts of the arguments of a client and the sizes of pool and window that
  `Init_Pool` computes from them: they are constants.
* The texts that a trace description holds besides the arguments.
* The polynomial of the CRC, sockets, the journal, files, strings and processes:
  I/O and arithmetic that no property depends on.  `TCP_NB.h` is not included by
  any file of the library.
* The Windows build of events, threads and of the registry, which leaves to the
  system what the Linux build does itself; the server, which is not in the
  repository and is external in `Transport`.

## 8. What could follow

*Time in Transport*: a server that is silent is dropped, one that answers is not,
and, over a network that delivers in the end, a client that was dropped is connected
again.

The runs are meant to stay about a dozen: a new question replaces one whose answer
is proved.
