# A verification of MYCP in TLA+

MYCP is a C++ server platform: a server process that loads modules (shared
libraries), carries calls from clients to them over its own protocol SOTP (and
over HTTP), and gives them services - timers, sessions, databases, logs. This
directory holds TLA+ models of the parts of it whose correctness depends on the
order in which things happen, the TLC runs that check them, and proofs, checked
by TLAPS, that the most important results hold for every size of the system.

Paths below are relative to the repository's `src/` directory.

## 1. The system

| component | state it keeps | operations | how it interacts | what is hard |
|---|---|---|---|---|
| **Acknowledged SOTP calls**: `CGCLib/CgcBaseClient.cpp`, `CGCBase/cgcSeqInfo.h`, `SessionMgr.cpp`, `CGCApp.cpp` | client: call table with the next sequence number, `m_mapSeqInfo` of calls not acknowledged; server: ring of 500 recent numbers per session | `sendAppCall2`, `addSeqInfo`, `checkSeqTimeout`, `parseData`; `ProcCgcData`, `ProcessDuplationSeq`, `AppStop` | datagrams both ways; a polling thread in the client, worker threads in the server | loss, repetition, delay; resends against a memory that forgets; a stop between acknowledgement and execution |
| **SOTP sessions**: `CGCP/CGC/SessionMgr.cpp`, `CGCApp.cpp`, `SotpResponseImpl.cpp`, the client | sessions by id and by remote address, result numbers, result resends; client: its session id and ring | open, close, call, temporary session, refusal, expiry, result, acknowledgement | module callbacks `CGC_Session_Open`, `CGC_Session_Close` | old datagrams meeting new sessions, two keys (id and address), numbers that start again |
| **Timers**: `CGCP/CGC/TimerInfo.cpp` | table of timers, a thread and a state per timer | `SetTimer`, `KillTimer`, `KillAll`, the timer's loop | module threads, timer threads, callbacks that call the table | use of a timer that another thread deletes, joins under a lock, one-shot timers |
| **MySQL pool and service**: `CGCServices/mysql` | sinks (connections) with a busy flag, size of the pool, last error | `SinkGet`, `SinkAdd`, `SinkDel`, `SinkPut`, `Reconnect`; `execute`, `select`, `trans_*` | every thread that uses the database | growing and shrinking while sinks are lent, each error path, reconnection in a transaction |
| **Module calls**: `CGCApp.cpp`, `ModuleMgr.*` | modules, their libraries, lock state, call count, the pointers into the library | `ProcAppProto`, `ProcHttpAppProto`, `ProcSesProto`, `do_autoupdate` | worker and timer threads into module libraries; the update's thread exchanges the library | a count without a lock, pointers exchanged one after another, unloading while calls run |
| **Application life cycle, services** | state of the application, service table | start, stop, `getService` | all of the above | stop while calls run |
| **RTP rooms and sources**: `CGCClass/SotpRtpSession.cpp`, `SotpRtpRoom.cpp`, `CGCApp.cpp`; the client's half in `CGCLib/CgcBaseClient.cpp` | sessions by port, rooms by id, sources by id with their remote and sinks; client: the source and sinks it wants | register and unregister source, sink, all sinks; expiry; the client's repeated registrations | application callbacks `onRegisterSource`, `onUnRegisterSource`, `onRegisterSink`; server threads and a timer on objects behind shared pointers | each table has a lock of its own and nothing is locked between; lost and reordered commands, changes of address |
| **RTP media stream**: `CGCClass/SotpRtpSource.*`, `CgcBaseClient.cpp` | sender: ring of packets; receiver: last number, expected and lost numbers, frames being collected | send a frame, resend, count what is missing, collect, hand over, relay | datagrams from a client to the server and from there to other clients | loss, reordering, duplicates, numbers that wrap or start again |
| **Communication servers** (`CGCComms`), **client transports** | connections, event queue | accept, receive, send, close | boost::asio threads | close against send |
| **Wire formats** (SOTP, HTTP), **attributes**, **utility and database services**, **HTTP and MVC servers**, **log service** | little or none across calls | parse, format, look up | called by the above | text |

`PROJECT.json` lists each of them with its status; where a status is "partly",
the note names what is left out.

The properties that make the components correct, in the order of the modules:

* a call is performed at most once, is confirmed only if the server took it, and
  its caller learns its fate;
* a client's session id is that of a live session, an answer is never thrown
  away as a copy of another, a module's open and close callbacks come in pairs
  and calls are made only between them, also when several threads handle one
  client's requests; both maps of the session table forget a session whose client
  is gone;
* a timer is never used after its deletion, never lost, and after `KillAllTimer`
  none fires; no call waits for ever;
* a connection is never used by two threads, never lost, never left open beyond
  the pool's size; `SinkGet` returns; a commit that returns OK is complete;
* no call runs in an unloaded library, an update makes no module refuse calls and
  leaves nothing of the old library, a module that wants one call at a time gets
  one;
* nobody takes part in an RTP room, or receives a stream, without the
  application's consent; the application's list of sources is the server's; a
  client that stays is in the end registered whatever was lost or expired;
* whole frames are played in order, and no frame that needs a lost one; what is
  missing is asked for, and only that; the server relays a packet once.

## 2. The modules

| module | contents |
|---|---|
| `CallOnce` | abstract: what an acknowledged call promises |
| `SotpCall` | the client, the network and the session of acknowledged calls; implements `CallOnce` |
| `SotpCallProofs` | theorems about `SotpCall` |
| `SotpSession` | the life of sessions, their two indexes and their numbered results |
| `SotpSessionProofs` | theorems about `SotpSession` |
| `SessionTable` | the table of sessions under the server's threads, one critical section at a time |
| `SessionTableProofs` | theorems about `SessionTable` |
| `TimerTable` | the timers of a module, thread by thread |
| `TimerTableProofs` | theorems about `TimerTable` |
| `MysqlPool` | the pool of connections and the calls that borrow from it |
| `MysqlPoolProofs` | theorems about `MysqlPool` |
| `ModuleCall` | calls into a module while an automatic update replaces its library |
| `ModuleCallProofs` | theorems about `ModuleCall` |
| `RtpRoom` | the RTP rooms of the server, and the clients that register in them |
| `RtpRoomProofs` | theorems about `RtpRoom` |
| `RtpStream` | one hop of an RTP stream, from sender to receiver |
| `RtpStreamProofs` | theorems about `RtpStream` |
| `*MC` | the model values TLC uses |

Several modules hold the conditions under which the system is used in a variable
`use`, chosen at the start from the constant `Uses` and, apart from the counts
left in `RtpRoom`, never changed: how disciplined the application is, and how
often each thing that can go wrong does. One run covers many ways of use; a
property that needs one says so in its premise. Operators whose comment begins
with "Faulty" are not part of a specification: each is a plausible mistake in the
code that the run must tell from it.

### SotpCall

One client, one session, several calls. State and code: `pending` is
`m_mapSeqInfo`, `curSeq` the call table's `m_nCurrentSeq`, `masks`/`cursor` the
session's `m_pReceiveSeqMasks`/`m_nDataIndex`, `lastSeq` its `m_tLastSeq`;
`calls` and `acks` are the datagrams in flight. `SendCall` is `sendAppCall2`,
`CheckSeqTimeout` one pass of the polling thread over its loop of at most
eleven resends, `RecvAck` and `RecvStopNotice` the two ways `parseData` empties
`m_mapSeqInfo`, `RecvNewCall`/`RecvDuplicate` the receiving half of
`ProcCgcData` with `ProcessDuplationSeq`, `Execute` the call on a worker thread,
`AppStop` the stop. A datagram in flight may be read any number of times, in any
order, and is gone after `MaxDelay`. `issuedAt`, `acceptedAt`, `accepted` and
`runs` are history.

Time is discrete, and one unit stands for RTO = 3 s in the runs. `PollLag` says
how late the polling thread may be.

### SotpSession

Requests are numbered by the client and kept in `made`; `sess[s]` is a
`CSessionImpl` with its ring of request numbers, its own `m_nCurrentSeq` and its
results not yet acknowledged; `byRemote` is `m_mapRemoteSessionId`. Each handler
(`ProcSesProto` open and close, `ProcAppProto`, `ProcessAckSeq`, the expiry in
`ProcLastAccessedTime`, `parseData`) is one step. Time is two-valued: between
two `Pause` steps everything may be repeated and reordered, and `Pause` is a
silence longer than every ring and resend (which `SotpCall` shows is what the
timing must guarantee).

### SessionTable

The same table as the server's threads see it. `byId` is `m_mapSessionImpl`,
`byRemote` `m_mapRemoteSessionId`, `opening` `m_mapRemoteOpenSes`; `th[t]` is the
place a thread is at, its request and the session and module entry it holds. A
step is one critical section: `SetSessionImpl` is `Find`, `Create` and `Map`;
`OnRunCGC_Session_Open` is `List`, `Add` and the callback, which returns true
(`Accept`) or false (`Refuse`); `RemoveSessionImpl` is `Unmap` and `Erase`; a close
is `BySid`, `AnswerClose` and `Invalidate`; a call without a session goes through
`Mark`, `Enter`, `Again` and `Unmark`. `Expire`, `CloseExpired` and `UnmapExpired`
are the timer's `ProcLastAccessedTime`, `DropStale` its hourly
`ProcInvalidRemoteIdList`. A module entry has a name of its own, since a thread may
hold one that the list has lost. A new session gets an id that was never used
(`NewId`); the code's is made of the second, a counter modulo 255 that is kept without
a lock and the remote's id modulo 255 (`SessionMgr.cpp:70-75`), so that two sessions of
one second can have the same. Here the network only repeats requests at once or
loses them: what it does over time is `SotpSession`'s subject.

### TimerTable

Each of `SetTimer`, `KillTimer`, `KillAll` and the loop of a timer's thread is
split wherever the code gives up the table's lock or touches `m_timerState` or
`m_timerThread`, which have none. In particular `Spawn` starts a timer's thread and
`Store` assigns its handle (`TimerInfo.cpp:160-166`); between the two the thread runs.
`prompt` is the use's assumption that the assignment comes before the thread's first
callback: the code only makes it likely, as `doRunTimer` counts the elapse from before
the thread's creation (10 ms and more in this repository, but an elapse of less than a
second is over as soon as the clock shows the next second, line 222). `call[a]` is the place an actor is at; an
actor is a thread of the module or a timer's thread inside its callback, which sets or
kills its own timer; a callback that manages other timers (`CommUdpServer::OnTimeout`)
is, for them, a worker.
`timer[t].state` `"freed"` marks a deleted object, so that use after deletion
can be seen. A one-shot timer whose thread cannot be created is left behind by
the code (`SpawnFails` deletes nothing), and so is a timer that its callback kills
(`JoinSelf`): `Deletes` excepts both from the leak in `DeletedInTime`.

### MysqlPool

`sink[s]` is a `CMysqlSink`; `conn` is whether it has a `MYSQL` handle, `aged`
whether a minute passed since it was closed. A client walks the sinks under the
read lock, one sink at a time (`PassOver`, `Claim`, `Reconnected`,
`ReconnectFails`); `SinkAdd` and `SinkDel` hold the write lock and are one step
each, possible only while nobody walks. The counter that decides when to
shrink is a static variable without a lock, and is left free. `work[c]` follows
a transaction: whether its statements returned OK (`done`) and whether their
connection was dropped since (`lost`). The server and its client library are
external and fail as they please. A transaction's handle is its sink's address
as an `int`; the model assumes that it survives the conversion.

### ModuleCall

One module, any number of threads that call it, and the update's thread. A
thread enters the library by one of three pointers: `handle` for SOTP and HTTP
calls (`ProcLibMethod`), `linked` for the session callbacks, `timer` for the
handler of its timer (`opened` is `m_mapModuleImpl`, which decides
whether a call is admitted). A SOTP call passes the lock state: `Acquire` is
`m_mutexCallWait`, `Test` to `ReleaseRef` are `LS_RETURN` with `m_callRef`, a
plain integer that is read and written back in two steps. `do_autoupdate` is
`OpenNew`, `InitNew` or `InitFails`, `Switch` (the line marked `***A`), `Link`
(`***B`), the two seconds of `usleep`, `FreeOld`, `ForgetOld`, `CloseOld`.

No count of running calls is waited for, so time matters: `age` is how long a
thread has used a pointer it has read, `slept` how long the update has slept.
What a module's own code does is external (so `InitLibModule`'s repetition of a
failed `CGC_Module_Init2`, `CGCApp.cpp:4492-4528`, once in the server's life and each
time after a `CGC_Module_Free2`, is one `InitNew` or `InitFails`; that is exact as long
as `Free2` leaves the old library's timers alone, `KillsTimers = FALSE`): a call takes at most `CallTime`,
`CGC_Module_Init2` sets the timer or fails, and what `CGC_Module_Free2` does with
timers is `KillsTimers`. `callRef` is kept only for `LS_RETURN`, since nothing
else reads it. Two branches cannot be reached and are left out: the state 0
(set before the server runs) and a failing `***B` (communication modules only,
which are not updated).

### RtpRoom

One port, one room, one parameter per client. `rtp` holds the tables and the
objects: `port` is the port's entry of `m_pRtpSession`, `rooms[s]` the room list of a
session, `members[r]` the source list of a room, `obj[o]` a `CSotpRtpSource` with
its remote, whether the application was asked about it, whether nothing was heard
of it for 59 s, and its sinks. Sessions, rooms and sources have names, so that a
thread can go on with one that another has taken out of its table; `Destroy` ends
what no table and no thread points at. `RegisterSource` is `FindRoom`, `MakeRoom`,
`FindSource`, `MakeSource`, `Address`, `ReAddress` and `Touch`; unregistering is
`FindLeaver`, `Tell`, `Remove`, `LookEmpty` and `DropRoom`; sinks are `FindSink`,
`AddSink` and `UnRegisterSink`. The application's callback reads none of the tables
and is part of the lookup before it; `granted` remembers what it agreed to,
`informed` what it was told. `Expire` is the timer. The client keeps what it wants
and repeats it (`Refresh`). `IsRemoteInvalidate` and the comparison of parameters
are left out: a client has one parameter, and a remote fails only by a new address.

### RtpStream

One hop: a sender with its ring of packets, the network, and one receiver, the
server or a client. `SendFrame` is `doSendRtpData`, `Answer` `SendReliableMsg`,
`Count` (in `Hear`) `CaculateMissedPackets` with `CLostSeqInfo`, `Keep` the server's
`UpdateReliableQueue` and broadcast, `Collect` `PushRtpData`, and the `Take...`
actions one turn of `GetWholeFrame`. Numbers have their width (`NumSeq`), with
`Half`, `Ring`, `Restart` and `Settled` in the order the code's constants have. Time
is that of the timestamps, and a frame's expiry comes when it likes. `passed` is a
history variable: the packets the receiver does not ask for, those before the first
one counted, before a new beginning or a silence, and in a gap wider than
`MaxResend`; of a gap across the last number those that are neither named by the
request or the expectation (the gap is counted one short, `SotpRtpSource.cpp:287`, and a
range that passes number 65535 is empty for the sender) nor noted in `theLostSeqInfo2`;
and notes that list drops unasked as too old. It holds packets, not numbers, so that a
number that comes round is not excused.

## 3. The runs

| run | instance | shows |
|---|---|---|
| `call_safe` | 2 calls, 4 numbers, ring of 2, 3 resends, a window of 4 units, delay 1 | `SotpCall` implements `CallOnce` with its liveness when the resends fit the window |
| `call_twice` | 1 call, the code's constants, no delay | `AtMostOnce` is **violated** |
| `session_uses` | up to 4 requests, 2 sessions, 2 addresses, 1 expiry, three kinds of application | ids, rings and numbers agree for a disciplined application; callbacks pair up for every one |
| `session_reopened` | 3 requests, 2 sessions | `DropsOnlyDuplicates` is **violated** when a session is reopened soon |
| `session_threads` | up to 3 threads, 4 requests, 5 sessions; 5 ways of use | no thread gets into another client's session, callbacks pair up for patient clients, the maps empty |
| `timer_uses` | 2 threads with 3 calls and 1, 2 ids, 4 timers; callbacks that set or kill their timer, or that come before the handle is stored; one-shot timers, thread creation may fail | no use after free, no leak, `KillAllTimer` ends all; `SetTimer` and `KillTimer` return where callbacks set no timer and take no mutex |
| `timer_killall_stuck` | 1 thread, 1 timer | `NoWaitCycle` is **violated** by `KillAllTimer` |
| `pool_shared` | 2 clients, 1 to 2 sinks | the pool's books, and `SinkGet` returns |
| `pool_torn` | 2 clients, 2 sinks | `CommitIsWhole` is **violated** |
| `rtp_room` | 2 clients, 2 threads, 2 addresses, 1 of each fault; 8 ways of use | consent, the application's list, and that repeated registrations repair everything |
| `rtp_stream` | 3 frames of 1 or 2 packets, 36 numbers, ring of 4, up to 2 losses, 1 duplicate; 7 ways of use | play order, repair, requests, relay |
| `module_update` | 2 threads, 2 libraries, each lock state, calls of 1 s against a sleep of 2 s | calls and updates do not disturb each other when calls are short |

Why these bounds: two calls with a ring of two are enough for one call's number
to be recorded, looked up and be next to be overwritten while the other is
resent, and the interesting distance is between time spans (resends, window,
delay), which the constants keep in the ratio of the code. Two sessions are
enough for an old one's datagrams to meet a new one. Four timers allow each of
two ids to be replaced once. With one to two sinks and two clients every branch
of `SinkGet` is taken: a sink claimed, closed, reopened, refused, added, removed
while the other client borrows, and none left. The numbers 30 (walks) and 3
(errors) are constants of the model, as only their being finite matters. Two
libraries are the most that are open at once, and any number of updates follow
one another; of the durations only which is longer matters.

Three threads are the fewest with which one can overtake two others that work on
the same session; more sessions than requests let each thread create one. In
`rtp_room` one thread can be overtaken by the other at each of its steps, and one
fault of a kind is enough for each table to lose what another still holds; the
disorderly uses have one client, whose two addresses and lost, late and repeated
commands are what races (rooms hold sources by id, so a second client changes
only whether the room is empty, which the orderly uses have). In `rtp_stream` the
ring is shorter than the stream, the numbers wrap within three frames, and two
losses in a row make a gap that one resend cannot close. With 36 numbers a packet as
late or as early as the network allows is told from every other (`Tells`, section 4),
as it is with the code's 65536.

Every action fires in some passing run.

Every bound is named in its module: the constants `MaxCalls`, `LastIssue`,
`MaxTime`, `MaxReq`, `MaxSessions`, `MaxRemote`, `MaxTimers`, `MaxOps`,
`MaxCallbacks`, `MaxFrames`, and the fields of `use` that its comment marks as
bounds (`reads`, `expiries`, `reqs`, `remotes`, `copies`, `timers`, `ops`, `frames`,
`losses`, `dups`, `late`, `leaves`, `rebinds`, `delays`, `refusals`, `net`). In
`RtpRoom` an object is made only while a name for it is free; in the run names
never run out.
`CHECK_DEADLOCK FALSE` stands in every configuration: with all calls made the
bounded models stop, and in `MysqlPool` a client that would query without a
connection is stopped on purpose.

Where a property is several statements about one hazard they share a name:
`InStep` (no answer lost, a confirmed request was received, the id is that of a
live session), `AddressesLead` (found by address, no stale address),
`DeletedInTime` (no use after free, no leak), `Connected` (closed beyond the size,
lent ones connected), `Playback` and `Relayed`.

### Fairness

* `SotpCall`: the polling thread, the clock and the server's worker go on. The
  network owes nothing. That suffices because the client gives up by itself.
* `SessionTable`: every thread and the timer go on; a datagram is not repeated for
  ever; a session whose client is gone grows old. Nobody has to send.
* `RtpRoom`: threads go on with what they have begun; a client that is in the room
  keeps repeating its registrations (`CheckRegisterSinkLive`, on a timer of the
  client that runs only when the application has started its active thread:
`m_nActiveWaitSeconds` is 0 before, `CgcBaseClient.cpp:110`, `:424`, `:888`, so `Heals`
is about such applications), and of what it sends again and again some is read, the two kinds of
  command separately (strong fairness, as a command may be lost each time). Leaving,
  expiry and faults are owed by nobody. The timer runs every 20 s, so that it
  overtakes a working thread at most `use.delays` times.
* `RtpStream`: none; what must come is stated as what has come when nothing is
  under way.
* `TimerTable`: every thread that can take a step takes it; nobody has to call,
  and nothing is assumed of lock order (weak fairness). The mutex of a handler owes a
  waiting thread nothing either: two timers that fire without a pause could keep a third
  waiting, and `KillTimer` with it. `CallsReturn` therefore speaks of handlers
  that take none; in the code a timer's period leaves the mutex free.
* `MysqlPool`: weak fairness of walks; strong fairness of `SinkAdd` and
  `SinkDel`, because `boost::shared_mutex` lets no new reader in once a writer
  waits, so that a writer cannot be passed over for ever. Nobody has to give a
  sink back.
* `ModuleCall`: weak fairness of a thread that has begun a call, of an update
  that has begun, and of time. Nothing makes a call or an update come, and the
  mutex owes a waiter nothing: `AllEnd` excepts waiting for it.

### Disagreements found

With a run:

* **A call may run twice** (`call_twice`). The client resends up to 15 s after
  the first copy; the session forgets its ring after 12 s without a numbered
  message (`SessionMgr.cpp:891`). The condition that would exclude it is
  `ResendsFitWindow`, under which `AtMostOnce` is proved.
* **A fresh answer may be dropped** (`session_reopened`). Result numbers start
  from 1 in each session, the client's ring of result numbers outlives sessions.
* **`KillAllTimer` may wait for ever** (`timer_killall_stuck`): it joins the
  timers' threads with the table's lock held, and a callback may call
  `SetTimer`.
* **A commit may be hollow** (`pool_torn`): `trans_commit` repeats `commit` on a
  new connection.

Seen with the same modules under other constants, and not kept as runs; the
property named fails:

* `SotpSession` (fields of `use`): `expiries` 1 for the patient application:
  `DropsOnlyDuplicates`, as all -103 answers have number 0. `seqMod` 4 with `reqs` 4:
  the same, as number 65535 is the -1 that fills the ring of `short`s.
  `sessionless`: `RunOnce`, as the request that creates a temporary session is not
  in its ring. `remotes` 2: `RunOnce` and, in `AddressesLead`, the stale address,
  as the ring is found by address and a former address stays in the index.
  `mayRefuse`: in `InStep` the live id, as the answer to a refused open carries
  the id. Without `settle`: `ClosesTheNamed`, as a late close reaches the session
  that now has the address.
* `SessionTable`, with one field of a property's premise given up. Without `quick`
  two copies of an open handled at once open two sessions, and the second takes
  the first one's address: `OpensPaired`, `OpenedIsClosed`, `FoundWhenQuiet` and
  `RunsWhenOpen` fail. Without `settle` a close passes an open on another thread:
  `OpenedIsClosed`, with three threads also `OpensPaired`. With `sessionless`:
  `FoundWhenQuiet`, `RunsWhenOpen`, and with four threads and three copies of a
  request `OpenedIsClosed`: a late copy of a close reaches, by address, the session
  that a call made meanwhile, closes it while a copy of that call opens it again, and
  then takes it out of the table. Without `alive`, when a session expires under a
  client that is there: all four. With `mayRefuse`: `OpenedIsClosed`,
  `RunsWhenOpen`.
* `TimerTable`, `SelfKilled` with `resets`: `NoUseAfterFree`, as a worker may set a
  timer running again that its callback is killing. It then runs outside the table,
  where nobody can kill it, and its next callback kills and deletes the timer that
  the worker has meanwhile set under the same id, while that worker still sets it (four
  calls of the worker, two timer threads). Without `resets` it holds with five calls
  of the worker and two of each timer thread too.
* `TimerTable` without `prompt`, a new thread that calls back before `SetTimer` has stored
  its handle. `SelfKilled`: `NoUseAfterFree`, as the callback's `KillTimer` finds no
  handle, joins nothing and deletes the `TimerInfo` its own thread runs (one timer, one
  call each). `Periodic`: `NoUseAfterFree`, as the callback's `SetTimer` finds no handle
  either and starts a second thread; the handle that is assigned last is the one that
  `KillTimer` joins, and the other thread runs on. In the same way a thread outlives
  `KillAllTimer` (`KillAllEndsAll` without its premise). `DeletedInTime` and
  `KillAllEndsAll` have the premise `Stored`; in the use `AtOnce` of the run threads do
  call back before, and leave the timers alone.
* `TimerTable` with `"oneshot"` among `workerOps` in `Periodic`: `KillAllEndsAll`,
  as one-shot timers are in no table. With `"kill"` among its `callbackOps`: the
  leak in `DeletedInTime`, as a thread cannot join itself and the deletion is
  skipped. With `"set"` among them and periods: `CallsReturn`, as a callback may
  set running the timer that `KillTimer` waits for.
* `RtpRoom`: `Informed` with `delays` 1 in an orderly use: the timer, between the
  making of a room and that of its first source, removes the empty room and
  session, and the application was told of a source nobody finds. Without its
  premise, with `leaves` 1: a client's unregistration overtakes its own refresh,
  or a room is removed by its id after `IsEmpty` though another has registered
  since. The repeated registrations heal the server's tables (`Heals`), and the
  application hears of it only then.
* `RtpStream`: `late` equal to `Ring`: the server relays a packet twice, as its
  ring no longer holds the first. A sender that comes back: `Repaired` and
  `AskedIsMissing`, outside `Settled` as its numbers look old, and inside it when its
  second packet comes before its first: the second looks old and is not counted, the
  first begins anew, and the third makes the receiver ask for the second (client,
  4 frames of 1 and 2 packets, `late` 4, `reenter` = `Settled`). Both properties
  therefore speak of senders that stay; the run has one that comes back for the others.
  `exact`: a frame that fills its last packet exactly is never whole, as that
  packet has length `size % packet` = 0. An untimed message of two packets: frames
  out of order, as all its packets are numbered 0; a second such message looks to
  the server like a copy of the first (`SotpRtpSource.cpp:373`). Audio in a video
  source: `Decodable`, as the wait for a key frame ends at an audio frame. Frames
  further apart than `Stale`: `InOrder`, as a packet older than the last frame is
  refused only if it is older by less than `0xFFFF` (`SotpRtpSource.cpp:410`); an old
  request, answered after a pause of 65.5 s, brings such a packet. `AskedIsMissing` with
  NAK type 2 across the last number (`Round`, without `Straight`): a gap that is counted as
  one there is both expected (`SotpRtpSource.cpp:334-343`) and noted in
  `theLostSeqInfo2` (`:299`). The packet that comes late meets the expectation, and
  `CaculateMissedPackets` returns (`:180-187`) before `theLostSeqInfo2.recv` (`:209`)
  would delete the note; the next packet counted asks for what has come. (Numbers 65534
  and 1 come, then 65535, then 0: with the last of them 65535 is asked for.) The comment
  at `SotpRtpSource.h:77` says that what was received is deleted. The answer is a
  duplicate, so this costs a packet. Before the numbers come round a single gap is not
  noted and a noted one not expected, and `AskedIsMissing` holds. A duplicate of the
  last frame a client played may be played again when its time is over, as only
  older timestamps are refused.
* `ModuleCall`, `CallTime = 2`: `RunsInLive`, as the update waits for no call. A
  call that takes as long as the sleep is cut off.
* `ModuleCall`, `Reopens = TRUE` (the new file has the old one's name, and the
  loader hands out the library it has): `Settled`, and calls are refused with
  -102 after the update.
* `ModuleCall`, `KillsTimers = TRUE`: `Settled`, as the old library's Free2 comes
  after the new one set its timer in the same table. The MySQL, PostgreSQL and
  SQLite services spare their timers when freed for an update;
  `SotpClientService.cpp:119` and `LogService.cpp:584` do not.
* `ModuleCall`, under `LS_RETURN`: neither "one SOTP call at a time" nor "the
  count is 0 when nobody is in" is an invariant, as `m_callRef` is tested before
  it is incremented and its updates may be lost. No document promises either.

## 4. The proofs

All theorems hold for every value of the constants that the `ASSUME`s of the
modules admit (positive sizes; `MinSize <= MaxSize`).

**SotpCallProofs.** `TypeCorrect` is inductive by itself. The rest uses
`IndInv`, whose parts each close a gap that the property alone leaves: `Numbers`
(a call is known everywhere by one number), `Waiting` (an entry belongs to an
open call), `Taken` (what is acknowledged or in the ring was accepted), `Ring`
(the ring's numbers are distinct and fill an arc that ends at the cursor, so
that a new number does not evict a recent one while there is room), `Covered`
(an accepted call is in the ring unless more than Window passed) and `Timing`
(how far from its call a resend or a copy can be). From it follow `AckedSound`,
`SpacedDuplicates` and `PatientTimeout`. With `ResendsFitWindow` (the resends'
reach is at most the window) `ExactlyBounded` proves `AtMostOnce`, and
`ImplementsCallOnce` that every step of `SotpCall` is a step of `CallOnce` or
stutters. Their hypotheses are `NoReuse` (fewer calls than sequence numbers) and
`RingFits` (the ring has a place for each call); both are stated in the module.
The code's own constants violate `ResendsFitWindow`; that is the finding above.

**MysqlPoolProofs.** `IInv` joins `TypeOK` with five facts about who has what:
`Held` (what a client owns is among the sinks in use), `Exclusive`,
`NoLostSink`, and the two parts of `Connected`. None is inductive alone: that
`SinkAdd` takes nobody's sink needs `Held`; that `SinkDel` closes nobody's needs
`NoLostSink`; even the type of a walk's position needs `Held`. Four lemmas
(`Elsewhere`, `GoesOn`, `GivesBack`, `Takes`) say how a step may touch these
facts, and each action is shown to be one of them; `SinkDel` and `Age` are
treated on their own. Nothing is assumed but `MinSize >= 1`,
`MinSize <= MaxSize` and that the two limits are naturals.

**ModuleCallProofs.** `RunsInLive` says nothing of what a thread may do next, so
`IInv` adds, for each point of an update, which libraries are open
(`Libraries`), which are set up and where the pointers lead (`Code`), and what a
thread may hold (`Calls`): while the update sleeps, a thread holds the old
library only if it took it before, so its `age` is at least `slept`. When the
sleep ends it would have held it for `Grace` seconds, more than `CallTime`. That
is the step in `FreeOldStep`; in the others the lemma `Pointers` says that
whatever pointer a thread reads is good at that moment. `NeverUnloaded`,
`OneAtATime`, `UpdatesSettle` and `NeverRefused` follow. They assume `InTime`:
`CallTime < Grace`, and that the loader does not hand out the old library
again; `UpdatesSettle` also that a Free2 spares the timers. Without these the
properties fail, as said above.

**RtpRoomProofs.** `Accepted` speaks of the rooms only; what a thread still holds
may yet get there, and a name may come back for another object. `IInv` therefore
says, of the tables and the threads together: an object is owned by one client,
where owning is being its source in some room or being worked on for it by some
thread (`OneOwner`); what an owned object has was agreed to for its owner
(`Agreed`); what nobody points at is as new (`Cleared`), so that a new object
inherits nothing; and a thread that is about to write a remote or a sink has the
consent for it (`InPlace`). Lemma `DestroyKeeps` deals with the objects that end at
a step; `Proceeds` covers the steps that only look up or take away, `Changes` those
that write into a source, and `MakeSourceStep` is the one step that creates an
owner. `RoomTypeCorrect` and `RoomAccepts` follow, for any number of clients,
threads and objects and any use, orderly or not. Nothing is assumed of the sizes.
`RoomInforms` is about orderly uses and has the premise `OnTime`, that such a use
has no `delays`: the timer does not let a session go while a thread works on it
(without it `Informed` fails, as said above). `OrderlyInv` keeps `Order` of the tables
with the threads, clients and the application's list, and Lemma `Onward` shows it
for any thread that goes on, from what the step does to its own client: every
thread at work has the session and room of the port (`Present`), since a room goes
only when it is empty and guests have commands under way only while the host is in
it (`Hosted`); a client enters or leaves with one command at a time (`Single`); a
source that is about to expire belongs to a client that says no more (`Silent`);
the list is right about a client unless the thread with its one such command stands
between telling the application and changing the room (`Listed`, `Turn`). When
nothing is under way no thread stands there. `ExpireOrdered` is the timer's step,
`TakeOrdered` the one that makes a session, which has no room yet (`Unused`).

**SotpSessionProofs.** `IInv` is the two properties about the maps, `FoundByAddress` and
`NoStaleAddress`, `CallbacksPaired`, and types that say from which addresses a datagram
may come. Only `AtFirst` is new: with one address the map has nothing at any other,
without which removing a session could leave a way to it. Every handler that touches
the map puts a session at the address it heard from (`MapKept`) or removes the session
together with that address (`MapRemoved`); what the two need is that the address led to
no session or to this one, and `OpenTarget` and `ReachTarget` show it of the session that
a request creates or reaches. `SessionRunsBetween` follows because the handlers that
perform a call look at the session's list in the step that performs it (a handler is one
step here; `SessionTable` has the threads). These theorems hold for any use, with any
number of requests, sessions, addresses and numbers.

The other three speak of a patient application (`Patient`). `PatientInv` says what it has
under way: between two silences it opens and then calls, or only calls, or closes; the
close is alone, and the address leads to the session that a request names (`OneKind`);
and what was performed is in the ring of that session as long as a copy of the request is
about (`RunKnown`). The handlers that answer are reduced to one shape, `Answers`.
`SessionRunOnce` and `SessionClosesTheNamed` follow from this alone, for any numbers.
`SessionInStep` needs `Numbered`: a session has given out at most one number for each
request it will not answer again (`Counted`, over the set `Over`, which grows by one
member with every answer), so numbers do not come round; those under way then tell the
results apart (`Distinct`), and what is in the client's ring, acknowledged or kept for
resending are numbers of results that were received or are under way (`Noted`). It
assumes `Ample`, more numbers than `MaxReq + 2`: with fewer the number that is taken for
the mark of an empty ring is reached, and TLC finds `InStep` violated (4 numbers, 4
requests). In the code it stands for a session that answers fewer than 65534 requests.

**SessionTableProofs.** A thread keeps the session it has found while others erase
and replace it, so `IInv` follows every way to a session: what a thread, a client, an
address or a request under way names was made for that client (`Owned`); a thread at
a place where it works on a session has one, and what has expired was made
(`Placed`); and an open entry has an accepted open that no close has answered yet
(`Counted`), which is why emptying a list under its lock closes it once, however threads do it. Lemma `Progress` says what a step may change, part by part, and each
action is shown to keep within that. `TableTypeCorrect` follows, and what needs no
premise about the use: `TableOwnSession`, the first conjunct of `Reached`, and
`TableClosedOnce`, the first of `CallbacksPaired`.

For patient clients, `PatientInv` gives each client (`Era`) one session in the table,
which is up (in both maps and open) or in the hands of the thread that opens it or of
those that close it (`InTable`, `Working`). A call names the session that is up; a
close is under way with nothing but its own copies, and the address leads to its
session or nowhere (`Asking`); only a client that is gone has sessions that expire
(`Lasting`). It needs each part of `Patient`: `quick` lets a thread that opens be alone
(`TakeEra`), `settle` lets a close be alone and find no open under way (`SendEra`),
`alive` keeps the timer from a client that is there, `mayRefuse` and `sessionless` are
the other ways to leave the list empty or to open a session behind a close's back. The
last was found by this proof: with `settle` alone the close's late copy could not be
shown to meet its own session, and TLC gave the run told of above. Steps of one client
leave the others' `Era` alone (`Others`); steps that leave maps and sessions as they
are go through one lemma (`Walks`). `TableCallbacksPaired` and `TableReached` follow,
for any number of clients, threads, requests, sessions and copies. Assumed is that the
threads are finitely many.

**TimerTableProofs.** Pointers to a `TimerInfo` are in the table, with an actor that
sets or kills one, and with the timer's thread; nothing counts them. `IInv` says who may
have one. An actor has its timer for itself (`Apart`); one that sets a periodic timer
finds it in the table (`Setting`), one that kills it has taken it out (`Killing`), or is
in `KillAll` and has the lock (`Locked`, `Clearing`) while the other workers rest
(`Called`). A timer has one thread, and the thread is the one of its handle, or awaited
by who took the handle, or on its way out after its own callback killed the timer
(`Running`, `Orphan`); so that when `Free` or `FreeAll` deletes, the thread has ended
(`FreeSafe`, `FreeAllSafe`). What exists can be found by somebody (`Found`), and after
`KillAll` no thread is left and none is being made (`Over`). `TimerTypeCorrect` holds for
any use; `TimersDeletedInTime` and `TimersKillAllEnds` when callbacks set no periodic
timer: one that does works on a `TimerInfo` that a worker may be killing, which the run
`timer_uses` covers. Kills by a callback are included, when the thread's handle is stored
before it calls back (`Stored`). A thread whose handle is not stored yet is led to by who
will store it (`Storing`), and a one-shot timer waits paused for that. Nothing is assumed of the numbers of
workers, ids, timers and calls but that there is an id.

**RtpStreamProofs.** Everything rests on `IInv`: types; what is spoken of was sent, and
what is handled has come (`Known`); what is expected waits no longer than the receiver's
patience (`Patient`); the sender's frames follow one another in the clock and in the
numbers of their packets (`InLine`), without a break unless the sender left (`NoBreak`).
Each frame keeps the sender's clock and the count of packets before it, so that no sum
over the frames is needed. Numbers that come round are dealt with once, in `Apart` (two
that are less than the modulus apart differ), `SumMod` and `ModMod` (a slot may be
computed from the number or from the count). `StreamTypeCorrect` holds for any use.

For the server, `ServerInv` says that a packet that may still come, from the network or
out of the sender's ring, is one of the last `Ring` packets of the sender, and its number
as far behind the sender's as its age says. So no two of them share a slot (`Spaced`), the
one that comes is in its slot if it was broadcast, and a packet with the same number and
timestamp is the same packet (`HeadIsOnes`). `StreamRelays` follows for any losses, copies
and answers, and for a sender that comes back. Its premise `InRing` (no untimed messages,
frames that fit the ring, no packet later than a ring of others) is needed in each part:
TLC finds `Relayed` violated without it.

For the client, `ClientInv` adds to the first three parts of `Playback` what hands are
doing (`OneAtATime`), what waits (`Collected`: one entry for a timestamp, none older than
what is shown, only with packets that have come) and what is done (`Done`: the number
awaited is the one after the last frame, and a client that awaits no key frame has shown
one after every frame given up). The fourth, `Played`, needs `SmoothInv` for a client
that misses nothing: every packet is under way or has come (`Arriving`), what has come and
was not shown waits (`Collecting`), and what was shown is a row without gaps (`InARow`).
The step to be shown is that a frame whose number is awaited is the next one
(`TurnIsNext`): numbers come round, but a later frame of that number would be so much
later that, with `late < NumSeq`, no packet of the next one could be missing, and then
the next one would wait too and be taken first. `QuietPlayed` ends the argument. The
premise on the use is `Playable`; that on the behaviour is `Fresh`, that no packet is
handled which is older by `Stale` than what is shown. Without `Fresh`, with messages of two
packets, exact frames, audio among delta frames, or packets later than numbers last, TLC
finds `Playback` violated; that a frame has fewer packets than there are numbers is the
code's `SOTP_RTP_MAX_PACKETS_PER_FRAME`. `StreamPlaysPrompt` needs no premise on the
behaviour: it shows `Fresh` for a sender whose frames follow each other within `d`, when
what may come is one of its last `r` packets and `d * (r - 1)` is less than `Stale`
(`Prompt`). Here the sender's ring matters for a client too: it holds the last `Ring`
packets (`Recent`), also those a frame leaves there (`StaysInRing`), so that no answer is
older; and each packet moves the clock by at most `d` (`Paced`). With the code's ring of
256 packets, and frames no larger, `d` may be a quarter of a second.

For the requests, the premise is on the numbers and the delays: `Tells(r, w)` says that
`Half`, `NumSeq`, `Restart` and `Settled` leave room to tell a packet late by less than
`r` places and early by less than `w` from any other, `Within` that the ring, the frames
and the delays are within `r`, and `Close(w)` that the network lets no packet come `w` or
more places ahead of the last one that came, that is, loses no `w` in a row. With the
code's constants `r` may be 256 to 291 and `w` up to 338. `Repairs` is the invariant for a
sender that stays: the last packet counted is one that came, less than `r` behind all
others, and what was overtaken beyond it was passed (`Receives`); each entry of `expect`
is the number of one place that was overtaken, by no more than its count allows
(`Expects`, `Lag`: an entry that waits moves back by less than `w` with each packet
counted, and the second only waits when the first is not due). `HowFar` turns the
comparisons of `CaculateMissedPackets` into comparisons of places, once. On it rests
`Asks`: what is missing, not passed and still in the sender's ring is expected or asked
for (`Wanted`), unless a request or an answer was lost. When all is quiet no request is
under way, so it is expected, which is `Repaired` (`StreamRepairs`). A stream of at most
`w` packets needs no premise on the network (`StreamRepairsShort`; the uses of the run
but `Round` meet it for `r` = 4, `w` = 7). Numbers may come round here, with a gap across the last
one (`Leaves`: what the request or the expectation does not name is passed); only with
NAK type 2 the premise `Straight` says that they do not, as a gap there is noted in a
list that asks one row at a time and drops what is old. That case is TLC's (`Round`).

`AskedIsMissing` adds `Singly`: what has come and may be waited for is not expected, and
nothing is expected by both entries. It is not inductive without the second half, as a
packet that comes clears one entry only. That the new entry of a gap and the range asked
for a wider one are of places nobody has seen follows from `Receives`; that a number is
not that of an older place, from `NewestPlace`. `StreamAsksMissing` and
`StreamAsksMissingShort` hold for receivers without the list of the lost (`m_nNAKType` at
most 1), on across the last number; the run also covers the other kind, until the
numbers come round.

Only model-checked: all liveness (`CallOnceFair`, `CallsReturn`, `GetReturns`,
`AllEnd`, `Forgotten`, `Heals`), which TLAPS does not do under fairness; `Repaired` with `nak` 2 across the last number;
`AskedIsMissing` for uses with `nak` 2, whose list of the lost gives up one row of numbers with each packet
counted and keeps those from before the wrap however old they are (`SotpRtpSource.h:109`),
so that a bound on the places it holds would have to count its rows; and the properties of
`TimerTable` when callbacks set their timer.

## 5. What is not modelled

* Peer-to-peer addresses, encryption and attachments of calls: they change no
  number and no entry.
* Elapsed time in the timers: a running timer may fire whenever it looks, but for
  `prompt`.
* The stop of the application against calls under way: the communication modules,
  whose threads make all calls, are stopped and joined first.
* A module's attributes and services, and parser ports; the repetition of a failed
  `CGC_Module_Init2`.
* `CSessionMgr::onRemoteClose` (`SessionMgr.cpp:1130-1171`), which takes a remote
  out of `m_mapRemoteSessionId` when its connection ends, and its session out of both
  maps, without `CGC_Session_Close`, when that was its last.
  Only `CommTcpServer` reports that (lines 1182 and 1254); `SotpSession` and `SessionTable` are about datagrams, whose server never does.
* Equal ids of two sessions (`NewId`).
* Of the RTP rooms: more than one room or port, the client's list of rooms, the
  object pools (their objects are like new), a remote found invalid. A source's
  `m_pRemote` is a shared pointer that one thread may replace while another
  broadcasts through a reference to it; the model has no such broadcast.
* Of the RTP stream: `m_nLostData` (a statistic), two server threads that count
  the packets of one source at the same time, the payload.
* `PoolExit`/`close` of the pool, the conversion and the cache of rows.
* Everything whose status in `PROJECT.json` is `not_modelled`, for the reason
  its note gives; mostly parsing and formatting of text and wrappers of sockets
  and libraries.

## 6. Plan

1. Done: acknowledged calls with proofs, sessions with proofs, their table under threads with
   proofs, timers with proofs, MySQL pool with proofs, module calls with proofs, RTP rooms with proofs,
   RTP stream with proofs.
2. `LogService` and the communication servers' queues.
3. An abstract table of sessions for `SessionTable` to implement.
4. Proofs: `TimerTable` when callbacks set their timer (the timer being killed is then
   held by two), `AskedIsMissing` with the list of the lost, and
   `Repaired` where the numbers come round with NAK type 2.
