# A formal model of the chat server and its client

The repository is a messenger: a C++ server (`src/server`), where one thread runs an
epoll loop and a pool of workers handles the packets, and a Qt client (`src/client`).
This directory holds TLA+ modules that model both, TLC configurations that check them on
small instances, and proofs that TLAPS checks.

## 1. The system

### Parts, state and operations

| Part | State | Operations |
|---|---|---|
| `EventPoller` | epoll set, current batch of events | `startEventLoop`: accept, then dispatch to read, write and error callbacks |
| `SessionManager` | `sessions_`, `inFlight_`, `pendingDelete_`, all keyed by descriptor number; main thread only | `onNewConnection`, `onRead`, `onWrite`, `onError`, `requestCloseClient`, `onTaskDone`, `closeOrDefer`, `closeClient` |
| `ClientSession` | `closed_` (atomic), `userID_`, `username_`, assembler, sender | main: `handleRead`, `handleWrite`, `sendRawDirect`, `closeSession`; workers: `sendRaw`, `requestClose`, `setAuthenticated`, getters |
| `PacketAssembler` | `readBuffer_` | `appendData`, `extractPacket` |
| `PacketSender` | `sendQueue_`, `writePending_` | `sendPacket`, `handleWrite`, `flushSendQueue` |
| `SessionRegistry` | `byUserID_` behind a mutex | `registerUser`, `unregisterUser`, `findByUserID` |
| `ThreadPool` | deque, `inFlight_`, `stopping_`, two condition variables | `submit`, `waitIdle`, `hasPendingTasks`, `stop`, `workerLoop` |
| `ResultQueue` | deque behind a mutex, eventfd | `push` (workers), `drain` (main) |
| `PacketDispatcher`, services | none of their own | one handler for each packet type |
| `Database`, repositories | one SQLite connection shared by all workers: the tables, its open transaction, last rowid, change count | `addUser`, `deleteUser`, `getUser...`, `findOrCreateDirectChat`, `saveMessage`, `getUserChats`, `getChatMemberIDs`, searches |
| `PacketBuilder`, `PacketParser`, `ByteWriter`, `ByteReader` | none: a body and a cursor for the length of a call | one layout for each packet type; the same four files in server and client |
| `main` | - | executes the commands of `ResultQueue`, then the shutdown sequence |
| client `Connection`, `ProtocolClient` | socket, `receiveBuffer_`, `messageID_` | `send`, `slotReadyRead`, `processIncomingPacket` |
| client controllers, `Session` | `state_`, `username_`, `pendingUsername_` | one slot for each user action and each answer |
| client windows | chat list, selection, `currentChatID_`, history, window shown | `setChatList`, `addChat`, `appendIncomingMessage`, selection |

### How they interact

A read event makes `onRead` cut the stream into packets and submit one task for each to
the pool. A worker runs the handler, which calls the repositories and pushes `SendRaw` or
`Close` commands; the lambda of `onRead` then pushes `TaskDone`. The eventfd wakes the
main thread, which drains the queue and executes the commands. A session that must be
closed while tasks are in flight is closed at once and deleted when the last `TaskDone`
has been executed (`pendingDelete_`). `MessageService` reaches the sessions of other
users through `SessionRegistry`. On the other end, `Connection` cuts the stream into
packets, and signals carry them to the controllers, which change `Session` and the
windows.

### What is hard, and what makes each part correct

- **Lifetime of sessions.** Workers hold raw pointers. `SessionManager` is right if no
  session is deleted under a task, none is lost, and counters and maps agree whatever the
  order of reads, errors, closes and `TaskDone`.
- **Descriptor numbers.** Commands, counters and deferred deletions name a number, which
  the kernel gives to the next connection as soon as the socket is closed.
- **Pointers in the registry.** It must not point to a deleted session, nor lose a live one.
- **Wakeups.** Two condition variables, an eventfd, edge-triggered EPOLLIN and EPOLLOUT: a
  task, a command or a byte that waits must have something that will wake its reader.
- **Streams.** TCP cuts packets anywhere, `recv` and `send` do again, either end may stop:
  packets must come out whole and in order, or not at all.
- **Lengths.** Sixteen bits in the body, thirty-two in the header, and two limits.
- **Shutdown.** `main` must end, and destroy nothing while a worker runs.
- **One database connection.** Whatever belongs to the connection is shared between the
  calls of different workers, and any statement may fail.
- **The client.** Answers in any order, nested event loops, errors in the middle of a
  slot; name, list and history must stay those of the login and of the chat.

`PROJECT.json` lists every hazard at its line, with the properties that would catch it or
the reason why none does.

## 2. Modules

| Module | What it is |
|---|---|
| `ServerState` | the memory the server's threads share, `Init`, `TypeOK` |
| `MainThread` | the actions of the main thread: event loop, `SessionManager`, commands, shutdown |
| `WorkerThreads` | the actions of the workers: the lambda of `onRead`, dispatcher, services |
| `Server`, `MCServer` | the two together, fairness, the properties; constants for TLC |
| `SessionLifetime` | what `SessionManager` promises: when a session lives, closes and is deleted; implemented by `Server` |
| `CommandQueue` | what `ResultQueue` promises: one sequence, taken whole |
| `ResultQueue` | `push` and `drain` at the grain of mutex and eventfd; implements `CommandQueue` |
| `TaskPool` | what a pool promises: accepted tasks run once each, at most one per worker |
| `ThreadPool` | `ThreadPool.cpp`; implements `TaskPool` under a refinement mapping |
| `ByteStream` | packets as bytes, for both directions |
| `RequestStream` | client to server: `Connection::send`, TCP, EPOLLIN, `handleRead`, `PacketAssembler` |
| `PacketStream` | server to client: `PacketSender`, EPOLLOUT, TCP, `slotReadyRead` |
| `Dialogue`, `MCDialogue` | the two directions of one connection together |
| `Codec`, `MCCodec` | building and parsing of the seventeen packet types |
| `Storage`, `MCStorage` | the repositories on the one connection, call by call |
| `Client`, `MCClient` | the client: slots, nested event loops, windows |
| `ServerTypes` | theorems about `Server` in any environment |
| `ServerSafety` | theorems about `Server` in the environment the deferred deletion needs |
| `PoolSafety`, `QueueSafety`, `StorageSafety` | theorems about `ThreadPool`, `ResultQueue`, `Storage` |
| `StreamSafety` | theorems about `ByteStream`, `PacketStream`, `RequestStream` and `Dialogue` |
| `CodecSafety`, `ClientSafety` | theorems about `Codec`, `Client` |

Names are the code's where TLA+ allows it. A few definitions have a *mutated form* beside
them (`PendingIgnored` beside `Pending`): the definition with one slip in it. Each property
was tried against such a slip in the code it is about, and fails with it.

### Server

One action of `MainThread` is one whole handler: no worker touches the maps a handler
changes, and what they share is behind a mutex or an atomic. A batch of `epoll_wait` is a
sequence of events consumed one by one, so an event may be stale when its turn comes;
EPOLLIN and EPOLLOUT in one event run `onRead` and `onWrite` with no other event between.
A worker's step is one access to a session, to the registry or to the queue. The database
is a choice of answers here. The commands form one sequence, of which the first `drained`
are in main's hands, and `to` and `by` are there for the properties only. Dereferencing a
deleted session is undefined behaviour: the step sets `fault` and the model stops there,
since nothing can be said of what follows.

The environment is in the constants: `EagerReuse` (whether `accept()` may return a number
under which a closed session is still mapped; POSIX allows it), `SlowPeers` (whose
`send()` may fail with EAGAIN), `UsersOf` (the users each connection logs in as), `Kinds`.
Errors and hang-ups of any socket are always possible.

### ResultQueue, ThreadPool

`ResultQueue` splits `push` and `drain` at the mutex; `Server` uses it as one queue with
the wakeup that `HandleEventFd` stands for. `CommandQueue` is what joins the two: the
server uses its queue in no other way than it promises (`ServerUsesCommandQueue`), and
`ResultQueue` implements it (`ImplementsCommandQueue`). `ThreadPool` has the lock, the sets of threads
waiting on each condition variable, their spurious wakeups, and the joining caller.

### RequestStream, PacketStream, Dialogue

A byte is (packet, place), so that order, loss and wrong cuts can be seen; the length in
a header can be read only where a header is, and is any number elsewhere.

`RequestStream` has every way a request can go: written whole by `write()`, cut by TCP and
by `recv` at the chunk, cut out by `extractPacket` in the inner loop of `handleRead`,
which looks at the length only afterwards. `handleRead` is split at each `recv` and each
packet, because bytes arrive meanwhile. It ends at EAGAIN, at the end of the stream, on an
error or on a length over the limit, and each way submits what it had. The client may quit
(Qt aborts the socket with what was not written), and the link may break.

`PacketStream` has `sendPacket`, the partial `send` of `flushSendQueue` and its errors, and
the client's loop, which waits for the rest of a body, or clears its buffer, with the
connection up, when it finds a length over its limit or when memory runs out in the loop,
in `readAll` or in a slot (`Discard`). What follows is read wherever it begins. While a slot
runs a dialog the socket's buffer goes on filling (`arrived`), unannounced, and is taken
with the next `readyRead`. The handler for other exceptions (`Connection.cpp:125`) has no
action: nothing that is called there throws one, since `slotRawPacketReceived` catches them.

`Dialogue` conjoins them. What they share is the point: the main thread runs one handler
at a time; epoll is edge-triggered in both directions, an event that reports one direction
reports the other when it is ready, and `EPOLL_CTL_MOD` looks at the socket again and so
makes new EPOLLIN events out of what `PacketSender` does (`Remodify`). `Answer` may happen
as soon as the request was submitted, in the order of requests, or never: overtaking is in
`Server`, and what keeps a `SendRaw` from being executed in `ResultQueue`.

### Codec

`Built` and `Read` are the field lists of `PacketBuilder` and `PacketParser`, written down
separately: the values before a list, its count among them, and those of an entry. A step
is one call of `ByteWriter` (`WriteValue`) or of `ByteReader` (`ReadValue`, with the early
returns when bytes are missing); `BuildPacket` puts the header before the body, and
`EndParse` is the `return` of `parseData`. The loop over a list runs as often as the count
that was read says (`ToRead`). Strings, lists and counts carry 16-bit lengths that wrap. A
byte has B values and W = B * B, so that wrapping is in reach. `needed` is a history
variable: how many bytes the values so far take, which the properties compare with W and
with the length in the header.

### Storage

A step is one call of SQLite, since the connection serialises calls and nothing more.
`db` is what the connection sees, `saved` the database at `BEGIN`. A statement that fails
either leaves the open transaction as it is (SQLITE_BUSY) or ends it: after SQLITE_FULL and
SQLITE_IOERR SQLite takes the whole transaction back, of whatever request, and goes on in
autocommit mode (`RolledBack`). The request that had opened it is then in `lost`: its next
statements are committed one by one, its `COMMIT` fails, and its `ROLLBACK` fails or takes
back the transaction that another has begun since, which is then lost too. `BEGIN` alone
cannot lose anything, as it fails before there is a transaction. `mixed` has the requests
that wrote or read in the transaction of another, or read the rowid of another. A failed
write may leave the change count and the rowid as they were or not. Rowids are numbers;
those of different tables come from different counters, and the users' counter starts
higher so that a confusion of tables shows. A request is one of five: create a chat, send a
message (store it, then read the members to deliver to), list the chats of a user, register,
delete. The chat number of a message is the client's, and nothing looks whether the chat
exists (`ChatNumbers`). There are no foreign keys in the schema, so that
`PRAGMA foreign_keys=ON` changes nothing. Left out: SQLITE_NOMEM, which may
also make a `ROLLBACK` fail and leave the transaction open after its request has ended.

### Client

`Idle` means that control is in the main event loop. A dialog opened in a slot of
`slotReadyRead` runs a nested loop: the socket goes on reading (`unread`) but Qt does not
emit `readyRead` again, and the packets left in `inbox` wait. The server is external: it
takes requests in any order, as its workers do, answers in any order, and may give no
answer, since the dispatcher swallows what a handler throws. `messageID` numbers the
requests. Warnings that a slot shows before it changes anything are left out.

Errors come where the code reports them: a Transport error when memory runs out in `send` or
in `slotReadyRead` (the state is then `Disconnected` on a connection that is up, `erred`), a
Protocol error, which `slotError` only logs, when an answer is over the limit or the parser
throws (`BadPacket`). `slotReadyRead` throws away the packets it holds, and the next bytes may
begin inside a packet (`garbled`). Bytes that are out of step are swallowed in the model, with
what is behind them, as a length too large or a packet of no known type; that they happen to
read as a packet the server never sent is left out, as is an exception thrown by a slot after
it has changed something. `lost` records that a login got no answer, or one that was thrown
away.

## 3. Runs

| Run | States (about) | What it shows |
|---|---|---|
| `any_environment` | @any | maps, counters and teardown, with number reuse, a slow peer, logins and messages |
| `deferred_deletion` | 560 000 | the deferred deletion is exact, and implements `SessionLifetime`, when numbers are not reused and peers are not slow; shutdown ends |
| `registry` | 4 500 000 | no dangling registry entry, no entry lost to another session; a task's commands for its own session find it, with messages going astray around them |
| `result_queue` | 640 | `push` and `drain` implement `CommandQueue`; unread signals wake main |
| `thread_pool` | 26 000 | refinement of `TaskPool`, no wakeup lost, every task runs, `stop` and `waitIdle` return |
| `dialogue` | @dialogue | both streams intact until the client throws bytes away, no event lost in either direction, requests reach the pool, answers leave the server |
| `codec` | 56 000 | what fits is read as it was written; what is cut keeps its prefix |
| `storage` | 4 100 000 | whose transaction is open, members in pairs, answers that are true |
| `client` | @client | login, list, history; no wait for a login that has ended |
| `blocked_write` | violation | `onWrite` deletes a session under a worker |
| `recipient_gone` | violation | a recipient is deleted between lookup and `sendRaw` |
| `lost_wakeup` | violation | a command waits with its signal consumed |

**Bounds.** Two connections on one number are the smallest case of reuse, two on two
numbers that of two clients at once; `registry` has three on two numbers, so that two of
them are of one user and the number of a recipient is given away while another client sends
to it; three tasks let one session have a task done, one
running and one queued. Two workers interleave as more would with three tasks. A batch of
two events gives a stale one. `thread_pool` has more tasks than workers, so that workers
wait, and wake-ups can go to the wrong one. `dialogue` has four requests: one larger than
a header, two empty ones, and a last one over the server's limit and larger than a chunk;
the first answer is larger than the socket, and the third over the client's limit.
A chunk ends inside a header, inside a body and between packets. `codec` has bytes of two
bits, so that lengths wrap at 16; strings of 0, 1, 2 and 17 bytes; lists of up to four
entries, and of 17, whose count wraps. `storage` has two requests for the same pair in
both orders, a third chat, a message, a list, a registration and a deletion, of which any
four come, and any one statement may fail. One failure that rolls back is enough to have one
request go on without its transaction, another begin its own, the first end it, a third begin
and the second end that; four requests are those three and one that reads or writes beside
them. The theorems have no such bounds. `client` sends five packets, enough for a failed login,
a second one, the list, a search and a new chat; one message of another user; memory may run
out any number of times.

**Fairness.** `Server`: weak fairness of every worker's task and of what main does after
the loop (the operating system schedules threads; the loop polls with a sleep and does not
block). `ThreadPool`: of every thread, as mutexes are granted in the end. `ResultQueue`:
of main when the eventfd is readable, and of a `push` begun. `Dialogue`: of the event loop
on an event it has been given (`ReadEvent`, `OnWrite`) and inside `handleRead`, of the
client's process, which takes what has come in the event loop or in that of a dialog, and of
TCP while the link is up. Nothing is assumed of the workers there, of the commands they push
(`lost_wakeup` shows that one may stay in its queue) or of a user who leaves a dialog open:
`RequestsReachPool` ends at the pool, and `AnswersReachClient` begins at `sendPacket` and ends
at the client's process. `Client` has no fairness. None is assumed of users, of errors, or of
a link that lasts.

## 4. Proofs

All theorems hold for any values of the constants under the assumptions the modules name,
so for any number of connections, users, tasks, workers, packets, sizes and requests.

`ServerTypes` assumes nothing of the environment: `TypeCorrect`, `MapsAlwaysAgree`,
`CountersNeverAhead`, `TeardownIsQuiet`. Its invariant `AnyInv` adds `QueueInv`: the
queue's `TaskDone` commands belong to distinct tasks that have returned and were not
retired, each under its own number (`DoneCommands`), tasks are numbered in the order of
submission (`Numbering`), and after the loop's last test nothing is active (`ExitedIdle`).
Without it a decrement could not be told from one too many. `ServerUsesCommandQueue` rests
on `TypeCorrect`: `main` holds no more commands than there are.

`ServerSafety` has `Environment == ~EagerReuse /\ SlowPeers = {}` as hypothesis:

- `SessionsOutliveTasks`: no session is deleted while its task is queued or running;
- `CountersExact`: `inFlight_` is the number of unreported tasks;
- `DeletionsHappen`, `NothingLeaks`: a deferred deletion has a task whose `TaskDone` will
  perform it, and no session object is lost;
- `NoTaskDereferencesDeleted`: no worker dereferences a deleted session through the pointer
  its task captured (`NoTaskFault`, which `blocked_write` violates with one slow peer);
- `ManagerRefinesLifetime`: the handlers of the main thread and the workers implement
  `SessionLifetime`, where neither maps, counters nor numbers exist. The mapping
  (`SessionState`, `WorkFor`) makes a session *closing* when it is closed and live, and
  its work the tasks whose `TaskDone` main has not executed, wherever those tasks or their
  reports are: in the pool, in a worker's hands or in the queue. The step to prove with
  most care is the one in which `TaskDone` of a closed session finds the counter at zero:
  `CountersExact` makes it the report of the last task;
- `RegistryPointsToLive`, with at most one user for each connection: the invariant adds
  that a worker which logs a session in uses the user of that session (`LoginsOwn`) and that
  an entry belongs to a live session of its user (`EntriesOwned`), which `closeClient` then
  finds under its `userID_`;
- `OwnCommandsArrive`, for all kinds of packets: a command that a task pushes for the session
  it captured finds that session mapped, since the task's `TaskDone` comes behind it in the
  queue (`CommandsOwned`) and the task is active until then (`OwnersMapped`). Of the
  commands for the recipients of a message nothing is claimed: they have no task in flight,
  and so may go and give their number away.

`EntriesOutliveOthers`, in the same module, needs no hypothesis: `unregisterUser` compares
the pointers, so an entry is erased only with the session it points to, and a session that
is replaced under its user leaves the newer one reachable.

None of the first three is inductive alone. That a deletion is safe follows from the counter
being zero, so `Inv` needs the counter to be exact; that a decrement keeps it exact needs
`DoneCommands`; that the number still names the same session needs the map to agree with
the owner of every active task (`OwnersMapped`), which needs the map not to be overwritten
(`~EagerReuse`) and no deletion that ignores the counter (`NoWrites`: without slow peers
EPOLLOUT is never asked for, so `onWrite` never runs). There is one lemma for each action;
cardinalities come from `FiniteSetTheorems`. Each half of the hypothesis is needed:
`blocked_write` breaks `TaskSessionAlive` with one slow peer, and a reused number breaks
`CounterExact`.

`PoolSafety`: `PoolTypes`, `PoolCounter` (`inFlight_` counts the tasks workers hold),
`PoolReturns`, `PoolWakes` and `PoolRefines`, the refinement of `TaskPool` step by step.
`PoolWakes` is the safety half of `EveryTaskRuns`, `StopReturns` and `WaitIdleReturns`: it
counts the workers awake and on their way to the deque against the tasks in it. The invariant says that the deque holds the last tasks in
order, that a task is held by one worker or has ended (`TakenOnce`), and that nothing is
left when a call returns or a worker leaves (`QuietOnReturn`).

`QueueSafety`: `QueueTypes` and `QueueRefines`, the refinement of `CommandQueue`, where the
commands are those main holds followed by those in the deque; with `QueueLosesNothing` and
`QueueKeepsOrder`, which no run checks by themselves: each command pushed is in one place,
and commands are executed in the order of their numbers. The invariant adds that main holds
no command before the swap.

`StorageSafety`: `StorageTypes`, `TransactionsApart`, `PairsCommitted`, `AnswersKept`, for
any number of failing statements. The invariant is about what is stored whatever happens to
the open transaction (`Stored`: `saved` inside one, `db` outside). `OneTransaction` is part of
it and names the owner; `OwnerOK` says what the open transaction has added at each place of
its owner, its own rows and those of requests that have lost theirs, so that `COMMIT` adds two
members or none of the owner's; `StoredOK` gives each stored member a request that wrote it
(`Writer`) and that has committed both or lost its transaction. For `AnswersKept` each request
that has neither lost nor mixed agrees with what is stored (`Told`): `ROLLBACK`, whoever calls
it, takes nothing away from `Stored`, and a commit adds to it, for a chat already answered
only where a request of `lost` or `mixed` has its number (`Shared`). What `lost` and `mixed`
excuse is what section 5 lists.

`StreamSafety` shows (`Composition`) that a behaviour of `Dialogue` is one of
`RequestStream` and one of `PacketStream`; what is proved of each then holds of both
together. `ReplyInv` says what `StreamIntact` needs of bytes still under way: the buffers
from the sender to the client, what a dialog has left in the socket among them, put together, start at the first byte of the packet after
the last one emitted, end at the last byte of the last one sent, and have every byte
between in its place; and that a sender that waits will get its event. `RequestInv` is the
same for requests, with the ways out of `handleRead` (`HandlingOpen`, `CutOK`,
`Following`). It begins with the facts on cutting and joining such streams that
both directions use. The theorems: `DialogueTypes`, `RepliesIntact`, `RepliesMove`,
`RequestsInOrder`, `RequestsMove`. Once the client has thrown bytes away, `ReplyInv` keeps the
types, the wakeup and what had been emitted (`Oversize`), and says nothing of the bytes.

`ClientSafety`: `ClientTypes`, `LoginsAreReal`, `ChatsListedOnce`, `HistoryIsOfOneChat`,
`LoginsUnderWay`. Only the fourth is inductive alone. An `AuthResponse` does not say
which login it answers, so `LoginsAreReal` needs that there is at most one login on its way,
as a request, as an answer or as a packet in the inbox (`OneLogin`), that it is the one of
`pendingUsername_`, and that there is none while `slotAuthRequested` would send another
(`MustBeIdle`); this is where the state `Authenticating`, set before the send, counts.
`ChatsListedOnce` needs every list and new chat on its way to name chats the user has
(`Truthful`). `LoginsUnderWay` goes through every action that takes a login from its way, or
closes the connection, and shows that it sets the state or that the login is `lost`. That a dialog is always over the chat window, a part of `TypeOK`, needs that
users and chats are asked for from there only (`AskedInChat`).

`CodecSafety`: `CodecRoundTrip`, `CodecCutKeepsPrefix`, for any B, so also for bytes of
eight bits. Neither invariant says anything before the parser has ended, so the inductive
one follows both cursors. While the body is written, the k-th value lies in it right behind
the one before (`LaidOut`), the places grow, and each value takes at least a byte, which
bounds the count of a list by the length of the body. While it is read, the values that lie
wholly in the message are those sent, and as long as the last one does, the cursor is where
that value ends (`ReadInv`). `ReadsBack` is the heart of it: at the place where a value was
written `ByteReader` returns that value, which for the integers is a fact on digits in base
B (`TwoBytes`, `FourBytes`) and for strings one on sequences. The count is the first value
of a list, so that the number of entries read is that sent as soon as two bytes are there.

**Only model-checked:** the liveness properties `ShutdownTerminates`, `SignalWakesMain`,
`EveryTaskRuns`, `StopReturns`, `WaitIdleReturns`, `RequestsReachPool` and `AnswersReachClient`
(fairness and ENABLED are out of the prover's reach), and the three violations.

## 5. Disagreements found

Three have a run and an entry in `PROJECT.json`: `blocked_write`, `recipient_gone`,
`lost_wakeup`. The models show more behaviours that the code probably does not want, of
which some contradict a comment in a way that depends on how it is read:

- With `EagerReuse`, a new connection on the number of a deferred session overwrites its
  entry: the old object is never deleted, commands of its tasks reach the new client, and
  the `TaskDone` of an old task may delete the new session (`SessionManager.cpp:48`).
- A connection that logs in as a second user leaves the entry of the first one, which
  dangles after the close (`SessionManager.cpp:172`).
- A message may be sent to another client than its recipient, if the recipient leaves and
  another client gets the number before the command is executed (`main.cpp:93`); this needs
  neither reuse under a mapped session nor a slow peer.
- `main` may end with replies still in the queue (`main.cpp:118`).
- A `ROLLBACK` takes back rows of other workers that were reported as saved, and two users
  can get two direct chats (`ChatRepository.cpp:96`, `:55`). Other workers see the rows of
  an open transaction, so a chat may be listed, and a message delivered, that is never
  committed (`ChatRepository.cpp:37`).
- After SQLITE_FULL or SQLITE_IOERR, in whatever request's statement, the request that was
  inside a transaction goes on in autocommit mode: a second member is stored alone, perhaps
  under a chat number that is given to the next chat, and its `ROLLBACK` takes back the
  transaction another request has begun since (`ChatRepository.cpp:75`, `:87`, `:96`, `:106`).
- The comment at `ChatRepository.cpp:61` says that the transaction makes creation atomic;
  `last_insert_rowid` at `:78` is that of the connection, so a message or an account written
  in between gives the members another chat's number, and the chat none.
- `Connection.cpp:92` says that no legitimate packet is over the limit. A `ChatListResponse`
  of 74 chats with the longest names is; the client then clears its whole buffer, with the
  packets behind it, and reads the rest of the body as headers, as `PacketStream` shows with
  its third answer. After a memory error it does the same.
- `PacketAssembler.h:13` declares a `MAX_BUFFER_SIZE` that nothing uses. The
  buffer stays bounded all the same: `messageLen` has 16 bits, and the loop of `handleRead`
  cuts out every whole packet before it reads again.
- `PacketParser` takes a truncated body for zero and empty fields, and a list whose count
  wrapped, or that was cut, for one with the entries that happen to parse.
- The account window ignores logins while the state is `Authenticating`. If the server gives
  no answer (an exception in the handler, a `SendRaw` left in the queue), or the client throws
  the answer away with a Protocol error, nothing resets the state and the window stays
  locked until the connection ends (`AuthController.cpp:28`, `MainController.cpp:68`).
- On the client, a refused login sets `Disconnected` although the connection is up
  (`AuthController.cpp:93`, while `AppState.h:7` reserves it for no connection); a late
  `ChatListResponse` removes a chat just created (`ChatWindow.cpp:77`); what arrives while a
  dialog of `slotUsersFound` is open waits for later data (`ChatController.cpp:58`); after a
  memory error a second login may take the answer to the first (`LoginIsReal` holds only
  where none occurred).

## 6. Not modelled, and what could come next

- `Validator`: a predicate on strings without state. `ListeningSocket`, `PortSelector`,
  `Logger`, configuration, `.ui` files: input, output and constants.
- `findUsers` and the password queries, which read one table and change nothing; opening the
  database; `ConnectRequest`; the validation of fields in the services, which refuses a
  packet before any state changes.
- `username_` of a session, written and read by several threads without a lock: what a
  racing `std::string` holds is not bounded by anything the code says.
- A reply whose 16-bit counts wrap is in `Codec` only, and the close asked for by a
  `DisconnectRequest` in `Server` only; `Dialogue` has sizes and the other ways to close.
- The prompts of `main` and its exception handlers; `sessionID_` of the client; texts, layout
  and input fields of the windows.
- SQLITE_NOMEM; bytes out of step that read as a packet nobody sent; exceptions of a slot that
  has already changed something (section 2).

Every invariant, action property and refinement that a passing run checks is also a
theorem; the liveness properties are not (end of section 4). What would add most now is the composition of `Client` with `Dialogue`, so that the order of answers
comes from the server's workers and not from an external set.
