# A TLA+ model of cr_rpc

`cr_rpc` is a small RPC library in C++: an `rpc_server` and `rpc_client`s
exchange lines of JSON over TCP, and each side hands the requests it receives to
registered services. This directory holds TLA+ modules that model it, TLC
configurations that check them on small instances, and proofs, checked by TLAPS,
of what matters most for every value of the constants. Paths are relative to the
repository; `rpc_lib/` and `common/` are in `src/src/` or `src/`, depending on
where the repository is unpacked.

## 1. The system

| component | state | operations | talks to |
|---|---|---|---|
| framing (`base_rpc`, `base_rpc_interface.cpp`) | `_divide_unread_buf`, `_divide_unread_size` | `_receive_data_handle`, `_req_msg_parse`, `_divide_req_msg` | called by the tracker thread; pushes to the handler |
| request handler (`rpc_data_handle_thread`) | `_req_map_lists`, its condition and mutex, a worker thread | `run`, `stop`, `_push_req_map`, `thread_loop` | called by the tracker thread and by the program; calls services and `send_req` |
| threads (`base_thread`) | `_bRunning`, `_bWaitStop`, `_bExited`, `run_once` | `run`, `RunOnce`, `stop`, `thread_func` | base class of the handler, the tracker and the lookup thread |
| condition (`ccondition.h`) | mutex, condition variable | `time_wait`, `signal`, `lock`, `auto_cond` | handler, tracker, lookup |
| tracker (`select_tracker`) | `_uncomplete_task_lists`, a thread | `add_task`, `del_task`, `thread_loop` | runs `done()` of tasks |
| descriptors (`io_fd`, `net_socket`) | `_fd`, `_mutex` | `_read`, `_write`, `read_task::done`, `write_task::done`, `close` | register tasks, call back into the socket |
| sockets (`inet_socket`, `inet_server`, `inet_client`) | - | `accept`, `start_listen`, `start_connect`, `_on_data_receive`, `_on_disconnect` | call back into the rpc object |
| `rpc_server` | `_client_fd_lists` | `start_listen`, `send_req`, `_read`, `_write`, callbacks | all of the above |
| `rpc_client` | `_connect_status` | `start_connect`, `send_req`, callbacks | all of the above |
| services (`base_rpc_service`) | `_rpc_funcs`, `_services` | `reg_services`, `invoke` | called by the worker |
| lookup (`NetConnectUtils`) | `m_hostent`, `m_cond`, a detached thread | `GetHostName`, `ConnectToServer` | called by `inet_client` |
| reference counts (`c_ref`, `ref_obj`) | `m_lRef`, `m_lDel` | `AddRef`, `Release` | tasks, sockets, the tracker |
| jsoncpp (in the repository, `common/json/`) | values; the members of a reader, of a writer | `parse`, `write`, comparison, conversion, paths | makes the text of a request, and takes it apart |

Three threads matter. The **tracker thread** sits in `select`, and everything
that happens to a connection happens there, as callbacks inside callbacks: a read
task reads, the socket calls the rpc object, which parses, pushes to the handler
and reads again. The **worker thread** of the handler serves what was pushed.
The **program** calls `start_listen`, `start_connect`, `send_req` and destroys
the objects.

What is hard: the three threads meet on `_req_map_lists` with a timed wait; a
callback may close or destroy the very object whose loop called it; the tracker
works on a copy of its task list; a task is consumed by each read and must be
renewed by it; TCP cuts the stream anywhere; descriptors are reused; peers send,
close and reset between any two system calls. `PROJECT.json` lists these hazards
one by one, each at its line, with the properties that watch it.

What makes each part correct:

- framing: what is delivered is what was sent, in order, once, and one bad read
  does not spoil the next;
- handler: what was pushed is served once, in order, with no data race; the
  worker is never stuck with work waiting; it can be stopped;
- tracker and server: tasks, open sockets and client list agree at any time; no
  task outlives its socket; there is exactly one accept task; everyone is
  accepted, read and, once gone, released;
- threads: one thread per object at a time, however it is started and stopped;
- client: across reconnects, one read task, of the socket there is; what is heard
  is what was sent, to the end;
- writing: what `send_req` says of a message is true; its bytes go out once, in
  order; the answer goes to who asked;
- text: a request is one line and arrives as it was sent; a text is read for what
  it says or refused;
- references and services: nothing is used after its delete, or leaked; the
  worker runs what is registered.

## 2. Modules

| module | models |
|---|---|
| `RequestPipe` | abstract: requests go in in order and come out in order, each once; `Reset` is the only loss |
| `RpcHandler` | the request handler with its three threads; implements `RequestPipe` |
| `MCRpcHandler` | instances of it |
| `RpcHandlerProofs` | theorems about `RpcHandler` |
| `Framing` | from chunks of the stream to requests |
| `MCFraming`, `FramingProofs` | instance and theorems |
| `Connection` | `Framing` and `RpcHandler` composed: from the stream of one peer to the services |
| `ConnectionProofs` | theorems about the composition; it implements `RequestPipe` |
| `IoLoop` | receiving side of a server: tracker thread, tasks, sockets, client list, peers |
| `MCIoLoop`, `IoLoopProofs` | instances and theorems |
| `HostLookup` | how a client finds its server's address: the caller and the detached lookup thread |
| `MCHostLookup` | instance |
| `BaseThread` | one `base_thread`, its owner and its threads |
| `RpcClient`, `RpcClientProofs` | `start_connect` on the program's thread against the tracker thread, over several connections; theorems |
| `WritePath`, `WritePathProofs` | `_write` from several threads, and the write tasks; theorem |
| `AnswerPath` | to which client of an `rpc_server` an answer goes |
| `RefCount`, `RefCountProofs` | `c_ref` and `ref_obj` on several threads; theorems |
| `Services` | registration against the lookups of the worker |
| `Parts`, `MCParts` | the eight smaller modules side by side, a behaviour being one of one of them; instance |
| `PartsProofs` | theorems about `Parts`, those of the smaller modules among them |
| `JsonValue`, `JsonReader`, `JsonWriter` | `Json::Value`, `Json::Reader` and the three writers, as operators |
| `RequestText` | a request as a line of JSON; the properties of the three modules above |
| `MCText` | instance: `Connection` and `RequestText` side by side |

`Parts` and `MCText` put small models next to each other without any
interaction: the part is chosen at the start and the variables of the others stay
as they are. A property there is that of its part, under its own name. Where a
module has proofs of its own, `Parts` instantiates the module with the proofs, which
adds nothing to the specification but theorems about it.

Each module has a section of *faults*, operators that are no part of the
specification: an action as a slip in the code would make it. Each property of a
passing run is refuted by one of them (`mutants` in `PROJECT.json`), so none
holds by the shape of the model alone.

### RpcHandler

`queue` is `_req_map_lists`, `batch` the worker's copy of it from `it` on,
`lock` the mutex inside `_req_map_cond`, `running` and `waitStop` the flags of
`base_thread`. `worker`, `tracker` and `owner` are program counters with one step
per access to shared state. `served`, `invoked`, `acks` and `owed` are history.

- tracker: `TrackerReceive` (a chunk was parsed into requests), `TrackerLock`,
  `TrackerAppend` (append all, signal, unlock);
- worker: `WorkerLoop` is the `while(!_bWaitStop)` of `thread_func`; the others
  are `thread_loop`. `pthread_cond_timedwait` is three actions: `WorkerSleep`
  gives the mutex up, `WorkerTimeout`, `WorkerSpurious` or a signal end the wait,
  and `WorkerReacquire` or `WorkerExpire` take the mutex again. After a timeout
  `thread_loop` returns without touching the list, so `WorkerExpire` takes and
  releases the mutex in one step;
- owner: `OwnerBegin`, `OwnerClear`, `OwnerStart` are `start_connect` or
  `start_listen` (`ListenFirst`) as far as the handler sees them, including a
  failing `pthread_create`; `OwnerStop` (lock), `OwnerSignal`, `OwnerFlag` (`_bWaitStop`)
  and `OwnerJoin` are the destructor. The worker runs on between them as far as it can
  without the mutex.

A request is a model value; two requests are told apart by identity. What matters
of one is whether its service is registered and answers (`Registered`, `Acked`).

Assumed: the program destroys the object while no callback of the tracker thread
is under way. The code has no guard against the opposite.

### Framing

The stream holds messages `1..N`, message m ends at `End[m]`. `Read` takes any
number of bytes up to the size of the buffer; then one action per outcome of
`_divide_req_msg` (-1, -2, -100, a line) and `Deliver` for the rest of
`_req_msg_parse`. The end of a message whose beginning is lost is JSON or not,
an object or not, as it pleases. `pc = "aborted"` is the `assert` in jsoncpp
when a value that is no object is asked for a member; the library is compiled
without `NDEBUG`.

### Connection

One peer, and the `base_rpc` that reads its stream. The variables are those of `Framing`
and of `RpcHandler`, and so are the steps, with one of each made the same: `Deliver`,
where `_req_msg_parse` returns the requests of a read, is `TrackerReceive`, where the
handler is given some (`Push`). Between the read and the push `_receive_data_handle` is
one call after another, so nothing is read (`Receive`) while the last read is still being
divided or pushed; the worker and the program run beside it (`Handle`). In `RpcHandler`
alone a read brings any requests that are new; here it brings what the cut of the
stream makes of it. A message is a request of its own; the end of one, if it is JSON, is
known by where it was read (`RequestOf`), as two ends may look alike. `ListenFirst` is
`TRUE` for a server with one client. The composition has no step of its own.

### IoLoop

`tasks` is `_uncomplete_task_lists`, `snap` the rest of the copy that
`thread_loop` goes through: sets of tasks, whose order in the list is that of their
ids, since `add_task` appends (`FreshId`, `FirstTask`). `ready` is the result of `select`,
`clients` is `_client_fd_lists`, `fd[p]` the `_fd` of the server's socket for peer p, and
`stack` the calls under way: one frame for each `done()` and each `_read`, since
these call each other. A frame is at `"read"` before its system call and at
`"called"` once the callback was made. Peers connect, send and close between any
two of these steps. A socket is destroyed when it leaves the client list
(`Alive`); a task refers to it by a raw pointer. `status` records how the
tracker thread went wrong: `"dead"` (select failed), `"freed"` (a callback into a
destroyed socket), `"stdin"` (a read of descriptor 0).

Data is counted in units; `DoneSize` and `ReadSize` are the two buffers, 1024
and 2048 bytes, so `ReadSize = 2 * DoneSize`. What is read is not kept: framing
and handler are the other two modules.

Simplified: `select` waits until something is readable (its one-second timeout
changes nothing: the list of tasks changes on this thread only); the listening
socket, which the code leaves blocking, is assumed to have a connection when
`select` said so, except when `::accept` fails.

### HostLookup

One `NetConnectUtils` and one `GetHostThread` per call of `start_connect`, since
`CONNECTUTILS_CONNECT` makes a temporary. `caller` and `thread` are the two
program counters, `condLock` the mutex inside `m_cond`, `mutex` the thread's
`m_mutex`, `outer` whether it still has `m_outer`, `alive` whether the temporary
exists. `hostBuf` is the static buffer that all calls of `gethostbyname` return;
an address is told by the name it belongs to.

- caller: `CallerStart` to `CallerCopy` are `GetHostName`, with the timed wait
  split as in `RpcHandler`; `CallerConnect` is `ConnectToServer`, and
  `CallerClose` the destructor;
- thread: `ThreadResolve` to `ThreadLeave` are `GetHostThread::thread_loop`, with
  the two unlocks of `auto_cond` as steps of their own (`ThreadPublish`,
  `ThreadUnlock`). Unlocking a mutex another thread holds is undefined; the model
  lets the other thread lose it, as the default mutex of Linux does.

A caller that copies from a null `m_hostent` is `"crashed"`; the process would end,
here the other calls go on, which only adds behaviour. The object of a thread is
never deleted (`OnExit` is called by nobody), so `SetOuterDelete` is always safe.

### BaseThread

`owner` is the one thread that calls `run`, `RunOnce`, `stop` and
`wait_for_thread_end`, `thread[t]` where the thread t is, `attr[t]` what pthread
knows of it (joinable, detached, joined). `running`, `waitStop`, `exited` are
`_bRunning`, `_bWaitStop`, `_bExited`; `stopFlag` is `_stop_flag` of the
`select_tracker`, which `Stop` sets in a step of its own (`StopFlag`) before
`_bWaitStop`. `Start` may fail in `pthread_create`. A thread ends by itself when
`RunOnce` made its one pass or when `select` failed (`ThreadLoop`).
`stop()` and `wait_for_thread_end` of a `RunOnce` run into an assertion (`aborted`);
after `wait_for_thread_end` the owner only asks `is_running` (`over`).

### RpcClient

One `inet_client` in the hands of two threads: `pc` says where each is in
`start_connect`, `_read` or `thread_loop`. `fd` is `_fd`; descriptors are numbers
that are given out again (`files` says which connection is behind one), a read
task holds the number it was made with, and `conn` in it is history. `copy` is
the tracker's copy of the list. A peer's data is chunks `1, 2, ...`, and `log` is
what `_on_data_receive` got of them. `mutex` is `io_fd::_mutex`, recursive, so
that a callback inside `_read` has it (`noticelocked`, `closelocked`).

`Eager` separates the program that reconnects while connected (`TRUE`, for the
finding) from the one that waits for `_on_disconnect` or for a failure.

One read takes all the data there is: what a server sends fits the buffer of 1024 bytes.
`ClientSafe`, `ClientLive` and `TasksOfOpen`, and the theorem `ClientIsSafe`, are about such
servers only. With a buffer that is just full `_read` takes the end of the data for the
end of the connection and the client disconnects; that is shown for a server's socket, by
`io_bulk`, and the code is the same.

### WritePath

`pc`, `msg` and `from` are a `send_req` under way and the next byte of its buffer;
`tasks` the write tasks, `kernel` the bytes the kernel has and `wire` those the
peer has read. A write takes as much as there is room for, so that it may be cut
anywhere. The errno test of `_write` is modelled as it is, the wrong way round.
`result` is the `bool` that `send_req` makes of `_write`'s `int`.

### AnswerPath

`list` is `_client_fd_lists`. The tracker thread changes it under
`_client_fd_mutex` (`Push`, `Remove`), the worker looks at its front without
(`Front`). `Remove` is `_on_disconnect`: it looks for the client and takes it out.
`Received` counts the requests of a client that wait or are being served. The clients
behave as the properties need it: one at a time, and each waits for its answers;
`_write` is sure of its client under that condition only.

### RefCount

`ref`, `del` are `m_lRef`, `m_lDel`; `slot[s]` is the `p` of a `ref_obj` and
`step[s]` where the operation on it is, one step for each increment or
decrement. `next[s]` is the `lp` of an `operator=`, counted before the old object
is released. `DestroyTemp` is a destructor that makes a `ref_obj` of its own
object, which is what `m_lDel` is for. `References(o)` is what the count should be.

### Services

Every `find` and every `operator[]` of `_services` or `_rpc_funcs` is a step, and so is an
assignment to what `operator[]` returned. `operator[]` (`Bracket`) makes the entry that is
missing, in the worker's lookups (`Index`, `CopyFunc`) as in `reg_services`
(`RegServices`, `StoreService`) and `_reg_funcs` (`RegFuncs`, `InsertFunc`, `AssignFunc`).
A function is told by the number of its registration; `NoFunc` is the empty
`std::function`, which throws when called. The worker ends (`crashed`) with a request
without `"cmd"`, and when it comes between a new entry of `_services` and its value, which is
null until then.

### JsonValue, JsonReader, JsonWriter, RequestText

Pure operators, most of them recursive. A value is a record (type, payload,
comments), an array a function from indices. A reader is a record of its members
that goes through the calls, a writer likewise. Text is a TLA+ string; what one
cannot hold has stand-ins (`~` for backspace, `^` for U+0001, `<n>` for a byte over
127). A double is an exact decimal. Integers have as many bits as `MaxInt` and
`MaxUInt` say.

`RequestText` makes the inputs, one step at a time: a text grows by a fragment
(`Grow`), a value is changed by an operation of `Json::Value` (`Change`), a request
gets an argument (`Fill`). The properties compare the code's operators with
definitions of what they should do: `Meaning` is JSON's grammar over fragments,
`Explained` counts line breaks anew, `Ordered` says where a value is among samples that
are in order.

## 3. Runs

| run | result | shows |
|---|---|---|
| `handler_client` | holds | one client: no race, duplicate or reordering; everything is answered; `stop` returns if the worker is serving when `_bWaitStop` is set; implements `RequestPipe` |
| `handler_reconnect` | **violated** | a second `start_connect` discards received requests |
| `handler_stop` | **violated** | `stop` deadlocks with a worker that waits, or is about to take the mutex |
| `framing_lines` | **violated** | a message split over two reads is lost |
| `io_single` | holds | one client at a time: accepted, read, not cut off, released |
| `io_many` | holds | two clients, resets, any amount of data: tasks, sockets and list agree, the tracker thread lives |
| `io_bulk` | **violated** | a client that sent exactly 1024 bytes is disconnected |
| `io_stale` | **violated** | a stale task calls a destroyed socket |
| `lookup_missed` | **violated** | an answer that comes before the wait is missed, and a timeout reported |
| `client_reconnect` | **violated** | `start_connect` of a connected client leaves the read task of the socket it closed (data that fits one read) |
| `parts` | holds | lookups, threads, a reconnecting client, writes, answers, the handler of a server that receives before `run()`, reference counts, service lookups |
| `text` | holds | from a client's stream to its services; reading, writing, values, requests |

The seven violated runs are findings; `PROJECT.json` quotes the comment each
contradicts.

The properties of `parts`, part by part:

- lookup: `NoUseAfterDestroy`, `AddressLookedUp`, `LookupEnds` (every call and
  every answering lookup thread comes to its end);
- thread: `ThreadSafe` (one thread, `is_running` exact, no ended thread that nobody
  can join), `StopEnds`;
- client: `ClientSafe` (at rest, a connected client has exactly one read task, of
  its own connection; no task outlives its connection; what it hears is in order
  without a gap; only ended connections are closed), `ClientLive` (everything sent
  is heard, and every end is noticed), both for data that fits one read;
- write: `WriteSafe` (`send_req` tells the truth, inverted; bytes in order, once;
  lines of two senders do not mix while no write has failed), `QueuedIsSent`;
- answer: `AnswerSafe`, `AllAnswered`;
- handler: `ImplementsPipe`, with `start_listen` twice and data before `run()`: the
  only loss is the `clear()` of `run()`;
- refs: `RefSafe`; services: `LookupsHold` (what is called is what is registered, or an entry
  just being registered; the `operator[]` of the worker inserts nothing; no entry
  stays without a value).

And of `text`:

- connection: `NoResidue`, `InOrder`, `AlignedDelivered`, `AllOrNothing` of the reads, with
  the handler's threads beside them; `ConnectionSafe` of the whole way: what was read is,
  in this order and without a gap, what was served, is being served, is queued and is
  about to be pushed (`NothingLost`), messages are served in the order of the peer, none
  before all of it was read (`ServedInOrder`), and what the handler was given is what it
  served, serves or has queued (`Conservation` of `RpcHandler`);
- read: `ReaderSound` (JSON is read for what it says; a text cut short is refused;
  an error is shown, on its line; comments make no difference);
- value: `RoundTrip` (what each writer writes is read as the same value),
  `ValueLaws` (one order, conversions that agree with `isConvertibleTo`, `get`,
  paths, `resize`, and iterators that meet every part once, in order);
- request: `RequestSurvives` (one line, and it arrives as it was sent; an argument
  named `rpc_service` takes over the service, as in the code).

Read the two `io` runs together. Under the conditions of `io_single` (one client
connected at a time, less than a buffer of 1024 bytes outstanding, no resets)
the receiving side works. Outside of them `io_bulk` and `io_stale` show how it
fails, and what still holds is `io_many`: the bookkeeping is right in spite of it,
up to the moment the thread makes the wrong call (`status # "run"`).
`NeverReadsStdin` is in `io_single` only: with more data outstanding, a callback
can close the socket whose `_read` is looping.

### Bounds

- `handler_*`: three requests (one unregistered, one registered and silent, one
  answered), up to two in a read: enough for a push to meet a non-empty list, a
  list being copied, a batch under way and a clear. Two calls of `run()` are
  enough for one to meet a live worker. No bound on timeouts or spurious wakeups.
- `text`, connection: a client that connects once, messages of 2, 3, 7 and 3 bytes and
  reads of up to 6, so that a read holds several messages, part of one, only its middle,
  only its `'\n'`, and is pushed while the worker takes, serves or waits; one request is
  answered, one known, one known that is the end of a message, the rest unknown. For a
  server, which may receive before `run()`, and a client with any other stream, see the
  theorems. Read:
  texts of up to four fragments after nothing, `[1` or `{"a":`; four are enough for a
  missing comma, a comment in any place, a nested container, and an error with the
  recovery from it. Value: up to four nodes, indices below 3, one comment; holes,
  nesting and both orders of a pair of types occur. Request: up to three arguments
  with names and values that need escaping. Integers have six bits (-32..31,
  0..63), a line of a `StyledWriter` 16 characters instead of 74: both limits
  are crossed.
- `io_single`: buffers of 3 and 6 units and 2 outstanding, i.e. never a full
  buffer; three clients one after the other, so that descriptors are reused; one
  failing `::accept`.
- `io_many`: buffers of 2 and 4 units, up to 4 outstanding and 5 sent, so that
  both kinds of read fill their buffer and nest; both peers may reset. The
  symmetry of the peers is used; the run checks invariants only.
- `parts`, lookup: two calls for two names; `lookup_missed`: one call. Calls share
  nothing but the buffer of `gethostbyname`, for which two are enough. Thread: three
  threads, i.e. two restarts. Client: three connections of two chunks, so that a
  descriptor is reused and a read finds one chunk, both, or the end with data before
  it; `client_reconnect` the same. Write: two senders, three messages of two bytes, room for
  three bytes, two errors: a write is cut inside a message, blocked, failed, and
  failed again as a task. Answer: three clients of three requests. Handler:
  as above, in a server. Refs: two objects, three `ref_obj`s, so that two releases
  race while a third pointer is copied. Services: two names, two objects, two
  registrations of one command, one request.

Deadlock is not checked anywhere: a call that is over, a handler that was stopped,
a stream read to its end or aborted, a tracker thread with nothing to select, and
a program that has sent or started all that a bound allows, do stop.

### Fairness

`RpcHandler!Fairness`: each thread takes a step if it can, which is what the
scheduler gives. Weak fairness on the worker as a whole is enough: while it
waits, the timeout is always enabled, since `time_wait(1000)` always returns.
Nothing is assumed of arrivals and of calls of the program. `IoLoop!FairSpec`: the
tracker thread runs; peers need do nothing. `HostLookup!Fairness`: caller and
thread take a step if they can; a caller that waits can always time out, and
nothing is assumed of `gethostbyname`, which may never return. `BaseThread`:
`stop()` goes on, and each thread does; a `thread_loop` whose `_stop_flag` is set returns,
since its `select` times out after a second, and one that nobody stops may go
round for ever. Nothing is assumed of the owner's calls.
`RpcClient!FairSpec`: `start_connect` and the tracker's round go on; peers and program
need do nothing. `WritePath!FairSpec`: the threads run and the peer goes on reading,
without which nothing that is blocked can be sent. `AnswerPath!FairSpec`:
tracker and worker run. `Parts` has the same conditions, each for its part and
over the variables of that part. No fairness is assumed of the order in
which waiters get a mutex, and none is needed: the tracker holds it for one step.

`Answered` excepts a handler that is being stopped (`waitStop`) and one whose
thread was never created. `StopWhileServing` is the part of `StopReturns` that
holds: it counts where the worker is when `_bWaitStop` is set. Where it is when `stop()`
takes the mutex does not: it may finish serving, find the flag not yet set and block on
the mutex.

## 4. Proofs

Proved for all values of the constants, under the named assumptions of each module
(`HandlerAssumption`, `FramingAssumption`, `ConnectionAssumption`, `LookupAssumption`,
`IoAssumption`, `PartsAssumption`), which TLC evaluates in the runs. Where a module is used through an
instance its assumption is a definition, and the hypothesis of its theorems:
`Setting` of `RefCountProofs` (finitely many `ref_obj`s; the null pointer is no object),
`Setting` of `WritePathProofs` (a message has at least one byte, the kernel has room for a
natural number of bytes, and `"free"`, for the mutex nobody holds, is no sender). Both
follow from `PartsAssumption`. Two hypotheses are about the environment, and what is
outside of them is a finding: `Patient` of `RpcClientProofs` (the program calls
`start_connect` again only after a failure or `_on_disconnect`; otherwise see
`client_reconnect`) and `Modest` of `IoLoopProofs` (one client at a time, less than a
buffer outstanding, no resets; otherwise see `io_bulk` and `io_stale`).

`RpcHandlerProofs`
- `TypeCorrect`. `TypeOK` is inductive; its last conjunct (in `"handle"` there is
  a request left) is what makes the two `Head`s of the worker defined.
- `OwnershipHolds`. A thread holds the mutex exactly while its program counter is
  inside a critical section. Needed because `lock` alone does not say who is
  where; inductive together with `TypeOK`.
- `RequestsConserved`. `owed = served \o batch \o queue` is not inductive:
  `WorkerTake` overwrites `batch`. `QueueInv` adds that `batch` is empty outside
  the service loop; `QueueInvStep` is the step, on lemmas about sequences
  (`MoveHead`, `PrefixOfConcat`).
- `FirstRunRaceFree`. With `MaxRuns <= 1` and `~ListenFirst`: the owner clears
  the list before there is a worker and before anything is received, and the other
  two are kept apart by the mutex (`OwnershipHolds`).
- `HandlerImplementsPipe`. Init maps to init; `TrackerAppend` to `Submit`,
  `WorkerHandle` to `Serve`, `OwnerClear` to `Reset` with n the length of `batch`,
  every other action to a stutter (`WorkerTake` too: it moves the list into an
  empty batch). `Submit` asks that nothing comes in twice; `UniqueStep` shows that
  `owed` and `inhand` never share or repeat a request.

`FramingProofs`
- `TypeCorrect`, with `ReadInvHolds` for where the read pointers stand.
- `NothingKept`: `unreadSize = 0`. `unreadPtr` is set only where the parse fails,
  so `Deliver` never sees it; the buffer shared by all clients is dead code.
- `AlignedReadsDelivered`: the invariant behind it says that in a read that began
  at `End[i]` the values are `i+1 .. k` where `at = End[k]`.
- `DeliveredInOrder`: what was delivered lies before `from`, the values between
  `from` and `at`, both sorted; concatenation keeps it (`SortedConcat`).
- `AllDeliveredOrNone`: the messages delivered of one read are all that lie in it, or
  none. `FoundInv` says of a read under way which messages the values found so far
  are, namely every one between `from` and `at`; only the end of the chunk lets the
  read deliver, and a failure delivers nothing.

`ConnectionProofs`
- `FramingKept`: a behaviour of `Connection` is one of `Framing` (`FramingPart`), so the
  theorems of `FramingProofs` hold of what `text` checks.
- `StreamImplementsPipe`, `ClientRaceFree`: it is one of `RpcHandler`, too (`HandlerPart`),
  and this is what has to be shown: `RpcHandler` takes for granted that a read brings at
  most `MaxBatch` requests, all new and no two the same. `LinesInv`: no line of a read is
  empty, so there are fewer of them than bytes; and only the first line can be the end of
  a message, if the read is not the first. `PushedInv`: whatever the handler was given was
  read before the present read began (`Old`), and the requests of this read were not
  (`PushedLaw`), so they are new.
- `ConnectionIsSafe`: `OrderedInv` says that what the handler was given is sorted, and what
  is about to be pushed lies behind it; `FlowInv`, of a client, that `delivered` is what was
  pushed and what is about to be, request by request (`Accounted`), which the `clear()` of
  `run()` does not disturb because nothing has been received when it comes. With
  `RequestsConserved` of the handler, `served` is the beginning of what it was given.

`IoLoopProofs`
- `Bookkeeping`: the invariant `IInv`, for any number of peers that connect, send, close
  and reset as they like and any size of the buffers. `TypeCorrect`, `AcceptsAlways`,
  `TasksStaySound` and `KeepsOpenClients` (the properties of `io_many`) follow from it. None of
  them is inductive alone; they lean on each other. `Identified`: a task is known by its
  id, since a frame of the stack and the copy of the list may hold tasks that were
  deleted. `Listening`: the accept task is never deleted but by its own `done()`, at the
  bottom of the stack and while somebody is in the backlog, so that nothing can run
  around it between the deletion and the new task. `Sockets`: an open descriptor is that
  of one accepted connection in the client list, so `select` is only asked about open
  ones and does not fail. That `accept` finds a descriptor is a pigeonhole argument
  (`FreeLaw`), that a new task has an id of its own needs a greatest element of a finite
  set (`BoundOf`, `FreshLaw`).
- `NothingDangles`, `StdinUntouched`, `HealthyKept`, under `Modest`: the properties that only
  `io_single` has. `Solo` is the strengthening: "the first client" is the one whose data
  arrived, every call below the innermost one has made its callback and did not fill its
  buffer, so it is done when control comes back to it, and the copy of the list holds a
  task of a socket only while the stack is empty. This is what a client that fills a
  buffer breaks.

`RefCountProofs`
- `TypeCorrect`, `PointersAreSafe`: `RefSafe` for any objects and any finite number of
  pointers. The count is exact because each step adds or removes one reference or
  leaves them (`Gains`, `Loses`, `Same`, with the cardinalities in `CountGains` and
  `CountLoses`). Between the decrement to zero and the `delete` nothing refers to
  the object; `Lone` says that the thread in between is the only one there is, and
  that nobody can get at the object again, since a copy is made of a reference.
  `Dels`: that thread finds `m_lDel` at 1.

`RpcClientProofs`
- `TypeCorrect`, `ClientIsSafe`, under `Patient`. `io_fd::_mutex` is not what keeps the two
  threads apart, half of the steps are outside of it. Reading is a *turn* that one thread
  has at a time (`Turn`): the program has it from its `connect` to the `add_task` at the end
  of its `_read`, then the task has it, then the tracker until it adds the next task; with
  the end of the connection it is gone, and only then the program connects again. `Found`:
  what a thread saw of its descriptor is still so when it acts on it. `Stream`: what was
  delivered, what a thread has in its hand and what is unread are, in this order,
  `1..sent`. `Descriptors`: of the numbers that are given out again, a live connection has
  `_fd` and no other. The tracker thread never dies on the way.

`WritePathProofs`
- `WritesAreSafe`: for any number of senders, any messages and lengths, any room in the
  kernel, any errors. `WriteSafe` speaks of messages that were reported on; `Underway`
  and `Rests` say of the others that the bytes already handed to the kernel (`Handed`) are
  those before the first byte that its one sender, or its one task, still has. So it is
  single ownership and not the mutex that keeps the bytes of a message in order; the
  mutex keeps two lines apart, and only while there are no tasks (`Unmixed`), since the tracker
  writes without it. `ReadsLaw` and `WriteLaw` say what a step does to the stream of bytes.

`PartsProofs`
- `OneAtATime` and one lemma for each part: a behaviour of `Parts` is one of each part, by
  stuttering. `LookupsStaySafe`, `ClientIsSafe`, `WritesAreSafe`, `PipeImplemented` and
  `PointersAreSafe` carry the theorems of the modules above over to the specification
  that `parts` checks.
- `TypeCorrect`, `LookupSafe`, `AddressesLookedUp`: `TypeOK` says who holds `m_mutex`.
  `NoUseAfterDestroy` is not inductive: that the object exists says nothing of what the
  destructor will find. `Order` adds the link between them: a thread past its test has
  `m_outer`, and whoever has `m_outer` has the object. It is preserved by `CallerClose`
  because that waits for `m_mutex`, which `TypeOK` says such a thread holds. `Buffer` ties
  `m_hostent` and the static buffer to the names found so far; the buffer is overwritten,
  but only with such a name. That a call gets the address of *its* name while others look
  names up is not true.
- `ThreadsTyped`, `ThreadsSafe`: `ThreadSafe` for any number of threads and starts. It is
  not inductive: that there is one thread says nothing of whether `_bRunning` knows of it.
  `Handle`, `Known`: a live thread is the one `_hThread` names, and `_bRunning` is set, so
  that no second one is made; `Exits`: `_bExited` is about the present thread; `Joinable`,
  `Detached`: who may be joined, which is what keeps ended threads from being forgotten.
- `LookupsAreSafe`: `LookupsHold` for any registrations. Each step of a lookup or of a
  registration keeps what the one before it found or made (`Found`, `Registering`), because
  names do not go away and the first function of a name stays (`RegisterStep`). So the
  worker's `operator[]` finds what its `find` found, and inserts nothing (`WorkerReads`), and the
  entries without a value are those of `Registering`. That a null pointer is no object
  (`PartsAssumption`) is the assertion in `reg_services`.
- `AnswersAreSafe`: `AnswerSafe` for any number of clients that come one at a time and any
  number of requests. `OneClient`: the list is the one client that is there, or
  empty; `ItsRequests`: whatever waits or is served was asked by a client that is
  still there, as many requests as it has no answer to, so that the front of the list is
  the one who asked (`Listed`). `ReceivedLaw` counts a queue that grows at one end and shrinks at the
  other.

Only model-checked: all liveness (`Answered`, `StopWhileServing`,
`EveryoneAccepted`, `AllDataRead`, `ClosedReleased`, `LookupEnds`, `StopEnds`,
`ClientLive`, `QueuedIsSent`, `AllAnswered`), which the prover does not do; and
the properties of `RequestText` (`ReaderSound`, `RoundTrip`, `ValueLaws`, `RequestSurvives`), whose
operators are recursive, which puts them out of the prover's reach. Every other property of
a passing run is a theorem.

## 5. Not modelled

- The lock and atomic wrappers (`cslock.h`, `interlock.h`, `interlock_gcc.h`), taken
  as atomic; most of `cslock.h` is for Windows or commented out, and `CAutoCount` and
  `CSingleEntrance` are used by nothing.
- The older transports that no longer compile or are no longer called (fifo, unix socket,
  `inet_socket_comm`, `unix_socket`, `socket_connect`, `select_task.cpp`).
- Of jsoncpp: the allocators and maps of `JSON_VALUE_USE_INTERNAL_MAP`, which is not
  defined; static strings, `swap`, YAML compatibility, which nothing calls; the
  wording of errors. NUL characters, the negative zero, doubles that are no
  short decimals, and the `%` forms of a path are left out; the stand-ins above take the place of
  characters that a TLA+ string cannot hold.
- Binding a socket (`NetConnectUtils`, part of `start_listen` before anything runs);
  `init` that fails for want of descriptors; the blocking forms of `_read` and `_write`
  and UDP sockets, which the rpc classes never use; address parsing, logging.
- Two accesses to one `std::map` or `std::list` at the same moment: undefined. Where they
  can happen a property says so (`RaceFree`, `FrontSafe`) or the note of the hazard does.
- Destructors, but for `OwnerStop` to `OwnerJoin` in `RpcHandler` and `CallerClose` in `HostLookup`.
  What a worker does after `~rpc_server` is undefined.

Seen while modelling, of smaller weight, and covered by no property:

- a spurious wakeup in `GetHostName` looks like an answer, and a null `m_hostent` is
  used (`net_connect_utils.h:178`; the model has it, as `crashed`);
- `fcntl` is called with the old `_fd` (`inet_socket.cpp:30`), and a failing `init` leaves
  `_fd` at -1;
- `_on_data_receive` and `_read` of the server call each other, a frame and 2 KB of
  stack for each full read (`base_rpc_server.cpp:61`);
- `Release` reads `m_lRef` after its own decrement, when another thread may have
  deleted the object (`IReference.h:55`; `ReadBack` in the model; nobody looks at the
  result);
- arguments that are no strings throw or assert (`base_rpc_interface.cpp:101`);
- in jsoncpp: `get()` of a hole of an array returns null and not the default
  (`value.h:281`), a buffer one byte too short for the longest number
  (`json_reader.cpp:630`), an index test the wrong way round (`json_value.cpp:1673`),
  an assignment of iterators that leaves `isNull_` as it was, so that a default-constructed
  one that is assigned `begin()` equals no `end()` (`json_valueiterator.inl:142`; nothing in
  the repository does that).

## 6. Plan

The modules above are done, and what the prover can reach of their properties is proved.
What could be added: several peers of one server in `Connection`, whose streams meet in one
handler; the fairness of the composition, i.e. that what was read is served in the end; and
a composition of `IoLoop` with it, so that the reads of a stream are those of its tasks.
