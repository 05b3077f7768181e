# TLA+ models of Linux_Learning_Code

The repository is a course in Linux threads and network programming, ending in
a small cloud-drive web server. Its programs share a few designs: a bounded
queue under condition variables, a ring under semaphores, a thread pool, and
a one-thread event loop over edge-triggered epoll which hands work to that pool.
The modules here model those designs from the code, TLC checks them on small
instances, and TLAPS proves the central facts for every size.

## 1. Inventory

### The web server (`src/Reactor_WebServer`)

| part | state | operations | talks to |
|---|---|---|---|
| `EpollServer` | listening socket, epoll set, `_revents`, `Connection` objects | `Init`, `Start`, `AcceptHandler`, `RecvHandler`, `SendHandler`, `ExceptHandler` | kernel (epoll, accept, read), pool (`Enqueue`) |
| `Connection` | descriptor, `_inbuffer`, `_outbuffer`, callbacks | constructor, destructor (leaves the descriptor open) | held by raw pointer in `epoll_event.data.ptr` |
| `ThreadPool` (singleton) | `_task_queue`, two condition variables, two waiter counters, `_isrunning`, `_threads` | `GetInstance`, `Start`, `Enqueue`, `HandlerTask`, `Stop` | called by the reactor thread |
| `Thread` | `_isrunning`, `_isdetach`, `_tid` | `Start`, `Routine`, `Join`, `Detach`, `Stop` | pthread |
| `AsyncProcessHttpRequest` | bytes sent | write loop, close | runs on a pool thread, owns the descriptor |
| `Http`, `Comm` | the files below `wwwroot` | upload, list, download | several pool threads at once |
| `Log`, `Lock`, `Cond` | wrappers; the log strategy pointer | | everybody |
| `Socket`, `Daemon`, `main` | none after start | set-up | |
| `server.sh` | `server.pid` | start, stop, restart, status | the process |

A request travels: client -> socket buffer -> `RecvHandler` (reads until EAGAIN,
cuts the request out, takes the descriptor out of epoll) -> task queue ->
worker (writes until done, closes). The descriptor changes owner on the way:
`Connection` object, queued task, worker. **Hard:** the hand-over while
the numbers of closed descriptors are handed out again; edge-triggered
reports, given once; partial reads and writes; clients that leave, reset or
stop at any point; the pool's queue being full, which puts the reactor itself to
sleep. **Correct when** every open descriptor has exactly one owner, no
pointer in the epoll set or in a batch of results is dangling, a client gets a
prefix of its own response and, if it stays, all of it, and no arrival goes
unnoticed.

### Threads (`src/thread_learning`)

| directory | what it has | hard part | correct when |
|---|---|---|---|
| 06_block_queue | queue, mutex, two condition variables | which thread a signal wakes; others overtaking it | bounded FIFO; no wake-up lost |
| 07_ring_queue | ring, two semaphores, two mutexes | producers and consumers do not exclude one another | bounded FIFO; never both in one slot |
| 09_thread_pool | the pool again | hand-kept counters, shutdown, lazy start | accepted tasks run once each, in order; `Stop` drains and returns |
| 08_log_strategy | logger with replaceable strategy | replacement while logging | lines whole and in the chosen place |
| 02_Thread | `Thread` wrapper | flag written by two threads | every started thread reclaimed once |
| 01, 03, 04, 05 | single-call demonstrations; a ticket sale | test and decrement | no ticket sold twice |

### Networking (`src/network_learning`)

| directory | state | hard part |
|---|---|---|
| 01-03 UDP | none; none; list of users (03) | join and leave by received datagrams |
| 04-07 TCP echo and command | per session; process, thread or pool thread per client; a running command (06, 07) | sessions holding threads; zombies; commands that inherit connections |
| 08 calculator | `inbuffer` per session | framing; int arithmetic |
| 09 HTTP with sessions | `g_sessions` | a session table that the threads of all connections use without a lock |
| 10, 13 | none | demonstrations of non-blocking reads |
| 11 select, 12 poll | the watched table | the table changes while it is scanned |
| 14 epoll echo | epoll set | one unchecked write |
| 15 line reactor | epoll set, `Connection` with both buffers | handlers that delete the object of their caller |

## 2. Modules

| module | models |
|---|---|
| `CondVar` | condition variables, as operators on a function thread -> "waiting", "woken", ... |
| `Lemmas` | what the proofs of several modules need about sequences, tables and condition variables |
| `BoundedFifo` | abstract: a bounded FIFO of items |
| `BlockQueue`, `BlockQueueProofs` | 06_block_queue; refines `BoundedFifo`; proved |
| `RingQueue`, `RingQueueProofs` | 07_ring_queue; refines `BoundedFifo`; proved |
| `WorkPool` | abstract: what a pool promises its callers |
| `ThreadPool`, `ThreadPoolProofs` | the pool and its `Thread` objects; refines `WorkPool`; both proved |
| `ReactorServer`, `MCReactorServer`, `ReactorServerProofs` | the web server: reactor, pool workers, kernel, clients together; its safety proved |
| `LineReactor`, `MCLineReactor`, `LineReactorProofs` | 15: line framing, answers through EPOLLOUT, object lifetime; its safety proved |
| `TcpClients` | the clients of the TCP servers and the kernel between them; the next five extend it |
| `SessionServers` | 04 to 07: one session, run in the accepting thread, a grandchild process, a thread or a pool thread |
| `MuxServers` | 11 (select) and 12 (poll): the table of descriptors and its scan |
| `EdgeEcho` | 14: edge-triggered echo with one unchecked write |
| `Protocol`, `Calculator` | 08: framing and arithmetic as operators; its server and client |
| `HttpSessions` | 09: a thread for each connection, the routes, login, cookies, `g_sessions` |
| `UdpServers` | 01 to 03: echo, dictionary, chat |
| `CloudDrive`, `MCCloudDrive` | `Http.cpp` and `Comm.cpp`: uploads, downloads and listings by several workers |
| `Deployment` | `server.sh` start, stop, restart; `socket`, `bind`, `listen` of every server |
| `Logger` | `LogMessage` and the two strategies |
| `Keyboard` | 10 and 13: reads of standard input |
| `Tickets` | 01_Test, 03, 04: the ticket sale without lock, with mutex, with guard |
| `CondDemo` | 05: waiting without a condition, signals, one broadcast |
| `ThreadHandle` | 02_Thread: the wrapper under any order of its owner's calls |
| `ThreadPrograms`, `ThreadProgramsProofs` | `Deployment`, `Logger`, `Keyboard`, `Tickets`, `CondDemo` and `ThreadHandle`, one at a time; their safety proved |
| `NetworkPrograms`, `MCNetworkPrograms`, `NetworkProgramsProofs` | the programs from `SessionServers` to `CloudDrive`, one at a time; what the clients say in the run; their safety proved |

`ThreadPrograms` and `NetworkPrograms` put programs that do not talk to one
another into one run: `part` says which of them a behaviour is of, each is an
INSTANCE of its module, and every property says of each part what the part's
module defines. Variables that only other parts have are `Unused`. The programs'
modules stand alone too (each has its own `Next` and properties).

### How state and actions correspond to the code

**Atomicity.** A stretch of code under one mutex is one action. A wait on a
condition variable ends the action: the thread becomes "waiting", a signal (or
nothing at all: spurious wake-ups are actions) makes it "woken", and its next
action, taken when the scheduler lets it have the mutex, is the loop test after
`pthread_cond_wait`. Which sleeper a signal wakes is any choice. Code
outside mutexes that other threads can observe goes step by step: the slot
copy of the ring, `Start`, `Thread::Start`, `Routine`'s last line and `Join` of
the pool, every handler call of the reactor and every `write` of a worker.

**BlockQueue.** `Enqueue`/`Pop` are a call from its first line, `EnqueueResume`/
`PopResume` the same body after a wait; `in[p]` is the argument a sleeping
`Enqueue` still has to store.

**RingQueue.** `PushReserve`, `PushLock`, `PushStore`, `PushPost` are the four
synchronising lines of `Push`; between `PushLock` and `PushStore` the slot is
being written. `Pop` alike.

**ThreadPool.** Callers either submit a task or, `Main` only, call `Stop`;
both begin with `GetInstance` (`GetInstanceFast` without the mutex,
`GetInstanceCreate` with it, followed by `Start` one thread at a time).
`pthread_create` may fail up to `MaxCreateFailures` times. `flag` is
`Thread::_isrunning`, written by the starter, the thread and the joiner.
Assumed: `Stop` is not called while another caller's `Start` is still
filling `_threads` (nothing in the code prevents it; the programs do not).

**ReactorServer.** One module, because the properties are about the hand-over.
The kernel is external and modelled as far as the code relies on it: a ready
list filled by arrivals on members of the epoll set, reports taken off it once,
lowest free descriptor first, EMFILE when none is free, ECONNRESET/EPIPE after
RST. `pc` says which handler the reactor is in; `Delete` is separate from
`Enqueue` because the worker may already run in between. Requests and
responses are counted units: `ReqLen[c]` units make a complete request, the first
`HeadLen[c]` of them its header. When the header has become complete `RecvHandler`
parses its `Content-Length`; of a client that is not polite it may be something
that `std::stoul` refuses (EpollServer.cpp:123), and nobody catches the exception:
`RecvThrows` ends the process, `pc` is "aborted" and no thread takes a step again. `SendHandler` is unreachable:
nothing appends to `_outbuffer` or asks for EPOLLOUT.

**LineReactor.** Single-threaded; the interleaving is between one system call of
the server and the next with clients and kernel. `pc` is the handler,
`cur`/`bits` the entry being dispatched, `back` who called `SendHandler`. Where the code
reads a deleted `Connection`, `pc` becomes "undefined" and nothing more is
claimed; where RST has followed FIN, `write` raises SIGPIPE, which this server does
not ignore, and `pc` becomes "killed". (Only 08 and the web server call `Daemon`,
which ignores SIGPIPE; in 09 the call is commented out, Main.cc:13.) Characters are
abstract (`x`, line break, NUL); `UpToNul` is what
`_inbuffer += buf` does with a NUL, `Response` is `ToUpperService` with its
fixed text as one character.

**TcpClients.** `Connect`, `Send`, `Receive`, `Leave` are the client's calls, with
the kernel's backlog, two streams of units (`rx` to the server, `tx` to the
client), FIN and RST in between. A unit is the least that the program tells
apart: a character, a field, a header line. A message reaches the server in any
pieces; `Said` is every way to answer a stream that is read in pieces. Polite clients
follow the repository's client programs; the others send, read and leave when they like.

**SessionServers.** `main` is the accepting process, `sess[c]` the session,
`holders[c]` who has a copy of its descriptor: the double fork of 05 is the
steps `Fork`, `MainCloses`, `SecondFork`, `MainWaited`. A fork or a
`pthread_create` may fail. The answers are echoes (04, 05) or, in 06 and 07, what
`Command::Execute` returns: a refusal at once (`Prompt`), or the output of a command
that `CommandStarts` runs and `CommandEnds` ends, after any time or never. In
between the session waits (`cmd[c]` is what it runs), and the shell that `popen` forked
has a copy of every connection that was open (`copies[c]`), because `accept` does not
set SOCK_CLOEXEC: the client of such a connection does not see its end (`Closed`)
before the command ends.

**MuxServers.** `Wait` fills `hits`; the scan goes entry by entry with the
connection work in between, so that slots are freed and filled under it.
`FD_SET` and `poll_fds` are one table; standard input is descriptor 0 of 11.

**EdgeEcho.** `ready` and `batch` as in the reactor; `inbuffer` is the local
string of `RecvHandler`. The last read, which says EAGAIN, and the write are one step.

**Calculator.** `Recv`, `Answer` and `SessionEnd` are the loop of the session;
`Execute`'s + - * wrap, / and % truncate, and the quotient that is no int traps.
The JSON inside a message is a tuple of its three fields.

**HttpSessions.** One `recv` per connection. A use of `g_sessions` is a call and a
return: two that overlap, one of them an insertion, are a data race (`raced`), after
which the map may hold or find anything (`MapReturn`), crash the server, or keep its
thread for ever (`MapBreaks`, "hung"). `alive` is the process: it also ends when `send`
to a client that has reset its connection raises SIGPIPE (`Answer`), and when the URL
is a directory, whose `tellg` of -1 makes `resize` throw in the session's thread
(`Throws`; on a file system that gives directories a size the answer is as many
zeros).

**UdpServers.** `Transmit`, `Handle`, `Lose`: datagrams are handled one at a time in
any order, cut at the buffer's size.

**CloudDrive.** A worker's request goes step by step: `open` with O_TRUNC, the
`write`, each `read` of a block, each entry of a listing. `FileData` is the
search for blank line and boundary in the form. Opens may fail and writes may be
short. `ReactorServer` has the same requests without their content, and a
response of fixed length, since what it is about does not depend on them.

**Deployment.** The processes of the machine, by number, and the script's steps between
them: `lsof` gives the list that becomes `PID`, `kill` reaches a process only if
that list has one number. `clean` says that the last lookup found the server
alone; a `start` may be under way while `stop` looks. A process whose set-up
fails frees its number. Each server is a row of four facts of its set-up.

**Logger, Keyboard, Tickets, CondDemo, ThreadHandle.** Each thread has a place `at`; a
step is the code between two lines another thread can see: `ticket--` is a load
and a store, a console line two writes, `Join` its test and its `pthread_join`.

## 3. Runs

| run | instance | question |
|---|---|---|
| block_queue | 3 producers, 2 consumers, 2 places, 2 items | capacity, no lost wake-up, FIFO, progress |
| ring_queue | 3 producers, 2 consumers, 2 slots | semaphores and indices agree, no torn slot, FIFO, no deadlock |
| thread_pool | 2 callers, 2 workers, 1 place, 3 tasks, 1 failing create | counters, wake-ups, drain, order, progress |
| thread_pool_sleepers | 3 callers, 1 worker, 1 place, 4 tasks | a violation: see below |
| thread_pool_reclaim | 2 callers, 2 workers, 1 task | a violation: see below |
| thread_pool_early | 2 callers, 1 worker | a violation: see below |
| reactor | 3 clients (2 polite, 1 of any behaviour, its `Content-Length` included), 2 descriptors, 2 workers, 1 place | ownership, lifetime, own and whole response, no missed edge, every polite client served as long as there are descriptors and the server runs |
| line_reactor | 1 client that stays, 1 of any behaviour, reads of 2, send buffer of 1 | framing, answers whole and in order, no missed edge, no stalled output, progress |
| line_reactor_deleted | the same | a violation: see below |
| network_programs | seven parts, below | right answers, descriptors open as long as a session needs them and no longer, tables exact, no missed edge, the polite client served |
| thread_programs | six parts, below | tickets, handles, output, service script, everybody ends |
| upload_exact | 2 workers, 2 requests, 1 unit of data or none | a violation: see below |

The parts of `network_programs` (389,650 states) and `thread_programs` (148,120 states):

| part | instance | why it is enough |
|---|---|---|
| sess | 2 clients of two messages, reads of 3, 1 pool thread, 1 failing fork or create | an echo longer than one read; a second client that waits for the only thread; a failure at either fork; a command that runs while the other session ends |
| mux | 3 clients, 2 descriptors, reads of 1 | slots and numbers are used again within a scan; standard input ends at any point |
| echo | 3 clients, 2 descriptors, reads of 1, send buffer of 3 | accept fails; a second answer finds the buffer full |
| calc | 2 clients, 4-bit int, eight first requests | each edge of the arithmetic, and both codes of a division by zero; messages cut anywhere |
| http | 3 clients, three sets of requests, 1 failing create | two logins and a lookup that race, or do not; body later than header; every route; one directory (`Dirs`), a stopped browser |
| udp | 2 users, 3 datagrams, 4 texts, buffer of 3 | join, speak, leave; empty and cut datagrams; any order |
| drive | 2 workers, 3 requests, 3 names, 4 contents, 1 failure | upload against upload, download and listing of one file, each of two blocks |
| sale | 2 sellers, 3 tickets | both sellers at the last ticket |
| demo | 3 threads, 3 signals | a signal with nobody waiting, one too late, one too many |
| log | 3 writers, 2 records each | a writer waits for the mutex while another has half a line out; the strategy is replaced meanwhile |
| keys | 4 keys, reads of 2 | input left over after a read |
| handle | 5 calls | Start, Stop, Start, Join, Detach in any order |
| service | 3 processes, 2 polls, 3 commands | the server, a client of the port and another service at once; start, crash, restart |

**Bounds of the larger components.** Queues: more producers than places, so that
producers overtake and sleep while consumers do too; two places are the least
for which the order of items and the wrap-around show; two item values suffice
to tell items apart, because the code never looks at them. Pool: one place
makes every second `Enqueue` sleep; two workers let one sleep while the other
works; a failing create leaves the pool with one. Three tasks, each offered at
most once, bound the behaviours; a caller may submit several. Reactor: two
descriptors for three clients make accept fail and descriptor numbers be
reused; a request of two units arrives in pieces, a response of two units over
a send buffer of one meets EAGAIN; a queue of one place puts the reactor to
sleep in `Enqueue`. Each client connects once, so `exhausted`, which remembers
that accept has failed, delimits what is claimed after that. Line reactor: the
staying client sends two lines, one of them empty, and may be read in any
pieces up to the read size of 2 (7 in the code); every answer is longer than
the send buffer of 1, so each one needs EPOLLOUT; the other client's line has a
NUL and it may half-close, close or reset at any step. `accept` and `epoll_ctl`
may fail at any time. The run `reactor` has 733,197 states; there every request has a
header of one unit and a body, so that the header is complete before the request is.

**Deadlock** is checked for the two queues, whose callers loop for ever. The
other runs end when no caller, client or user wants anything more.

**Fairness.** Each thread or process that can take a step eventually does (weak
fairness of its whole next-state action: the Linux scheduler runs every
runnable thread, and mutexes are eventually acquired since every critical
section is short). Tasks return. Callers need not call. In `reactor`
polite clients connect and send their request, and everybody still connected
reads what has arrived; in `line_reactor` the staying client does; in
`network_programs` the polite client c1 goes on, nobody else need do anything, and
commands that c1 gives to 06 or 07 end, those of others need not. That is
an assumption about clients and not about the server: a client that never
reads holds a worker of the reactor for ever (Business.cpp:47-50). Nothing is
assumed of the operator of `server.sh`, of the network under UDP or of the
cloud drive's callers, whose parts have safety properties only.

**What "served" excepts.** `EveryoneServed` says, of the polite client, that it
gets its answers and its connection is closed, or that for ever from some time
on it is `Blocked`, or that one of the named failures has hit it. Each exception is something the code
does and is spelled out in the part's module: in 04 and 08 another client is in
the only session, in 07 in all the pool's threads, in 05 the parent waits for a
child that serves because its fork failed; 06 and 09 leave a connection open
when no thread could be made; in 06 and 07 another client's command that never ends
has a copy of the connection, so that the client, answered, does not see its end, and
in 07 it has a thread; SIGPIPE has killed 04, 06, 07 or 09; 09 has died of a race on
`g_sessions` or of a directory somebody asked for, or the race keeps the client's own
thread for ever; in 11 and 12 others keep every descriptor; 11
drops one client after the end of standard input; 14 has met EMFILE; the
division that traps kills 08. 05 and 06 have no exception for clients that only
idle, and that is what the property shows of them. `PoliteServed`, of the web server,
excepts that accept has met EMFILE (`exhausted`) and that another client's
`Content-Length` has ended the process ("aborted"); `AnsweredWhole` excepts the latter.

**What `DescriptorsAccounted` says of 04 to 07.** The processes of the server (accepting
process, child, grandchild, threads) have a connection's descriptor open as long as
its session needs it and no longer, but for the one step of 05 in which the parent has
forked and not yet closed. It does not say that the client sees the end then: in 06
and 07 a running command has copies, which the property bounds (only of connections
that were accepted, only in 06 and 07, only while the command runs) and `EveryoneServed`
takes into account.

**Outcomes that no property forbids**, because the code does not: the end of the web
server by a `Content-Length`, the crash or the loop after a race in 09, the rest of
an echo that 14 loses (`cut`), clients left in the backlog after EMFILE, a list
of processes that `kill` does not take or a client killed in the server's place
(`clean` is FALSE). The models contain them, the hazards list them without a property, and
the properties say what holds without them.

**What the violations show.**
- `StopReleasesProducers`: `Enqueue` waits while the queue is full whether or
  not the pool runs (ThreadPool.hpp:115, against the comment above it). Two
  producers asleep when `Stop` comes are woken together, find the queue still full and
  sleep again; the workers' last pops wake one, and it returns false without
  waking the other.
- `AllThreadsReclaimed`: `Routine` clears the flag that `Join` looks at, so a
  thread that leaves quickly is never joined although `Stop` logs that all
  were.
- `NoUseAfterDelete`: a client of 15 that resets its connection while its line is
  being answered makes `write` fail; `SendHandler` has `ExceptHandler` delete the
  `Connection` and returns into the loop of `RecvHandler`, which goes on with it.
- `RefusedOnlyAfterStop`: `_instance` is set before the pool is started, so a
  second caller's `Enqueue` may be refused by a pool nobody has stopped.
- `UploadExact`: for an empty file the data ends where it starts, and Http.cpp:47
  tests with <= : the line break and the boundary are stored as the file.
  `DriveRight`, in `network_programs`, holds for every other upload.

## 4. Proofs

`Lemmas` is what the other proofs share. Of numbers: a set of them has a least member
(`LeastMember`, by which inductions are done, through the least counterexample). Of
sequences: what concatenating, appending, cutting and filtering do to the set of
members (`Members`) and to their being different (`Once`). Of tables of slots
(`Lists`): what entering and removing a name leaves. Of condition variables: moving
one thread to or from "woken" changes the number of woken threads by one, moving
another leaves it, and `Signalled` either finds nobody waiting or adds exactly one.

`BlockQueueProofs` proves, for any finite sets of threads, any items and any
capacity above zero (`BlockQueueAssumption`):
- `TypeCorrect`: `Spec => []TypeOK`, which is inductive;
- `WakeupsKept`: `Spec => []NoLostWakeup`. The invariant compares a queue
  length with the number of woken threads on each side; it is inductive
  together with `TypeOK`: an `Enqueue` adds an item and, if a consumer sleeps, a
  woken consumer; a consumer that goes to sleep has just seen an empty queue;
  a consumer that takes an item leaves both sides one smaller;
- `Refinement`: `Spec => ImplementsFifo`.

`ThreadPoolProofs` proves, for any number of workers above zero, any finite set
of callers, any tasks and any capacity above zero (`ThreadPoolAssumption`):
- `TypeCorrect`, `CountersCorrect`, `WorkersWoken`, `ProducersWoken`:
  `[]TypeOK`, `[]CountersExact`, `[]SleepingWorkersCovered`,
  `[]SleepingProducersCovered`. None is inductive alone. `Shape` adds to the
  types who can be where: only the holder of the static mutex is inside `Start`,
  nobody waits before `Start`, only submitters wait for room, the join loop
  runs after `_isrunning` was cleared. `Covered` has the counters and the
  wake-ups: `if(_thread_wait_nums > 0) Notify()` wakes a sleeper exactly when
  there is one because the counter is exact (`CountedNotify`), so each stored
  task brings a woken worker; each taken task frees a place and brings a woken
  producer; `Stop` leaves no worker asleep. The types depend on `Covered` in
  turn: a counter that is decremented stays a natural number because it
  counts the thread that decrements it;
- `StopHasDrained`: `[]StopDrains`, from `IInv`, which adds `ThreadsFit` (behind
  the start loop a thread has its flag set or is gone; behind the join loop it
  is gone; it leaves only with the pool stopped and the queue empty) and
  `NothingDropped` (a task accepted and not done is in the queue or in a thread).
  It needs that not every `pthread_create` failed
  (`MaxCreateFailures < ThreadCnt`): then one thread ended, and it ended on an
  empty queue;
- `AlwaysHeldOnce`: `[]HeldOnce`, a task handed in and not ended is held in one place
  only, by one caller, in one place of the queue or by one worker;
- `Refinement`: `Spec => ImplementsWorkPool`. `Enqueue` is `Accept` or `Reject`,
  `StartRunning` is `Open`, `StopBegin` is `Close`, `HandlerTake` is `Begin`,
  `RunTask` is `Finish`, everything else stutters. That a task is accepted or turned
  away once needs `HeldOnce`; that the pool opens once needs `OneStarter`.

`RingQueueProofs` proves, for any finite sets of threads, any items and any
number of slots above zero (`RingQueueAssumption`):
- `TypeCorrect`, `SemaphoresAgree`, `SlotsNotTorn`: `[]TypeOK`,
  `[]TicketsAgree`, `[]NoTornSlot`. `TypeOK` is not inductive (a semaphore may
  only be raised because a ticket is out), so the invariant counts the tickets:
  `Balance` says that free slots, slots promised to producers, slots read and
  not given back, items announced, items stored and not announced, and items
  promised to consumers are `Cap` together, and that the last three separate
  `_p_step` from `_c_step`. `Shape` says who can be where. `AtMoves` counts the
  threads at a place; `EndAdvances` and `StartAdvances` are the
  arithmetic of the wrap-around. A thread that writes and one that reads hold a
  ticket each, so the ring is neither full nor empty and the indices differ;
- `Refinement`: `Spec => ImplementsFifo`, where the abstract queue is what lies
  between the indices. `StorePuts` needs that a producer's slot is none of the
  occupied ones (`PlacesApart`), `LoadTakes` that advancing `_c_step` drops
  exactly the first.

`ReactorServerProofs` proves every invariant of the run `reactor`, for any clients,
descriptors, workers, request and response lengths, buffers and queue sizes above
zero (`ReactorServerAssumption`): `TypeCorrect`, `OneOwner`, `NothingDangles`,
`ResponsesOwn`, `DataKept`, `ConnectionsKept`, `AnswersWhole`. None is inductive
alone. `IInv` follows a connection through the hand-over: in the backlog it has
neither object nor descriptor (`Ends`); then it belongs to one of a live
`Connection`, a queued task, a worker (`Apart`), whichever it is knows its
descriptor, and every open descriptor has such an owner (`Owned`). `Shape` says what
the event loop may rely on: an entry of the batch is in the epoll set and is not
the entry in hand, which is why the object deleted after `Enqueue` is named by
no later entry. `Written` counts what a client has and has coming: nothing
before a worker has the task (`Unwritten`), what that worker has sent so far
(`InStep`), the whole response once the descriptor is closed (`Complete`), each
unit in its place (`InOrder`). `RecvThrows` leaves everything as it was but what it has
read; `AnswersWhole` says nothing of a server that has ended.

`LineReactorProofs` proves every invariant of the run `line_reactor`, for any
clients, scripts and sizes (`LineReactorAssumption`). `TypeCorrect`,
`PointersLive` (`EventsLive`), `InputReported` (`NoMissedInput`) and `OutputMoves`
(`NothingStalled`) follow from `IInv`: the object in hand exists while the server
is alive, the entries after it are others' and exist, a connection in the
backlog has no object and empty buffers, and `SendHandler` runs outside
`RecvHandler` only when no complete line is left. `NothingLost`
(`StreamPreserved`) needs `SInv` as well: what was read and what is still in the
kernel's buffer are together what was sent (`Arrived`), an untouched connection
has nothing (`Untouched`), and what a client has, has coming and will be answered is
the reference reading of what was read (`Framed`). The lemmas about that reading
are inductions over the text, done by the least counterexample (`LeastMember`), and
say that reading s and then t is reading s \o t, so that neither the pieces in which
`read` returns the input nor those in which `write` takes the answers matter.

`ThreadProgramsProofs` proves the invariants of the run `thread_programs`, for any
threads, tickets, records, keys, calls, processes and commands
(`ThreadProgramsAssumption`); each part has an invariant of its own:
- `SoldOnce` (`TicketsSold`), with `SaleInv`: with a lock, the holder of the mutex
  is the one seller between lock and unlock, and the counter differs from what is
  left only between its printing a number and its storing the next;
- `NamesLiveThreads` (`HandleSafe`), with `HandleInv`: without Detach a thread that
  was joined has its flag cleared, which is what every later call looks at, and
  until Stop a thread that may still run has its flag set unless Start is just
  about to;
- `OutputIsWhole` (`OutputWhole`), with `LogInv` and, for the keyboard programs,
  `TypedIsPrinted`: a writer has half a line out exactly while it holds the mutex of
  the console's strategy (`LogControl`), and the records of both destinations and
  those that failed are each writer's first ones, each once and in order
  (`LogKept`);
- `ServiceIsRight` (`ServiceRuns`), with `ServiceInv`: one process listens; a server
  that `server.sh` starts may take a port in TIME_WAIT; what `stop` reports is so
  when it looked at the server alone (`CleanStop`); a start that reports failure
  had a mishap (`ComesUp`). The number of processes need not be finite.

`NetworkProgramsProofs` proves the three invariants of the run `network_programs`, for
any clients, talks, texts, files, descriptors and sizes
(`NetworkProgramsAssumption`). `PartInv` gives each part an invariant:
- `DescriptorsAlwaysAccounted` (`DescriptorsAccounted`). For 04 to 07 `SessInv` says
  of each process that has a copy of a connection's descriptor where it must be, and
  of each stage of a session who has one (`Held`): the accepting process between
  `accept` and `close`, the child of 05 until it has forked, the server until the
  session ends. That a queued session has a descriptor, and that nobody is queued or
  in the backlog twice, is `SessQueue`; that commands run only in 06 and 07 and have
  copies of accepted connections only, and only while they run, `SessCommands`. For 11 and 12 `MuxInv` says that
  the table has each watched descriptor once and nothing else (`Lists`), that
  select's has no gap (`Full`), and that `accept` returns 0 only after standard
  input was closed, which is the one connection the scan then loses. For 14
  `EchoInv` says that a client has one connection, in the backlog or under one
  descriptor, and that the ready list and the batch name open descriptors once;
- `NothingEverMissed` (`NothingMissed`), also from `EchoInv`. A report leaves the ready
  list only for the batch, `epoll_wait` drops only what has nothing to report, and
  the handler leaves the batch only at EAGAIN; what arrives meanwhile is listed
  again (`EdgeReports`). A descriptor's number is used again only after its reports
  are off both lists, and what came before the `EPOLL_CTL_ADD` is reported by it;
- `AnswersAlwaysRight` (`AnswersRight`), part by part:
  - 04 to 07 and 14 (`SaysInv`, `RightInv`): what a client has got and what is on its way
    to it is an answer (`Told`) to the part of its stream that was read, and what is
    not read is the rest (`Says`, `Echoed`). In 06 and 07 the command that runs stands
    between the two: it is the piece read last, and it is not answered (`Conversed`,
    `Commanded`). For 14 `Pend`, what `RecvHandler` has read
    and not answered, stands between the two. Answers to longer streams are
    continuations of answers to shorter ones (`ComesAfter`, `SaysAll`), so that it does not
    matter where `read` cuts;
  - 08 (`CalcInv`): either part of the next request has come and nothing of its answer
    is under way, or the request is decoded and what the client has and has coming
    is the answer to it (`Talking`). `DecodeEncode` says that a framed message of
    any length at the front of any buffer is found, taken exactly and what follows it
    left, `DecodeWaits` that nothing is found in any part that lacks the end;
    `ExecuteRight` is the arithmetic, for every width of int;
  - 09 (`HttpInv`): of what arrives, the first piece already has the request line, and
    has no cookie and no field of the form that the whole has not (`HttpBegun`). A cookie
    that somebody shows is in `g_sessions` as long as no two uses of it have overlapped.
    A thread that is "hung" has answered nothing;
  - 01 to 03 (`UdpInv`): the list has whoever spoke and did not leave since, each once
    (`UdpRoom`), and each datagram that concerns a user is in that user's inbox at
    the place which counting gives it (`UdpAnswered`);
  - the cloud drive (`DriveInv`): a worker that nobody has disturbed since it opened a file
    finds it as it left it (`DriveQuiet`), and the search in the form gives back the
    data that was put into it (`FormData`).

**What the proofs corrected in the models.** In `LineReactor` the return from
`SendHandler` to the loop of `RecvHandler` or to the dispatcher was not told apart
when EPOLLIN and EPOLLOUT are reported together: `back` is now set when
`RecvHandler` is done. In `Deployment` a conjunct of the assignment to `clean` had
become a guard, so that `stop` never looked while a start was under way, and a
process whose set-up failed stayed marked as told to terminate, so that its
number could not be used again. In the network programs it was the properties: in
`HttpSessions` the page of a user was taken to be sent to who has a session only, but
`wwwroot` has a `user.html` that any GET receives, so the property now speaks of
the routes that look a session up; in `Calculator` the cases of `Correct` overlapped for a
division by zero, which leaves a CASE undetermined; the chat's property spoke of
the latest datagram, not of every one; the echoes' bounded what was answered
without relating it to what was read, which `Said` now does.

Every invariant of every passing run is proved, and so are the two refinements of
`BoundedFifo` and the one of `WorkPool`. Only model-checked is the liveness (fairness
and ENABLED are outside the prover). The assumptions on what clients say are those of the programs that
say it: lines of characters (04 to 07, 14), framed requests of two ints and an operator
(08), a request line, header lines and a body (09), any file content, its form's
own boundary included (the cloud drive). TLC evaluates them with the run. Some definitions
are as they are so that they can be proved about: `SessionServers`, `EdgeEcho`
and `TcpClients` use recursive functions instead of RECURSIVE operators and of
`SelectSeq`, which the provers cannot expand, and `TcpClients` defines the two operators
it needs of `SequencesExt` itself, because its five servers would bring the whole
of that module into every step of `NetworkProgramsProofs` five times over.

## 5. Not modelled

- Formatting: pages, log lines, level names, time; NUL and text conversion where no
  property needs them (`LineReactor` has NUL, where it does).
- 08: requests that are not well formed: a length that is no int, for which
  `std::stoi` throws (Protocol.hpp:24), a negative one, and JSON that is none. Its clients, the
  repository's own, send neither; what is shown of 08 "whatever the others do" is about
  others that may be slow, idle or gone, and whose requests are framed.
- Web server: a `Content-Length` that `stoul` takes although it is not the length of
  the body, such as a negative one or one with which `header_len + content_length`
  wraps around (EpollServer.cpp:123-128); a request reaches
  `HttpHandler` only with a complete header, so its early return for an empty
  one cannot be taken; every upload's form ends with its boundary.
- 06 and 07: a command that leaves a process behind when it ends, which would keep its
  copies; the shell's copy of the listening socket, which matters only to a server
  that is started again meanwhile; what a command does to the machine.
- A client that resets its connection at any time is in the reactor servers and in 09;
  elsewhere a reset comes only of closing with answers not yet read.
- 14: an `EPOLL_CTL_ADD` that fails, and a reset between the last read and the
  write. 04 to 07: running out of descriptors.
- `Thread`: a second `Start` while a cancelled thread has not ended.
- `server.sh status`, which changes nothing; a process number used again while
  the script runs. `Daemon`: fork, setsid and redirections are one-shot; 08
  and the web server call it and have SIGPIPE ignored from the start.
- The pages under `wwwroot` and the makefiles.

Open: an abstract specification of a server (every connection is answered from its
own requests) which `ReactorServer` and `LineReactor` would implement; a
composition of `CloudDrive` with `ReactorServer`.
