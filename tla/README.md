# A TLA+ model of cyan

cyan is a set of C++ libraries: lock-free containers (`lockfree/`), an event loop over libev
(`event/`), threads that run event loops and execute posted tasks (`dispatch/`), and sockets
on the event loop (`net/`). This directory holds TLA+ models of all of them, the TLC
configurations that check them, and theorems that TLAPS checks. Paths below are relative to
the root of the repository.

    tlc -workers 2 -config SerialDispatch.cfg MCSerialDispatch   # one run
    tlapm SerialDispatchProofs.tla                               # one module's proofs

## 1. Inventory

| part | state | operations | what is hard |
|---|---|---|---|
| serial dispatch: `dispatch/…/handler_thread.cxx`, `message.*`, `serial_token.*` | per thread a queue, `stopping_`, the wake-up; per token `current_sequence`, `executing_sequence`; per message its number | `post` (plain, with token, with timeout), `process_queue`, `try_acquire`/`release`, `stop` | tasks of one token spread over threads, put back until their turn; stops in between |
| handler thread life cycle: `handler_thread.cxx` | `running_`, `stopping_`, `queued_event_`, the loop | constructor, `execute`, `enqueue`, `stop`, destructor | posts and stops that arrive while the thread comes up |
| thread pool, `async`: `thread_pool.*`, `async.h` | `cur_idx_`, the vector of threads | `post`, `start`, `stop` | the choice of a thread by compare-and-swap; posts after `stop` |
| freelist: `lockfree/…/freelist.h` | `head_`, `size_`, `next` in the nodes' memory | `allocate`, `deallocate`, destructor | an untagged list; a counter beside it |
| queue: `queue.h`, `tagged_ptr.h` | `head_`, `tail_`, `next` and `data` of the nodes | `enqueue`, `try_dequeue`, `empty`, destructor | recycled nodes, stale reads, moved values |
| stack: `stack.h` | `head_`, nodes from a freelist | `push`, `try_pop`, `clear`, destructor | ABA |
| async event: `basic_async.txx` | `count_`, libev's `sent` and `pending` | `send` from any thread, the callback, which may send again | coalesced sends |
| events and loops: `event_base.h`, `basic_timer.h`, `basic_signal.h`, `basic_idle.h`, `basic_io.txx`, `basic_loop.txx`, `backend_libev.cxx` | one libev watcher each, the loop they belong to; libev's lists, its pending watchers, its flags | `start`, `stop`, `set_loop`, setters, moves, destructors; `ev_run` | calls from callbacks; events found and not yet called; loops that die first |
| timer wheel: `basic_timer_wheel.h` | requests by id, entries by expiry | `post`, `cancel`, `reset`, `bookkeeper` | entries whose expiry changed; callbacks that call the wheel in its walk |
| sockets, acceptor: `net/…/basic_socket.h`, `ip/basic_stream_socket.h`, `ip/basic_socket_acceptor.h` | a descriptor, its event, callbacks, remembered endpoints | `open`, `close`, `bind`, `connect`, `accept`, callbacks, the events' own callbacks | errors that close a socket in a callback; descriptors whose numbers return; steps that fail halfway |
| socket operations, options: `detail/socket_ops.cxx`, `detail/socket_option.h` | the kernel's | one system call each, some with steps that undo it | the undoing |
| addresses, endpoints | values | conversions between host and network order | byte order |
| UUIDs, traits | values | - | pure |

How they interact. A client calls `handler_thread::post` (directly, or through a pool or
`async`); `enqueue` pushes the message into the thread's lock-free queue and sends its async
event; libev wakes the loop, which calls `process_queue`; that takes messages until the queue
is empty, runs those whose token admits them, and pushes the others back. Delayed messages go
from `process_queue` into the timer wheel of the thread and run from there. `stop` sets
`stopping_` and, in safe mode, sends a stop message only when the queue is empty; otherwise
`process_queue` stops the loop when it finds the queue empty. Nodes of a queue come from the
freelist that the queue owns. Threads share the queue, three atomics and the token; nothing
is locked.

What makes each part correct:

- serial dispatch: tasks of a token execute one at a time and in the order of their posting;
  every task is in one place; a task whose queue is not empty is not forgotten by a sleeping
  loop; posted tasks run while nobody stops; a stop ends the loop and loses no accepted task;
- handler thread: nothing posted during the start is forgotten; `stop` finds the event it
  signals; the destructor returns;
- freelist: no node is handed out twice or leaked, the counter is right, the destructor's
  assertions hold;
- queue: linearizable, no item lost or duplicated, no pointer followed into a recycled node,
  calls return, all nodes given back in the end;
- stack: linearizable, and every node in one place;
- timer wheel: its two maps agree, every request fires once, not before its time, unless
  cancelled, and the timer runs while there is a request;
- events: no watcher is left in a loop after its event is gone, a stopped event is silent, idle
  events wait for the others, no wake-up is lost, and none comes without a cause for ever;
- pool: posts go round the threads and return, `stop` returns when all has run that waited for
  neither a time nor a turn;
- sockets: an open descriptor has an owner, and only one unless the user has shared it, events
  watch the descriptor of their own socket, remembered endpoints are current, input reaches its
  callback.

## 2. Modules

| module | what it models | run from |
|---|---|---|
| `SerialExecutor` | what a serial token promises: a task starts when it is its turn | - |
| `SerialDispatch` | clients, handler threads in their loop, tokens, delayed tasks, stops | `MCSerialDispatch` |
| `SerialDispatchProofs` | the theorems about `SerialDispatch` | - |
| `HandlerThread` | one handler thread from constructor to destructor | `MCHandlerThread` |
| `NodePool` | what a pool of nodes promises | - |
| `Freelist` | the freelist, by atomic accesses | `MCFreelist` |
| `NodeLists` | what is said of a list of nodes in the proofs about `Freelist` and `LockfreeStack` | - |
| `FreelistProofs` | the theorems about `Freelist` | - |
| `FifoQueue` | what a linearizable queue promises | - |
| `LockfreeQueue` | the queue, by atomic accesses, over the promise of `NodePool` | `MCLockfreeQueue` |
| `LockfreeQueueProofs` | the theorems about `LockfreeQueue` | - |
| `LifoStack` | what a linearizable stack promises | - |
| `LockfreeStack` | the stack, by atomic accesses, over the promise of `NodePool` | `MCLockfreeStack` |
| `LockfreeStackProofs` | the theorems about `LockfreeStack` | - |
| `ThreadPool` | the pool: the index, posts, `start`, `stop`, over the promise of `HandlerThread` | `MCThreadPool` |
| `ThreadProofs` | the theorems about `HandlerThread` and `ThreadPool` | - |
| `TimerWheel` | the timer wheel and the callbacks of its requests | `MCTimerWheel` |
| `TimerWheelProofs` | the theorems about `TimerWheel` | - |
| `LibevBackend` | `backend_traits<libev>` and what it uses of libev: watchers, loops, `ev_run` | - |
| `EventLoop` | the events and loops over `LibevBackend`, and senders on other threads | `MCEventLoop` |
| `EventLoopProofs` | the theorems about `EventLoop` | - |
| `Endpoints` | addresses and endpoints, by their bytes | - |
| `SocketOps` | the system calls, the options and the kernel's state | - |
| `Sockets` | stream sockets and acceptors over `SocketOps` and `Endpoints` | `MCSockets` |
| `SocketsProofs` | the theorems about `Sockets`, and about the conversions of `Endpoints` and `SocketOps` | - |

The layers meet by promise: `LockfreeQueue` takes its nodes from a set, the promise that
`Freelist` is checked against; `SerialDispatch` and `HandlerThread` use a sequence with one
step for a push and one for a take, the promise that `LockfreeQueue` is checked against; they
have one flag for the wake-up, which is `sent` of `EventLoop`, where `WakeUp` is checked;
`ThreadPool` has a thread that takes all that was posted from its queue before it ends, the
promise of `HandlerThread`, and does with it what `SerialDispatch` shows: runs it, leaves it to the
timer wheel, or puts it back; `TimerWheel` has a timer that may tick at any time while it is active and
`Sockets` an event that is called for what it watches, as `EventLoop` has them.
Where a layer keeps its promise only in part (section 5: two producers, two consumers), the
layer above is right to the same extent.

In every module a thread has a place in its current call (`pc`, `tpc`, `cpc`, `spc`, `opc`)
and one action per access to shared memory or per call that another thread could come
between. Definitions that begin with "Faulty" are variants of an action with a plausible
defect; nothing uses them but to see that a property would notice. Memory is sequentially
consistent in all modules: the code's relaxed and consume accesses are on counters or
followed by a compare-and-swap on the same location.

### SerialDispatch

State: `queue[t]`, `stopping[t]`, `signalled[t]` (sent and not yet delivered), `loopDone[t]`;
`current[k]` and `executing[k]` of a token; `status[m]`, `home[m]` and `seq[m]` of a message.
A client takes the number, then `enqueue` looks at `stopping_`, then pushes, then sends:
one action each. A thread wakes, takes the head of its queue, lets the token decide
(`CanRun`), runs the task and releases the token, or checks `stopping_` again and pushes the task
back, or hands a delayed one to its timer wheel, which fires it from the loop. `stop` is two to
four steps of its caller. `backlog` is history: what a thread had taken on when first stopped.

### HandlerThread

State: the members `stopping_`, `running_`, `queued_event_` (null, constructed, started), the
queue, the counter and sent flag of the event, libev's `loop_done`, and the places of the
thread, the clients and the owner. `execute` is followed step by step: the only look at
`stopping_`, `running_`, the creation and start of the event, the drain before the loop, the
loop, which begins by forgetting an earlier stop, the callback and its re-send, the end.
`StopWhen` says what the owner waits for before it stops the thread: nothing, an answer, or
that the loop was entered.

### Freelist

`allocate` is: load the head; on null take from the heap; else read `head->next`, swap
(which may fail, also spuriously, and reloads the head), subtract from `size_`; then the user
overwrites `next`. `deallocate` is: compare `size_` with the limit; free to the heap, or link,
swap, add. `uses` is history: how many users hold a node. An allocator that follows a null
head takes no further step (it has crashed); `NoNullHead` says that this does not happen.

### LockfreeQueue

`head`, `tail` and `next` are pairs of pointer and tag; `free` is the pool. A node that is
given back keeps its tag and gets `Junk` for a pointer, which is what the freelist's link
is to the queue. `allocate` and the constructor of the node are one step: between them a
recycled node has a tag above 0 in its memory, so no swap of a stale `(null, 0)` can succeed.
`tail_.load()` in line 190 of `queue.h` is part of the swap that follows: that swap succeeds only if
`tail_` is still what line 180 read. `empty()` loads its operands in either order, which
C++ leaves open.

### LockfreeStack

`push` and `emplace` load the head and swap until it has not changed; `try_pop` reads `next` of the
head it loaded, then swaps, then takes the value, then gives the node back; `clear` takes the whole
list with one swap and walks it. A node that is given back may be allocated at once, and its
`next` is `Junk` meanwhile. A value is taken by the thread that owns the node, so the
take-effect point of `try_pop` is the swap.

### ThreadPool

A post is of a plain task, of one with a timeout, or of one with a token (`kinds`), whose number is
taken with the enqueue in one step; `SerialDispatch` has the two apart. `Work` is what a thread of
the pool does: `Take` has the next task run, leaves it to the timer wheel (`wheel`), or has it in
hand because it is not its turn (`refused`); `PutBack` enqueues that one again, which drops it after
a stop; `Fire` runs a task whose time has come; `EndThread` ends a thread that was stopped and whose
queue is empty, and its timer wheel with it.

`get_next_thread_idx` is a load and a loop of swaps that leaves when a swap *fails*, with what it
found: a poster advances the index, meets the advanced one, and takes it. `stop` asks one thread
after the other and then joins them in the same order. Two obligations of the caller are guards:
no post while the pool is stopped, and no `stop` before the threads run their loops. Its names
differ from those of `HandlerThread`, so that one module states the theorems about both.

### TimerWheel

`requests` and `entries` are the map and the multimap, `cursor` the iterator of the walk, which
is taken entry by entry so that a callback can call the wheel in between. Time is a counter;
the timer ticks at any time while active.

### LibevBackend, EventLoop

Each structure of `backend_traits<libev>` is one operator, with the function that is called as its
first argument (`Async`, `Timer`, `Signal`, `Idle`, `Io`). Of a loop there are the lists
(`listed`, the loop a watcher is active in), the pending watchers, the flag that keeps it from
blocking, the flag that ends it, and the time it remembers. `ev_run` is `Top` (ends, or takes the time),
`Poll`, `PipeClear` and `PipeScan` (the callback of libev's own pipe, which takes the flag down and
then collects asyncs and signals), `Invoke` for each pending watcher, and `Again`. `send` is
five steps of the thread that calls it: count, test, lock, mark, wake. The loop that it locks
(`held`) is the one it wakes and keeps alive, also when `set_loop` gives the event to another loop
in between. `set_loop`, `set_number` and the
destructor are sequences of backend calls between which other threads send (`rest`).
An event is called from outside the loop and from callbacks, its own included. Obligations
of the caller, each a guard that is named where it stands: an event is not destroyed or
overwritten, nor its callback replaced, in its own callback or while another thread sends it;
`operator=` is not used on an active event; the descriptor is not changed under an active
watcher; `set_loop` of an active event is between living loops, and not of one that is only
pending; `set_loop` may come between two steps of a `send`, but the assignment to `loop_ref_`
does not coincide with its `lock()`; no signal arrives for a watcher that is still listed in a loop
that is gone, which libev would follow; an async is moved before it has a callback. `strayed` is
history: the events that came to their loop while a send held another.

### Endpoints, SocketOps, Sockets

`Endpoints` has a number as its bytes on a little-endian host, and each conversion by what it does
to them. `SocketOps` has the descriptors of a process as the kernel sees them: open, listening,
bound and connected to, with input, with an error; each call with the outcomes it
may have. `connect` has those of a descriptor that blocks and of one that does not, whichever the
user has set. An option is handed to the kernel in the width that it has there. `Sockets` has the
members of each object. `ConstructFrom` makes one from a native handle: from one that was lost, or
from that of an acceptor, which then share it (`shared`), as `src/examples/socket.cxx` has it at
lines 14 to 18. A descriptor that the user has opened itself comes to an object as that of a constructor
that opens one. Calls that throw and change nothing are
no steps. Obligations of the caller: of the acceptors that share a descriptor only one is started, and
only the last of them is closed, for `close` of another leaves the rest with a number that is gone or
somebody else's; that of a stream socket, which closes it for an error, is not shared; an object is not destroyed, moved or given another
callback while its callback runs; callbacks are set before `start`, for libev does not notice the
flag of an active watcher; an open socket is not opened again; the writable callback, which is never called, is not
cleared, for that disarms the readable one.

## 3. What the runs show

Every bound is a constant of a `.cfg`. Deadlock is not checked: in all systems the clients
may fall silent, and a finished thread or a destroyed object takes no step.

| run | instance | shows |
|---|---|---|
| `serial_dispatch` | 2 threads, 2 clients, 2 tasks of one token, 1 delayed | one task of a token at a time, in order; `SerialDispatch` implements `SerialExecutor`; every posted task runs |
| `serial_stop` | 1 thread stopped in either mode, 2 clients, 2 tasks of one token, 1 plain | `DispatchInv`, the inductive invariant; accepted plain tasks run before the loop ends; no lost wake-up; a stop ends the loop |
| `handler_thread` | 2 clients, 3 messages; the owner stops up to twice, in either mode, and destroys, after the loop was entered | no lost wake-up from the first message on, the event exists, the backlog of the stop is handled (`LateStopInv`); every message is handled unless the thread is stopped; the destructor returns |
| `handler_stuck_join` | 1 client, 2 messages; the owner stops once it has an answer | expected to fail, section 5 |
| `freelist` | 1 allocator, 1 deallocator, 2 pooled nodes, 2 on the heap | no leak, one user per node, the counter, the destructor's assertions; it implements `NodePool` |
| `queue_consumers` | 1 producer of 3 items, 2 consumers, 4 nodes, values that are copied | the queue is linearizable, its recycled nodes are protected, the destructor frees all |
| `queue_producers` | 2 producers of 2 items, 1 consumer that also calls `empty`, 3 nodes | no item lost or duplicated, `empty()` tells its caller the truth, every call returns |
| `stack` | 2 threads that push 2 items each, 1 that pops, clears and destroys, 3 nodes | every node in one place; the stack implements `LifoStack`; every call returns |
| `thread_pool` | pools of 2 and 3 threads, 1 poster of 5 tasks of any kind, 1 token, 2 stops | posts go round, also over a stop and a start; a post returns; `stop` returns after all ran that was not timed and the first of its token |
| `timer_wheel` | 3 requests, timeouts 1 and 2, time to 4, calls from outside until 1, 2 objects that hold the wheel in turn | the maps agree; the timer runs while needed and calls the right object; requests fire once and in time; every request leaves |
| `event_loop` | each kind of event alone on two loops, and five pairs on one; 3 sends, time to 2 | nothing dangles; a stopped event is silent; idle events wait for others; no wake-up is lost unless the event was moved in the middle of a send; idle events run in the end |
| `sockets` | 1 stream socket, 2 acceptors of which 2 objects are made at a time, 2 descriptors, 1 name of their own, 1 peer | an owner for each descriptor, also when acceptors share one; events watch their own; remembered endpoints are current; input is answered |

Why the bounds are enough for the interesting cases. Two tasks of one token on two threads give
every order of arrival, and a plain or delayed one may stand before and behind them. One thread
suffices where a property speaks of one. Three messages are more than the two that are in
flight when a wake-up is coalesced. The pool has two nodes and the heap two more: the list is
empty, has one and two nodes, and overflows. Three or four nodes for the queue and the stack are
no more than the items and the dummy together, so a node is recycled, at any time, while a thread holds
a stale pointer to it; tags grow to the number of items and never need a bound of their own.
Pools of two and three threads and five posts make the index wrap in each and put two tasks of the
token on different threads, so that one is put back; two stops put a `start` between them. Of three requests one can be the one the walk stands at, one be reset or
cancelled behind it, one posted by a callback; when the calls end at time 1 and the last
timeout is 2, time 4 is after every expiry and leaves a tick for what was skipped. Five pairs of
events bring each step of `ev_run` between two others, and an event alone on two loops can be
moved and outlive either; two sends are coalesced or not, and a third can find the mark of a send
that was overtaken by `set_loop`. Time passes where there is a timer; nothing else looks at the clock. With two descriptors
every number is soon one that was used before. Two acceptors are needed to share one; that only two
objects are made at a time (`MaxAlive`; `accept` may add a third, and then the acceptors alone are called
until one is gone) keeps a stream socket beside one acceptor and leaves out two acceptors that act
beside a stream socket. What the run shows of descriptors, events and endpoints is proved for any number. Nodes are symmetric in `queue_consumers`,
which has no liveness property; no other run uses symmetry. Each module's type invariant was
checked in its instance too; where no run lists it, the other properties are what the run is for.

Fairness. `SerialDispatch` and `HandlerThread` assume that a call once begun goes on (`enqueue`,
`stop`: straight-line code on a scheduled thread), that a handler thread is scheduled, and that
its timer wheel fires in the end; nobody has to post or to stop. `LockfreeQueue` and
`LockfreeStack` assume the same for each call: the actions of a call whose place is not `idle`.
`ThreadPool` assumes that a post and a `stop` once begun go on and that each thread works.
`TimerWheel` assumes that time passes while the timer is active and that the walk goes on once
begun. `EventLoop` assumes that a loop that runs takes its next step, that a call or a `send`
once begun goes on, and that a callback returns in the end, strongly: it may make calls of its own first,
and while one of those is under way it cannot return. `Sockets` assumes that a callback returns, and
that the loop calls an event again and again while it is due, strongly: other events
are called in between, and while a callback runs the loop calls none. All else is weak fairness per
thread, which preemptive scheduling gives.

## 4. What is proved

Every theorem is about the specification that the runs check, for every value of the constants
that the named `ASSUME` of its module and the hypotheses in the table allow: any number of
threads, tasks, nodes, requests, events. Nothing else is assumed.

| module | theorem | property | hypothesis |
|---|---|---|---|
| `SerialDispatchProofs` | `DispatchInvariant` | `DispatchInv` | - |
| | `TypeCorrect` | `TypeOK` | - |
| | `MutualExclusion` | `TokenMutex` | - |
| | `ExecutionOrder` | `SerialOrder` | - |
| | `Conservation` | `OnePlace` | - |
| | `WakeupKept` | `NoLostWakeup` | - |
| | `BacklogKept` | `PlainBacklogRuns` | - |
| | `Refinement` | `ImplementsSerialExecutor` | - |
| `ThreadProofs` | `TypeCorrect` | `TypeOK`, with it `count_ >= 0` | - |
| | `LateStop` | `LateStopInv` | the owner stops a thread that is in its loop |
| | `PoolTypeCorrect` | `PoolTypeOK` | - |
| | `StopHasWaited` | `StopWaits` | - |
| | `PostsBalanced` | `Balanced` | one poster; no spurious failure of a swap |
| `FreelistProofs` | `OneUser` | `FreelistInv` | at most one allocator |
| | `NothingLeaks` | `NoLeak` | at most one allocator |
| | `DestructorFindsAll` | `DestructorAssertions` | at most one allocator and one deallocator |
| | `Refinement` | `ImplementsNodePool` | at most one allocator |
| `LockfreeQueueProofs` | `SharedProtection` | `TypeOK`, `LinkedNotFree`, `ReadsValidated` | - |
| | `Conserved` | `ItemsConserved` | values that a move leaves alone, or one consumer |
| | `EmptyTruthful` | `EmptyAnswers` | who asks is the only consumer |
| | `Protection` | `ProtectionInv`, the three above and `TailNear` | at most one producer |
| | `NothingLeft` | `DestructorFreesAll` | at most one producer |
| | `Refinement` | `ImplementsFifoQueue` | at most one producer; those of `Conserved` and `EmptyTruthful` |
| `LockfreeStackProofs` | `TypeCorrect` | `TypeOK` | at most one popping thread |
| | `OneOwnerAlways` | `OneOwner` | at most one popping thread |
| | `Refinement` | `ImplementsLifoStack` | at most one popping thread |
| `TimerWheelProofs` | `TypeCorrect` | `TypeOK` | - |
| | `MapsStayEqual` | `MapsAgree` | - |
| | `ArmedThroughout` | `ArmedWhileNeeded` | - |
| | `NeverEarly` | `FiresInTime` | - |
| `EventLoopProofs` | `EventInvariant` | `EventInv` | - |
| | `TypeCorrect` | `TypeOK`, with it `count_ >= 0` | - |
| | `NothingDangling` | `NoDangling` | - |
| | `StoppedStaysSilent` | `StoppedIsSilent` | - |
| | `IdleComesLast` | `IdleWhenIdle` | - |
| `SocketsProofs` | `TypeCorrect` | `TypeOK` | - |
| | `DescriptorsStayOwned` | `DescriptorsOwned` | - |
| | `WatchesItsOwn` | `WatchesOwn` | - |
| | `NamesStayFresh` | `NamesFresh` | - |
| | `AddressesComeBack` | an IPv4 address comes back from its number and its text, and its first byte decides what it is | - |
| | `EndpointsComeBack` | an endpoint has the address and the port it was made of, whatever was set after | - |
| | `OptionsAsSet` | an option comes back as it was set if it has room in 32 bits, a lingering time in 16; a timeout comes back, and the kernel takes it for less unless it is of whole seconds | - |

The hypotheses mark where the code keeps its promise: section 5 has counterexamples that TLC
finds beyond them (two poppers, two allocators, two deallocators, an early stop, two posters of a
pool, moved values with two consumers, a second producer of a queue). In the library a queue has
one consumer, the thread it belongs to, and may have several producers: items are conserved and
`empty()` is truthful then, as long as its pool keeps the promise of `NodePool`. A producer
allocates from the freelist of the queue and a consumer gives back to it, so with several
producers that freelist has several allocators, for which its own promise is not proved, nor
true (section 5). The hypotheses choose among constants, never among states.

Hardly any of these properties is inductive. The strengthenings are:

**Serial dispatch.** That two tasks of a token do not run at once follows because a running task
carries the number that the token executes (so `SerialOrder` is needed), and because numbers of
different tasks differ, which needs that `current` is above all numbers given. That a message has
one place follows because every message in a queue has the status `queued` and stands there once,
and one in a hand has the status of that hand. `NoLostWakeup` needs to know who is between a push
and its send, and `PlainBacklogRuns` where a thread looks at `stopping_`: a thread that finds its
queue empty after it was stopped has none of the backlog in its hand. `DispatchInv` is the
conjunction of these facts, one named conjunct each; the proof takes one lemma per kind of step
on a queue (`QueuePush`, `QueuePop`, `QueueStop`, `QueueFrame`), one per hand, one for the
numbers, one each for wake-ups, stops and backlog. The refinement maps the call of `post` to the
submission, the dispatch that starts a task to its start and the step that marks it done to its
end; all others stutter. It rests on `DispatchInv`
and on `NumbersUsed`: every number below `current` is that of one task.

**Handler thread.** `ThreadInv` says which state the event is in at each place of the thread, and
that `count_` is at least the number of sends that are still to be delivered, one more while the
callback runs: so the decrement never goes below zero, whenever the thread is stopped. `LifeInv`
adds, for a stop that waits for the loop, who has a message in hand, who is about to send, and
what of the backlog is still in the queue.

**Thread pool.** `PoolInv` follows each task that no thread keeps back (no timeout, no token or the
first of its token) from its post into the queue of a thread and from
there to `ran`, and says that a thread which has ended has an empty queue. Of the others it says
no more than that what is queued was posted. `RoundInv` fixes, at
each place of the client's loop of swaps, the relation of the index to the last thread that was
given a task.

**Freelist and stack.** Both are lists in shared memory. `NodeLists` describes them without
recursion: `Reach(h, next)` is the set of nodes that every closed set from `h` contains, and a
list is `Proper` when it comes to its end. The lemmas, stated in both proof modules, say how the
set changes when a node is put before it or taken off, and that writes to other nodes leave it
alone. The invariants `PoolInv` and `StackInv` say that each node is in the list, in the pool or
heap, or in one hand, and that a thread which has read `head->next` still has it right when its
swap can succeed: with one thread that takes off, a head that is unchanged has an unchanged
`next`, although heads are untagged. `RoomInv` says that a node is freed only while more nodes
are in use than the list may keep, and one is linked only while the list has room.

**Queue.** `QueueInv(s, w)` has the list from the dummy to its end as a sequence `s`, and the
invariant is that there are such `s` and `w`. With several producers the nodes form more than that
list. A producer that is delayed before its link may come to link behind a node that has been
given back and handed out to another producer, which has not linked it yet: the `next` of that node is again
what was read, for the constructor resets its tag. The link succeeds on a list that the queue does
not reach, so `w[p]` is the list that the link of `p` will bring: its node, and what
others have linked behind it. A link appends `w[p]` to `s`, or to the `w[q]` that ends in the node it found.
No such list closes on itself: who waits to link behind a node of `w[q]` has read the tail when
its tag was lower than the one that `q` waits with, or than the tag it has now (`WaitInv`,
`Stamp`), so the waits form no circle. Beside the shape
(`IsList`, `SidesInv`) and the place of each node (`PlaceInv`), `ProducerOK` and `ConsumerOK` say
what the copies in each call are worth: a pair with the tag that the head, or the tail, has now is
that head or tail, and a swap with an older one fails, for tags only grow; and while the head is
what the consumer has read, the `next` it has read is the second node. This is why the swaps and
the checks after each read suffice, on nodes that may have been recycled since. `ItemInv` says that
an item that was made and is not delivered is in exactly one node, of `s` behind the dummy or of some `w[p]`.
With nobody in a call every `w[p]` is empty, and the items are in the queue.

`OneInv(s, w)` adds what one producer has besides: its `w[p]` is its node alone, the tail is at
the end of `s` or one behind (`TailInv`), and items are delivered in the order they were made in
(`OrderInv`). `ChainRule` ties `s` to the recursive function by which the refinement mapping reads
the list; an item enters the abstract queue in the step that moves the tail to its node, be it the
producer's or that of a consumer that helps, and leaves it with the swap of the head. With a
second producer neither the refinement nor `DestructorFreesAll` nor `TailNear` is true (section 5).

**Timer wheel.** `WheelInv` says that the two maps hold the same requests once each, in the order
of their keys, with no key later than its expiry; that the cursor stands at an entry; that a
request is not postponed further than its timeout from now; and that what was fired is in the
maps only until its callback returns. The callbacks' calls in the middle of the walk are its hard
cases.

**Events and loops.** `EventInv` says that a watcher is in no list but that of the loop of its
event, that what a loop has found is of that loop and alive, that what its user stopped is in no
living list and not found, and what is left to do in each call of several backend steps
(`RestInv`); that while idle events are called nothing else waits (`IdleInv`); and that `count_`
covers every call of the callback that is under way, from the send to the callback itself
(`SendInv`). Each backend operation has a lemma for each of these parts.

**Sockets.** `SocketInv` says that the event of a socket has the number that the socket has, that
an active event has a number at all and a dead object has none, and that every descriptor that is
open and not lost has an owner, and more than one only if all are acceptors and it was shared (`OwnerInv`). That remembered endpoints are current needs
in addition what the calls do to the kernel's own account of a descriptor: its name and its peer change
only at the hand of its owner, or while nobody has it. Numbers come back after `close`, so this
holds only because a socket forgets the number when the kernel does. The three theorems on
conversions are about all bytes and all numbers.

Only model-checked:

- the liveness properties (`AllTasksRun`, `StopEndsLoop`, `MessagesHandled`, `DestructorReturns`,
  `CallsReturn`, `PostReturns`, `EveryRequestEnds`, `WakeUp`, `IdleRuns`, `InputAnswered`):
  fairness and `ENABLED` are out of the prover's reach.

## 5. Where the code does something else

One disagreement with the repository's documents is a run that TLC ends with a counterexample;
`PROJECT.json` quotes the lines it contradicts.

- `handler_stuck_join`: a stop that the drain before the loop handles is forgotten by `ev_run`,
  and the destructor joins for ever.

More can be seen with the same modules and other constants, one property at a time (the
definitions are in the modules, and no passing run lists them):

| instance | violates | what happens |
|---|---|---|
| `SerialDispatch.cfg` with one client, the two tasks of the token only, `StopModes = {TRUE}`, `MaxStops = 1` | `OthersUnaffected` | when a task of a token dies with a stopped thread its number is never executed, and later tasks of the token, on threads nobody stops, never run |
| `SerialStop.cfg` with 2 threads | `SerialBacklogRuns` | a safe stop destroys an accepted serial task that had to wait for its turn: the re-enqueue goes through the checked `enqueue` |
| `HandlerThread.cfg` with `StopWhen = "any"` | `BacklogHandled` | messages accepted before the new thread is scheduled are dropped when the object is stopped at once |
| the same | `EventExists` | `stop()` between `running_` and `queued_event_` dereferences null |
| `Freelist.cfg` with 2 allocators | `FreelistInv` | ABA: the head is untagged, and an allocation that stalls after reading `next` swaps in a node that another has handed out since |
| `Freelist.cfg` with 2 deallocators, 3 nodes, 1 pooled | `DestructorAssertions` | two deallocations at once fill the pool past its limit; the destructor asserts, and the limit is never met again |
| `QueueProducers.cfg` with no `Askers` and 4 nodes | `ReturnedInQueue` | a delayed link succeeds on a recycled node that is not in the queue; `enqueue` has returned and its item is out of reach until another producer links (`queue_producers` shows that it is not lost and nobody is stuck) |
| the same | `DestructorFreesAll` | such a link succeeds on a recycled node that is in the queue again; the swing after it fails, for the tail has another tag, and nobody is left in a call: `~queue` walks to the tail and leaves the nodes behind it out of the pool, whose destructor asserts that all came back |
| `QueueConsumers.cfg` with `Moves = TRUE` | `ImplementsFifoQueue` | two consumers of a type whose move empties its source: the loser of the swap has taken the value, the winner delivers an empty one (the library itself has one consumer per queue) |
| `Stack.cfg` with 2 poppers | `OneOwner` | ABA: the head is untagged, and a pop that stalls after reading `next` swaps in a node that has been given back (`stack_tests` has several consumers) |
| `ThreadPool.cfg` with `Sizes = {0, 1}` | `PostReturns` | in a pool of one thread the swap of 0 by 0 always succeeds, and the loop leaves only when one fails |
| `ThreadPool.cfg` | `AllRun` | `stop` destroys the tasks that are in the timer wheel of a thread, and those that have to wait for their turn: their re-enqueue is refused |
| `ThreadPool.cfg` with `Sizes = {2}`, 2 posters | `Balanced` | two posts at once take the same thread and pass over the other |
| `EventLoop.cfg` | `WakeUpMoved` | `send` has locked the loop of an async when `set_loop` moves and starts the async in another: the old loop is woken, the watcher is marked in the new one, which sleeps, and later sends find the mark and return |
| the same | `IdleAlwaysRuns` | `count_` counts sends, and the callback of a coalesced one sends again: after two sends that met in one callback the async wakes the loop for ever, and idle events starve |
| `Sockets.cfg` | `AllInputAnswered` | a socket that was made with its loop only, and not moved since, has no event callback: its readable callback is set, its event is started, and nothing calls it |
| `TimerWheel.cfg` | `CancelIsHarmless` | `cancel` of a request that has just fired throws, inside a callback through the `noexcept` bookkeeper |

Observations made on the way, which the models follow:

- stopping an async and starting it again, as `set_loop` does, clears its mark, and with it a send
  whose wake-up was under way;
- a timer may fire early by as much as the loop's clock is behind when it is started;
- `basic_stream_socket`: setting the writable callback does not make the event wait for
  writability, and clearing it clears the flag for reading; a socket made from a loop only has no
  event callback until it is moved; its `operator=` returns nothing and works on the handle it has given away;
- `basic_socket_acceptor`: it cannot be move-constructed (the code does not compile), never closes its
  descriptor, and an error of `accept` in its callback ends the program;
- the constructors that bind leak the descriptor when `bind` throws; `close` that fails leaves the
  stale number in the object;
- `src/examples/socket.cxx` makes a second acceptor from the descriptor of the first: closing one of
  them leaves the other with a number that is free for the next socket, hence the obligations at
  `ConstructFrom`;
- an address that is no address reads as `0.0.0.0`; the time options put milliseconds where
  the kernel has microseconds, so a timeout of less than a second is a thousandth of what was asked
  for; a lingering time is cut to 16 bits.

## 6. Not modelled, and why

- `backend.h`: the primary template, whose functions are empty and never called with libev there;
  vendored libev beyond the effects on watchers and loops named above.
- `buffers.h`: pairs of a pointer and a length, handed through to `receive` and `send`.
- UUIDs, traits and the other common utilities: pure, and no component's behaviour depends on them.
- Move assignment of sockets and move construction of acceptors (section 5); `freelist::reserve`,
  which assigns to a const atomic, and `queue::clear`, which passes a `tagged_ptr` for a pointer:
  the last three do not compile when used.
- The process that ends with an exception thrown by a task; memory that runs out.
- Build files, examples and tests.

## 7. Plan

All parts that have behaviour are modelled: `SerialDispatch` with `SerialExecutor`, `HandlerThread`,
`Freelist` with `NodePool`, `LockfreeQueue` with `FifoQueue`, `LockfreeStack` with `LifoStack`,
`ThreadPool`, `TimerWheel`, `EventLoop` over `LibevBackend`, `Sockets` over `SocketOps` and
`Endpoints`.
