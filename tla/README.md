# Models and proofs of the course programs

This directory holds TLA+ models of the programs of this repository, TLC
configurations that check them, and TLAPS proofs. The repository is a
collection of programs that share no code, but for `Deque.hpp`; so the project
is a collection of components, each with modules of its own.

## 1. Inventory

### HTTP server — `Multithread/week9/http_server.cpp`

*State.* A `Client_Impl` per connection: the stream handle, **one** write
request, the parser, the path. A work item per request. libuv keeps the queue of
the pool, the write queue, the handles that close. *Operations.* Before the
loop: `main` reads the command line, `Server_Impl` binds and listens. On the
loop's thread: `on_connect`, `on_read` (with the parser's `on_url` and
`on_message_complete`), `on_write`, `shutdown_after_wr`, `on_shutdown`, the two
close callbacks, `after_render`. On the threads of libuv's pool: `render_resp`.
*Interaction.* The work item carries a bare pointer to the `Client_Impl`; the
pool's thread reads the path through it and calls `uv_write` on it, while the
loop may shut down, close and delete it. *Hard.* The loop runs between any two
steps of `render_resp`. A peer may hang up, reset, pipeline, send a URL in two
reads or one that `http_parser_parse_url` refuses, or bytes that are not HTTP;
the kernel may take a part of a response only; a file may disappear. *Correct
when* a write in flight has its request; no thread uses a deleted client;
answers are those of the requests; every connection is closed and freed; the
server does not stop.

### Echo server — `Multithread/week9/server.cpp`

*State.* The server handle, which holds at most one descriptor that waits to be
accepted; a stream handle per connection; libuv's queues of work and of writes.
*Operations.* On the loop's thread: `new_connection_handler`, `after_read`,
`http_resp`, `after_shutdown`, the close callbacks, `termination_handler`,
`on_server_close`. On the threads of the pool: `accept_conn`, `http_req`.
*Interaction.* The loop learns of a connection and a thread of the pool accepts
it: the work item does not say which, `uv_accept` takes what the server handle
holds. What is read goes to a thread that prints it and comes back to be
answered. A signal closes the server handle whatever waits for it.
*Hard.* The loop runs on between the arrival of a connection and its accept; a
peer may be gone when its answer is due; the write request is a local variable
of `http_resp` and dies before libuv has done with it; no result of libuv's is
read.
*Correct when* accepts and connections match one to one, each read is answered
once, a handle is there while work points to it, every peer is served, and a
signal ends the process in an orderly way.

### Ring-buffer deque — `Algo/week2/Deque.hpp`, `deque.cpp`; its client `bracket.cpp`

*State.* A buffer, its capacity, head, end, size. *Operations.* Push and pop at
both ends, `reserve`. *Interaction.* `bracket.cpp` uses it as the container of
a `std::stack`, and reads references to the top after `pop`.
*Hard.* The capacity changes while the ring wraps; one slot stays free.
*Correct when* it is the sequence of what was pushed and not popped, and no
access leaves the buffer; and the bracket answer is a shortest completion.

### Threads, condition variable, barrier — `Multithread/week7/thread_cond.cpp`

*State.* `Data`: a result, a flag, a condition, a mutex, a barrier. *Operations.*
One thread computes and signals, one sleeps until it may print, one waits for
both at the barrier; main joins only the third. *Hard.* The signal comes after
the mutex is released; wake-ups without a signal; the barrier is destroyed while
two threads may still be leaving it. *Correct when* no wake-up is lost, the lines
come in order, `Data` outlives its uses, and the process ends.

### Small allocator — `Multithread/week1/alloc.cpp`

*State.* A pool, a list of free blocks with headers in it, `freep`, `offset`,
`allocated`. *Operations.* `Alloc`, `ReAlloc`, `Free`. *Hard.* Any sequence of
calls; blocks freed in any order; the pool at its end; sizes in bytes and in
headers. *Correct when* blocks are apart and inside the pool, the list holds what
is free, every call returns.

### Parallel merge sort — `Multithread/week8/tbb_merge.cpp`

*State.* An array on main's stack. *Operations.* `MergeSort` of a segment runs
its halves in parallel, then `Merge`. *Hard.* All calls write one array from many
threads. *Correct when* no two merges meet and the array is sorted.

### Pipeline of processes — `Multithread/week5/unnamed_pipes.c`

*State.* The line and positions in it; processes, their descriptors, pipes.
*Operations.* `count_commands`, `get_argv`; `fork_pipes`, `spawn_proc`.
*Interaction.* Stages run at the same time, joined by pipes; a child inherits all
descriptors. *Hard.* The line may end without its newline, and words are copied
to memory sized by their command; the end of a pipe is seen only when no process
holds its write end; `fork` and `execvp` may fail. *Correct when* nothing is read
or written outside the line and what was allocated, words are those of the line,
data arrives complete and in order, and the pipeline ends.

### Sequential algorithms

| program | state over time | correct when |
|---|---|---|
| `Algo/week3/heap.cpp` | a vector, the index an element sifts through | it is a priority queue, and every call returns |
| `Multithread/week1/derivative.cpp` | a stack of tokens, a sum for each power | the sums are the derivative of what was read; the text of the answer means them |
| `Algo/week3/mergesort.cpp` | ends of segments, layers, distance | it is the length painted once |
| `Algo/week1/bin_search.cpp` | none; an interval whose ends double, then a lower bound in it | no element is nearer to the number |
| `Algo/week1/max_array.cpp` | none; a prefix of maxima, one pass | no pair of places `i <= j` has a larger sum |
| `Algo/week1/find_div.cpp` | none; a loop over divisors of the number it makes smaller | the primes multiply to the number |
| `Cpp-course/week4/multiset.cpp` | none; a merge, an intersection, a difference of vectors | each copy of what is in one of the two only |

### Not modelled

* *Does not compile:* `week7/thread_wblock.cpp`. Lines 41 and 49 hand
  `pthread_rwlock_rdlock` and `pthread_rwlock_wrlock` a `pthread_spinlock_t`
  pointer, which C++ does not convert. A model would be of a program that nobody
  can run. (Its main holds the lock for reading only, line 70, so that the third
  thread, which reads, would not wait as the task of line 8 wants.)
* *Nothing but a library:* `Algo/week4/hash.cpp` is three calls of
  `std::unordered_set`.
* *One loop that a model would repeat:* `insertion_sort.cpp`, and `ksort.cpp`,
  which sorts each block of `k` by itself and merges nothing (1 3 2 4 with
  `k = 2` stays as it is) and divides by zero when `k` exceeds the length.
* *Straight lines of system calls,* whose behaviour is the kernel's: the System V
  and POSIX IPC exercises of week 6, `thread_test.cpp`, `thread_blocks_test.cpp`,
  `omp_test.cpp`, `win_echoserver.cpp`.
* *No state that lasts:* the first exercises of `Cpp-course` (text in, text out;
  `w2_task2.cpp` takes square roots of floating point numbers, which TLC does not
  have), `stringpointer.cpp`, the Python prototypes (one of them stops with a
  `NameError`).
* *Parts of what is modelled:* in `server.cpp`, what `http_req` prints (it takes
  the buffer for a C string, which no zero ends) and the set-up before the loop,
  which reads no result and so has one outcome; the texts of responses in
  `http_server.cpp`.

`PROJECT.json` lists every part, and every hazard at its line.

## 2. Modules

    HttpExchange          what the server promises a peer that behaves
    HttpServer            the callbacks and the threads that render
    HttpServerProperties  its properties, its invariants, the refinement
    HttpServerProofs      theorems
    MCHttpServer          four kinds of peers that do not behave, for TLC
    EchoServer            the earlier server: accepts on threads, signals
    EchoServerProofs      theorems
    AbstractDeque         a sequence with operations at both ends
    Deque                 the ring buffer; INSTANCE AbstractDeque WITH items <- Contents
    Brackets              EXTENDS Deque: bracket.cpp and its stack
    DequeProofs           theorems about Deque and Brackets
    MCDeque               EXTENDS Brackets: the programs that use the deque
    ThreadCond            the four threads of thread_cond.cpp
    ThreadCondProofs      theorems
    SmallAllocator        the allocator and a client
    SmallAllocatorProofs  theorems
    ParallelMergeSort     the tree of calls
    ParallelMergeSortProofs  theorems
    CommandLine           unnamed_pipes.c: the line taken apart
    Pipeline              unnamed_pipes.c: stages, descriptors, pipes
    UnnamedPipes          main: CommandLine, then Pipeline
    UnnamedPipesProofs    theorems
    MCUnnamedPipes        what is typed, for TLC
    PriorityQueue         a bag
    Heap                  the binary heap; INSTANCE PriorityQueue
    Derivative            derivative.cpp: tokens, sums, the text of the answer
    PaintedSegments       mergesort.cpp: the sort and the sweep
    ArraySearch           bin_search.cpp and max_array.cpp, as operators
    IntegerBags           find_div.cpp and multiset.cpp, as operators
    MCAlgorithms          EXTENDS Heap: the sequential programs, for TLC
    AlgorithmsProofs      theorems

*Abstract specifications.* `Deque` implements `AbstractDeque` and `Heap`
implements `PriorityQueue` for every client of theirs (`Deque` without the push
at the front of an empty deque). With peers that behave, `HttpServer` implements
`HttpExchange`.

*Compositions.* `Brackets` runs the bracket program's steps together with the
deque's operations, on the deque's own variables. `UnnamedPipes` hands the line
that `CommandLine` has taken apart to the processes of `Pipeline`.

*One environment per behaviour.* Five modules choose, in their initial state,
the environment of the behaviour, and never change it: `peers` in
`MCHttpServer`, `environment` in `EchoServer`, `program` in `MCDeque` and
`MCAlgorithms`, `kind` in `UnnamedPipes`. An environment is an instance of the
component with other constants, a set of deviations, or another program;
`UnnamedPipes` has one instance `Run(s)` of `Pipeline` for a record `s` of its
constants. One run then asks a question of all of them, and a property names the
environments it is about. Environments are not mixed within one behaviour: what
each property needs is stated by the deviations of one of them, and their union
would be a larger state space for the same statements.

### How state and actions follow the code

* **HttpServer.** `Start` is `main` and `Server_Impl` up to `uv_run`;
  `ParseArgsFails` and `ListenFails` are its two ways to end before that.
  `stream[c]` is the handle (`"closed"` also means the object is deleted),
  `write[c]` the one write request, `queue`, `pc`, `serving`, `filepath` the
  pool. A callback runs to its end on the loop's thread and is one action;
  `render_resp` is four, because the loop runs between them: it takes the work
  item and reads the path, looks the file up, calls `uv_write`, deletes the
  response. Using a deleted client, reusing a request in flight and writing from
  a freed response are undefined in C++: an action sets `process` to what
  happened and the behaviour ends there. `Deviations` says what the environment
  does, so that a property can name what it needs. libuv's calls are atomic.
  That `uv_write` is called from a thread of the pool, which libuv forbids, is
  therefore outside the model.
* **EchoServer.** `stream[c]` is where the connection is: in the server handle
  (`"held"`), then its own handle. A callback is one action, a work function one
  action of its thread, since neither touches what the other reads in between;
  that the loop runs on while work waits is in `queue`, `doing` and `finished`.
  `write[c]` is `"dangling"` from `http_resp` on, whose local the request was;
  `frame_reused` says that the stack there is written again before libuv reads
  it. Where libuv asserts or the program uses a deleted handle, the behaviour
  ends with that in `process`. `Return` lets the pool finish, as libuv does when
  the process exits.
* **Deque.** The variables are the members. `Deque.hpp` and `deque.cpp` hold the
  same class. `Calls` says which operations the client makes. `push_front` has
  two actions, for the two branches of the code, so that a client can be
  described that never takes the second. `main` reads an end and pops it: `Take`
  is both.
* **ThreadCond.** A step is one call of POSIX threads or one access to `Data`.
  `pthread_cond_wait` is `Sleep`, which gives up the mutex and waits in one step,
  and `Wake`; `WakeSpuriously` is what POSIX allows.
* **SmallAllocator.** Addresses, sizes and offsets are counted in headers. One
  block of the list is one step. `past` is a history variable: whether the
  client has allocated only, has freed, or has allocated again after a `Free`.
  In the last case the code gives memory away twice (the finding below), and the
  properties about blocks hold for the clients before it, which are `Orderly`.
  `Defined` ends a behaviour where the program is undefined, so that what follows
  is not taken for behaviour of the code.
* **ParallelMergeSort.** A call is named by its segment; `MergeSort` starts both
  halves, `Join` is the return of `parallel_invoke`. `Merge` reads and writes
  one element a step.
* **CommandLine.** Positions in the line. A pass of a loop is a step; the two
  skips are the first position of a kind. What is typed is any characters, with
  or without a newline; `fgets` cuts it at `LineSize`. Where the program would
  read behind the null (line 26), write a position or a word for which nothing
  was allocated (70-74, 104), or find no place for the null behind the words
  (112), `pc` goes to `"outside"` and the model ends. `WellFormed` says of which
  lines this is never so.
* **Pipeline.** A table of descriptors per process. `Fork` copies it, `Redirect`
  is the two `dup2`/`close` of `spawn_proc`, `Parent` what follows the call in
  the loop, `LastStage` the end of `fork_pipes`. The programs that stages
  execute are external: they copy items from input to output. `WriteItem` keeps
  an offset for each process, since the file is opened again by a second last
  stage.
* **Heap.** One pass of a sift is a step; `index_to_swap` is the loop's choice of
  the child. `size_t` has `SizeT` values, so that `heapify`'s counter wraps.
* **Derivative.** A token is one step; a number is one token. `Powers` is the
  order of `std::greater<std::string>` on the keys.
* **PaintedSegments.** `merge_sort` is a recursive function, the sweep goes one
  end a step.
* **Integers** are unbounded in the models of the sequential programs, where the
  code adds and subtracts `int` of 32 bits: what is checked and proved holds for
  inputs whose sums and differences fit. `heap.cpp`'s wrapping counter, the
  allocator's `unsigned int` and its sums keep their width.
* **ArraySearch, IntegerBags.** A loop is a recursive function over what it
  changes: the exponent of the interval's end, a place in the array, the divisor
  and what is left of the number. Square roots are compared as squares. What
  nothing else can observe has no steps: `MCAlgorithms` reads and prints in one,
  so a behaviour is one input.

## 3. Runs

| run | question and bounds | result |
|---|---|---|
| HttpPolite | peers that ask once and wait; 3 clients, 2 threads, 2 paths; liveness and refinement | the server implements HttpExchange, deletes each Client_Impl and work item (not the `uv_shutdown_t` of line 176, which nobody deletes), never stops |
| HttpRude | 2 clients with up to 2 requests; peers that hang up, reset and read slowly (`rude`), that pipeline, keep alive and read slowly (`busy`), that send bad bytes and empty reads over a disk that loses files (`faulty`); URLs that do not parse or come in two reads, accepts and a set-up that fail (`failing`) | a write in flight has its client; what stops the server has its cause on the connection to blame: `faulty` peers can only make it throw, and `failing` ones misuse no memory; nobody is answered with what another client asked |
| Echo | 2 peers with up to 2 reads, 2 threads; peers that wait, that hang up while the stack is used again, failed accepts, up to 2 signals | what ends the server has its cause; one accept per held connection; each read answered once; peers served; a signal ends it |
| EchoStops | one signal, everything else in order | **violated:** the process ends in an assertion of libuv (server.cpp:143) |
| DequeCalls | deque.cpp's main but for a push at the front of the empty deque; a stack that reserves; all sequences of up to 5 brackets of 2 kinds; up to 5 elements | bounds, ring, refinement; a shortest completion, and IMPOSSIBLE where there is none or the line is empty |
| DequePushFront | all commands of deque.cpp's main | **violated:** `end` leaves the buffer (Deque.hpp:59) |
| ThreadCond | all interleavings, 2 spurious wake-ups | no lost wake-up, lines in order, `Data` outlives its uses, the process ends |
| AllocCalls | any order of the three calls, until undefined; pool of 16 headers, 7 calls, sizes of 2, 3 and 5 headers | blocks apart and list sound while `Orderly`; no walk goes round for ever |
| AllocReuse | allocation after a Free, 5 calls | **violated:** two blocks overlap (alloc.cpp:137) |
| MergeSort | all data sets of up to 4 of 3 values | merges never meet, sorted, ends |
| Pipes | every line of up to 6 characters of 2 letters, blank and bar, with a newline and without, and one that is cut; 4 stages with 5 items, pipes of 2; programs that end early, failed forks, no result file; 3 stages where any `execvp` may fail, 3 items, pipes of 1 | well-formed lines are taken apart inside what was allocated, and rightly; nothing lost; a prefix in the file; main's stage ends whatever fails or ends early, and nobody is left waiting to read |
| Algorithms | a heap from any list of up to 6 of 3 values, any calls after; polynomials of up to 3 terms, exponents 1, 2, 3, 11; up to 3 segments on 4 places; all sorted arrays of up to 5 and all pairs of arrays of up to 3 of 5 integers; numbers up to 200; all pairs of multisets of 4 of 3 values | a priority queue whose calls return; the sums are the derivative, and the text means those that are not zero, with powers below ten; the length painted once; places that nothing beats; primes and differences that are exact |

*Why the bounds are enough.* Two clients and two threads are what it takes for a
thread to serve one client while the loop or the other thread serves another;
the third client of HttpPolite makes work wait while both threads are taken, and
a connection begin while all that goes on. In the echo server a connection can
be held while the accept of no other waits, so two peers suffice for a signal or
an error between them; two reads let an answer wait behind another. Two requests
let one be pipelined or follow another. Five elements make the ring grow twice
and wrap at both capacities. The pool of 16 headers holds four blocks of
`memory_block`, so it is spent and merged within seven calls. Six characters
hold three commands or three words, and every way a line can be ill formed. Four
stages have two inner ones, which differ from the first and the last; more items
than all pipes and hands hold make writers wait; so do three items where a stage
behind has failed, with a pipe of one and one in hand. Three terms allow a power
to be met twice with another in between, and exponent 11 has two digits. Four
elements make two levels of merges that run at the same time; six elements make
a heap of three levels whose last inner node has one child. Five elements let
the interval double twice and be cut by the end of the array. Up to 200 there
are products of four primes, squares and cubes of primes, and numbers whose last
prime is above the root of what is left. `CHECK_DEADLOCK FALSE` stands where the
program really stops: a server that has no more peers, a process that has ended,
a bound on calls.

*Findings.* The three runs marked "violated" each refute one statement of an
assertion or a task of the repository, which `PROJECT.json` quotes.

*Where the code departs from its words without a run.* The models follow the
code here, and the properties are stated around it:

* `http_server.cpp:211` answers `Connection: keep-alive`, line 180 shuts the
  connection down after each response: a request sent meanwhile stays unanswered.
* `http_server.cpp:152` exits for a URL that arrives whole and does not parse
  (`CONNECT host:80`, a port above 65535): the deviation `bad_url`. What
  `HttpRude` allows its peers to bring about (152, 222, 309, 112, 206) the code
  does bring about; `EndsForCause` says that it takes them to, and on which
  connection.
* `bracket.cpp:73` prints IMPOSSIBLE for every empty answer, so for the empty line
  as well, which the empty sequence completes. `CompletesShortest` excepts it.
* `alloc.cpp:164` may leave `freep` null, line 96 takes a size in bytes for
  headers, line 89 moves `freep` to the block before the one that was cut:
  what `WalksInside` excludes by `Orderly`. Line 100 cuts what followed the old
  `freep` off the list: blocks that are free are never found again.
* `alloc.cpp:123` copies to what `Alloc` returned without a test for null: the
  model ends there as undefined.
* `heap.cpp:49-54` speaks of the maximum; with its `Compare` the least element is
  at the root. `ImplementsQueue` says the least.
* `unnamed_pipes.c:26` looks for a blank behind the null when the line ends
  without one (the end of the input, or `LINE_SIZE` reached); line 104 writes
  behind the word's memory for `x|y`; line 74 behind `d_pos` for a line of nothing
  but its newline. The model goes `"outside"` there; `LineInv` and `FindsCommands`
  are about `WellFormed` lines.
* `unnamed_pipes.c:107` keeps the length of the last word where it needs the
  position: from the third word on, other characters are copied. `FindsCommands`
  holds the texts of the first two.
* `unnamed_pipes.c:142` returns into the loop of the parent when `execvp` fails,
  so the last stage (174) is executed by two processes, and the stage before it,
  which has the read end of its own pipe open (158), waits for ever once the pipe
  is full: `cat | nonexistent | wc` does not end. `AllStagesEnd` says that main's
  stage does, and that no process is left waiting to read. `StagesInv` has the
  bounds of that case and not its descriptors.
* `derivative.cpp:60` orders powers as texts, so `x^9` comes before `x^10`; line
  64 writes no sign before a sum that is zero. `DerivesTerms` is about the
  other sums.

*Mutants.* For each property of each passing run a module defines, just before
the definition it replaces, an operator "Mutant of ..." with a plausible error
in that code; under it the run's property is violated. No other definition
uses them.

## 4. Fairness

* `HttpServer`: weak fairness of each kind of callback per connection, of each
  thread of the pool and of `after_render`: `uv_run` serves every ready
  descriptor and closing handle in each turn, and the pool's threads are the
  system's. A peer that has begun a request sends the rest of it. No fairness
  for new connections, requests, hang-ups or deviations.
* `EchoServer`: the same of each kind of callback per connection, of the
  after-callbacks of work, of the server handle's close callback and of each
  thread. After `uv_stop` the loop's callbacks stop, so their fairness is that
  of a running process. No fairness for connections, reads, ends of peers,
  errors or signals.
* `ThreadCond`: weak fairness of each thread; not of spurious wake-ups.
* `ParallelMergeSort`: weak fairness per call; TBB runs a task that is ready.
* `UnnamedPipes`: the parser runs on, and weak fairness per process; the
  scheduler runs each that can go on. That a program ends before its input does is
  its own choice and has no fairness (`EndsEarly`).
* `SmallAllocator`, `Heap` (in `MCAlgorithms` too): a call, once begun, goes on;
  the client may stop.

## 5. Proofs

All theorems hold for every value of the constants that the named assumptions
allow.

**HttpServerProofs** proves `[]TypeOK` (`TypeCorrect`), `[]WriteInv`
(`WriteKeepsClient`), `[]EndsForCause` (`StopsForCause`), `[]PendingIsOpen`
(`WorkStaysConnected`) and `[]RepliesMatch` (`AnswersTheRequest`) for any sets
of clients, threads and paths, any number of requests and any deviations. None
is inductive alone. The invariant `IInv` is built in layers:

1. `Basic`: work exists only for clients that have connected, a queued write
   needs a slow kernel, and `WriteHasClient`. It needs only types. The first
   conjunct keeps a thread from writing to a connection that is yet to come.
2. `OneAtATime`, of each connection that carries one request at most: it is in
   one of four phases (`OnePlace`: not asked, reading, rendered, answered), and
   at most one work item stands for it (`PendingOnce`), whatever the others do.
   Without the phases a completed read could add a second work item.
3. `PendingIsOpen`, from the phases, of such a connection whose peer waits: what
   closes it is a written response, which a pending client does not have.
4. `HalfUrlIsSplit`, `MoreIsDeviation` and `EndsForCause`: each way to stop is
   traced to a deviation, and where a connection is to blame, to one that carries
   a second request or whose peer left before its answer (`ToBlame`).
5. `PathIsAsked`, when URLs come whole: what is in the client, in a thread and in
   its replies is a path that this connection asked for, and so `RepliesMatch`.

The same module proves the safety part of `ImplementsExchange`
(`AnswersAreExchanges`): with `Deviations = {}`, initial states map to initial
states of `HttpExchange` and every step to a step of it or to a stutter. Besides
`IInv` this needs `Settled`: a connection that ends has as many answers as
requests. `SameExchange` collects the steps that the exchange does not see;
`ConnectStep`, `AskStep`, `AnswerStep` and `LeaveStep` are the four that it does.

**EchoServerProofs** proves `[]StopsForCause` (`EchoStopsForCause`),
`[]AcceptInv` (`AcceptsMatch`) and `[]ReadsAnsweredOnce` (`AnswersOnce`) for any
finite sets of peers and threads, any environments and any bounds. The argument
counts work items. The lemmas `TimesAppend`, `TimesTail` and `ThreadMoves` say
what a queue and a thread gain or lose; from them, `JobIsQueued`, `JobIsTaken`,
`JobReturns` and `JobIsAnswered` say what each step does to the numbers of
pending reads and accepts. `StopsForCause` is not inductive: that a thread finds a
connection to accept needs `OneAccept`, that an answer finds its stream needs
`ReadsAnsweredOnce`, that a deleted server handle means a signal needs
`SignalCloses`. `PendingIsMet` keeps work from belonging to a peer that was not
accepted, whose answer would be a write to no handle.

**DequeProofs** proves that the deque stays inside its buffer (`StaysInside`,
which is `[]RingInv`) and that the ring implements `AbstractDeque` (`IsADeque`:
initial states map to initial states, steps to steps or stutters) for two kinds
of client. One is `Careful`: it never pushes at the front of the empty deque and
does not call `reserve`. The other stays `AtTheBack`: it uses the deque as a
stack, may put its first element at the front, and may call `reserve` for any
number of slots but one. Neither hypothesis can go: `DequePushFront` shows what
the front of an empty deque does to a ring; a `reserve` that does not leave room
for both parts of a ring that wraps copies past the new buffer (lines 157-158);
and a buffer of one slot is never doubled, since line 30 doubles when one slot is
left and holds elements. The invariant is types, `WithinBuffer` and `Ring`, and
for the second client that `head` stays 0; the lemmas `Laid` tell where each
element lies, and `RoomKeeps` that growth keeps the contents.

The same module proves `[]StackIsOpen` (`StackStaysOpen`) and
`[]CompletesShortest` (`AnswerIsShortest`) for `BSpec`, that is for
`check_brackets` over the ring buffer itself and inputs of any length.

* *What is written stays balanced.* `Whole` is the text with the stack closed
  behind it, from the top down. A bracket that is pushed puts a pair into the
  middle of it (`WholeOpens`), a bracket that is closed leaves it as it is
  (`WholeCloses`), and one that finds the stack empty puts a pair around it. The
  grammar allows that: `InsertBalanced` shows that a pair put anywhere into a
  balanced word leaves it balanced.
* *No completion is shorter, and at a mismatch there is none.* The depth of a
  place (`IsDepth`) is how many more brackets open than close before it. In a
  balanced word no depth is negative, and each closing bracket closes one of its
  kind at its depth (`BalancedDepth`); so a completion of `s` needs as many
  brackets in front as `s` goes deep below 0, and each closing bracket of `s`
  that has a partner in `s` must fit it (`CompletionDepth`).
* *The invariant* (`BInv`) is that of the ring, with `OpenSoFar` (the first
  point) and, while reading, `WhileRead`: each bracket on the stack stands for
  the last place of `s` at its depth, and the brackets in front are as many as
  the lowest depth asks for. Once `check_brackets` returns, its text is a
  shortest completion, or it is empty and there is none (`Mismatch`); `main`
  cannot tell that from the empty line, and prints IMPOSSIBLE for both. Neither
  property is inductive without it. `ReadOpens`, `ReadCloses` and `ReadAlone`
  are the three ways to read a bracket; `MismatchIsFinal` and `NoneShorter`
  compare them with any completion.

That the grammar's function on `0..MaxLength` exists (`GrammarSolved`) is proved
from the shorter words on; `TopIsLast` ties `top()`, a reference into the ring, to
the stack.

**ThreadCondProofs** proves `[]SignalInv` (types and `NoLostSignal`; theorem
`SignalIsHeard`), `[]ReportsInOrder` (`PrintsInOrder`) and `[]OutlivesUse`
(`DataOutlivesUse`) for any number of spurious wake-ups. The invariant says who
holds the mutex in terms of where each thread is, that `calculated` and `result`
follow the computing thread's place, that the printing thread sleeps only when
it saw `calculated` false under the mutex, and who has come to the barrier.

**ParallelMergeSortProofs** proves `[]MergeInv` (`MergesStayApart`) and
`[]ReturnsSorted` (`SortsItsSegment`) for arrays of any length, any integers and
any interleaving of the calls. `Tree` says what is at work in the tree of calls:
a call begins only under calls that wait for it, and merges only after both of
its halves have returned. Of two calls that have started, one
is inside the other or they are apart (`Nested`), and a call waits for what is
inside it, so merges that run at the same time are apart. `Content` says what a
call's segment and its `sorted_data` hold at each place of `Merge`: what is
copied is in order, below what is left, and is, with it, what the halves were.
The elements are counted value by value, over intervals of indices.

**AlgorithmsProofs** proves `[]HeapInv` (`OutOfOrderOnlyHere`) and
`ImplementsQueue` (`HeapIsAQueue`) for heaps of any size and any integers.
`TreeOrdered` says which edges are in order while a sift or `heapify` is at
work; it is not inductive without `Bridged`, that the parent of the place where
a sift is stands in order with that place's children, since a swap makes them
neighbours. For the refinement a swap must keep the bag of the elements, and the
root must be the least: the latter follows from the order of the edges by the
least number of a slot that is below it.

It also proves `MCSpec => []PlacesAreBest` (`PlacesAreFound`) for arrays of any
length of any integers. For `bin_search`, `WidenExists` shows that the loop of
`find_interval`, which doubles the place, ends with a value (from the least
place that has none), and `WidenStops` that the places before the left end are
too small; so the lower bound in the interval is the first place in the whole
array that is not too small (`LowerBoundIs`), and the nearest element is there
or just before (`NearestIsFound`). For `max_array`, `DefinedStepByStep` gives
the values of `fill_max` and of the pass, a function of the index each, and
`LargestSumIsFound` that the pair kept up to an index is the best up to there.

And `MCSpec => []MeasuresPaint` (`PaintIsMeasured`), for any number of segments
over consecutive coordinates. `RecursionIsSound` is what stands in for induction
over data: a function whose definition looks only at places of a smaller measure
exists, since the least measure up to which no function solves its equation
would have a solution one below. With it `merge` and `merge_sort` satisfy their
equations, and a shortest counterexample shows what they compute (`MergeMerges`,
`SortSorts`): order, and every set of ends as often as before (`CountOf`). The
sweep's invariant is that `prev_layer` is the beginnings less the ends among
those met (`LayerAfter`), which is how many segments lie over each place up to
the next end (`LayersBetween`), and that `dist` counts the places painted once
before the last end met (`SweepMeasure`).

**SmallAllocatorProofs** proves `[]PoolInv` (`BlocksStayApart`), `[]WalksInside`
(`WalksStayInside`) and `[]FreeSound` (`FreeListIsSound`) for pools, blocks and
requests of any size and any order of calls, while the client is `Orderly`. The
invariant tells the two times of such a client apart. Before its first `Free`
(`WhileAllocating`) the list is at most the one block that the last new chunk
has left. After it (`WhileFreeing`) there is a set `F` that is the free list: the
links go up in memory through all of `F`, and the blocks of `F` and those that
clients hold are in the pool and apart; `Free`'s walk is at a block of `F` below
the one in hand. `FreeSound` speaks of what the links reach, a recursive
function; `ListedIsFree` shows that they do not leave `F`. The theorems have the
hypothesis `NoWrap`: no request is so large that `allocated + al` of line 35
wraps in 32 bits. Such a request is near 4 GB; for it the test of line 35 would
be passed, and the theorem false. `AllocatorAssumption` says that the pool's
size fits an `unsigned int`, which is its type (line 20).

**UnnamedPipesProofs** proves `[]LineInv` (`WordsFit`) for whatever is typed, of
any length, over any letters and any `LINE_SIZE`. The invariant has two parts. Of
every line it says that positions are in the line, ascend, and are those of a bar
or the null (`Delims`), and that `get_argv` is at a word or at an end
(`InWords`). Of a well-formed line it says more (`Inside`): a command ends behind
a blank (`Spaced`), and each word has taken two characters of its command at
least, the last of them a blank (`InCommand`). So there is a slot for each word
and one for the null behind them, each word is shorter than the command, and it
ends at a blank of the command (`WordFits`). That `delim_positions` has room for
the length of the line, the last entry (line 74), needs that the positions ascend
and that no bar is the line's last character. `FirstIs` and `FirstUpTo` say what
`strpbrk` and the two skips find.

The same module proves `Pipeline` for any record `s` of settings, that is for
`Run(s)`, whichever programs end early and whether forks and the result file
fail or not.

* *Every command can be executed* (`Sizes`: `failing` is empty, and a process may
  have `num_of_cmds + 3` descriptors), for any number of commands and items and
  any capacity of the pipes: `[]WriteEndsKept` (`EndsFitAnyLength`) and
  `[]WritesPrefix` (`FileIsPrefix`). `Placed` gives main's table at each turn of
  the loop in full (`Table`, `Piped`): what `pipe`, `fork`, `close` and `dup2`
  make of a table depends on the lowest descriptor that is free, so nothing less
  is inductive. A child has main's table of its turn, and no two children have
  one stage. `Flows` counts, for each stage, the items that ever reached its
  input: the last ones wait in it, in order, the others were taken, and were
  passed on except for the one in hand. That a stage has passed on nothing before
  it begins keeps two processes from sharing a count.
* *No program ends early and no opening fails, either* (`Keeps`): `[]NothingLost`
  (`NothingLostAnyLength`). The counts of `Flows` cut the items into spans, one
  for each stage, that follow each other; `HandIs` says what is in hand between
  two of them. `Before`, the concatenation, is a recursive function: that the
  spans satisfy its equation gives it its value, and the least stage at which
  two solutions differ shows that there is one only.
* *Any commands fail* (`Bounds`: pipes, processes and descriptors are as many as
  the turns can make): `[]TypeOK` (`TypesAnyLength`). A child whose `execvp` fails
  goes on in main's loop and forks again, so processes and pipes double with each
  turn. Each process has a label, the set of the turns in which it or its
  ancestor was the child. A process forks once a turn, so labels differ (`Made`,
  `Forked`), and sets of turns are at most `2 ^ (num_of_cmds - 1)` (`FewLabels`,
  `Counted`). That a table never overflows needs that open descriptors lie low
  (`Roomy`); that no process writes more than there are items, that each item is
  in one place (`Located`).

Together they give what the run `Pipes` checks of `main`: `MainSpec =>
[]StagesInv` (`MainKeepsStages`) and `MainSpec => []ItemsKept`
(`MainKeepsItems`). Of the three kinds of `main`, `Settings` says which
hypotheses each meets; a line that is still being taken apart has started no
pipeline, and then the steps are `Run(s)`'s (`StagesStep`, `StagesFlow`,
`StagesHold`).

*Induction.* The library's induction theorems take an operator as a parameter,
which the provers do not instantiate. That a set of naturals has a least member
(`LeastNatural`, in four of the modules) is proved instead from the library's
theorem that the inclusion of finite sets is well founded, which takes sets.

*Only model-checked:*

* all liveness (`AllIsFreed`, `Finishes`, `AllStagesEnd`, `PeersAreServed`,
  `SignalEnds`, `CallReturns`, `Sorts`) and the fairness part of
  `ImplementsExchange`, which are out of the prover's reach;
* what recursive functions compute for every input: `DerivesTerms` and
  `CollectionsAreExact`, which need induction over data;
  so does `FindsCommands`, which counts the words of a line;
* `EachForCause` and `EachRepliesMatch`, which say of the four environments of
  `MCHttpServer` what `StopsForCause` and `AnswersTheRequest` prove for any.

## 6. Plan

The models are complete as far as section 1 says. What is left is proof: of
`Deque`, for a client that reserves while its ring wraps, with room for both
parts.

`RECURSIVE` is used nowhere; recursion is by functions, so that each module can
be proved about.
