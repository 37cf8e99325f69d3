# A verification development for litehttp-c

litehttp-c is a small HTTP/1 server in C: one thread waits in `epoll_wait`, a
pool of worker threads reads the clients, parses their requests incrementally
and answers them with files mapped into memory. This directory models the parts
of it that have behaviour worth checking in TLA+, checks them with TLC on small
instances, and proves the most important invariants with TLAPS for every value
of the constants.

Everything is translated from the C sources under `src/src`. `PROJECT.json` maps
every definition to the lines it stands for.

## 1. The system

| component | files | state | operations |
|---|---|---|---|
| Request parser | `http/http_parse_dfa.c`, `http_parse_ctx_internal.h`, `http_request.c` | one `http_parse_ctx_t` per request: received text, two cursors, wait state, body type and length, the request under construction | `http_parse_ctx_new`, `http_parse_feed`, `http_parse_pop_request_and_release`, `http_parse_ctx_destroy_chain` |
| Header types | `http/http_types.c` | none | matching of methods, versions, fields and values |
| Resource cache | `http/resource_getter.c` | hash table path -> resource, one mutex | `resource_getter_initial`, `get_resource_cached`, `resource_getter_release` |
| Response | `http/http_response.c`, `core/http_method_dispatch.c` | one `http_response_t` per request | build, add header, to string; dispatch by method |
| Reactor | `core/reactor.c`, `core/server.c`, `core/client.c` | epoll set and its pending edges, thread pool queue, `loop_terminal`, file descriptors, `client_data_t` per connection with the parser's chain | main loop, event dispatch, accept, client job, close |
| Strings | `util/string_t.c` | inline or heap buffer, size, capacity | about 40 operations |
| Configuration, start, stop | `core/configure.c`, `main.c` | global configuration, pool, listening socket | `config_initial`, the getters, pool creation and release |
| Messages and errors | `util/error_code.c`, `base.c`, `*.def` | none | tables, logging |

**How they interact.** The main thread and the workers share the epoll set, the
job queue, each connection's `client_data_t` (its two context pointers are read
and written by whichever worker runs the client's job) and the resource cache,
which alone has a lock. Sockets are registered edge triggered without
`EPOLLONESHOT`, so two jobs of one client may run at once. A client job reads
until `EAGAIN`, makes one call of `http_parse_feed`, then pops and answers the
finished requests, none of it under a lock.

**What is hard here, and what makes each part correct.**

* *Request parser.* A call of `http_parse_feed` resumes at a label chosen by the
  calls before it, with cursors into a text that has grown since, and may have moved.
  Correct means: the request depends on the bytes alone and not on where they were cut
  (true of all that a request owns, not of the names and values of its headers, which
  are views of that text); nothing is delivered early, and nothing that is whole waits
  for another byte; no cursor leaves the text, whatever length a header declares and
  whichever allocation fails.
* *Resource cache.* The mutex is given up while a file is opened, so two workers
  may fill one slot. Correct means: no reader sees a slot between `kh_put` and the
  assignment of its value; a view that was given out stays mapped; what a race or
  a failure leaks is bounded; every call returns.
* *Reactor and connections.* Edge triggered events, a queue of jobs, workers that
  may serve one client at the same time, a `client_data_t` that one of them frees,
  file numbers that the kernel gives out again, a signal that must reach a thread
  blocked in `epoll_wait`. Correct means: no readiness is lost, a connection's
  segments are parsed in their order, a registered client that has sent a request is
  answered once, nobody gets an answer he has not asked for, and freed memory is not
  used. Two jobs of one client break all but the first: what holds is said for the
  clients whose jobs did not overlap.
* *Strings.* A short text lies inside the object, a long one on the heap; sizes
  that count the final 0 and sizes that do not are compared with each other.
  Correct means: every operation yields the text that the same operation on a
  plain sequence yields, and the object owns exactly one buffer.
* *Response and dispatch.* A response is assembled from views of locals of the
  handler that built it. Correct means: what is sent is one well-formed response
  whose `Content-Length` is the length of its body.
* *Configuration, start, stop.* A chain of steps each of which may fail. Correct
  means: what was acquired is released, and no step runs without what it needs.
* *Header types, messages, errors.* Tables and pure functions.

## 2. The plan

In order of importance; all but the last row is done.

| | module | abstract specification | theorems |
|---|---|---|---|
| 1 | `HttpSyntax`, `HttpParse` | `HttpRequestSpec`: segments arrive, a whole request is delivered | done: types, cursors, dead branch, no head missed, exact body, the assertions, the refinement |
| 2 | `ResourceCache` | none: its promises are invariants of several threads | done: every invariant the runs check |
| 3 | `Sockets`, `Reactor` | `ClientService`: one response at most, only to a request | done: every invariant the runs check, and the refinement |
| 4 | `StringViews`, `StringT` | `StringSpec`: a sequence of characters | done: buffer, final 0, blocks, failures, comparison, the refinement |
| 5 | `Startup`, `Response`, composed in `Server` | none: a client that reads by `Content-Length` | done: keys of the table, causes of death, what a job needs, the bodies a client reads |
| 6 | the rest of `http_types.c`, as operators compared with a table | none | none |

Three compositions: `Reactor` with `Sockets` and the parser's contract; `Response`
with the strings of `StringT` (every path and every response is built by its
operations, with their failures); `Server` with the main thread of `Startup` and
the job of `Response`.

## 3. Modules and code

| module | stands for |
|---|---|
| `HttpSyntax` | the pure functions on lines: tokens, request line, header line, `string_view_substr` |
| `HttpParse` | `http_parse_dfa.c`: one context, one action per label of `http_parse_feed` |
| `HttpRequestSpec` | what the parser promises: written with no cursor, state or loop |
| `HttpParseProofs` | invariants of `HttpParse` |
| `HttpRequestProofs` | `HttpParse` implements `HttpRequestSpec` |
| `LeastNumbers` | a lemma: a set of numbers has a least one |
| `ResourceCache` | `resource_getter.c`: one action per step of a thread that others can observe |
| `ResourceCacheProofs` | invariants of `ResourceCache` |
| `Sockets` | external: file numbers, accept queue, edge triggered `epoll`, peers |
| `Reactor` | `reactor.c`, `server.c`, `client.c`, and the pool as `configure.c` uses it |
| `ClientService` | what the server promises a client |
| `ReactorProofs` | invariants of `Reactor`, and that it implements `ClientService` |
| `ConnectionProofs` | the order of a connection's segments, and the use of its memory |
| `StringViews` | the functions of `string_t.c` that only read a text |
| `StringT` | `string_t.c`: one string, one action per operation |
| `StringSpec` | what a string promises: it is a sequence |
| `StringTProofs` | invariants of `StringT`, and that it implements `StringSpec` |
| `Startup` | `main.c`, `configure.c`, `get_ipv4_server_fd`: the main thread, call by call |
| `Response` | `http_method_dispatch.c`, `http_response.c`, `get_absolue_path`, `http_send_response`: a job from a popped request to `write()` |
| `Server` | the process: `Startup` and `Response` together |
| `ServerProofs` | invariants of `Server` |
| `MCHttpParse`, `MCResourceCache`, `MCReactor`, `MCString`, `MCServer` | constants of the instances |

**`HttpParse`.** `wait_state`, `post`, `post_full_length`, `cur`, `next_line`,
`body_type`, `body_length` and `http_request` are the fields of
`http_parse_ctx_t`; `pc` is the label a running call is at and `header_cnt` its
local. `Feed(n)` enters the function with the next `n` symbols of the stream;
`WaitReq`, `WaitHdr` (one turn of the header loop), `HdrDone`, `WaitFixBody`,
`WaitClen`, `WaitCval` and `End` are its labels with their early returns. `Pop`
and `Destroy` are the caller's operations. Every allocation on the way may fail.
A symbol is one byte that the parser tests by itself (CR, LF, space, colon) or a
word it only compares as a whole. The assertions are conditions that no action
depends on, as in the default build.
A header owns its field, its length and its type of connection; its name and value
are views of `post`. The append at the entry of a call may move the block of `post`,
and `Pop` and `Destroy` free it. The views that this leaves behind are those of the
headers parsed so far, so their number says which they are: `dangling`, set by
`LosePost`. `HttpRequestSpec` promises accordingly: the request the bytes spell out,
with the texts of its first k headers lost, where k is 0 if everything came in one
segment (`cut`), and all of them lost after `Release`. Nothing in the program reads a
header's name or value after the call that parsed it, so no response depends on this
today; whoever adds a reader finds the limit here. The context's own views
(`request_line`, `header_list`, `body_view`) are read in the call that makes them
only, and the path and the body are copies.

**`ResourceCache`.** `table` is the `khash`, `mutex` is `table_mtx`, `resmem` and
`res` are the local and the out parameter of `get_resource_lazy`. A call is
`Call`, `Lock`, `Lookup`, then `UnlockHit`, or `UnlockMiss`, `Open`, `Map`,
`Close`, `Relock`, `Put`, `Store`, `Unlock`. A slot between `kh_put` and its
assignment holds `Garbage`. `Deploy` lets a file appear while the server runs;
`Release` is `resource_getter_release`.

**`Reactor`.** `mainpc`, `batch` and `loop_terminal` are the main thread's;
`queue` is the pool's; `wpc`, `job` and `text` are each worker's position, usrdata
and `receive_post`; `usrdata`, `fd` and `ctx` are a connection's `client_data_t`:
freed or not, its number, and what its `ctx_tail` points to. A worker's job is
`Accept`, `Register` (the server's socket) or `Read`*, `ReadEmpty`, `Feed`, `Parse`,
`Pop`, `Take`, `Unlink`, `Release`, `Answer`, `Pop` (a client's), and on the end of the
stream `ReadEnd`, `Del`, `Close`, `Free`. A file number is looked up in `fdtab` at each
use, since `close(epoll_fd)` lets numbers be reused; `accept` takes the least free one,
and with none left (`AcceptFull`: EMFILE) the connection stays in the backlog while its
event is gone.

`http_parse_feed` and `http_parse_pop_request_and_release` hold no lock, and their
accesses are cut into steps where another job of the client can see the difference: the
append and the parsing; the test of `wait_state`, the reading of `http_request`, the
clearing of it and of `*head`, and the freeing. Two jobs that meet between these
(`Meets`) race. A race of two appends may lose one of the texts, one of two parsings
leaves `wait_state` as either job wrote it, and either may kill the process
(`RaceKills`); two jobs that both pass the test both take the request, free its context
twice (`DoubleFree`) and answer twice. `overlaps` is the set of clients of whom two jobs
have run at once. A step on freed memory (`UseFreed`, `ContextFreed`) is undefined: it
kills the process or ends the job without effect, and sets `uaf`. A killed process
(`alive`) takes no further step.

`ClientService` allows one response per connection, not one per request: that is what
the code can give, since a second request goes to a context that has been freed. Its
promise to a client is void once two of his jobs have overlapped, and to everybody once
freed memory has been used (`Spoilt`); a client for whom it is void may get any number
of responses.
What `Reactor` takes from the parser is what the parser's theorems give: a context
ends with the first whole request, and what follows in the same text is lost
(`SplitNeverTaken`).

**`StringT`.** `data`, `size` and `capacity` are the fields of the struct, `small`
its inner buffer and `heap` the block, each a function from offsets to cells, so
that a write outside of a buffer shows as a domain that is too large. `"null"` is
the pointer that a failed `malloc` in `string_init_from_string_view` leaves, and
`"gone"` an object that is not initialised or destroyed. `blocks` counts what was
allocated and not freed. Memory that nobody wrote, and memory that was freed, reads
as `Junk`. `next_capacity` is the least power of two that is large enough. `Content`
is the text a view of the string shows: the refinement to `StringSpec`. Three
mistakes of the code are named and allowed for, and nothing else is: `GrowLoses`
(`string_assign_view` on a block that has to grow), `PushLoses` (`string_push_back`
without memory), `SelfLoses` (a string appended to or cut out of itself).

**`Startup`.** `phase` is the call of `initial()` or `main()` the main thread is at,
`Following` their order. A file is the set of the tables and keys it has; a value is
`given`, the `default` or `unset`. Steps whose failure ends the process fail freely;
those whose result is ignored (`thdpool_initial`, `resource_getter_initial`) count
as a fault, of which `MaxFaults` are allowed. The event loop is `Reactor`'s: here it
may end at any time.

**`Response`.** `pc` is the step the job is at. `path` and `post`, the two strings of
a job, are one after the other the `StringT` of the module, since `path` is out of
scope when `post` is made; `todo` lists the appends left before the next step, so
that each may fail. `html_post` and the response are views, hence values, save
where the memory they point to may be gone: the length header reads `Junk` if the
handler's frame was overwritten (`stale`), a file that could not be mapped is
`Unmapped` and reading it kills the process, and a key whose path stayed in the
inner buffer makes `dangling` true. A character stands for a word. The client (`Bodies`) reads by `Content-Length` and waits
for a response that has not arrived as a whole. The cache is what
`ResourceCache` shows of it: a miss gives the bytes of the file, a hit none.
One job is modelled, as jobs of different clients share the cache only; its client
stays connected (`Reactor` has the peer that leaves and the SIGPIPE that follows). A
connection serves one request: `Requests` are the first requests of connections that
follow each other. A later segment finds the context freed or in the hands of another
job; `MisuseContext` gives it the outcomes that the process dies and that nobody
notices, and sets `misused`, after which no property of `Server` claims anything, as
memory may then hold anything.

## 4. What the runs show

| run | question | bounds |
|---|---|---|
| `parse_spec` | Does the parser implement `HttpRequestSpec` (`ImplementsRequest`), deliver whatever is whole (`WholeIsDelivered`), miss no head (`HeadNotMissed`), and would the assertions hold when one request is sent (`AssertionsHold`)? | 379 streams, every cut into segments, empty ones included |
| `parse_faults` | Do the cursors stay in the text, is the dead branch dead and the body exact when allocations fail? | 5 streams around a header limit of 3, one with a negative length; up to 2 faults; `size_t` modulo 1000 |
| `cache_race` | Is the table consistent, is what is given out mapped, are leaks confined to races and bounded, does every call return? | 2 threads, 3 paths (one present, one late, one that `mmap` refuses), 4 calls |
| `reactor_pool` | With two workers and a request in two segments: is every readiness looked after, do segments arrive in order and is the client answered, once, unless his jobs overlapped; why does the loop end; does SIGINT end the server? | 1 client that may hang up, 2 workers, 2 segments to a request, a signal at any moment, 2 free file numbers |
| `reactor_brief` | Is freed memory left alone when each client sends one segment and stays; is every event of a batch handled, how many connections wait, and who is answered, when a job is refused, memory is short, a write is or the file numbers run out? | 3 clients (one sends no GET), 2 workers, `max_events` 2, 2 free file numbers, 1 fault, a signal at any moment |
| `string` | Is a string a sequence whatever is called, and does no write leave its buffer, no block get lost, no failure come without a cause? Are equal keys the same text? | inner buffer of 3 bytes, texts of 0, 1, 3 (with a 0 inside) and 4 characters, lengths up to 4, capacities up to 8; every allocation may fail |
| `server` | Does a client that trusts `Content-Length` find the bodies, do the table's keys outlive the handler, what kills the process, does a job have what it needs, does everything end? | 4 configuration files, 3 connections with a request each (a file, another method, a missing file), one failed call anywhere, a later segment and SIGINT at any moment |
| `parse_glued` | fails: a second request in one segment is freed with the first | 2 streams |
| `cache_hit` | fails: a hit succeeds without filling in the result | as `cache_race`, 3 calls |
| `reactor_order` | fails: the two segments of a request are fed to the parser in the wrong order | 1 client, 2 workers |
| `reactor_keepalive` | fails: the second request of a connection is fed to the freed context of the first | 1 client, 1 worker |
| `reactor_close` | fails: a hang-up leaves the client's socket open and closes the epoll instance | 1 client, 1 worker |

**Why the bounds are enough.** The parser distinguishes only the four symbols and
whole words, and its state after a line does not depend on how many lines came before,
save for the counter. All texts of up to five symbols of CR, LF and a word follow a
request line; with the chosen requests they put every border inside a CRLF, between
two of them, at the end of the head and in the body. The limit of the header loop is
100 in `parse_spec`, where no stream comes near it, and 3 in `parse_faults`, where
streams lie on both sides of it. Two failing allocations make a call fail again after
it was repeated. In the cache two threads suffice for each property that relates two
threads, and four calls let each thread come back to a path after the race. In the
reactor two segments are the least that make two jobs for one client, and two workers
the least that run them at once: `reactor_pool` has every overlap of the two, at any
step of the feeding and the popping, and the end of the connection in between. What
relates several connections is in `reactor_brief`: an accept queue, a batch of two
events, one failing call, and two free file numbers for three clients, which makes
`accept` fail with a connection behind it. A number that is given out again occurs
there at the shutdown only, when a worker accepts after the epoll instance was closed;
after a hang-up it is covered by the theorems, which have any number of clients. The
string's texts lie on both sides of each border: of the inner buffer of 3 bytes with
and without the final 0, and of the capacities 4 and 8; a longer buffer has the same
borders. Three connections suffice for a job behind a job on the same table and for
one that is refused between them. With one failed call `KeyOutlivesHandler` cannot
fail, since four failed appends are needed: that bound is what the theorem gives for
any number of failures; the run breaks it when an append writes in place.

**Fairness.** `HttpParse`: weak fairness of a running call only; the peer may stop
sending for ever. `ResourceCache`: weak fairness of each thread's steps, strong
fairness of its two `pthread_mutex_lock` calls, as a mutex that is free again and
again goes to each waiter; none for calls or for files. `Reactor`: weak fairness of
the main thread and of each worker, which the operating system runs; none for peers,
the signal or faults; `RequestAnswered` is checked without faults, since a short write
loses the response; it says nothing of a client whose jobs overlapped. An idle server
waits for ever, so the runs of the reactor do not look for deadlocks. `Server`: weak
fairness of the job and of the main thread from the end of its loop on; nothing makes
the loop end, as a signal may be missed (`Reactor` says when), nothing makes the start
go on, and no client has to send a second segment (`MisuseContext` is not part of the
fair steps). The process may end, so `server` does not look for deadlocks either.

## 5. What is proved

Every safety property that a passing run checks is a theorem. Each
holds for every value of the constants that the assumptions of the module allow;
further hypotheses are in the theorem's statement and are given here.

### The parser

For every stream and cut, limit, `size_t` width and pattern of failing allocations
(`HttpParseProofs`; assumptions: the declared lengths are integers, the limit and
the modulus are positive, streams are sequences of symbols):

* `SafeAlways`, `TypeAlways`: `CursorsInPost` and `TypeOK`. They are inductive
  together.
* `SplitNeverTaken`: lines 184-197, which split off a following request, are
  unreachable. `SplitUnreachable` is not inductive; `SplitInv` adds that
  `post_full_length` is 0 while the head is read and is `next_line` at the label
  end, and which wait states go with which labels.
* `HeadNeverMissed`: a call that returns to wait has left no complete head.
  `HeadInv` says that `next_line` is the start of a line, that no empty line lies
  before it, and that a waiting call has searched to the end. Two lemmas carry it:
  a line end of a text is one of every longer text, save at its last symbol
  (`CrlfGrows`), and the first line end after a line's start hides no other
  (`NextLine`).
* `BodyAlwaysExact`: a finished body has its declared length, unless the sum wraps.

The parser implements `HttpRequestSpec` (`HttpRequestProofs`). The hypothesis is
`Plain(s)` for each stream: its head has no more lines than the header loop takes,
and no declared length is negative or makes a sum with a cursor wrap. What the code
does otherwise is a divergence named in section 6; the streams of `parse_spec` are
plain, and so is every request of a client that means well.

* `ParserImplementsRequest`: segmentation independence, as far as the code has it, for
  streams, lines and bodies of any length and every way of cutting them; without failing
  allocations (`MaxFaults = 0`), as the call after one may skip a line. `StreamInv` speaks
  of the whole stream, `post \o rest`, and not of what has arrived: the lines that were
  parsed are the lines of the stream up to `next_line`, and the request under
  construction is the one these lines spell out. What the stream says does not change
  when a segment arrives, so most steps leave that part alone, and the proof is about
  the steps of `parse_header_line` only. What a header's views have lost is a second
  matter: `DangleInv` says that no more headers dangle than there are, and none of a
  request that came in one segment, so their number is one that `Deliver` allows; the
  pop is `Release`, since losing all after some is losing all (`LoseAgain`).
* `AssertionsAlwaysHold`: from the same invariant. `faults = 0` and one request per
  connection are conditions of the property itself.

### The cache

For any number of threads, paths and calls (`ResourceCacheProofs`; assumption: the
mark of a free mutex is no thread, there is a path):

* `TypeAlways`, `LockAlways`, `GarbageNeverRead`: one invariant, `LockInv`. A hit
  copies a slot, so its type rests on no slot being seen unwritten, and that rests
  on the lock; `GarbageOwned` names the thread that is about to write the slot.
* `OpensOnceAlways`: a thread opens a path at most once, since its entry is in the
  table, or it is on its way there, ever after (`OpenInv`).
* `ViewsAlwaysMapped`: the local `resmem` must be part of the invariant (`ViewInv`).
* `DoubleInsertOnlyInRace`: whoever filled a slot has opened the file and is past
  the insertion (`RaceInv`), so it is not the thread that finds the slot filled.
* `LeakOnlyInRace`: `LeakInv` follows each mapping from `mmap` through `resmem` to the
  table. The one step that takes a table's entry away from it, the second insertion,
  is made by a thread other than the one that stored it, by `RaceInv`.
* `DescriptorsAlwaysBounded`: inductive with the types; the one lemma
  `NextDescriptors` goes through the ways out of `open_resource`.

### The reactor

For any number of clients, workers, file numbers and faults (`ReactorProofs`;
assumptions: the workers are finitely many, `Listen`, `Epoll`, `NoFile` and `NoJob`
are no clients, the numbers of the listening socket and the epoll instance differ):

* `TypeAlways`: `TypeInv` adds what each worker holds as its job, and that no socket
  has two events in `ready`.
* `SocketsAreOwn`: although `close(epoll_fd)` gives numbers back that are in use,
  a client that some event, job or registration may still reach keeps its own number
  (`OwnSocket`). The invariant `SocketsOK` adds that a client in the backlog has no
  number, that one about to be registered is known to its worker only, and which
  numbers may be closed: `EpollFd`, `ServerFd`, and that of a client that could not be
  registered. All that follows rests on it, as a job reads and writes whatever its
  number refers to.
* `UnreadAlwaysScheduled`: `UnreadIsScheduled` is inductive with `SocketsOK` behind it.
  The one lemma `UnreadKept` says what a step must show for a client.
* `EndAlwaysHasReason`: `CalmInv`: before any reason no worker is on its way to
  `closefd`, and the number of the epoll instance is its own.
* `WaitingAlwaysMerged`: a count. An arrival that makes no event is in `merged`; each
  event is counted in `ready`, `batch`, the queue or a worker at `accept`; the lemmas
  `Count...` say what appending, splitting and removing do to a count.
* `ImplementsService`: each step of the server is a step of `ClientService` or none,
  `asked` being who has sent a whole request and `void` whom nothing is promised to
  (`Spoilt`). `JobOnce`: of a client outside `overlaps` there is one job at a time, so
  none of its steps meets another's (`Meets`). `ServiceInv`: what was read and parsed
  has been sent; and for a client that is not spoilt, `AnswerInv` follows his one job
  from the test of `wait_state` to the answer: the context leaves the chain and is freed
  on the way, so it is never found ended again, and no response was sent before. For a
  spoilt one nothing is claimed, and a second response is a step that `ClientService`
  has.

`ConnectionProofs` has two theorems that hold under a condition, since without it the
code does the contrary (section 6):

* `FedAlwaysInOrder`: any number of workers, as long as `faults = 0`, for every client
  whose jobs have not overlapped. `OrderInv`: `fed` and the text that his one job has
  read are together what `read` has returned, numbered without a gap; that there is one
  job is `JobOnce` again, and that the racing jobs of another client do not touch his
  segments rests on `SocketsOK`, as a job reads whatever its number refers to. That
  order is lost in an overlap is what `reactor_order` shows.
* `BriefUsesNoFreed`: as long as no client has closed or sent a second segment
  (`Brief`, a condition on the state, which every state of `reactor_brief` meets);
  any number of workers and faults. `OneJob`: of a client there is one event or job at
  most, in `ready`, `batch`, the queue or at work. `Unspent`: while it is there the
  context has not been freed. The second segment is what `reactor_keepalive` shows to
  be fatal, the closing what `reactor_close` is about.

### Strings

For every set of texts, inner buffer, set of capacities and pattern of failing
allocations (`StringTProofs`; assumptions: the inner buffer has a byte, the bound on
lengths covers the texts, there is a capacity for each size up to it, different
characters have different codes):

* `TypeCorrect`, `WritesStayInside`, `AlwaysTerminated`: one invariant, `BufInv`. The
  bound of the buffer needs the size, the size needs the text to end inside, and the
  final 0 of a moved text rests on the old one having been inside the old buffer
  (`MovedFits`). `CopiedFits` and `ZeroedFits` say what the two writing loops reach.
* `NoBlockLost`, `FailuresHaveCause`: action properties; each needs `BufInv` for the
  numbers and no more.
* `StringIsSequence`: the refinement of `StringSpec`. The abstract text is `Content`, a
  view of the buffer. For each operation a lemma says which cells it writes (`CopiedText`,
  `MadeText`, `AppendedText`, ...), `ContentBecomes` and `ContentKept` turn that into a
  statement on the text, and `Allowed` names the abstract step. `GrowLoses`, `PushLoses`
  and `SelfLoses` are the three exceptions, and no others were needed.
* `EqualTextsAreSame`: what `string_view_compare` returns is decided at the least place
  at which two texts differ, or at their first 0 (`CompareIs`).

Inductions on a place in a text go over the least counterexample (`LeastNumbers`),
which the prover can do; an induction theorem that takes a predicate as a parameter it
cannot.

### The process

For every set of files, requests and configurations and any number of failures
(`ServerProofs`; assumptions, named in `Response`: the words of a response have codes,
each length that can occur has a decimal text of its own, which is one word and no line
end, the working directory fits `MaxLen`, no file has the bytes that stand for
`MAP_FAILED`, and those of `StringT`). The strings of the job are those of `StringT`, so
longer texts than `MaxLen` are beyond the theorems as they are beyond the model:

The theorems on the job hold as long as no context is misused (`misused`): nothing is
known of memory after that.

* `KeyOutlives`: `KeyInv` counts. Either the path is in a block, or each of its appends
  has failed so far, which the faults and the appends left tell together.
* `ServesAlive`: `LifeInv` ties the phase of the main thread to what it has acquired
  and not yet released; a job runs only between the creation of the pool and its end.
* `DiesForCause`: `DeathInv` says that the job comes to a null response, or to bytes
  that are not mapped, only through a failure, and that nobody but `main()` and
  `exit()` ends a process that has had none, unless a later segment of a connection met
  a context that is freed or in use: that cause is named (`misused`), since it takes no
  failed call (`reactor_keepalive`).

* `StringsStayInside`: the bound of the buffer and the final 0 (`BufferFits`,
  `Terminated`) in the composed process. `StringTProofs` is instantiated with the
  variables of the job: its invariant `BufInv` is kept by each operation the job uses,
  at every text the job can pass, and by the two ends of a scope that only `Response` has.
* `ClientReads`: `ClientReadsBodies`, along three lines of argument.
  1. *The client.* `Bodies` is recursive over a text, so that it meets its own equation
     must be proved. `Approximated` shows that for each n some function meets it on the
     texts shorter than n: else there is a least n without one, and the function for n-1
     can be extended. `ApproximationsAgree` (no shortest text on which two differ) puts
     them together (`BodiesEquation`). From the equation `AnswerRead` follows: the client
     reads a response to `b` as `b`, and what is behind it as if it stood alone. The CRLF
     that `Content-Length` does not count is where the next reading begins, and is passed
     over (`BlankRead`). The head ends at its 14th word because no two
     line ends stand together before it: the number is none (`AnswerHead`).
  2. *The response.* `AnswerPieces` lists the seventeen appends of
     `http_response_to_string` for a response with both headers, and `Built(b, j)` is the
     text after j of them.
  3. *The job.* `ServiceInv`: without a failure and a stale `numbuf` (`Unspoilt`) the
     response has both headers and the body that was looked up, the appends left are the
     rest of the list, the string holds what the others add up to, and what was written
     is read as what was served, whatever follows it. The last clause is why the
     invariant is inductive where the property is not: that what has been sent can be
     read says nothing of what a further response will be taken for. With a failure the
     invariant still says which pieces may be appended, as `BufInv` needs that.

### Only model-checked

* All liveness (`WholeIsDelivered`, `EveryCallReturns`, `RequestAnswered`,
  `SignalEndsAtConnection`, `EverythingEnds`): it is beyond the prover, together with
  `ENABLED`.
* The parser with failing allocations or streams that are not plain: there the
  refinement does not hold, and `parse_faults` checks what does.

## 6. Where code and documents disagree

Shown by a run, and listed as findings in `PROJECT.json`: glued requests
(`README.md:2`), segments out of order (the same line), the empty result of a hit
(`resource_getter_test.c`), keep-alive
(`ISSUE.md:14`), closing a connection (`message.def:87`).

Met while modelling, and not the subject of a run:

* **Two jobs of one client.** A client is registered without `EPOLLONESHOT`
  (`server.c:107`), so with the two workers of `config.toml` (the default is four) a
  second segment makes a second job that runs while the first does. `reactor_order`
  shows segments that change places; `OrderLostInOverlap` and `ServiceSafe` say that
  nobody else is affected. The worse outcomes are steps of the model that no property
  excludes: both jobs pass the test of `wait_state` (`http_parse_dfa.c:212`) and both
  answer, or the context is freed twice (line 222).
* **Header views** (`http_parse_dfa.c:310-326`): names and values are views of `post`.
  The append of a later segment (line 97) may move it, and the pop frees it (line 232),
  so the request that is handed out has none that can be read. Nobody reads them today.
* **The freed context without a second request.** The same use of `ctx_tail` after
  `Pop` occurs for one request in two segments, when the event of the second is
  served after both were read: `http_parse_feed` is called with nothing read.
* **SIGINT between the test and `epoll_wait`** (`reactor.c:52`, `:54`) is noticed
  only with the next event, although `message.def:86` announces the end of the
  server. `SignalEndsAtConnection` is what does hold.
* **One `accept` per edge** (`server.c:116`; `ISSUE.md:8` says so): connections
  whose arrivals were merged wait. `WaitingIsMerged` bounds how many.
* **The header limit** (`http_parse_dfa.c:142`; `config.toml:18`,
  `max_header_fields = 100`): the loop counts from 1 and the test after it refuses
  the head whose empty line is found at 100, that is 99 header lines; 100 and more
  leave the loop with 101, pass, and the rest of the head is taken for body or
  dropped. The counter restarts with every call.
* **Bad lines** (`README.md:20`, `:28` lead to an error): a request line without two
  spaces and a header line without a colon are passed over and the request is
  delivered.
* **A negative `Content-Length`** is kept as a `size_t`; the sum wraps, the body is
  taken for complete, and the assertion in `http_parse_dfa.c:167` would fail.
* **A chunked request** reaches line 182 with `post_full_length` 0 and would fail the
  assertion there (`ISSUE.md:16` lists chunked bodies as missing).
* **The double insertion** fails `assert(ret != 0)` (`resource_getter.c:134`) and, in
  the default build, loses the first mapping. `DoubleInsertNeedsRace` and
  `LeakNeedsRace` say when.
* **`max_events`** is read from the key `listen_que` (`configure.c:182`), so the value
  in `config.toml:10` is ignored; neither value is checked before `malloc` and
  `epoll_wait` use it.
* **A string that grows by assignment** (`string_t.c:261-269`): the new text is not
  copied; the string keeps the old bytes, with the new length.
* **A string into itself**: `string_substr` clears its target before it reads the
  view (`string_t.c:514`), `string_append_string` reads a view of the block that
  `realloc` has just moved.
* **`string_take_ownership`**: `string_t.h:26` says that `len` includes the final 0, the
  code adds 1 to it (`string_t.c:127`), which is right for what `configure.c` passes.
* **`string_cstr`** "ends with NUL" (`string_t.h:48`); after `string_clear`, and after
  `string_reserve` of an empty string, the size is 0 and there is none.
  `Terminated` says what does hold.
* **`string_view_to_buf`** writes one byte behind a buffer as long as the text
  (`string_t.c:469`). Its three callers pass one byte more; it is not modelled.
* **A missing file** is answered with 200 and an empty body; the comment in
  `http_method_dispatch.c:40` says that 404 belongs there.
* **The CRLF behind the body** (`http_response.c:42`) is not counted by `Content-Length`.
  No connection gets to a second response now; if it did, a client would have to pass
  over an empty line before its status line, as the one in `Response` does.
* **`numbuf`** (`http_method_dispatch.c:55-58`): the value of `Content-Length` is a view
  of a local that is dead when the response is serialised.
* **A dropped error** (`http_method_dispatch.c:17`): when the handler fails, the caller
  reads a null response; only the Debug build asserts before it.
* **`setsockopt`** that fails leaves the socket open (`server.c:30`; the other paths
  close it).
* **Logging after the end**: `resource_getter_release` and the signal handler may log
  when the logger is closed.

## 7. Not modelled, and why

* Values of `Content-Type`, which are parsed and read by nobody, and the status table,
  of which only 200 is used (row 6 of the plan).
* `string_view_to_buf`, a copy into a buffer of the caller that no string sees.
* `int_to_string_t`, `http_get_simple_response` and `http_response_free`, which only tests
  call, if anyone.
* The numbers and texts of the configuration: what a port or a thread count out of
  range does is up to the system calls. The error codes of the thread pool's end.
* A path longer than `PATH_MAX`, and a capacity above 2^31, for which `1 << k`
  overflows an `int`.
* `get_resource_refreshed` is commented out of its header and has no caller.
* The thread pool is fetched at build time and not in the repository; its queue is
  first in, first out, and its end waits for running jobs only. The logger is left
  out with its lock, which the signal handler takes too.
* Memory that is only leaked (requests, responses, received texts), and descriptors of
  served files in the reactor's table.
* Failures of `pthread_mutex_*`, of `kh_put`, and of `fstat` on an open descriptor.
* Vendored containers (`src/extern`) are taken for sequences and functions.
