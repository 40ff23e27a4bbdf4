# Formal models of cortex.python

TLA+ models of the Python execution engine of this repository (`src/`), of the
example HTTP server that hosts it with the HTTP library it is built on
(`examples/server/`), and of the child process in which a script runs. TLC checks
them on small instances; TLAPS proves nearly all of the safety properties, and the
refinements, for all values of the constants.

Paths below are relative to the root of the repository.

## 1. The system

A client posts `{"file_execution_path": ..., "python_library_path": ...}` to
`/execute`. A thread of the HTTP library's pool parses the body and calls
`PythonEngine::HandlePythonFileExecutionRequest`, which starts *the server's own
executable again* as a child, with `--run_python_file`, waits for it, and answers
through a callback. The child's `main` sees the flag and calls
`ExecutePythonFile` instead of serving: it loads a Python library, runs the
script and returns.

```
 client ── TCP ──> listening thread ──enqueue──> ThreadPool (5 workers)
                        ^                             │  process_and_close_socket
   main: stop(), join   │                             v
   signals: running=false                   handler: Json::Reader::parse
                                                      │
                                            PythonEngine::Handle...Impl
                                                      │ posix_spawn / CreateProcessW
                                                      v
                                            child: main --run_python_file
                                                   ExecutePythonFile (dlopen, Py_*)
```

### 1.1 Inventory

| component | state | operations | interacts with | what is hard | what makes it correct |
|---|---|---|---|---|---|
| Request handler, `src/python_engine.cc`, `src/python_file_execution_request.h` | none between calls; per call: request, pid, the two JSON values; in the kernel: the process table | `FromJson`, `HandlePythonFileExecutionRequestImpl`, two platform branches | called by five threads at once; callback; spawns and waits | concurrent calls and pid reuse; a full process table; a wait ended by a signal; scripts that hang; how arguments travel to the child | a success means that a child ran and has ended; a call never touches another's child; the child is told what was asked |
| Embedded runtime, `src/python_utils.h` | library handle, interpreter, file, `sys.path`; around it the engine and its library | `ExecutePythonFile`, `FindPythonDynamicLib`, `ClearAndSetPythonSysPath`; `Server` constructor and destructor | runs in the child; external Python library | every step can fail; SIGINT at any point; order of destruction | what was acquired is released, in the right order; the script sees the intended `sys.path` |
| Server life cycle, `examples/server/server.cc` with `Server::stop` and `listen_internal` of `httplib.h` | `running`, `is_terminating`, `is_running_`, `svr_sock_`, the thread `t` | start-up, signal handler, polling loop, `stop`, `join` | signals; the pool; kept-alive connections | a signal during start-up; `stop` racing `accept`; requests that come after `stop` | a clean exit abandons nothing; the descriptor's number is not closed under another owner; a signal ends the server |
| Thread pool, `httplib.h:666-741` | `jobs_`, `shutdown_`, the condition variable | `enqueue`, `shutdown`, `worker` | the listening thread feeds it | lost and spurious wakeups; shutdown with jobs queued; jobs that hang | FIFO, nothing stranded, a shutdown drains |
| JSON reader, `server.cc:93,105` | one `Json::Reader` captured by reference | `parse` | all five workers | used without a lock | a request is parsed from its own body |
| The service as a whole | all of the above at once | a request from `accept` to the answer | scripts are clients too | threads, children, hung scripts, scripts that post to their own server, signals | what is accepted is answered; a clean exit leaves no script behind |
| Path helpers, `src/python_utils.h:58-112` | none | executable path, directory of a path, widening | engine and runtime | separators, paths that do not fit | the default library is found beside the executable |
| `Server::SyncQueue`, `server.cc:33-52` | a queue, a condition variable | push, wait-and-pop | nothing uses it | wakeups with several consumers | each result is handed over once, in order |
| `dylib.h` (vendored) | library handle | open, move, symbol lookup, close | `Server` | throws from a constructor; moves | a library is open as often as there are owners |
| Connections, `httplib.h` (vendored): `process_server_socket`, `process_request`, `read_content`, `write_response` | per connection: stream, request, response, count | reading, routing, answering, keep-alive | client, handler, `stop` | partial input at any byte, early answers, pipelining, timeouts, a stop in between | requests and responses stay in step; a handler gets all of the content or none |
| Forms, ranges, queries, routes, files of `httplib.h` (vendored) | the form parser's buffer; a mapped file | parse, check, match, map | connections | content in arbitrary pieces; numbers left out; paths that climb | each agrees with a reference definition (2.7) |
| Sockets of `httplib.h` (vendored) | the socket at hand, the list of addresses | resolve, create, bind, listen, connect | server, client | every call can fail on every address | the socket returned is the only one open |
| HTTP client of `httplib.h` (vendored, used by none of the programs) | socket, counters of requests in flight | `send`, redirects, `stop` | other threads of the same client | `stop` and redirects under a request in flight | a thread's socket is closed by nobody else |
| Registration and settings of `httplib.h` (vendored) | handlers and limits | setters | – | – | – |
| Compression and TLS of `httplib.h` (vendored, compiled out) | – | – | – | – | – |
| Build scripts, CI, dependency installation | – | – | – | – | – |

`PROJECT.json` lists the same components with what is modelled of each, and under
`hazards` every place of the code that a test would hardly reach, with the
property that covers it or the reason why none does.

## 2. The modules

| module | models | kind |
|---|---|---|
| `ExecuteService` | what an engine promises about one call | abstract specification |
| `PythonEngine` | the request handler and the process table | implements `ExecuteService` (POSIX) |
| `MCPythonEngine` | JSON bodies, texts and symmetry for TLC | instance |
| `PythonEngineProofs` | ten theorems about `PythonEngine` | proofs |
| `JobQueue` | what a task queue promises to its feeder | abstract specification |
| `ThreadPool` | `httplib::ThreadPool` with its condition variable | implements `JobQueue` |
| `ThreadPoolProofs` | six theorems about `ThreadPool` | proofs |
| `ServedConnection` | what a worker promises about one connection | abstract specification |
| `ExampleServer` | `main`, signals, listening thread, connections | uses the pool as `JobQueue` describes it; each connection implements `ServedConnection` |
| `ExampleServerProofs` | six theorems about `ExampleServer` | proofs |
| `HttpConnection` | one connection, from the worker that takes it to the close | implements `ServedConnection` |
| `MCHttpConnection` | clients with one message for each way through the server | instance |
| `HttpConnectionProofs` | eight theorems about `HttpConnection` | proofs |
| `ExecuteServer` | queue, workers, shared reader, children and signals together | composition |
| `MCExecuteServer` | a script that posts to its own server, and one that hangs | instance |
| `ExecuteServerProofs` | that `ExecuteServer` implements `ExecuteService` for each request, and five more theorems about it | proofs |
| `PythonRuntime` | the child, from `main` to its end | |
| `MCPythonRuntime` | every circumstance the child may meet | instance |
| `PythonRuntimeProofs` | five theorems about `PythonRuntime` | proofs |
| `MultipartParser` | `MultipartFormDataParser` and the server that feeds it | machine |
| `Ranges` | Range headers: parsing, checking, completing, applying | operators |
| `Texts` | `find` and `substr`, which both of the next use | operators |
| `HttpText` | `split`, `trim`, percent encoding, queries, disposition parameters | operators |
| `Routes` | `PathParamsMatcher`, `is_valid_path`, mount points | operators |
| `Paths` | the program's own path and its directory | operators |
| `SocketSetup` | `create_socket` for servers and clients, `bind_internal` | machine |
| `HttpClient` | `ClientImpl` shared by threads | machine |
| `Dylib`, `FileMap` | `dylib`, `mmap`: what is opened, moved and closed | machines |
| `SyncQueue` | `Server::SyncQueue` | machine |
| `MCParts` | small inputs for the last ten, one at a time | instance |
| `TextProofs` | theorems, for every input, about the operators of `Ranges`, `HttpText`, `Routes` and `Paths` | proofs |
| `PartsProofs` | theorems about the machines, and about the states of `MCParts` | proofs |

`ServedConnection` ties three modules together: `HttpConnection` shows in detail that
a worker serves one connection in this way, `ExampleServer` knows no more of its
connections than this and adds the queue, the listening thread and the signals,
and `ExecuteServer` takes the requests of these connections to the engine and
the children. The engine in turn is `ExecuteService` to its callers, and so is the whole
service to its clients.

### 2.1 PythonEngine

A call is a member of `Requests`; `pc` says where it stands: `idle`, `spawn`
(the response is prepared), `wait`, `reply` (about to make the callback),
`returned`, `thrown`. `req`, `pid` and `resp` are the locals of the call, `answer`
what the callback received, `proc` the process table.

| action | code |
|---|---|
| `Throw` | `FromJson` throws (`get` on a body that is an array, number or string; `asString` of an array or object); the exception leaves the handler and no callback is made |
| `Reject`, `Accept` | the early return with 400; the response set to 200 before anything is tried |
| `SpawnOk`, `SpawnFail` | `posix_spawn` or `CreateProcessW`. Failure sets 500 on POSIX; on Windows only the message changes |
| `Exit` | the child ends (external); its status is never read |
| `Wait` | `waitpid(pid)` succeeds and removes the entry; `WaitForSingleObject` leaves it, as the handles are never closed |
| `Interrupt` | `waitpid` returns -1 with the child still running: the handlers are installed with `sa_flags = 0` |
| `Reply` | the callback |

A text is a sequence of words, what blanks separate: the one thing about a path
that matters is whether the Windows command line, which is built without quotes,
is split again in the same places. `PosixArgv` and `WindowsArgv` are the two ways
in which the request travels, `MainParse` is what `main` reads back. On POSIX the
vector passed to `posix_spawn` has no null pointer at its end: the child's `argv`
goes on with whatever follows in memory, which is the nondeterministic choice of
`Beyond`.

A body is a record of its type and its two members. A body that does not parse is
the null value, since the result of `parse` is ignored (`server.cc:105`); its
members are "".

`ImplementsService` maps the state to `ExecuteService`: the script of a call is
`running` while its entry in the process table is, `ended` after that, and the
answer is read off the status. The abstract specification lets a call run its
script at most once and be answered at most once, allows "ok" only after the
script has ended, and a refusal or exception only if none was started.

### 2.2 ThreadPool

A critical section of `mutex_` is one step, because nothing else is visible of
it. The condition variable is the set of the waiting workers. The code notifies
*after* it has released the mutex (`httplib.h:688,699`), so `NotifyOne` and
`NotifyAll` are steps of their own between which anything may happen, and
`SpuriousWakeup` may wake a worker at any time. `accepted`, `refused` and `done` are
history variables. `Begun` of the mapping to `JobQueue` is the number of jobs no
longer in `jobs_`.

### 2.3 ExampleServer

`main` goes through `construct`, `bind`, `thread`, `handlers`, `loop`, `stop`,
`exchange`, `close`, `join`. `Server::stop` is three steps (test of `is_running_`,
exchange of `svr_sock_`, shutdown and close of the descriptor). `listen_internal` reads
`svr_sock_` up to four times, and `stop` may come between any two: the test at the head of
the loop (`TestSocket`), the argument of `accept` (`LoadSocket`), and after an error the
test (`TestFailed`) and the argument of `close_socket` (`LoadFailed`, `CloseFailed`).
`CallAccept` is the call with the number that was loaded, which may have been closed or given
to another file meanwhile: it fails then. `Accept`, `AcceptRetry` and `AcceptFails` are its
returns, `Drained` the shutdown of the pool. A connection goes from the kernel's `backlog` to the pool's
`queue`, is `taken` by a worker, `idle` in `keep_alive` and `busy` in the handler, and
returns to `taken` or is closed, which is the mapping to `ServedConnection`. The engine's work is opaque: a request keeps its
worker until it is answered. `late` counts the requests begun after `svr_sock_` was
invalidated.

### 2.4 PythonRuntime

One process, one step per call that acquires or releases something. What it
meets (platform, library directory, missing symbols, file, script) is the record
`world`, chosen at the start. `exit` says how it ended: `ok` is the return of `main`,
`script` a `sys.exit` in the script, `aborted` an uncaught exception or the SIGINT
handler, `segv` a call of a function that was not found or of code that is no longer
there.

### 2.5 HttpConnection

What travels is a sequence of *parts*: a request line, a header, a blank line, the
size of a chunk, a piece of content. `wire` is what has arrived; `taken` counts the
parts that a stream has received from the kernel, `pos` those that it has handed
out. A stream receives all there is, and is made anew for each request
(`httplib.h:3040-3046`), so `Done` sets `pos` to `taken`: what was read ahead is lost. `cur`
holds the locals of `process_request`, `answers` the responses begun.

| actions | code |
|---|---|
| `Send`, `Arrive`, `Hangup`, `Stop` | the client, part by part, and `Server::stop` |
| `Loop`, `Poll`, `GiveUp`, `Done` | `process_server_socket_core`, `keep_alive` |
| `RequestLine`, `Header`, `Skim`, `Checks`, `Expect` | the first half of `process_request`: line, headers, 414 after skipping them, `connection_closed`, Range, Expect with what its handler returns and leaves in `res.status` |
| `Route`, `Content`, `Data`, `Skip`, `Rest`, `Chunk` | `routing`; `read_content` in each framing, with limits |
| `Dispatch`, `Handler`, `Routed` | `dispatch_request`, the handler with what it sets and throws, the status after it |
| `Reply`, `Body` (`Sized`, `Chunks`, `Endless`) | `write_response_core`, `apply_ranges`, `write_content_with_provider` |

`Dry` stands for a read that fails, by time or because the client has closed. The part
"unending" is whatever a client goes on sending where it stands (one byte of a line after
the other, headers, chunks, content): it is never complete, and a read that has come to it
neither fails nor returns. A
message is a record of its line, method, version, route, headers and content, and
of what the handler of its route does with it.

### 2.6 ExecuteServer

One request per connection. `phase` says where a request is: `queued`, `parsing`,
`parsed`, `waiting` for its child, `answered` or `closed`. A worker is free when fewer
requests are in hand than there are workers. Two handlers that are inside the
shared reader at once (`overlap`) get any of their bodies, null, or a crash: the
code has a data race there, and what the build makes of it is left open. `Post` is
a script that posts a request to the server it was started by and waits for the
answer. `Signal` may interrupt one `waitpid`; `SignalAgain` is `exit(1)`.

### 2.7 The parts

`MCParts` runs ten small modules in one instance: `kind` says which one a behaviour is
about, `input` is what it is given. Five of them agree with
reference definitions that are written differently: `Ranges` with the bytes that
RFC 9110 says a range asks for, `HttpText` with the parameters that were encoded, `Routes`
with a comparison component by component and a walk through directories, `Paths` with
the path it came from; `MultipartParser`, which is a machine, with the form that was sent,
delivered in pieces of every length. The others are machines whose every call may
fail: `SocketSetup`, `Dylib`, `FileMap`, `HttpClient`, `SyncQueue`.

## 3. What is checked

| run | instance | shows |
|---|---|---|
| `engine_posix` | 3 calls, 2 pids, 2 interrupts, 7 bodies, one call may hang | no success without a child that was reaped (`OkMeansReaped`); each call waits for its own child (`WaitsForOwnChild`, `ReapedByItsCall`); only interrupts leave entries behind, at most one each (`LeaksOnlyByInterrupt`); what was asked arrives, whatever follows the vector (`NamedArgumentsArrive`); the engine implements `ExecuteService` (`ImplementsService`); `EndingCallReturns` |
| `engine_windows` | 2 calls, paths without blanks | `SuccessMeansEnded`, `ChildGetsItsRequest` |
| `engine_windows_blank` | the same with a blank in a path | **violated**: `ChildGetsItsRequest` |
| `engine_windows_status` | `CreateProcessW` fails | **violated**: `FailureHasErrorStatus` |
| `engine_posix_argv` | memory after the vector not null | **violated**: `DefaultLibraryWhenNoneNamed` |
| `pool` | 2 workers, 4 jobs of which one may hang, at most 2 queued | `NoStrandedJob`, `DrainedAtClose`; the pool implements `JobQueue` (`ImplementsQueue`); `EndingJobIsDone`, `ShutdownReturns` |
| `server` | 3 connections, of which one may hang, 2 workers, 2 requests each, 2 signals | `CleanExitIsDrained`, `AtMostOneLateRequest`, `SecondCloseNeedsFailure`, `StopClosesRunningListener`; every connection implements `ServedConnection` (`ServesConnections`); `SignalStopsReadyServer`, `AcceptedIsWorkedOff` |
| `connection` | 25 kinds of messages (one with `Connection: close` in a trailer, two that never end), each before and after a plain one, with a client that stops at any part and a stop at any point | responses answer the requests they follow (`InStep`); a handler gets whole content (`WholeContent`); `CloseIsLast`; the next response is found (`NextIsFound`); the connection implements `ServedConnection` (`ServesConnection`) and ends, or its client sends for ever (`ConnectionEnds`) |
| `runtime` | 8448 worlds, both platforms | `BalancedAtReturn`, `NestedLifetimes`, `ScriptSeesItsLibrary`, `CrashOnlyOnDefaultPath` |
| `execute` | 3 requests, of which one's script posts another and one's never ends; 2 workers | a clean exit leaves one script at most behind, whose wait the signal interrupted (`CleanExitOrphans`); what is accepted is answered unless every thread is blocked on hung or posting scripts (`AcceptedIsAnswered`) |
| `execute_race` | the same | **violated**: `RunsItsOwnScript` |
| `parts` | section 3.1 | `FormsArrive`, `RangesServed`, `QueriesSurvive`, `PathsAgree`, `ResourcesBalanced`, `ClientKeepsItsSocket`, `NoResultIsSleptThrough` |

Every property of a passing run has a mutant in `PROJECT.json`: a plausible slip in
the code (a `notify_one` that is skipped, a `waitpid(-1)`, a response that keeps its
status, ...) under which TLC finds the property violated. The mutated operators
stand before the definitions they mutate and are used by nothing else.

The modules state more than the runs check. `TypeOK` of the modules, `OneChildPerCall`
and `NoSleeperWhenJoining` are theorems or parts of the inductive invariants of
section 5, and so is `WakeupsCover`. `FailureHasErrorStatus`, which `engine_windows_status` finds violated, is a
theorem about the POSIX build; the bodies that `execute_race` mixes up are the subject
of the theorem `RacesMix`.

### 3.1 The bounds, and why they are enough

* **Engine.** Two pids for three calls make the process table run full and a pid
  be reused while a third call is under way; a stale pid needs no more. Two
  interrupts let two calls abandon children at once. The bodies include each
  kind that `FromJson` and the handler tell apart: unparsed, not an object, a
  composite member, no file, no library, both, and both with blanks.
* **Pool.** Two workers are the fewest with which a notify can reach the wrong
  one; four jobs overfill a queue of two while both workers are busy. The
  theorems of section 5 have no bound.
* **Server.** Three connections on a pool of two leave one queued behind busy
  workers; two requests each make a connection be kept alive once, with a stop in
  between; two signals reach both branches of `SignalHandler`.
  `KeepAliveMax` is `keep_alive_max_count_` (5 by default), `PoolSize` the 5 of `main`.
* **Connection.** What goes wrong between two messages goes wrong between a
  message of some kind and the next, so each kind stands once before and once
  after a plain request; a chain of three reaches the end of `KeepAliveMax` = 2.
  `PayloadMax` = 1 piece lets one piece pass and two be too many. Parts arrive one
  by one, the client may close after any of them and inside a part, and a read
  that finds nothing may give up at once: a timeout of any length. Two messages never end,
  one in its headers and one after a chunk. The handler for Expect returns 100, 417, or
  403 with and without a status.
* **Service.** Two workers are filled by the hung script and the posting one, by
  the posting one and what it posts, and leave one request queued behind them.
* **Parts.** Forms of one or two parts in pieces of every length, with content
  that begins like a boundary, and three parts against `MaxFiles` = 2; all headers
  of up to two ranges on content up to four bytes, with four ranges on seven bytes
  for the count of overlaps, `IntMax` = 6 between the numbers; values of up to three
  characters out of those that encoding treats specially; patterns and paths of up
  to four further characters, which is two components with a parameter each and
  a slash at the end; program paths around `BufferSize` = 4. Three addresses, of
  which any fail; three `dylib` objects and two libraries; two threads on one
  client, two redirects, four sockets; two consumers and four results.

Symmetry is used in one run, which has only invariants. Deadlock is not checked: every
one of these systems may really stop (all calls answered, the process ended, every
job done), and what must not stop is stated as a liveness property.

### 3.2 Fairness

Only what a running thread does by itself is weakly fair: the steps of the
handler, of the workers, of `main` and of the listening thread. Nothing external
is, except:

* a script ends only if its call is in `Ending` (`EndsOnItsOwn`), and likewise a
  job and a request of a connection: there is no timeout in the engine, so the
  code justifies no more. The liveness properties are about calls that end
  while others hang, and say how many may hang;
* `GiveUp` of `ExampleServer` is fair, because `keep_alive` measures its time; in
  `HttpConnection` so is a read that fails, because every read and write has a timeout
  (5 seconds by default), and the handlers return. Nothing is owed by the client. The
  timeouts are those of single reads: a client that sends a little of an endless header,
  line or content every few seconds holds its worker, which is why `ConnectionEnds` has
  the alternative that the worker is held up for ever (`HeldUp`);
* in `ExecuteServer` a script makes its posts and ends if it is not in `Hanging`.

Spurious wakeups, signals, new requests, shutdown, interrupts and failures are
never owed. Weak fairness of a worker's step stands for a mutex under which every
worker gets its turn.

## 4. Findings

1. **A failed `CreateProcessW` is answered with 200** (`src/python_engine.cc:76`).
   The response was prepared as a success on line 57; the Windows branch changes
   the message only, the POSIX branch also sets 500 (line 98). Run
   `engine_windows_status`.
2. **The Windows command line is not quoted** (`src/python_engine.cc:61`). A blank
   in the path of the executable, the file or the library shifts the arguments
   of the child. Run `engine_windows_blank`.
3. **The POSIX argument vector has no terminating null pointer**
   (`src/python_engine.cc:93`). Without a library in the request, a stale word of
   the heap can become the child's library directory. Run `engine_posix_argv`.
   `NamedArgumentsArrive` shows what survives: the file, and a library that is named.

4. **Handlers share one `Json::Reader`** (`examples/server/server.cc:105`). It is
   captured by reference and used by five threads without a lock, while `README.md:57`
   promises a child for each input. Run `execute_race`: of two requests that are
   parsed at once, one starts the script that the other one named. The race is
   undefined behaviour, which the model takes for any of the overlapping bodies, null or a crash.

### 4.1 Observations

Things that the models had to reproduce and a reader may want to know. They are not
findings, most of them because no document of the repository says otherwise; the properties name them
as their exceptions or conditions.

* A signal between the installation of the handlers and `is_running_ = true` is lost:
  `stop()` does nothing, and `main` waits in `join` while the server goes on; `server.cc:65`
  itself reckons with a server that hangs. `StopClosesRunningListener` states that
  this, or a listening thread that has ended, is the only way.
* After a fatal error of `accept` the listening thread closes the descriptor and `svr_sock_`
  keeps its number (`httplib.h:6361`); a `stop()` that comes before the thread has cleared
  `is_running_` closes the number a second time. `SecondCloseNeedsFailure` states that there is
  no other way to that, in particular none by way of an `accept` that is called with
  a number closed since the test (`httplib.h:6336,6349`).
* When the listening thread ends by itself (`server.cc:121`), `main` loops on without a server.
* `README.md:48,110` names `build/python/` as the default library, where
  `src/python_utils.h:174` uses `engines/cortex.python/python/`.
* A client must wait for each response (`InStep`'s condition): the stream is made anew for
  each request and what it has read ahead of it is lost (`httplib.h:3040-3046`). A client
  that closes its half after a request gets no response.
* A request that is answered before it was read leaves the rest to be taken for the
  next request line: after a bad line (`httplib.h:6663`) the headers; after 400, 415, 416,
  a pre-routing answer, GET with content or DELETE without a length the content. 417
  is followed by a second response to the same request (`httplib.h:6703`).
* The response to a header block that broke off after `Connection: close` announces
  the close, but the server reads on (`CloseIsLast`, whose `late` marks just these responses). So does the response to a
  message with `Connection: close` among the trailers of its chunked content: they are
  added to the headers (`httplib.h:3907-3960`), which the response repeats (`httplib.h:6030`), but
  `connection_closed` was decided before they were read (`httplib.h:6670-6675`).
* `NextIsFound` has four exceptions, which are the code's. A chunked provider that writes an
  empty piece ends its response without the last chunk. The body of a provider without a
  length is ended by nothing, and the connection goes on. A handler that throws after setting
  content is answered by `write_response`, without `apply_ranges` (`httplib.h:6000-6006,6744-6765`): the
  content is sent with no length. And whether the line and the headers could be written is
  not looked at (`httplib.h:6068`).
* The number of a request's header lines, chunks and trailers is not limited, nor its whole
  time (`httplib.h:3819-3856`): only a client that goes on sending holds a worker
  (`ConnectionEnds`).
* A handler for Expect that returns neither 100 nor 417 ends the request with the status that it has
  left in the response (`httplib.h:6707`); if it has set none, the assertion at
  `httplib.h:6018` ends the program, in a build that has assertions.
* The answer to a descriptor of `FD_SETSIZE` or more (`httplib.h:6643-6651`) cannot be reached: on POSIX
  `keep_alive` calls `select_read` first (`httplib.h:2998,3022`), which fails for such a
  descriptor (`httplib.h:2827`), so that the connection is closed (`GiveUp`); on Windows the branch
  is not compiled.
* A header of a form's part that is longer than 8192 ends the reading without marking the form
  as invalid, but only if the parser is called, or the entry begins, with it (`httplib.h:4439`, `TooLong`).
* A provider stopped by a shutdown counts as a success; POST with neither
  a length nor chunks is read until the timeout.
* A form whose first boundary line is split between two deliveries loses the parts
  before the next one that is not, and counts as valid all the same (`FormsArrive`, whose `cut` marks
  just these forms).
* A missing `sys.path` crashes the child in `PyList_Size` (`src/python_utils.h:145`), which looks at the type of
  what it is given: the test for null on line 159 comes too late.
* Ranges are stricter than RFC 9110: a last byte beyond the end, or a suffix longer than
  the content, is answered 416. With a status other than 2xx they are used unchecked.
* The set that is "needed to ensure that parameter names are unique" (`httplib.h:5591-5595`) is
  searched and never filled, so that a pattern with a name twice is accepted. Values are kept
  by name: the first is, although the comment says the last (`httplib.h:5664`). `RoutesByComponent`
  says so.
* A slash after the last parameter of a pattern is lost, and a path may have one
  there that the pattern has not (`PathsAgree`).
* `mmap::is_open` takes `MAP_FAILED` for a mapping; when `GetFileSizeEx` fails the
  file stays open until the destructor (`ResourcesBalanced`). `bind_internal` with port 0 leaves
  its socket in `svr_sock_` when `getsockname` fails.
* The client forgets a `stop` during a request that is then redirected to the same
  server: the nested `send_` resets the flag (`httplib.h:6963-6965`); `ClientOwnsItsSocket`
  excludes just that.
* On Windows a path of the program that does not fit is used as cut off; on POSIX it
  counts as unknown, and the library is looked for in `./`.

## 5. What is proved

Eight modules hold the proofs. The theorems hold for any sets of calls, pids, bodies,
words, workers, jobs, connections, messages, threads, objects and paths, and any limits,
from the assumptions that the modules state about their constants
(`EngineAssumption`, `PoolAssumption`, `ServerAssumption`, `ConnectionAssumption`, `ExecuteAssumption`,
`RuntimeAssumption` and those of the parts). These say that sets of threads and the like are
finite where they are counted, that limits are numbers, that null values are not
members, and what shape a body, message or circumstance has; TLC evaluates them in every
run. Five theorems have a hypothesis: `~Windows`, where the builds differ,
`Windows` and `NoBlanks` for the command line that is built without quotes, and `Sendable` for a
form (`PartsAlwaysArrive`): it has a part, its lines and contents are made of `Lines` and `Bytes`, no
content has the boundary in it, and nothing but the beginning of a part looks like one. A
client that chooses its boundary well sends no other; the run's forms are `Sendable`, which TLC
evaluates (`FormsAssumption`).

| theorem | states |
|---|---|
| `PythonEngineProofs!TypeCorrect` | `[]TypeOK`, both platforms |
| `PythonEngineProofs!WaitsForOwn` | `[](WaitsForOwnChild /\ OneChildPerCall)`, both platforms |
| `PythonEngineProofs!OkIsReaped` | `[]OkMeansReaped` |
| `PythonEngineProofs!OnlyOwnersReap` | `ReapedByItsCall` |
| `PythonEngineProofs!Refinement` | on POSIX, `ImplementsService` |
| `PythonEngineProofs!SuccessIsEnd` | `[]SuccessMeansEnded`, both platforms |
| `PythonEngineProofs!FailureIsError` | on POSIX, `[]FailureHasErrorStatus` |
| `PythonEngineProofs!NamedArrive` | on POSIX, `[]NamedArgumentsArrive` |
| `PythonEngineProofs!ChildGets` | on Windows and without blanks, `[]ChildGetsItsRequest` |
| `PythonEngineProofs!LeaksAreInterrupts` | `[]LeaksOnlyByInterrupt` |
| `ThreadPoolProofs!TypeCorrect` | `[]TypeOK` |
| `ThreadPoolProofs!NobodySleeps` | `[]NoSleeperWhenJoining` |
| `ThreadPoolProofs!NothingStranded` | `[]NoStrandedJob` |
| `ThreadPoolProofs!WakeupsSuffice` | `[]WakeupsCover` |
| `ThreadPoolProofs!Drained` | `[]DrainedAtClose` |
| `ThreadPoolProofs!Refinement` | `ImplementsQueue` |
| `ExampleServerProofs!TypeCorrect` | `[]TypeOK` |
| `ExampleServerProofs!CleanExit` | `[]CleanExitIsDrained` |
| `ExampleServerProofs!LateRequests` | `[]AtMostOneLateRequest` |
| `ExampleServerProofs!Closings` | `[]SecondCloseNeedsFailure` |
| `ExampleServerProofs!StopCloses` | `StopClosesRunningListener` |
| `ExampleServerProofs!Serves` | `ServesConnections` |
| `HttpConnectionProofs!TypeCorrect` | `[]TypeOK` |
| `HttpConnectionProofs!AnnouncedClose` | `[]CloseIsLast` |
| `HttpConnectionProofs!BodiesEnd` | `[]NextIsFound` |
| `HttpConnectionProofs!Serves` | `ServesConnection` |
| `HttpConnectionProofs!ReadingFollowed` | `[]WholeInv`: where each message is on the wire, and how far the one at hand has been read |
| `HttpConnectionProofs!ContentIsWhole` | `[]WholeContent` |
| `HttpConnectionProofs!StepsKept` | `[]StepInv`: whether client or server is ahead |
| `HttpConnectionProofs!StaysInStep` | `[]InStep` |
| `ExecuteServerProofs!Orphans` | `[]CleanExitOrphans` |
| `ExecuteServerProofs!PoolIsNotExceeded` | `[]FitsPool`: no more requests in hand than workers |
| `ExecuteServerProofs!NoCircle` | `[]NobodyWaitsInACircle`: posting scripts do not wait for each other |
| `ExecuteServerProofs!Starvation` | `[]OnlyTheQueueStarves`: when nothing in hand can go on, a queued request is waited for |
| `ExecuteServerProofs!Refinement` | `KeepsPromise`: each request is a call of `ExecuteService` |
| `ExecuteServerProofs!RacesMix` | `[]OnlyRacesMix` |
| `PythonRuntimeProofs!Balanced` | `[]BalancedAtReturn` |
| `PythonRuntimeProofs!Nested` | `[]NestedLifetimes` |
| `PythonRuntimeProofs!Crashes` | `[]CrashOnlyOnDefaultPath` |
| `PythonRuntimeProofs!SeesLibrary` | `[]ScriptSeesItsLibrary` |
| `PythonRuntimeProofs!Typing` | `[]TypeOK` |
| `PartsProofs!ResourcesAreBalanced` | `[]ResourcesBalanced` |
| `PartsProofs!ResultsHandedOver` | `[]NoResultIsSleptThrough` |
| `PartsProofs!ClientSocket` | `[]ClientKeepsItsSocket` |
| `TextProofs!RangesSendWhatIsAsked` | of `Ranges`: the parts sent are those that the header asks for |
| `TextProofs!EveryRangeIsHonoured` | of `Ranges`: `RangesAreHonoured` for every header, status and length |
| `PartsProofs!RangesAreServed` | `[]RangesServed` |
| `TextProofs!ProgramLooksBesideItself` | of `Paths`: `ProgramIsFound` for every path |
| `TextProofs!MountedFilesStayInside` | of `Routes`: `FilesStayInside` for all mount points and paths |
| `TextProofs!RoutesGoByComponent` | of `Routes`: `RoutesByComponent` for every pattern and every path, with the first parameter of each name |
| `PartsProofs!PathsAlwaysAgree` | `[]PathsAgree` |
| `TextProofs!EncodedTextIsReadBack` | of `HttpText`: decoding undoes encoding, for every text |
| `TextProofs!QueriesAreReadBack` | of `HttpText`: a query is read back, whatever its values hold |
| `TextProofs!PartNamesAreReadBack` | of `HttpText`: so are the names of a form's part |
| `PartsProofs!QueriesReadBack` | `[]QueriesSurvive` |
| `PartsProofs!PartsAlwaysArrive` | of `MultipartParser`: `[]PartsArrive(items)` for every form that can be sent with its boundary: all of it arrives unless a piece ends inside the first boundary line, and then all but some leading parts |
| `PartsProofs!FormsAlwaysArrive` | `[]FormsArrive` |

Each module but `TextProofs`, which is about no specification, also states as `Invariance` that its
`IInv` (`Control` and `Data` in `ThreadPoolProofs`, `AllInv` in `PartsProofs`) always holds, from which
others follow.

**Engine.** None of the safety invariants is inductive: that a waiting call's pid
names its own child says nothing about calls that are not waiting, one of which
may be about to get the same pid. `IInv` adds what the code keeps true
everywhere: every entry of the table is known to its owner (`OneChildPerCall`), a
call that has not spawned knows no pid and so owns no entry, the answer is the
prepared response exactly from the callback on, and `ResponseIsRight`: on POSIX a
response still says 200 in `reply` only if the call has had a child and no longer owns
an entry. The last is where `waitpid`'s result is used, and it fails if either
error branch forgets the status. The refinement maps each action: `Accept`,
`SpawnFail`, `Wait` and `Interrupt` stutter, `SpawnOk` is `Run`, `Exit` is `End` of the owner's
script, `Throw` and `Reply` are `Answer`.

What the answer's *message* says and what reaches the child need `More` on top of
`IInv`: every vector in the table was made from its owner's request, which named a
file; the message "executing" stands in a response only when the owner's entries
have all exited, and on POSIX "failed" only next to 500. `NamedArrive` then
depends on how `main` reads a vector that goes on with anything, and `ChildGets` on
the lemma that a command line of texts without blanks is split where it was joined.
`LeaksOnlyByInterrupt` counts: an entry is abandoned only by `Interrupt`, one at a time.

**Pool.** `Typed` adds to the types that a worker holds a job exactly while it
runs one. `Control` relates the phase of the shutdown to the workers: a worker has
left only after `shutdown_` was set and the list was empty, and once the caller
joins nobody waits. `Data` says that the list is the tail of the accepted
sequence that has not begun (`Suffix`), that no job was accepted twice (`NoRepeat`) and
that every job that has begun is held by one worker or done (`Placed`). `Control` gives
`NoStrandedJob` without counting, and `WakeupsCover` counts: it is inductive as it stands, since
an enqueue owes a notify, a notify makes one more worker ready, and a worker that takes a job
leaves both sides. `Control` and `Data` together give `DrainedAtClose`, and `Suffix` is what makes a worker's `Head(jobs)` the next job of the abstract queue.

**Server.** That a clean exit abandons nothing is not inductive, because it says nothing
of how the listening thread comes to its end. `IInv` ties the three kinds of threads
together: where `main` stands says what has become of `svr_sock_` and of the thread
(`MainKnows`), the thread leaves its loop for a reason, an `accept` that failed on the open
descriptor or an invalid `svr_sock_`, and goes on to close it only after the first
(`ListenerKnows`), the descriptor has been closed once for each of
these (`Descriptor`, which is also why no connection stays in the backlog of a
closed socket), the queue holds the queued connections once each (`QueueHolds`), and the
thread is done only when the pool is empty (`DoneMeansDrained`). `Counted` bounds the
requests of a connection: once `svr_sock_` is invalid a worker may still be inside
one, and `keep_alive` lets no other begin. The refinement takes each connection on its
own: a step of `main` or of the thread stutters for it, a step of a worker with another
one as well.

**Connection.** `Typed` is more than types: the parts that travel belong to messages that
the client has begun, and a point of the code where content is read has something
left to read. `Counted` relates the count of the keep-alive loop to the requests begun.
`Known` says what the worker knows of `Connection: close` at each point: a request that has
been through `Checks` and has the header has `connection_closed` set, unless it came as
a trailer. With it `Announced` (after a response that says close the worker is on its way
out, or the count is used up) and `Found` (the same for a response whose body
was broken off) are inductive; the two exceptions of `CloseIsLast` came out of the attempt to
prove it without them. Where a response ends needs in addition that an error with content comes from a
handler that threw (`Unset`): reading a request sets none (`ReadingSetsNone`).

That a handler gets whole content relates a client's message to what the worker has read
of it, however the parts arrive. `Placed(k, b)` says where the k-th message is: its parts follow b
others on the wire, but for one that a close may have cut short, and what has not arrived of
it is pending. `Followed` says that the worker stands in the message its line was from: at each point it
has read j parts of it, where j, the headers and the content so far fit the point (`Where`). In
the content there are few places to stand at (`Station`), because the content of an honest
message has one of five shapes. From one part to the next the worker goes `Onward`: to a place of
the same message, or past its last part, or out of input (`Broken`). This needs that a line is
found only where a message begins: what an honest message consists of besides does
not look like one, even when reading starts in the middle of it.

That client and server stay in step needs who is ahead (`Abreast`): to a client that waits
either every message has been answered, and nothing is on the wire or pending, or one more has
been begun than answered (`Behind`) and the worker is before it, in it, or at its end with
all that arrived consumed. Because nothing more has arrived, `Done` loses nothing; because the
message is read in full, a response is begun only at its end. A 100 counts for neither side.

**Service.** A child runs only while its handler waits or as a *stray*, and one signal makes
one stray, as it is the signal that ends "serving" (`OneStray`). The queue's entries are
distinct and in nobody's hands (`InLine`), so that `Emptied` follows at the clean exit. Of the shared
reader, `Bodies` says that a handler has its own body, none, or that of a request which was
being parsed at the same time: the mix-up of finding 4 has no other cause.

Two more facts are about posts. A request is posted once, by a script that runs, and has no script
before it is posted (`PostedByScripts`): so among any set of requests there is one that posted none of
the others (`PostsNoCircle`), which is inductive where "nobody waits in a circle" is not. With
the count of the requests in hand (`FitsPool`) it gives `OnlyTheQueueStarves`: a pool whose threads all
wait is short of threads and of nothing else. The refinement reads the answer of a call off its
status; it needs that a status is given once (`AnsweredOnce`) and, of `Bodies`, that nothing is run for a
request whose body named no file. Mixed bodies, interrupts, stops and crashes are steps of
`ExecuteService` or stutter, which is why the shared reader breaks `RunsItsOwnScript` and not this.

**Child.** `EngineHeld` and `PythonHeld` say for each point of the process what it holds there. A
process that ends may do so from nearly everywhere, and from then on nothing changes;
`Ended` states the properties of that end, each of which holds when the step to it is taken.
`sys.path` is set by a loop over a list of directories, whose result (`InsertedReverses`) is
computed step by step from the equation that defines it.

**Parts.** Five machines stand next to each other, one of which steps; `AllInv` is the conjunction
of their invariants.

* Sockets: between two addresses no socket is open, at an address just the one at hand.
* Libraries: the reference count of a library is the cardinality of its holders; a move
  takes one object out of this set and puts another in.
* Files: where `mmap` stands says what is open; only Windows leaves the file open after a failure.
* Results: those handed over and those in the queue are the numbers from 1 on
  (`Numbered`), and if anyone sleeps there are at least as many threads awake as results
  (`Awakened`): this and not "the queue is empty" is what survives two pushes in a row.
* Client: the sends of the one thread that holds `request_mutex_` form a stack, where all but
  the top one wait for the redirect they made (`Stacked`); the count of requests in flight is its
  height, less one if the top one has no socket (`InFlight`). That a thread closes only its own
  socket needs the whole of it: that the socket is the one which the top of the stack
  is reading from, and that `stop` leaves none to an idle client (`Given`).

**Forms.** `FormInv` says where in the form the parser stands. The buffer and what is still to come,
put together, are the rest of the form from a place that the parser's state names: the first boundary
(`Before`), the beginning of a part (`AtEntry`), a line of its head (`AtLine`), its content behind
what was already stored (`AtContent`), the end of the boundary behind it (`AtBoundary`). What has been
stored are the parts from some s on, and s is 1 unless a piece ended inside the first boundary
line (`cut`). A delivery moves symbols from one half to the other and changes nothing of this
(`FormDeliver`), so that the sizes of the pieces drop out of the argument; each other step is shown to
go to the next place (`FormPreamble` to `FormBoundaryEnd`). That the parser finds the boundary
where the content ends, and none before, is `BoundaryFound`, from `Sendable`; that a kept end of the
buffer never loses the beginning of one is the third arm of `FormBody`. The other half of the invariant
says why the parser waits: for each place, too little is in the buffer to go on (`~parsing => ...`).
When all content has been delivered the buffer is the rest of the form, and no place
but the end has so little left (`MuchAhead`, `ReadingGoesOn`): a form that has been read is complete or
refused. TLC checked `FormInv` on the forms of `parts` before it was proved.

**Operators.** The theorems of `TextProofs` are about operators and have no state. What they
compute is defined by recursion over the positions of a text or the elements of a list, that is
by `f[i \in 1..N + 1] == ...`, which stands for a *choice* of a function that satisfies its
equation. That there is one must be proved: `RankRecursion` gives a solution to
every equation in which a value depends only on arguments of lower rank, by way of the
approximations up to each rank, and `RankInduction` what holds of all arguments; both follow from the
well-foundedness of the natural numbers. `SuffixRecursion` and `SuffixInduction` are their form for
a parser that goes from the beginning of a text to its end, `StepRecursion` and `StepInduction` for
one that counts up. Each operator then has a lemma that says what it computes
(`TotalIsSum`, `ComponentsFrom`, `LevelsFrom`, `WalkFrom`, `SplitFrom`, `DecodeFrom`, `EncodeFrom`, `QueryFrom`,
`PiecesLaid`, `CompileLaid`, `MatchLaid`),
and the rest of the argument uses that alone.

* Ranges: each part lies in the content and is what was asked for; the sum of the parts is at most three
  times the content, because at most two of them begin inside an
  earlier one, and the others follow one another.
* Files: after n components a walk is as deep below the mounted directory as the level that
  `is_valid_path` counts, so that it has not left the directory as long as no level is negative.
* Texts: what a parser finds in a text that ends like another is what it finds in that one
  (`FoundLater`, `SplitLater`, `DecodeLater`). So an encoded character, followed by any
  encoded text, is read as itself (`EncodedRead`), and a written parameter, followed by an ampersand and
  others, is split off as it was written (`SplitCut`, `QuerySplit`).
* Routes: `Match` compares fragments, which run over the slashes between parameters, and the
  reference compares components. `Gives` says what the reference gives for components and pieces, and how
  this changes when a character is put before both (`GivesGrow`), a slash (`GivesSlash`) or a parameter
  (`GivesParam`, and `GivesLast` if nothing follows it but a slash). So a stretch of the
  pattern without a parameter is taken character by character (`StretchTaken`) and a parameter by
  one component (`ParamTaken`), which is what `Match` does with a fragment and its parameter
  (`MatchesFrom`), from the last parameter to the first.
* `ProgramLooksBesideItself` needs that a path with a slash has a last one.

The proofs changed the models where they were wrong or could not be reasoned about. `CASE` arms of
`Ranges!Filled` overlapped, which TLA+ leaves unspecified; trailers were not looked at for `Connection:
close`; null values were not assumed to be different from what they stand for the absence of, in
`ExecuteServer` as well; `Honest` took a message by its length when it has both a length and chunks,
where the code reads chunks (`read_content_core`), so that `InStep` claimed too much of such
messages; and `TextAssumption` did not say that hex digits and safe characters separate nothing. Folds
of the community modules were replaced by recursive functions (`Inserted`, `TotalOf`, `Components`,
`Levels`, `Split`, `EncodeQueryParam`, `ParamsToQueryStr`, `HeadFrom`, `PartsFrom`), which follow the loops of
the code more closely. In `MultipartParser`, `PartsArrive` took the first name of a head with two
dispositions, where the parser overwrites it and keeps the last (`NameAmong`), and assumed neither
that lines differ from other content nor what forms can be sent (`MultipartAssumption`, `Sendable`).
The recursive function of `Routes!Match` was one of two arguments and is now a function of the fragment
whose values are functions of the position; `RoutesByComponent` picked the parameters out
of a sequence of indices and now names them by their components (`ParamsFrom`). It was checked for
patterns with one marker in a component, and holds, as is proved, without that restriction: a
second colon belongs to the parameter's name. It gave each parameter the value of its place, where the
code keeps values by name and the first of them. `ExampleServer` read `svr_sock_` once
where the code reads it twice, before `accept` and after its error.

### 5.1 What is only model-checked

* Liveness (`EndingCallReturns`, `EndingJobIsDone`, `ShutdownReturns`,
  `SignalStopsReadyServer`, `AcceptedIsWorkedOff`, `ConnectionEnds`, `AcceptedIsAnswered`): fairness
  and `ENABLED` are outside the reach of the prover.
* The four runs that expect a violation exhibit one behaviour each; there is nothing to prove
  about them but their absence elsewhere (`FailureIsError`, `ChildGets`, `NamedArrive`, `RacesMix`).

No module declares a `RECURSIVE` operator.

## 6. What is not modelled

* **Registration and settings of the HTTP library.** Setters and accessors that
  store one value each; the values that matter are constants of the models.
* **Compression and TLS.** The build defines none of the `CPPHTTPLIB_*_SUPPORT` macros, so that
  code is not compiled. Encoded content is refused, as it is in this build.
* **`RegexMatcher`, content types by extension, `encode_url`, base64.** `std::regex` is a
  library of its own; the others are tables.
* **The client's request builders, authentication and proxies.** `HttpClient` models
  its life with a socket, which is where threads meet; no program of the
  repository uses the client.
* **Socket options and the waiting for them.** A read or write succeeds or fails.
* **What the C++ runtime does at `exit(1)`** on a second signal while workers are
  running: the model ends the process.
* **The content of scripts**, of their output and of the log. A script runs, posts,
  hangs or ends.
* **`stringToWString`**, a conversion by one system call.
* **Windows' console handler.** It runs on a thread of its own and interrupts no
  wait; `Interrupt` is guarded by the platform.
* **Build and CI.** No run-time behaviour.

## 7. Plan

Done: all the modules of section 2, and the proofs of section 5. Each safety invariant that a
passing run checks is a theorem, and so is each action property.

## 8. Running it

`tlc -config PythonEngine_posix.cfg MCPythonEngine`, `tlc -config HttpConnection.cfg MCHttpConnection`,
`tlc -config Parts.cfg MCParts` (and so on, module and `.cfg` of each run of `PROJECT.json`).
Every run takes seconds, `connection` and `parts` about a minute.

`tlapm M.tla` for `M` one of `PythonEngineProofs`, `ThreadPoolProofs`, `ExampleServerProofs`,
`HttpConnectionProofs`, `ExecuteServerProofs`, `PythonRuntimeProofs`, `TextProofs`, `PartsProofs`. Each
takes a few minutes at most, `TextProofs` and `PartsProofs` about ten each.
