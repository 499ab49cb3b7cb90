# TLA+ verification of NativeLibsCommon

TLA+ models of the stateful parts of NativeLibsCommon, TLC configurations that
check them on small instances, and TLAPS proofs for the parts whose safety rests on
counters, locks and ownership: `all_of`, `any_of`, the shared `LruCache`, the Apple
network monitor, `AutoFd` and `AutoPod`. Paths are relative to the repository;
`PROJECT.json` gives the source lines of every definition, the hazards and what covers
each of them.

## The system

The repository is a library: few parts have threads of their own, most are
objects that an application and some external library call in turn.

| Part | Sources | Modules | Status |
| --- | --- | --- | --- |
| `all_of` | `parallel.h` | `Parallel`, `AllOf`, `AllOf_proofs` | modelled, proved |
| `any_of`, `any_of_cond` | `parallel.h` | `Parallel`, `AnyOf`, `AnyOf_proofs` | modelled, proved |
| coroutine `Task` | `coro.h` | `CoroTask` | modelled, without exceptions |
| HTTP/1 server and client | `http1.cpp`, `http1.h` | `Http1Session`, `Http1Server`, `Http1Client` | modelled |
| HTTP/2 sessions | `http2.cpp`, `http2.h` | `Http2Session` | modelled |
| HTTP/3 sessions | `http3.cpp`, `http3.h` | `Http3Session` | partly |
| headers and messages | `headers.cpp`, `headers.h` | `Headers` | partly |
| `LruCache`, `LruTimeoutCache` | `cache.h` | `LruTimeoutCache`, `ExpiringLru`, `SharedLru`, `SharedLru_proofs` | modelled, `SharedLru` proved |
| `TimeoutCache` | `cache.h` | `TimeoutCache` | modelled |
| network monitor | `network_monitor.cpp`, `network_monitor_impl.h` | `LinuxRoutingTable`, `NetworkMonitor`, `PathMonitor`, `PathMonitor_proofs` | Linux and Apple, the latter proved |
| route resolver | `route_resolver.cpp` | `RouteResolver` | modelled |
| CIDR ranges | `cidr_range.h` | `CidrRange`, `CidrExclude`, `CidrRangeSet` | without text parsing |
| Windows firewall | `wfp_firewall.cpp` | `WfpFirewall` | modelled |
| logger, rotating log | `logger.cpp`, `rotating_log_to_file.*` | `Logger`, `RotatingLog` | modelled |
| `MoveOnlyFunction` | `move_only_function.h` | `MoveOnlyFunction` | modelled |
| `AutoFd`, `AutoPod` | `autofd.h`, `utils.h` | `Owners`, `Owners_proofs` | modelled, proved |
| clock, `ExpiringValue` | `clock.h`, `clock.cpp` | `ExpiringValue` | modelled |
| line readers | `file.cpp` | `FileLines` | the readers only |
| base64, CESU-8, hexadecimal | `base64.cpp`, `cesu8.cpp`, `utils.cpp` | `Codecs` | modelled |
| strings | `utils.cpp`, `utils.h` | `Strings` | splitting, searching, wrapping |
| URLs, times | `url.cpp`, `time_utils.cpp` | `Formats` | normalisation, format expansion, `timeval` |
| socket addresses | `socket_address.cpp`, `net_utils.cpp` | `SocketAddress` | without the text of an address |
| net utilities | `net_utils.cpp` | `SystemNet` | adapters, registry, name servers |
| regex, errors, GUIDs, TLS | | | not modelled, see below |

How they interact: the sessions are called by the application and by their parser
or protocol library (llhttp, nghttp2, nghttp3, ngtcp2). The firewall and the
routing table use CIDR ranges. The monitor owns a routing table, which the kernel
feeds through netlink, and on Apple a path monitor, which calls a handler on a queue
of its own. The caches read a steady clock. The rotating log is what the logger's
callback may write to.

## Modules, state and actions

Actions have the names of the functions they model, and variables those of the
members. A body is the number of its bytes, and a message, key or route a model
value or a small record.

* `AllOf`, `AnyOf`. `task[a]` is where the `run` coroutine of an awaitable stands,
  `owner` where the awaiting coroutine stands. `remaining++` is a load and a store
  without the mutex, as in the code; the decrement holds the mutex (`Parallel` has
  what both share). `AnyOf` adds the condition, the weak pointer, and an owner that
  drops the shared state.
* `CoroTask` has one frame per task, with the caller that is saved in it.
* `Http1Session` has the flags, framing and body output both sides share.
  `Http1Server` and `Http1Client` add one action per llhttp callback and per
  `send_*` call. `parser` says which callback comes next, `peer` reads the output
  token by token, and `events` is what the application was told.
* `Http2Session`, `Http3Session`. `m_streams` is the session's table, and `h2` or
  `ng` the protocol library's view of each stream; the properties relate the two.
  `flush` is several steps, between which callbacks may call the session.
* `LruTimeoutCache` has the list, the map and both deadline containers.
  `ExpiringLru` is the abstract cache (entries in order of use with deadlines), and
  `ImplementsExpiringLru` the refinement. `TimeoutCache` has the entry list and the
  map over it. `SharedLru` cuts `get()`, and the `update()` that all calls but `clear()`
  begin with in an `LruTimeoutCache`, into steps between which other threads run. The
  clients' own lock is exclusive, but for the const `get()`.
* `LinuxRoutingTable` is the table as operators, which give a set of outcomes where
  a query of the interface's kind is involved. `NetworkMonitor` adds the kernel, a
  netlink queue that overflows, the dump in two parts, the handler and the setters.
  `PathMonitor` is the Apple build: the update handler runs in steps, and `Racing`
  says whether calls may come in between.
* `CidrRange` has the operators, `CidrExclude` the loop of `exclude`,
  `CidrRangeSet` the set, `RouteResolver` the table cache, and `WfpFirewall` the
  transactions and the verdict on a packet.
* `Logger` holds callbacks by shared pointers, `Owners` descriptors and data by one
  owner (a new descriptor is any that is free, so that a closed one may come back), `ExpiringValue` a value and its deadline by a clock that can be shifted.
* `Strings`, `Codecs`, `Formats`, `SocketAddress`, `FileLines`, `Headers` are functions
  of the code as operators, compared with reference definitions over all inputs up to
  a bound; a step lengthens the input. `SystemNet` has the calls that ask the system
  several questions, between which it changes.

The MC modules compose components. `MCCoroutines`, `MCHttp1`, `MCCaches`,
`MCNetworkMonitor` and `MCLibrary` have a variable that picks one component at the start of a behaviour: the
components share no state, so that they are checked one by one and not as a product.

## Runs

Each run asks the question its row states. Several runs pass only because a
constant keeps the application, or the environment, away from a case that the code
does not handle. That constant is in the last column, and the section "Where the
code differs" shows what happens without it.

| Run | Question | Bounds | Excluded |
| --- | --- | --- | --- |
| `coroutines` | every result once and fitting the condition, one resumption, no lost wake-up, every owner resumed, every frame freed | 3 awaitables, 3 tasks | completion on another thread during `add()` (`AsyncDuringAdd`); tasks neither awaited nor detached (`Careful`) |
| `all_of_race` | `all_of` with completions during `add()`: **violated** | 3 awaitables | |
| `http1` | server: events in order, output well framed, a stream finishes when its response is sent; client: each response on its own stream, what follows one taken for another protocol exactly when the request is not sent | 2 streams, `Content-Length` 0 to 2, 3 chunks sent by a server and 2 by a client, 1 interim response | trailers without a zero chunk first (`ZeroChunkFirst`); a client's HEAD requests, and responses to it with a `Content-Length` above 0; `OwnResponse` stops at a request ended by trailers and at a parse error; `FinishedWhenSent` and `UpgradesExactly` leave out one direction for a length of 0 and one for a length above 1 |
| `http1_length` | a message with a `Content-Length` counts as sent when it is: **violated** | as `http1` | |
| `http2` | table and windows agree with nghttp2; no body is cut; the end is sent | 1 stream, buffer 3, windows 2 | `Careful`: body before its request is flushed, body after the end, trailers over a pending body, destruction with frames queued |
| `http3` | buffers are kept until acknowledged; at most one CONNECTION_CLOSE; the end is sent | 1 stream, buffer 2, window 2 | `Careful`: interim responses, body before a response, a flush after the application set the error to close with |
| `caches` | the containers agree; `LruTimeoutCache` implements `ExpiringLru`; nothing leaves a `TimeoutCache` early; `LruCache::get()` may be shared | 3 keys, 2 values, capacity 1-2, time 4 and 5, 3 threads, up to permutation | sharing `get()` of an `LruTimeoutCache` (`ShareExpiring`) |
| `shared_lru_race` | the same `get()` shared: **violated** | 3 threads | |
| `network_monitor` | Linux: the default interface becomes the kernel's, and the application knows. Apple: `start()` returns, one path is held | 3 interfaces, at first no route or one, 2 changes of routes and 1 of addresses, queue 2, 2 starts, 2 monitors | two routes of one prefix and interface; after a lost notification or failed dump; late answers (`SlowAnswers`); setters while running; calls during the handler (`Racing`) |
| `path_monitor_race` | the Apple monitor with calls during the handler: **violated** | 2 monitors, 2 paths | |
| `library` | the components without shared state, each against its reference | see `Library.cfg` | `Reentrant`, `TellAtEnd`, `AdaptersAppear` |
| `url_dots` | scheme and authority survive `normalize_path`: **violated** | 8 characters | |

Most properties of the passing runs are conjunctions, each about one component or one
piece of state; the conjuncts have names and comments of their own in the modules. In
`library`, `RangesExact` and `Ownership` collect the properties of several modules
(ranges; function objects, log callbacks, descriptors and data), each for the
behaviours about it.

Some of them stop short of what a header says, since the code does otherwise; the
variant that shows it is in brackets.

* `PolicyExact` asks for no verdict on packets that one call restricts and another one
  lets through (`WfpFirewallRestrictions`), on loopback traffic from other addresses than
  127.0.0.1 and ::1 (`WfpFirewallLoopback`), and where the prefixes of a call are all of
  the other family (`WfpFirewallMixed`). Every other packet has one.
* `LogExact` lets a rotation discard the oldest file while a number is free, for at most
  one number per crash and refusal (`RotatingLogGap`), and lets two lines per refusal go
  beyond the size limit (`RotatingLogRefused`).
* `LinesExact` holds for lines that have an end whatever fails and wherever the walk
  begins. The last line without one is compared in an undisturbed walk from the start of a
  file only, if it is longer than one character (`FileLinesLast`), and when a read of
  `read_line` fails the result is the beginning of the line (`FileLinesError`).
* `ConvertersExact`: for byte forms longer than their character needs, and beyond
  Unicode, `cesu8_len` is at least what is written, and for all other bytes equal to it
  (`CodecsOverlong`).
* `FormatsExact`: the path that comes out stands for the same by RFC 3986 as the one that
  went in, and its dots are removed, but for dots at the end of a path
  (`FormatsFinalDots`), names that begin with two dots (`FormatsNames`), and texts with
  `//`, which are taken for URLs with an authority (`url_dots`).

Why the bounds are enough to be of use. Three awaitables give two completions that
race while a third is being added. Two pipelined streams give a front that differs
from the back. Windows of two bytes and a buffer of three make a body block, go on in
part and block again. A capacity of two with three keys evicts. A queue of two with
three notifications overflows. Two-bit bytes keep every case of the mask arithmetic: no
byte, part of a byte, a whole byte and a byte boundary. Strings of six characters hold
two words, a delimiter at either end and one inside. In `caches` states that
differ by a permutation of keys, values or threads are taken for one: no operation
tells them apart, and the run checks no liveness. The arguments are informal: TLC
shows nothing beyond the bounds. `http2` and `http3` have one stream. The HTTP/2
invariants also held with two (`NStreams = 2`, `MaxBuffer = 1`, `MaxQueue = 1`, windows
of 1, `AutoFlow = {FALSE}`, `Spec`; 1,169,876 states, about two minutes); there is no
HTTP/3 counterpart.

## Fairness

* `AllOf`, `AnyOf`: weak fairness of the owner and of each `run` coroutine. Threads
  go on running, and it is assumed that every awaitable completes.
* `CoroTask`: weak fairness of resumption and strong fairness of suspending and
  returning: a coroutine that is resumed again and again gets to its end.
* `Http2Session`, `Http3Session`: weak fairness of `flush`, which the application is
  expected to call; a flush ends, that is, callbacks do not feed it for ever; the
  protocol library takes the streams that have data in turn (strong fairness of each);
  and strong fairness of the peer's window updates. A peer that never opens its window
  is outside of `EofIsSent` and `EndIsSent`.
* `NetworkMonitor`: weak fairness of start and handler, which the event loop runs.
  The kernel's changes are bounded and have no fairness.
* `PathMonitor`: weak fairness of the update handler, which the dispatch queue runs,
  and of a call that can go on. Each monitor that is started has a first update to
  deliver.

## Proofs

Each of the five proof modules has an inductive invariant, a lemma per action, and the
theorems that follow. All of them hold for every value of the constants that satisfies
the named assumptions; TLC checked each invariant on small instances before.

| Module | Theorems | For every | Assumed |
| --- | --- | --- | --- |
| `AllOf_proofs` | `Invariance`, `TypeCorrect`, `ResultsComplete`, `SingleResume`, `WakeupKept` | finite set of awaitables, `SizeMax` not below its cardinality | `~AsyncDuringAdd` |
| `AnyOf_proofs` | `AnyInvariance`, `AnyResultExact` | the same, and every set of matching results | `~AsyncDuringAdd` |
| `SharedLru_proofs` | `SharedInvariance`, `SharedSafe` | set of threads and of keys, capacity above 0 | `~ShareExpiring` |
| `PathMonitor_proofs` | `PathInvariance`, `PathMonitorExact` | number of starts and paths, interface lists | `~Racing` |
| `Owners_proofs` | `OwnersSafe` | number of objects, descriptors and data | |

The assumptions in the last column cannot be dropped: `all_of_race`, the variant
`AnyOfRace`, `shared_lru_race` and `path_monitor_race` are the counterexamples. In
terms of the code, the theorems are about awaitables that complete inside `add()` on the
adding thread or not before the last `add()` has returned; clients that take an
`LruTimeoutCache` exclusively even for its const `get()`; and an application that
calls the Apple monitor while no update is being handled.

Why the safety properties are not inductive, and what is added:

* `AllOf`. `IInv` says that the mutex has one holder, whose loaded counter is current
  (`MutexInv`); that only the awaitable being added moves during `add()` (`AddInv`,
  where the assumption is used); that `remaining` is the number of pending awaitables
  (`CountInv`); that the results are those of the collected ones (`ValuesInv`); and when
  the handle is there (`HandleInv`). The run `coroutines` checks it.
* `AnyOf`. `AnyIInv` is built the same way. The counter means something only while the
  shared state lives, the owner may drop it without awaiting, and the value is there
  before anybody resumes the owner (`AnyValueInv`, `AnyHandleInv`).
* `SharedLru`. That a key found is still mapped when it is spliced depends on nobody
  erasing in between. `SharedLock` says that two threads are inside only if both are in a
  `get()` that may be shared, and `SharedStages` that such a thread is in a step that
  erases nothing and holds `m_guard` exactly for the splice.
* `PathMonitor`. What the application believes is right because the path held is the last
  one handed over, and until then that one is in the queue or in the handler's hands
  (`LatestPath`); because only the newest monitor has something to hand over
  (`OneMonitor`); and because the first update, which is never reported, is over before
  the application can ask (`FirstUpdate`, `NameKnown`).
* `Owners`. `OwnedOnce` is inductive together with its types. `HoldInv` is the common
  part of `dup_fd`, `adopt_fd` and `reset`: what an object gives up is open and nobody
  else's, and what it takes is nobody's.

Only model-checked: everything else, and all liveness. The prover does not handle
fairness and `ENABLED`, nor induction over recursive data.

## Where the code differs

Five runs of the project show a disagreement.

* `all_of_race`: "Returns when all awaitables are finished." (`parallel.h:201`) does not
  hold if an awaitable completes on another thread while a later one is being added,
  since `remaining++` is not under the mutex.
* `http1_length`: "Content-length of an HTTP message that currently being sent"
  (`http1.h:71`), but every length is stored as 1, since `std::optional` is given the
  `has_value()` of the parsed number (`http1.cpp:492` and `553`). The response to a
  request with `Content-Length: 0` is taken for another protocol; a longer message
  counts as sent after its first byte.
* `shared_lru_race`: the mutex of `LruCache` is there "to allow clients to share access
  to the "const" (from their point of view) functions" (`cache.h:30`), but the const
  `get()` of `LruTimeoutCache` erases expired entries, which no mutex makes safe for a
  reader that has found one of them.
* `path_monitor_race`: `stop()` does not wait for a handler that is running, which sets
  `m_first_update_done` after `stop()` has cleared it; the next `start()` then waits for
  ever (`network_monitor.cpp:134`).
* `url_dots`: "Normalize dots according to RFC 3986." (`url.h:10`), but `combine_path`
  removes the first character of the origin where it means the last (`url.cpp:11`).

The variants below show further ones. To repeat one, take the cfg of the run named,
change the constants given, and replace the properties by the one of the row. TLC
reports each of them as violated; none is among the runs, and no cfg file is kept for
them. Some need an application that breaks no documented rule; those marked *careful*
or *reentrant* need a use that a reader may consider wrong, and are about how the code
reacts to it.

| Variant | Run and constants changed | Property | Code | What happens |
| --- | --- | --- | --- | --- |
| `AnyOfRace` | `coroutines`: `AsyncDuringAdd = TRUE` | `AnyResumedOnce` | `parallel.h:27` | as `all_of_race`: an owner that is not suspended is resumed |
| `Http1ServerPipeline` | `http1` | `BegunCanContinue` | `http1.cpp:414` | `send_body` is refused once a further request has come in |
| `Http1ServerTrailer` | `http1`: `ZeroChunkFirst = FALSE` | `ServerOutputWellFormed` | `http1.cpp:389` | `send_trailer` without a zero chunk puts an empty line before the trailers |
| `Http1ClientTrailerEnd` | `http1`: `ClientRequests <- MCClientRequestsUpload` | `ClientAnsweredFirst` | `http1.cpp:397` | trailers finish a stream that has no response |
| `Http1ClientHead` | `http1`: `ClientRequests <- MCClientRequestsHead, ClientResponses <- MCClientResponsesLength` | `ClientBodyIsOwn` | `http1.cpp:275` | what follows the response to a HEAD is read as its body |
| `LruTimeoutCacheLeak` | `caches` | `LeaksNothing` | `cache.h:212` | `set_capacity` leaves deadlines behind |
| `LruCacheZero` | `caches`: `Capacities = {0, 2}` | `ZeroIsDefault` | `cache.h:216` | 0 is stored as it is, by the constructor (which calls `set_capacity`) too |
| `NetworkMonitorLoss` | `network_monitor`: `ReloadMayFail = FALSE, MaxStarts = 1` | `DefaultIsKernelsAfterLoss` | `network_monitor.cpp:652` | no reload after a lost notification |
| `NetworkMonitorStopped` | `network_monitor`: `ReloadMayFail = FALSE, MaxStarts = 1` | `DefaultWhenStopped` | `network_monitor.cpp:140` | a stopped monitor answers from its old table |
| `NetworkMonitorFallback` | `network_monitor`: `ReloadMayFail = FALSE, MaxStarts = 1` | `FallbackMatchesNetlink` | `network_monitor.cpp:179` | the fallback sees IPv4 only |
| `NetworkMonitorMetrics` | `network_monitor`: `Routes <- MCRoutesMetrics, OneRouteEach = FALSE, ReloadMayFail = FALSE, MaxStarts = 1` | `DefaultIsKernels` | `network_monitor.cpp:523` | deleting one of two routes deletes both |
| `NetworkMonitorSlow` | `network_monitor`: `SlowAnswers = TRUE` | `DefaultIsKernels` | `network_monitor.cpp:414` | the late answer about one interface is taken for that about another |
| `NetworkMonitorSetters` | `network_monitor`: `SetWhileRunning = TRUE` | `IgnoredNotSelected` | `network_monitor.cpp:356` | an interface that is ignored from now on stays selected |
| `Http2SessionInterim` | `http2` | `FinalIsSent` | `http2.cpp:701` | an interim response to HEAD ends the stream |
| `Http2SessionGoaway` | `http2`: `Careful = FALSE` | `GoawaySent` | `http2.cpp:110` | *careful*: no GOAWAY when frames were queued |
| `Http2SessionTrailer` | `http2`: `Careful = FALSE` | `EndMeansAll` | `http2.cpp:450` | *careful*: trailers over a pending body lose it |
| `Http2SessionBody` | `http2`: `Careful = FALSE` | `ScheduledIsAttached` | `http2.cpp:606` | *careful*: a body before its request is flushed |
| `Http3SessionCapacity` | `http3` | `CapacityFits` | `http3.cpp:962` | data read and not yet sent counts as free |
| `Http3SessionCloseError` | `http3`: `Careful = FALSE` | `ClosedByDestructor` | `http3.h:381` | *careful*: a flush after the error was set closes early |
| `Http3SessionReader` | `http3`: `Careful = FALSE` | `ReaderAttached` | `http3.cpp:913` | *careful*: a response is submitted without a reader for the body it promises |
| `CidrRangeSetInsert` | `library` | `InsertAnswer` | `cidr_range.h:463` | inserting a range that is a member already returns true, not false as documented |
| `WfpFirewallLast` | `library` | `RestrictionsLast` | `wfp_firewall.h:39` | the allow filters of a later `block_untunneled` let through what an earlier `block_ipv6` blocked |
| `WfpFirewallLoopback` | `library` | `LoopbackOpen` | `wfp_firewall.h:63` | only the addresses 127.0.0.1 and ::1 are let through, not all loopback traffic |
| `WfpFirewallMixed` | `library` | `BlockedForReason` | `wfp_firewall.cpp:401` | ranges of no usable family block everything |
| `WfpFirewallRestrictions` | `library` | `RestrictionsHold` | `wfp_firewall.h:39` | what one call lets through passes, although an earlier or later call restricts it |
| `RotatingLogFull` | `library` | `RotatesWhenFull` | `rotating_log_to_file.h:80` | when the log file could not be opened every message rotates |
| `RotatingLogGap` | `library` | `KeepsFilesCount` | `rotating_log_to_file.cpp:52` | after a crash or a refusal between two renames, the next rotation discards the oldest file although a number is free |
| `RotatingLogRefused` | `library` | `SizeLimit` | `rotating_log_to_file.cpp:57` | a refused rename lets the log file outgrow its limit by two lines |
| `RotatingLogRestart` | `library`: `TellAtEnd = FALSE` | `SizeBound` | `rotating_log_to_file.h:80` | if `tellp` is 0 after opening for append |
| `HeadersRemove` | `library` | `RemoveRemoves` | `headers.cpp:33` | `remove` compares names with case |
| `CoroTaskDropped` | `coroutines`: `Careful = FALSE` | `FramesFreed` | `coro.h:139` | *careful*: a task never awaited is leaked |
| `CodecsOverlong` | `library` | `Cesu8LenAgrees` | `cesu8.cpp:60` | the two decoders differ on overlong characters |
| `FileLinesLast` | `library` | `FileLinesAll` | `file.cpp:216` | one last character is dropped; an empty file has a line |
| `FileLinesError` | `library` | `ErrorIsNullopt` | `file.cpp:234` | `read_line` returns part of a line when a read fails, where `file.h:78` says nullopt |
| `FormatsFinalDots` | `library` | `FinalDotsRemoved` | `url.cpp:68` | dots at the end of a path are kept |
| `FormatsNames` | `library` | `NamesKept` | `url.cpp:59` | a name that begins with two dots is taken for `..` |
| `StringsLeadingSpace` | `library` | `WordsWhole` | `utils.cpp:341` | `word_wrap` breaks a first word behind a space although it fits into a line |
| `MoveOnlyFunctionReentrant` | `library`: `Reentrant = TRUE` | `CallAlive` | `move_only_function.h:122` | *reentrant*: a call that replaces its own function |
| `SystemNetAppear` | `library`: `AdaptersAppear = TRUE` | `SystemNetExact` | `net_utils.cpp:304` | an adapter that appears between the size probe and the reading leaves the detection without a result |

## Further hazards

`PROJECT.json` lists the hazards that weigh most. The others that were met:

* `parallel.h:27`: the unlocked increment of `any_of_cond` (variant `AnyOfRace`).
* `coro.h:139`: the frame of a task that is neither awaited nor detached is never freed (variant `CoroTaskDropped`).
* `http1.cpp:397`: `send_trailer` ends the stream of a client before its response has come (variant `Http1ClientTrailerEnd`).
* `http1.cpp:414`: the application cannot go on with a response it began once a further request has come in (variant `Http1ServerPipeline`).
* `http1.cpp:386`: a nested `send_body` that is refused leaves `ZERO_CHUNK_SENT` set, and the next `send_trailer` leaves the zero chunk out.
* `http1.cpp:145`: a header field with an empty value is not told apart from a name that is still being read, and swallows the next name. Header text is abstracted to whether there is any.
* `http2.cpp:606`: `submit_body` appends to the buffer before scheduling: when scheduling fails the caller gets an error for data that is sent later (variant `Http2SessionBody`).
* `http2.cpp:110`: the base destructor closes streams after the derived part with the handler is gone, then sends GOAWAY (variant `Http2SessionGoaway`).
* `http2.cpp:701`: an interim response to a HEAD request ends the stream (variant `Http2SessionInterim`).
* `http3.cpp:574`: only the stream's own MAX_STREAM_DATA unblocks it: if the transport reports an exhausted connection window as a blocked stream, that stream waits for a frame that may never come.
* `http3.cpp:962`: data that nghttp3 has read and QUIC has not taken counts as free capacity (variant `Http3SessionCapacity`).
* `http3.cpp:1249`: DROP_CONN asks for silence, and `handle_error()` sends a CONNECTION_CLOSE all the same.
* `http3.cpp:336`: a stream that is closed without being in the table makes the close callback fail; `ReportsExact` excludes it.
* `http3.cpp:735`: bytes that nghttp3 refuses are neither reported nor given back to the windows.
* `http3.cpp:237`: `on_h3_stop_sending` shuts down the sending side of the QUIC stream and `on_h3_reset_stream` the receiving side, where the names of the callbacks suggest the other one.
* `cache.h:295`: four containers hold parts of one entry: a `get()` of a key the deadlines lost trips the assertion; `ContainersAgree` excludes it.
* `cache.h:328` and `404`: an entry at exactly its deadline is kept by `LruTimeoutCache` and dropped by `TimeoutCache`; both are as modelled.
* `cache.h:208`: `set_capacity` reads the size outside of the lock that guards the removal; it needs the clients' exclusive lock.
* `network_monitor.cpp:165`: after a start that was refused, `get_default_interface()` enumerates the interfaces of a null path.
* `network_monitor.cpp:140`: `stop()` keeps the table and the flag that says that it is fed (variant `NetworkMonitorStopped`).
* `network_monitor.cpp:289`: routes of other tables must not be taken for the main one's; `DefaultIsKernels` covers it.
* `network_monitor.cpp:523`: deleting one of two routes of the same prefix and interface deletes both (variant `NetworkMonitorMetrics`).
* `network_monitor.cpp:534`: a dump that fails half way leaves the rest of its messages in the socket, and the sequence number is not checked. A failed dump is modelled, what it leaves behind is not.
* `route_resolver.cpp:116`: a cached table answers for routes that have changed since, until somebody flushes it; `RoutesExact` says that it answers for those it read.
* `cidr_range.h:127` and `468`: masks at byte boundaries, of length zero and of full length; the loop of `insert()` advances only if one of two containments holds for each range it meets. `RangesExact` covers both.
* `wfp_firewall.cpp:17`: overlapping filters of several calls are decided by weight alone; `PolicyExact` covers it.
* `wfp_firewall.h:63`: loopback traffic is recognised by two addresses (variant `WfpFirewallLoopback`).
* `wfp_firewall.cpp:38`: a failed commit is not followed by an abort.
* `wfp_firewall.cpp:187`: the destructor of an object that was moved from dereferences a null `m_impl`.
* `rotating_log_to_file.h:80`: the size check leaves out the decoration of the line, and relies on `tellp()` after opening for append (variant `RotatingLogRestart`).
* `move_only_function.h:122`: `reset()` destroys the callable before it clears `m_ptr` (variant `MoveOnlyFunctionReentrant`).
* `file.cpp:198`: positions are counted from where the handle stood when `for_each_line` was called, and `file_size` from the start of the file: a walk that begins later may report an empty last line (variant `FileLinesLast`).
* `file.cpp:187`: the file may grow between `get_size` and the last read; `LinesExact` covers it.
* `headers.cpp:51` and `233`: erasing through a value iterator, and the change from pseudo-headers to fields inside `operator++`; `HeadersExact` covers both.
* `headers.cpp:326`: changing the version of a `Response` does not recompute the status string that HTTP/2 sends.
* `base64.cpp:121`: the decoder indexes its table with a plain `char`, which may be negative; decoding what encoding never produces is not covered.
* `cesu8.cpp:74`: a length computed by a second copy of the decoder (variant `CodecsOverlong`).
* `url.cpp:28`: `//` is searched in the whole text, the query included, and what precedes it is then taken for an origin; `FormatsExact` makes no claim there.
* `utils.cpp:49`: `split_by` with an empty delimiter does not end; the modelled delimiters are not empty.
* `time_utils.cpp:200` and `224`: a time before the epoch has negative microseconds; `FormatsExact` claims the range from the epoch on.
* `socket_address.cpp:23`: the comparison reads as many bytes as the left address has, none for an invalid one: an invalid address on the left equals everything. `AddressesExact` is about valid addresses there.
* `net_utils.cpp:357`: metrics of different families must not be compared when the active interface is chosen; `SystemNetExact` covers it.

## Not modelled

* Wrappers and formatting without state of their own: regular expressions (PCRE2),
  errors, GUIDs, number and calendar conversion, the text of addresses and CIDR ranges.
* TLS: it configures BoringSSL objects.
* HTTP/3: deferred consumption by QPACK, paths, connection ids, the handshake, the
  connection-level send window, refusals by `nghttp3_conn_read_stream`.
* HTTP/3: `handle_expiry` passes the timer on to ngtcp2 and changes nothing in the session;
  it is no action of the model.
* HTTP messages: the setters of single fields and the output as text.
* Logger: the callbacks that write to a file and to stderr (`logger.cpp:62-72`).
* `SystemNet`: the routes themselves do not change during a detection, an interface has
  one index for both families, the list of adapters that the preferred one is taken from
  is read at the first or the second attempt, and the other platforms' name servers are left out.
* Undefined behaviour inside callbacks: an HTTP/1 handler that answers within
  `on_request`, and the handler of a destroyed HTTP/2 session.
* llhttp, nghttp2, nghttp3, ngtcp2, the kernel, the dispatch queue and the Windows
  filtering platform are modelled from how the code uses them, so a property that
  depends on them is as good as that reading.
