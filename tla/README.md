# A TLA+ verification of GNU libmicrohttpd

libmicrohttpd is a small HTTP server as a C library. This directory holds TLA+
modules that model its core, TLC configurations that check them on small
instances, and TLAPS proofs for every value of their constants. All line
numbers are those of the files in `src/src/microhttpd/`, unless a path says
otherwise. `PROJECT.json` gives, for every definition, the lines it models.

    tlc -workers 2 -config daemon_select.cfg MCDaemon   # one run
    tlapm DaemonProofs.tla                              # one module's proofs

## 1. The system

### Parts, state and operations

| Part | State | Operations | What makes it correct |
|---|---|---|---|
| Daemon: polling thread (`daemon.c`) | the lists of connections (`new_connections`, `connections`, `suspended_connections`, `cleanup`, `urh`), counters in total and per address, the flags `resuming`, `have_new`, `at_limit`, `shutdown`, `was_quiesced`, `data_already_pending`, the inter-thread channel (ITC) | one turn of `MHD_select()` / `MHD_poll_all()`; `MHD_add_connection()`, `MHD_suspend_connection()`, `MHD_resume_connection()`, `MHD_upgrade_action()`, `MHD_quiesce_daemon()`, `MHD_stop_daemon()` | a connection is in one list, the flags say which; the counters are exact; no request of another thread is slept through; stopping frees everything |
| Start-up (`daemon.c`) | flags, options, the resources acquired so far | `MHD_start_daemon()` up to the workers, `MHD_stop_daemon()` | each failure releases what was acquired, once; every thread can be stopped |
| Epoll loop (`daemon.c`) | the edge-triggered epoll set, `epoll_state` of each connection, the list `eready` | `MHD_epoll()`, `MHD_connection_epoll_update_()` | no edge is lost; the lists hold only connections that are there |
| Thread per connection (`daemon.c`) | where each thread is; one ITC for all of them | `thread_main_handle_connection()`, resume, stop | a connection is freed after its thread, stopping joins everybody, a resume is noticed |
| Timeouts (`daemon.c`, `connection.c`, `mhd_mono_clock.c`) | `last_activity` and `connection_timeout_ms` of a connection; the lists of normal and of custom timeouts | `MHD_update_last_activity_()`, `MHD_set_connection_option()`, `MHD_get_timeout64()`, `connection_check_timedout()` | nobody is closed early, nobody is overslept, the loop does not spin |
| Connection state machine (`connection.c`) | `state`, `event_loop_info`, the request, the response and the position in it | `call_handlers()`, `MHD_connection_handle_read/write/idle()`, `MHD_queue_response()` | requests are answered one after the other, the application is called in the documented order, every request comes to its end |
| Request parsing (`connection.c`) | the position in the read buffer, the marks of the line or chunk being read | `get_request_line()`, `get_req_headers()`, `process_request_body()`, `parse_cookie_header()`, `MHD_parse_arguments_()` | the same result however the input is cut into pieces, and the right one |
| Upgraded connections (`daemon.c`, `response.c`) | two buffers, the readiness of both sockets, `was_closed` | `process_urh()`, `thread_main_connection_upgrade()`, `MHD_upgrade_action()` | both streams arrive whole, forwarding ends |
| Responses (`response.c`, `connection.c`) | header list and `flags_auto`; data and its owner; reference count, mutex, shared data buffer, `total_size` | creating, editing, queueing and destroying a response, `build_header_response()`, `try_ready_normal_body()`, `try_ready_chunked_body()` | the reply is framed as its headers say; memory is freed once, after the last use; each connection sends its own part |
| Sending (`mhd_send.c`) | cork and no-delay options of a socket and the copies the library keeps | `MHD_send_data_()`, `MHD_send_hdr_and_body_()`, `MHD_send_iovec_()`, `MHD_send_sendfile_()` | the bytes go out in order, none is held back at the end |
| Post processor (`postprocessor.c`) | a state machine over the pieces of a form | `MHD_post_process()`, `MHD_destroy_post_processor()` | the entries of the form, however it is cut |
| Pool and buffers (`memorypool.c`, `connection.c`) | the free part of the pool; start, size and filling of the read and the write buffer | the pool's operations and the places that move, grow, shrink or release a buffer | blocks never overlap; a full buffer grows or the connection fails |
| Authentication (`digestauth.c`, `basicauth.c`, `gen_auth.c`) | the table of nonces with the largest count seen and a mask of the 64 counts before it; the parsed header of a request | `calculate_add_nonce_with_retry()`, `check_nonce_nc()`, `digest_auth_check_all()`, `queue_auth_required_response3()`, the calls that report names | a count is accepted once; a nonce just handed out is accepted; a request is let in exactly if its header is right |
| Helpers (`mhd_str.c`, hashes) | none, or a block | conversions, block-wise hashing | the functions they compute |
| Websocket library (`src/src/microhttpd_ws`) | the frame and the message being decoded | `MHD_websocket_decode()`, the encoders | the messages of the peer, however the frames are cut |
| TLS (`connection_https.c`), `src/src/lib`, `src/src/tools`, examples, tests | | GnuTLS, an unfinished second version of the library, clients | |

### How the parts meet

The daemon thread owns the `connections` list and calls the connection's
handlers for each of its members; a handler that suspends, closes or upgrades
its connection moves it to another list *while the daemon's loop walks the
list*. Application threads reach into the daemon under
`cleanup_connection_mutex`, `new_connections_mutex` and
`per_ip_connection_mutex`, set a flag, and *after* leaving the mutex write a
byte to the ITC that wakes the daemon thread. What a handler leaves in
`event_loop_info` decides what the loop waits for: the state machine and the
loops must agree on it. The handlers of a connection take
all their memory from the connection's pool; a response may be shared by the
connections of several threads and has a mutex of its own. The nonce table is
shared by all connections, and so by all worker threads, under `nnc_lock`; the
clock that stamps a nonce is read before the lock is taken.

### What is hard

* interleavings of the daemon's turn with calls from any thread at any step of
  it, and wake-ups that may be consumed before what they announce is seen;
* lists that change under the loop that walks them, and edges that are
  reported once, possibly when nobody is interested;
* requests, replies and calls of the application that may be suspended,
  refused, split or cut off at any point, with the next request already in the
  buffer;
* input cut into pieces at any byte, and data that looks like its framing;
* buffers shared by threads between filling and sending them;
* shutdown with connections in every possible place;
* failures half-way: out of memory or descriptors after a counter was raised;
* unsigned arithmetic of clocks, deadlines, sizes and masks at its edges;
* long sequences of requests on one connection that move buffers about in a
  pool without ever clearing it.

`hazards` in `PROJECT.json` lists these at their lines with the property that
would notice.

## 2. The modules

| Module | Models | Run by | Proofs |
|---|---|---|---|
| `Daemon` | the daemon with an internal polling thread, `select()` or `poll()` | `MCDaemon` | `DaemonProofs` |
| `Epoll` | the loop with `epoll` | `MCSockets` | `EpollProofs` |
| `ThreadPerConn` | one thread per connection | `MCLoops`, `MCLive`, itself | `ThreadsProofs` |
| `Timeouts` | connection timeouts | `MCLoops` | `TimeoutsProofs` |
| `DaemonStart` | start-up and its failures, workers | `MCMemory` | `ConnMemoryProofs` |
| `AccessHandler` | what `microhttpd.h` promises about the calls of the application: an abstract specification | through `Connection` | |
| `Connection` | the state machine of a connection; implements `AccessHandler` | `MCConnection` | `ConnectionProofs`, `ConnectionReplyProofs` |
| `RequestLine`, `FieldLines`, `RequestBody`, `RequestValues` | the parsers of a request | `MCTexts` | |
| `PostProcessor` | the parser of forms | `MCMemory`, `MCLive` | |
| `MhdStr`, `StringCalls` | the functions of `mhd_str.c`, and one call of each | `MCDigest` | |
| `Forwarding` | an upgraded TLS connection | `MCLoops`, `MCLive` | `ThreadsProofs` |
| `WebSocket` | the frames of the websocket library | `MCSockets` | |
| `SharedResponse` | one response used by several threads | `MCReply` | `ThreadsProofs` |
| `ResponseHeaders`, `ResponseData` | the headers and the data of a response | `MCTexts`, `MCReply` | `ThreadsProofs` for `ResponseData` |
| `Send` | the system calls that send a reply | `MCReply`, `MCLive` | |
| `ConnMemory` | pool and buffers of a connection | `MCMemory` | `ConnMemoryProofs` |
| `DigestNonce` | the nonce table | `MCDigest` | `DigestProofs` |
| `DigestCheck` | the check of an Authorization header | `MCDigest` | `DigestProofs` |
| `AuthParams`, `AuthCalls`, `HashStream` | the parser of the Authorization header, the calls that report names and make challenges, hashing in blocks | `MCDigest` | |
| `Loops`, `HeaderCheck`, `StartUp` | nothing of their own: each takes components by `INSTANCE` and states the property that a run checks and a theorem proves | `MCLoops`, `MCDigest`, `MCMemory` | `ThreadsProofs`, `DigestProofs`, `ConnMemoryProofs` |

The modules meet in what they leave open. `Daemon`, `Epoll` and `ThreadPerConn`
leave open what a handler decides, and are exact in what a decision does to
lists and flags; `Connection` leaves open when it is called and how much the
network takes, and is exact in what it decides. In `Connection` the parts of a
request are tokens; the parsers decode their bytes. `Connection` has one thread
and a response of its own, `SharedResponse` several threads and one response.
`DigestCheck` asks a nonce table of one slot, `DigestNonce` has the table.

Several components are checked in one run: the MC module takes the variables of
all of them, its first state chooses the component (`part`), and from then on
only that component takes steps; the variables of the others are `NULL`, or
keep an initial value. The state space is the sum of the components', not their
product. Such a run's properties are conjunctions of what the component module
states, under the condition that it is the component of this behaviour. Where
such a property is proved as well, it is in a module (`Loops`, `HeaderCheck`,
`StartUp`) that both the MC module and the module of proofs extend.

A definition named `Mutant...` states a plausible slip in the code modelled by
the definition after it. No specification uses it; replacing the definition by
it must break the property that `mutants` names, which shows that the property
depends on that code.

### Daemon

`list[c]` is the place of a connection: one of the lists, or a moment at which
one thread alone holds it (`prepared` by an application thread between
`new_connection_prepare_()` and the list of new connections, `local` by the
daemon thread, `closing` and `released` while it is cleaned up). The lists
other than `connections` are sets, as nothing depends on their order; the order
of `connections` is left open wherever a loop picks the next element, and what
does depend on it - that a loop using `pos->prev` after the handler has moved
`pos` goes on in another list, or stops - is in `Advance`.

`pc` is the step the daemon thread takes next. A turn is `top` (the test of
`shutdown`), `resume` (`resume_suspended_connections()`), `fdset` (the polled
set and the time to wait), `wait`, `clear` (the ITC), `new` / `newproc`
(connections handed over by the application), `accept` / `acceptproc`,
`visit` (the handlers of one connection), `forward` (one upgraded connection),
`cleanup` / `free` / `count` (`MHD_cleanup_connections()`: take, free,
decrement, the mutex being released in between). `x_...` are the steps of
`close_all_connections()`.

A critical section is one step. Writing to the ITC is a step of its own, in
whose absence the daemon thread may take any number of steps: `signals` holds
the bytes still to be written. The reverse also happens: the daemon thread may
consume the request before its signal arrives.

A handler is left open in what it decides (go on, wait for the network,
suspend, upgrade, close) and exact in what each decision does to the lists,
flags and counters. Every failure of `new_connection_prepare_()` and
`new_connection_process_()` (the policy callback, memory, the two limits) is a
choice, followed by the very undo steps of the code. The network may make a
socket ready, or fail, at any time; `accept()` may fail for lack of resources.

With TLS an upgraded connection is forwarded by the daemon (`urh_listed`);
both `was_closed` (application) and `clean_ready` (daemon) must be set before
it is released.

### DigestNonce

A nonce is a pair of a client and a timestamp; the digest over it is an
injection and is left out. A request for a nonce is up to four steps: read the
clock, try the slot under the mutex, and again with another timestamp if the
slot was busy (`Challenge`, `AddFirst`, `Again`, `AddAgain`).
`CheckSlot` is `check_nonce_nc()` as one critical section, with the mask as a
set of bit numbers and with the boundaries of the code: a jump by less than,
exactly, or more than the width. `accepted` counts, per slot and count, how
often a count was accepted; it is not in the code, the properties are about it.

### Timeouts

`normal` and `manual` are the two lists with their order. Clock values are
words modulo `Word`, so differences wrap as in C. A turn visits the connections
one by one while the clock goes on, then computes the wait. The clock may jump
back by up to `MaxJump` (`mhd_mono_clock.c` falls back to clocks that may);
then `connection_get_wait()` asks for a short pause (`RetryWait`).

### ConnMemory

Addresses are offsets in the pool. The operations of `memorypool.c` are
operators from pool to pool; the actions are the places of
`connection.c` that use them, in the order a request goes through them: bytes
are received, the buffer grows, lines are parsed and cut off the front,
allocations are taken from the end and shrink the last buffer if they must, the
read buffer is moved back at the end of the header, the body is consumed, the
buffers are given to the response, a chunk is put together in the write buffer,
and the rest of the input is carried over to the next request. After a "102
Processing" (`Interim`) the application is called again and the next reply is
begun with the write buffer of the last one still there. How many bytes
each step involves is open (`Lengths`). An `mhd_assert()` that fails is
recorded in `failed`.

Not modelled here: red zones of the address sanitizer, guards against sizes
near `SIZE_MAX`, `mmap()` or `malloc()` underneath, and allocations made by the
application while its response is being sent.

### Epoll

A connection is a record: where it is (`place`), `event_loop_info` as the set
of its bits, `epoll_state` as `ready` (what the socket is taken to be ready
for), `eready` and `inset`, and the socket below it: `data` to be received,
`space` to send, the client's end (`eof`), an error, and `edge`, whether epoll
has the socket on its list of events to report. A change of the socket puts it
on that list if it is in the set; `epoll_wait()` reports the state it finds and
takes it off. `EPOLL_CTL_ADD` reports what is already there.

A turn is `listen` (the listen socket leaves the set at the connection limit or
when `accept()` has run out of descriptors, `at_limit`, and comes back when
neither holds), `resume`, `timeout` (the time to wait), `wait` (one
`epoll_wait()`, repeated after `MAX_EVENTS` events), `accept`, `timeouts`
(`handle_idle()` for the connections the timeout lists give), `visit`
(`call_handlers()` for each of `eready`, with its fast track) and the cleanup.
A read that fills the buffer may leave data behind and keeps `READ_READY`; a
short read, and a short send, clear the flag. `epoll_ctl()` may fail, and so may
`accept()` (`AcceptFails`): with EMFILE or ENFILE, while there are connections,
`at_limit` is set until one of them is freed.
`handle_idle()` may put a connection in any event loop state once it has
something to go on with; `left` and `stale` say when it has something although
nothing was received: data of a body that the application has refused, and a
resume.

### AccessHandler and Connection

`AccessHandler` has five actions on four variables: a first call for a request,
a call for each part of its body, the decision to discard the rest, a call when
the request is complete, and the one completion. `HandlerContract` states that `Connection` implements it, with
the calls seen so far (`c.calls`), the units of the body the application has
taken (`c.got`), the size of the request and whether it is being discarded as
the refinement mapping.

In `Connection` the `struct MHD_Connection` is the record `c`; each handler is
an operator on such records, and each state of the `switch` in
`handle_idle()`, `handle_read()`, `handle_write()` and
`update_event_loop_info()` is a case. A request is a sequence of tokens (two
for its request line, one for its header, one for each unit of the body, the
last chunk and the footer); the client pipelines requests. The application may,
in each of its calls, take any part of the body, queue a response of any kind,
suspend, refuse or do nothing; another of its threads may queue a response for
a suspended connection and resume it. A response has a code, a size that may be
unknown, a body in memory, in a vector or from a callback, and may enforce
chunking by its header or forbid it (`MHD_RF_HTTP_1_0_COMPATIBLE_STRICT`);
`setup_reply_properties()` decides from it and the client's version whether the
reply is chunked. A vector with enforced chunking is left out (section 4), and
so is `MHD_RF_HTTP_1_0_SERVER`. `pc` is the place in `call_handlers()`.
`FramingKept` compares what the connection takes with what the client put
there.

### RequestBody

Bytes are symbols (digits of a base, `CR`, `LF`, `;`, space, any other). The
decoder is called when bytes have arrived, keeps `current_chunk_size`,
`current_chunk_offset` and the buffer, and offers payload to an application
that takes any part of it. The levels of strictness are those of
`MHD_OPTION_CLIENT_DISCIPLINE_LVL`. The reference, `Ref`, decodes the whole
input at once after RFC 9112: the places of the payload, how much was
understood, and whether the body is complete or broken.

### Forwarding

The bytes of each direction are numbered. `process_urh()` is cut into the
tests at its start, receiving from the client, receiving from the application,
sending to either, and its end, since the client, the application and
`MHD_stop_daemon()` act between any two system calls. The TLS library may hold
decrypted data for which the socket reports nothing (`tls`).

### SharedResponse

Each connection has a thread. The body (`kind`) is in memory, in a vector, which
each connection copies to its own memory, or comes from the application's
callback, with or without a known size. A reply is chunked if the size is
unknown or chunking enforced, and the client and the flags allow it; otherwise
the thread fills the shared buffer through the callback under the mutex, keeps
the mutex while it sends, and gives up its reference at the end. `total_size`
is compared with the position before the mutex is locked (`WriteChecks`,
`WriteLocks`), and the callback may supply less than asked, nothing yet, the end
or an error. The exits of `try_ready_normal_body()` and
`try_ready_chunked_body()` for lack of memory, and for a callback that returns
too much, are there with the unlocking they do; `stray` records that a mutex was
unlocked by one who had not locked it. `sendfile()` and a vector with enforced
chunking are left out.

### PostProcessor

A call of `MHD_post_process()` gets the next piece of the body; an iteration of
the code's loops is a step. Pointers into the data of a call are positions in
the whole body, and only what is copied to the `MHD_PostProcessor` outlives the
call. The application glues the parts of values together as the documentation
tells it to; `EntriesExact` compares the result with the entries that were
meant, which come with each body in `Docs`.

### ThreadPerConn

Three kinds of threads: the daemon thread (`dpc`: accept, resume, wake, clean
up, and the steps of `close_all_connections()`), one thread for each connection
(`pc[c]`: the top of `thread_main_handle_connection()`, the look at `suspended`,
`select()` on the socket or, while suspended, on the ITC, the handlers, the last
signal), and the application, which resumes and stops. What happens under
`cleanup_connection_mutex` is one step; clearing the ITC and looking at a flag
are two. A call of the handlers goes on, suspends or closes.

### DaemonStart

`MHD_start_daemon()` from the flags over each option to the threads, one
acquisition (mutex, channel, socket, epoll set, table, TLS data, pool, thread) a
step that may fail; a failure releases what the code's error path at that place
releases. `held` counts what is held, `twice` what was released without being
held. Then the daemon is quiesced and stopped, workers one by one.

### RequestLine, FieldLines, RequestValues

The first two run `get_request_line()` and `get_req_headers()` character by
character over text that arrives in pieces, at every level of
`MHD_OPTION_CLIENT_DISCIPLINE_LVL` that makes a difference (-3 to 2, -3 to 1).
The reference looks at the whole text. `RequestValues` has the arguments of the
URL, the header fields, and the cookies that are parsed from them later, in the
one list the application reads and adds to; the pool may have no room for the
next record.

### MhdStr, StringCalls, HashStream

The functions of `mhd_str.c` are operators on sequences of character codes;
`StringCalls` applies each to every short argument over the characters it tells
apart. Word sizes are scaled down so that overflow occurs. `HashStream` cuts a
message that comes in pieces into blocks and pads it; the hash is the sequence
of all that was hashed, so that nothing depends on what a block does: the block functions are external.

### WebSocket

A peer encodes messages, or sends frames no encoder makes; the receiver hands
the bytes to `MHD_websocket_decode()` in pieces. An iteration of its loop is a
step. What each frame means after RFC 6455 is computed when it is sent (`due`)
and compared with what the decoder returns. A piece may end anywhere and hold
bytes of two frames. The three forms of a length are scaled down; `malloc()`
may fail. Set apart are close frames that come in pieces (`WholeCloses`) and
texts that end inside a character (`WholeTexts`); section 4 has both.

### ResponseHeaders, ResponseData, Send

`ResponseHeaders` is the list of entries with `flags_auto`, under every edit
the application can make, and `Reply`, the header built from both for a request.
`ResponseData` has the ownership of what the application hands over, with sizes
of `W` bits that wrap. `Send` has the bytes of a reply as numbers, the socket
options as they are and as the library remembers them, and what the kernel holds
back, for four kinds of kernels: `TCP_CORK` (`linux`), `TCP_NOPUSH` that flushes
when switched off (`freebsd`) or does not (`bsd`), and none (`nocork`).

### AuthParams, DigestCheck, AuthCalls

`AuthParams` finds the Authorization header and parses it once for a request.
`DigestCheck` is `digest_auth_check_all()`: every test in the order of the code,
the buffers it borrows, what it feeds to the hash, and where the nonce count is
consumed. A parameter is its length and whether it is escaped. `AuthCalls` lays
out the strings that are reported to the application, or sent in a challenge, in
the one allocation whose size was computed before.

## 3. The runs

Deadlock is checked in `connection` and `connection_live`, where some step is
always left. Elsewhere the system may stop: the daemon thread has ended, a text
is read to its end, a call has returned, or a bounded clock has reached its end.
(`Epoll` alone has no deadlock either; its run also has the decoder, which ends.)

| Run | Instance | Checks | States |
|---|---|---|---|
| `daemon_select` | select, 2 connections of one address, limits 1 and 1, timeouts, TLS upgrades, all calls | `SuspendConsistent StopClean CountersRight NothingForgotten` | 331,043 |
| `daemon_live` | poll, 2 connections, limit 2, connect, suspend and stop, with fairness | `VisitsLive ResumedIsProcessed StopTerminates` | 351,347 |
| `connection` | 2 pipelined requests of 4 kinds, 9 kinds of replies, a buffer of 3 tokens, another thread, faults | `FramingKept RepliesWhole WaitsForTheRightEvent HandlerContract` | 1,008,819 |
| `connection_live` | one request of 2 kinds, 3 kinds of replies, with fairness | `RequestCompletes` | 26,466 |
| `sockets` | `Epoll` with 2 sockets, at most 2 events at a time, with and without turbo; `WebSocket` as a server, as a client that wants fragments, and as one that gets two frames in one piece | `EpollSeesAll WebSocketExact` | 1,290,931 |
| `loops` | `Timeouts` with 2 connections, timeouts 0, 1 and 3, jumps of the clock; `ThreadPerConn` with 2 connections; `Forwarding` with poll, buffers and pipe of 2 bytes, resets and a stop | `WaitAgrees TimeoutsKept ThreadsLeaveNothing ForwardedIntact` | 1,126,976 |
| `memory` | `ConnMemory` with a pool of 8 words of 4 bytes, lengths 0, 3, 5 and 12; `DaemonStart` with every mode, and in a few modes with every resource; `PostProcessor` with a buffer of 10 | `BuffersSafe StartRight PostExact` | 1,250,148 |
| `texts` | request lines, header sections, chunked bodies, queries and cookies, cut at every byte; edits of a header list of 2 entries, answers to 36 kinds of requests | `LineExact FieldsExact BodyExact ValuesExact HeadersRight` | 928,655 |
| `digest` | 2 clients, 1 slot, a mask of 2 bits, counts up to 6; Authorization headers; headers with up to two faults; challenges and names; hashes; string functions | `AcceptedOnce MaskExact FreshKept HeaderParsed CheckedRightly HashedExactly NamesReported ChallengeExact StringsExact` | 833,755 |
| `reply` | responses of every kind, 3 connections that share one, 2 replies sent on 4 kernels | `DataAsGiven SharedSafely SentRight` | 542,545 |
| `live` | small instances of `PostProcessor`, `Forwarding`, `ThreadPerConn` and `Send`, with fairness | `OperationsEnd ThreadsEnd` | 122,851 |
| `threads_resume` | `ThreadPerConn`, one connection suspended once, with fairness | `ResumedGoesOn`, **violated** | |

What the less obvious properties say:

* `SuspendConsistent` - `suspended`, `resuming` and the handles of upgraded
  connections match the lists, and `daemon->resuming` is set whenever somebody
  can be resumed. `StopClean` - a stop frees everything and nothing panics.
  `NothingForgotten` - a thread that blocks has been, or will be, signalled for
  every flag that was set for it, and accepting that was stopped is started
  again by somebody.
* `EpollSeesAll` - `eready`, the epoll set and the list being walked hold only
  live connections; when the thread blocks in `epoll_wait()`, every connection
  waits for an event that epoll will still report, every resume is signalled,
  and the listen socket is in the set, unless the limit is reached or `accept()`
  has run out of descriptors and a connection is left whose end clears `at_limit`.
* `FramingKept` - the next request begins where the last one ended, whether or
  not its body was read. `RepliesWhole` - a reply taken for complete is
  complete, chunked or not, and the assertions about the states hold. `HandlerContract` -
  `Connection` implements `AccessHandler`, and every request the application
  knows of is reported as completed.
* `TimeoutsKept` - every connection is in the list its timeout belongs to, once;
  the normal list is sorted and the wait never longer than what a connection has
  left. `ThreadsLeaveNothing` - a connection is freed after its thread, nothing
  panics, and a stop leaves nothing.
* `ForwardedIntact` - both streams arrive in order and without gaps; what the
  application wrote before it closed reaches the client, and the other way round.
* `BuffersSafe` - the blocks of a pool never overlap, the assertions about them
  hold but for the two of section 4 (`digits`, `again`), a full buffer with memory left grows. `StartRight` - whatever fails,
  all is released and nothing twice, but for the cases of section 4; every
  thread waits for something a stop can trigger; the increment of the buffers
  fits the pool in whatever order the options came; the workers' shares of the
  connections are what dealing them out in turn gives.
* `SharedSafely` - the last user frees the response, a connection sends its own
  part of the shared buffer, a complete reply has the announced size, and nobody
  keeps the mutex or unlocks that of another; the exceptions are `failed`,
  `EndMadeKnown` and the unlocking of a mutex that nobody locks (section 4).
* `FreshKept` - a nonce that was not used yet keeps its slot until its time is
  over (an action property). `HeadersRight` - the automatic flags go wrong in
  the ways of section 4 only, and while they are right every reply is framed.
* `CheckedRightly` - a request is authenticated exactly if everything in its
  header is right, a count is spent only after all other tests, no buffer is
  read or written beyond its size, and no assertion fails but the three of
  `KnownFailures`.
* `...Exact` - the component's result is that of a reference which sees the
  whole input; `StringsExact` has one conjunct for each group of functions.

### Why the bounds are enough

* Two connections are what the daemon's races are about: one that the thread
  is working on and one that another thread works on, or that comes next in
  the list. With a limit of one the second is refused at either of the two
  places that test it. The theorems about `Daemon` have no bound. The calls
  that do not concern a question are switched off in `Calls`.
* `Epoll` has two instances: one connection at a time with every
  event, fault, timeout and suspension, while another client waits at the
  limit; and two at once that only send and read (`calm`). Two events at a
  time, of up to three sources, make the second `epoll_wait()` happen. A read
  may leave something in the socket or not; how much does not matter. The
  theorem has no bound.
* In `connection` two requests are one that is served and one behind it in the
  buffer; a buffer of 3 tokens holds less than a request and more than the end
  of one. Bodies have 2 units, so that there is a first and a last one.
* In `texts` lines are put together from parts, right and wrong, so that every
  branch of the parsers is taken after every kind of beginning; queries and
  cookies are all strings up to 4 and 3 characters. Chunk sizes have base 4 and
  at most 15, so that three digits overflow; the payloads contain what the
  encoding is made of. All cuts are made.
* In `Forwarding` a direction carries more than a buffer or the pipe holds, so
  that both fill up. In `ThreadPerConn` a connection is suspended twice, so that
  a signal may be left over from the first time.
* `WebSocket` has lengths up to 2 in one byte, below 4 in two digits, and 4 is
  the largest payload: each form occurs below, at and above its limit. The bytes
  of the second stream are the ends of the ranges of the UTF-8 check. In the
  first two the peer sends a frame when the last one was taken; in the third it
  goes on while fewer than 4 bytes are under way (`MaxWire`), so that a piece
  holds the end of a frame and the next one, and the decoder must take no more
  of it than the frame has.
* In `SharedResponse` three threads alternate at every step: one that sends, one
  that meets the end of the stream, and one that fills the buffer again; the body
  takes one read or two. In `Send` a header and a body need several calls; a vector is longer
  than one call takes and a file larger than the buffer.
* In `PostProcessor` the buffer is the least the code allows for the boundary;
  values are longer than the buffer for escapes, and contain beginnings of
  boundaries.
* A mask of two bits has a middle and both edges: jumps of the count by one, by
  the width and beyond are all different, and 6 counts allow each of them
  twice. In `DigestCheck` the sizes keep the order of those in the code.
* A clock up to 5 with timeouts of 1 and 3 lets each connection be renewed and
  time out; it jumps by less than, exactly and more than the limit of the code.
* In `ConnMemory` the increment is a quarter of the pool, as
  `daemon.c:6645` has it; the lengths are not multiples of the alignment, the
  largest needs more than one increment, and the pool is small enough for
  every allocation to fail at some point. Alignment, the least chunk buffer
  and the digits of a chunk header are scaled down together.

Symmetry is used for the connections and clients in runs that check
invariants, and one action property, only.

### Fairness

* `daemon_live`: weak fairness of the daemon thread's next step (`wait` is
  enabled only when the polling function would return), of `ItcActivate` (a
  thread that has left the critical section goes on to write its byte), and of
  `AddInsert`. Nothing is assumed of the network, of the order in which
  connections are visited, or of an application ever making a call.
* `connection_live`: weak fairness of the steps inside `call_handlers()` and
  of a resume. Strong fairness, since the application may interrupt in
  between: of the polling function reporting an event that keeps being there,
  of data arriving or the client closing, of the socket taking data, and of
  the application finally taking the body, queueing a final reply and
  supplying its body. Without the last ones a request may rightly wait for ever.
* `live`: weak fairness of every thread - the parser, the forwarding thread
  with its poll, the daemon thread, each connection's thread - and of the rest
  of a call another thread has begun (the application's close, the signal after
  a resume, the two halves of a stop). Only the half of `ForwardingEnds` about
  a close assumes, in the property, that the client goes on reading. For
  sending: the socket drains (weak), and a send that is possible again and again
  finally takes something (strong, as the thread is told so by the kernel).
* `threads_resume`: the same fairness of all threads as in `live`.

## 4. What the code does differently

Modelling showed places where the code is not what its comments, assertions or
documentation say. The properties of the runs are stated so that these cases
are set apart, each time by a named condition. The lines are enough to see each
of them.

Daemon:

* the loop of `internal_run_from_select()` (`daemon.c:4549`) reads `pos->prev`
  after the handler has moved `pos` to another list; the loop then ends, and a
  resumed connection it has not reached is left to a `select()` that waits for
  the network. The loop for `poll()` saves the predecessor. This is why
  `daemon_live` uses poll;
* stopping finishes the forwarding of a TLS-upgraded connection a second time,
  and removes its handle from a list it is not in (`daemon.c:9153`);
* after `accept()` has failed for lack of descriptors the listen socket stays out
  of the set, below the limit too, until a connection ends (`daemon.c:3923`,
  `5584`), even if descriptors come back otherwise;
* after exactly `MAX_EVENTS` events `epoll_wait()` is called again with the
  same timeout, although connections in `eready` are waiting (`daemon.c:5614`;
  `again` in `Epoll`);
* a connection with data its application has refused waits to read; if
  `handle_idle()` for the timeouts (`daemon.c:5741`, `5751`) asks the
  application again and gets a reply, the connection waits to write outside
  `eready`, and the edge for writing has long been reported (`stuck`);
* a short read clears `READ_READY` (`connection.c:773`) although the client's
  end may already be there behind the data: its edge was reported together
  with that of the data, and the end is noticed at the timeout only;
* the listen socket may be taken out of the epoll set by
  `MHD_quiesce_daemon()` at the same time as by `MHD_epoll()`. Two of the
  places allow for it (`daemon.c:5555`, `6207`), the one at the connection
  limit (`5593`) and the one for worker threads (`6184`) panic;
* the unsigned comparison of deadlines (`daemon.c:4287`) prefers a later
  deadline once a connection is overdue, and the daemon waits too long; a
  connection whose timeout is set back to the default goes to the head of the
  list without a new `last_activity` (`connection.c:7785`), so the list is not
  sorted, contrary to `daemon.c:4273` (`plain` in `Timeouts`);
* with `select()` a forwarding thread does not notice a close during
  `process_urh()` (contrary to the comment at `daemon.c:1456`), nor a stop
  while its buffer is full (`9138`); `poll()` reports the hang-up. This is why
  `Forwarding` is checked with poll;
* with one thread per connection all threads share one ITC. The thread of a
  suspended connection clears it (`daemon.c:2096`) before it looks whether it was
  resumed, the daemon thread clears it too (`4520`, `3561`); each may take the
  other's signal, and a resumed connection is never served, contrary to
  `microhttpd.h:3789`. This is the run `threads_resume`. In the same way a
  resume that races a stop may take the signal a thread needs to end
  (`daemon.c:9247-9257`), so that `ThreadsEnd` is stated without suspension;
* the daemon's pause after a clock that jumped back may oversleep another
  connection's deadline by less than 100 ms (`daemon.c:1972`).

Start-up:

* when `bind()` or `listen()` fails the socket is closed (`daemon.c:8433`), but
  `daemon->listen_fd` still holds it and is closed again at the end (`9039`); the
  mutex of a worker whose thread was not created is destroyed twice (`8926`); the
  ITC is left open when the copy of the random data, the nonce table or its lock
  cannot be made (`7972`), and the DH parameters, the TLS priorities and the
  epoll descriptor of a worker are left in other cases; `mhd_assert (1 <
  worker_pool_size)` (`9299`) does not hold for one worker. `ReleasedOnce` and
  `Forgotten` name these.

Connection and responses:

* the end of a chunk size line with an extension is not counted
  (`connection.c:4546`: "Found LF position" is an index, where lines 4562 and
  4565 set a length): the line feed becomes the first byte of the chunk, and
  the chunk's end is looked for one byte early, so that a valid body is
  corrupted and refused. `ChunkExtension` is modelled as it is; `texts` leaves
  out inputs with an extension whose line has an end;
* a connection resumed after its first call still has the event loop state of
  before and may be read in a state in which no data is expected
  (`connection.c:6556`; `stale`);
* a "102" reply with a body leaves `rsp_write_position` behind
  (`connection.c:7498`), and every "102" reply its write buffer: when the next
  reply is begun, and bytes of the next request have been read, the read buffer
  is not the last block and the assertion at `1979` fails. Without assertions
  the reallocation fails, `read_buffer` becomes NULL with its size kept, and the
  bytes of the next request are lost (`again` in `ConnMemory`); out of memory in `transmit_error_response_len()` the
  connection is closed without the completion (`connection.c:2849`);
* a response from a vector with "Transfer-Encoding: chunked" in its header fails
  the assertion at `connection.c:1520`; without assertions it comes to "There is
  no way to reach this code" (`1594-1602`) and unlocks a mutex nobody has locked;
* the exits of `try_ready_normal_body()` (`connection.c:1426`) and of
  `try_ready_chunked_body()` (`1533`) for lack of memory unlock the mutex of the
  response, which the callers have locked only if there is a callback (`6756`,
  `7404`; `stray` in `SharedResponse`);
* a reply of unknown size that is not chunked has been sent to its end, and
  `handle_write()` finds the size unknown (`connection.c:6751`); before it locks
  the mutex another connection meets the end of the stream and sets
  `total_size`. Now there is nothing to ready (`1411`), and `6781-6789` compute
  what to send from the shared buffer, which a third connection may have filled:
  the offset is outside of it, and the size wraps (`EndMadeKnown` in
  `SharedResponse`);
* an error or the end of a stream for one connection changes `total_size`,
  which others have announced (`connection.c:1464`, `1613`), and truncates or
  hangs their replies (`failed` in `SharedResponse`);
* `mhd_assert (chunk_hdr_len < sizeof(chunk_hdr))` (`connection.c:1651`) fails
  for chunks of 0x100000 bytes or more, although the header has room;
* with a memory increment of 1 to 7 bytes, which `daemon.c:6660` allows, a full
  read buffer is "grown" by nothing (`connection.c:1909`, `GrownSize`); this is
  why `GrowingMakesRoom` and `BuffersAreSafe` assume at least 8;
* after the callback has failed for one connection, another one that gets the
  mutex may find its position at the end without its data being in the buffer
  (why `SendsItsOwnPart` excludes `failed`);
* the branch for a method followed by a version (`connection.c:5132`, "Assume
  zero-length URI") is never reached, as the version was already taken for the
  target: such a line is answered 400. At level -1 and below a first header line
  that begins with whitespace, which is to be ignored, fails the assertion at
  `5785`; at level -3 a bare CR that is kept fails the one at `6080`;
* the first Connection header *assigns* `flags_auto` (`response.c:484`, `487`):
  a Transfer-Encoding, Content-Length or Date added before is forgotten, and a
  reply may announce chunks next to a Content-Length, contrary to the comment at
  `connection.c:2343`. The assertion at `response.c:355` compares five bytes
  only, and fails for a first token that is longer than "close". A new Date that
  is refused has removed the old one and kept its flag, so that the next one
  fails `mhd_assert (NULL != hdr)` (`657`). Deleting a footer clears the flag of
  the header of the same name (`764`);
* a vector with more elements than one `sendmsg()` takes clears `WRITE_READY`
  although the kernel took all it was offered (`mhd_send.c:1526`): with
  edge-triggered epoll the rest is left (`LongVector` in `Send`). On FreeBSD
  every push by uncorking is followed by an empty send, since the old state is
  compared in the wrong branch (`704`).

Strings (`mhd_str.c`):

* `MHD_str_has_token_caseless_()` passes over the item after one that is the
  beginning of the token (`820`: "abc" is not found in "ab,abc");
  `MHD_str_remove_token_caseless_()` copies whitespace after such a beginning as
  it stands, contrary to "normalised" (`937`);
* the strict in-place percent decoder returns 0 for a broken escape without
  truncating the string (`1965`, contrary to `mhd_str.h:572`), and the lenient
  one copies three characters of it, also where an escape begins at the second
  ("%%11", `2045`); the strict decoder of text with a length reads one byte past
  an input that ends in an escape with one digit (`1776`).

Digest authentication:

* `is_slot_available()` takes the timestamp of the new nonce for the present
  time (`digestauth.c:1674`); it may be older than the nonce in the slot, the
  difference wraps, and a fresh nonce is overwritten (the last case of
  `FreshKept`);
* the comparison at `digestauth.c:892` is the reverse of what its comment says:
  a nonce overwritten by a newer one is answered with "wrong", not "stale"
  (`Mismatch`);
* names of algorithms written with escapes are exchanged (`gen_auth.c:283-311`),
  and `is_param_equal_caseless()` compares with regard to case;
* an unknown algorithm passes the test of the allowed ones and ends in
  `MHD_PANIC` (`digestauth.c:2628`), an unknown `qop` is treated like `auth`; the
  checks that take `MHD_DIGEST_ALG_AUTO` panic;
* a `uri` of exactly the largest size is an error, not "too large"; a user hash
  of a single character that is no digit is reported as a hash (`1144`); an empty
  realm or name reaches `mhd_assert (0 != param->value.len)` (`2463`), and an
  empty `qop` that of `2382`: it is of an unknown kind (`gen_auth.c:383`), passes
  the test at `2632` and is unquoted at `2985` (`KnownFailures` in
  `DigestCheck`); `nonce_timeout * 1000` wraps;
* results of `calloc()` are used unchecked in `MHD_digest_auth_get_request_info3()`
  and `MHD_digest_auth_get_username3()`; "the NULL is tolerated" for a response
  (`3472`), but the header is added through it (`response.c:167`).

Post processor:

* the part after a nested multipart keeps the name, file name and type of the
  last one (`postprocessor.c:1081`, contrary to the comment at 1156): the forms
  of `memory` end after a nested part;
* an empty nested part after the first is not reported; half an escape at the
  end of a value leaks into the next; a last key without "=" and without a line
  end is not reported.

Websockets (`src/src/microhttpd_ws/mhd_websocket.c`):

* a text that ends inside a character is returned, although the documentation
  says "you will never get an unfinished UTF-8 sequence" (`1442`); the encoder
  makes such frames;
* the UTF-8 check of a close frame that arrives in pieces takes the position in
  the frame for one in the piece (`1236`): for a later piece the length wraps
  around, and a valid frame is refused;
* `MHD_websocket_encode_text()` advances the UTF-8 state before an allocation
  that may fail.

## 5. What is proved

The theorems hold for every value of the constants that satisfies the modules'
assumptions, in particular for any number of connections, addresses, clients
and slots, any limits, and for the real sizes and widths. Where a theorem needs
more, the condition is named and is a hypothesis of the theorem.

**Daemon.** `Invariance` proves the conjunction `IInv` of

* `TypeOK`;
* `CountExact` and `IpCountExact`: the counters equal the number of connections
  in the places that count, and are within the limits;
* `LoopInv`: what the daemon thread holds between building the polled set and
  the end of the loop is still in the `connections` list; when it blocks, every
  flag set by another thread is announced by a signal written or about to be
  written; and accepting is suspended only while someone can resume it;
* `FlagInv`: `suspended`, `resuming` and the flags of upgraded connections
  match the place (`UpgradeHandle`), and `daemon->resuming` is set whenever
  someone can be resumed;
* `StopInv`: no panic, how far the shutdown has come, and which places are
  empty by then (`StopRequested`, `StopProgress`, `HeldByThread`).

None of the last three is inductive alone: that no wake-up is lost needs the
flags to match the lists, and that a shutdown leaves nothing needs both. From
it follow `TypeCorrect`, `CountersExact`, `VisitsAreLive`,
`SuspendResumeConsistent`, `WakeupsNotLost`, `AcceptResumes`,
`NothingIsForgotten` and `StopComplete`. The cardinality facts about adding and
removing one connection are lemmas of their own.

**DigestNonce.** `SlotInv` says of a slot that the largest count was accepted
once, none above it was, no count was accepted twice, and the mask tells which
of the counts in the window were; neither `AcceptedOnce` nor `MaskExact` is
inductive without the other. From it `TypeCorrect`, `MaskIsExact` and
`CountsAcceptedOnce`: no count of a nonce is accepted twice while the nonce has
its slot. The action property `FreshKept` is `FreshNoncesKept`: it needs that
no client's timestamp is ahead of the clock and that the slot of an unused nonce
has not seen any count (`FreshInv`), and that the clock is below the 48 bits of
a timestamp (`NoWrap`).

**Timeouts.** `FunctionsAgree`: `connection_get_wait()` returns zero exactly
for the connections that `connection_check_timedout()` closes, so the loop
neither spins nor misses one, for every word size. `ListsByTimeout`: a
connection is in the list its timeout belongs to, once, from `ListInv`, which
adds that a connection that was never added has the default timeout.
`TimeoutsAreKept` adds, from `WaitInv`, that the normal list is sorted and the
wait is short enough for everybody although only its tail was looked at; it
assumes that the clock stays below half of its word, 2^63 ms (`ShortUptime`).

**ConnMemory.** `IInv` is `TypeOK`, `Disjoint`, `AssertionsHold` and
`LastBlock`: the buffer in use - the read buffer while receiving, the write
buffer while sending, and from an interim reply on - is the last block at the
front of the pool; while there is a write buffer the read buffer has no free
space, and a read buffer with data is lost only in the reply after an interim
one. `LastBlock` is what makes resizing in place legitimate and thereby keeps
the others. `AssertionsHold` sets two assertions apart, which the code can fail:
`digits` and `again`. Starts of buffers are not aligned, and the proof rests on lemmas
about rounding. From it `TypeCorrect`, `BuffersDisjoint`,
`AssertionsNeverFail`, and, for increments of at least 8, `GrowingMakesRoom`
and `BuffersAreSafe`.

**DaemonStart.** `StartsRight` is `StartRight` for any flags and options of
the application, any number of workers, connection limit and pool size
(`StartAssumption`: the default increment fits the default pool, and the options
are well-formed). `StartInv` (`StartKept`) tells for each place of the start, of
its error paths and of the stop what is held: of the daemon (`OwnHeld`,
`PollHeld`), the listen socket (`ListenHeld`) and each worker (`WorkersHeld`,
from the set of those that run by then, `Started`). An error path releases most
things because a pointer is set, so the invariant has to say when it is. That a
failed start leaves nothing needs `Blamed`, which ties the place to what has
failed, since one label serves many failures; that a thread can be woken needs
`Chosen` (flags that leave neither a channel nor a listen socket to shut down
have been refused) and `Prepared` (what a thread watches was put into its set
before it was started). The workers' shares rest on `DealtOut`: of `k` things
dealt out in turn, one of `n` gets `k \div n`, and one more for the first
`k % n`; it is proved with a bijection. The proof showed that a socket of the
application need not be excepted from what a failed start closes.

**DigestCheck.** `CheckIsRight` is `CheckedRightly` for any sizes of values,
buffers and digests in the order the code has them (`SizeAssumption`), any
header the parser may give (`HeadersAssumption`) and any arguments of the call.
`CheckInv` says, for each place of `digest_auth_check_all_inner()`, which tests
have been passed (so that what is still wrong with the header is what the tests
to come look at; `Present`, `Found`), that a count was taken exactly from the
place on where the nonce is accepted, what was fed to the digest so far
(`Feeding`), and that the buffer from `malloc()` is the only one. Whether a request is let
in is decided eight steps after the first test; `Authentic` needs all of that.
No assertion fails but the three of `KnownFailures`, since of all values that
are unquoted only realm, user name and `qop` may be empty by then.
The proof brought the exact list of reasons for which a right header is refused
(`Excused`): among them that of an unknown `qop`, written with escapes and longer
than the largest buffer (`digestauth.c:2985` unescapes it; no test before has looked at its length).

**ThreadPerConn.** `ThreadsLeaveNoTrace` is `ThreadsLeaveNothing`, for any
number of connections and any limit. `ThreadsInv` relates the place of each
thread, the list its connection is in, `suspended`, `resuming`, `thread_joined`
and the counter, and adds what each step of `close_all_connections()` may rely
on (`StopReached`): after the first loop nobody is suspended, after the one that
joins the threads every thread of a connection that is left has ended. That a connection is freed after its thread
needs that a connection is in `cleanup` only by the last act of its thread;
`connections <= Limit` that the listen socket is polled below the limit only.

**Forwarding.** `ForwardingIntact` is `ForwardedIntact`, for polling with
`poll()` and any sizes of the buffers and the pipe. `ForwardInv` cuts each
direction into adjacent runs of numbers: what has arrived, what the pipe holds,
what the buffer of MHD holds, what the TLS library and the socket hold. Sending,
receiving and moving the rest of a buffer to its front shift a border between
two runs; lemmas about the concatenation and the head and tail of a run carry
the proof. That the last words of the application are sent needs when
`was_closed` was seen: at that time all it wrote is in the pipe.

The last two and the next are proved in one module, as are the two parts of
authentication, and buffers and start-up. A module of proofs reaches its second
component through the module that composes them, and a theorem about it names
the component's specification (`Fwd!Spec`, `Start!Spec`).

**SharedResponse.** `SafeInv` adds three facts to `SharedSafely`: what each kind
of body fixes (`Kinds`: without a callback the size and the buffer never change);
that the data in the buffer is part of the body, and a connection past the end
of it does nothing more (`Positions`); and that until the callback fails the size
is the right one or unknown, so is every announced one, and a connection that
has announced a size and found more to send still has more to send when it gets
the mutex (`SizeStable`). `LockHeld`, which is part of `SharedSafely`, is what
keeps the buffer unchanged between the check and the send. From it
`SharedResponseSafe` and `MutexHeldByOne`.

**ResponseData.** `DataOwned` states two parts of `DataAsGiven`, `OwnedOnce` and
`FileOffsetsValid`, for any width of the integers of at least two bits and any
sizes below it. The invariant `DataInv` says what is allocated for the response
there is (`Allocated`: the response and its mutex, and the copy or the vector),
what was handed over with it, and that a response from a file has a size and an
offset whose sum does not exceed the largest signed size. The last follows from the three
tests of `MHD_create_response_from_fd_at_offset64()` only together, which the
lemma `SizesFit` shows: the test of the sum alone accepts one that has wrapped. `WidthAssumption`
states the two facts about powers of two that need induction, and
`NullAssumption` that `NULL` is not a response.

**Connection.** The invariant `ConnInv` is about the record of the connection
together with everything the client has sent and the connection has not taken:

* `Typed`, with `AfterTyped` for what a handler has left for the next step;
* `Chained`: the buffer followed by the wire is the rest of the stream of the
  requests, token by token;
* `Framed`: the first token of it is the one the state expects, the one after
  the units of the body that were taken;
* `Counted`: the units offered, taken and remaining add up;
* `Called` and `InCalls`: the calls the application has seen are those the state
  implies, in the middle of a call as well.

`ControlKept` proves it (`StepInv`), with one lemma for each handler and each
state of its `switch`, and one for each step of the specification. From it
follow `FramingIsKept`; `HandlerRefined`, which shows that `Connection`
implements `AccessHandler` - initial states map to initial states, and each step
to a step or a stutter; and `HandlerContractKept`, where a freed connection has
reported the completion of every request the application knows of, if no
allocation for an error reply fails (`MemoryFails`; section 4 has the path that
is otherwise left).

`ConnectionReplyProofs` builds on it. `ReplyRight` says what is left of a reply
in each state that sends one and what the client has got; `Events` that
`event_loop_info` fits the state whenever the thread may sleep. `WaitsRightly`
and `RepliesAreWhole` follow; the latter is for interim replies without a body
(`InterimEmpty`), which RFC 9110 demands and the code does not check.

**Epoll.** `EInv` says for each connection, depending on where the thread is
with it, in which of `eready`, the epoll set and the two lists it is
(`Mid`, `Settled`), what epoll still has to report about its socket
(`EdgeKnown`), and what it waits for outside `eready` (`Waiting`); for the
thread, that closed connections are in no list (`NoneClosed`), the list being
walked holds live ones (`ListKept`), a resume is signalled (`ResumeKnown`),
nobody is ready when it blocks (`NoneReady`), where the listen socket is
(`Listens`), and that `at_limit` is set only while there is a connection whose
end clears it (`LimitEnds`). `EpollSeesAllEvents` follows. That no edge is lost is not
inductive without the exact moment at which each flag of `epoll_state` is
cleared, which is what most of the lemmas are about.

**Only model-checked:**

* the liveness properties (`ResumedIsProcessed`, `StopTerminates`,
  `RequestCompletes`, `OperationsEnd`, `ThreadsEnd`), which are out of the
  prover's reach;
* the comparisons with a reference (`LineExact`, `FieldsExact`, `BodyExact`,
  `ValuesExact`, `PostExact`, `HeaderParsed`, `HashedExactly`, `NamesReported`,
  `ChallengeExact`, `StringsExact`, `WebSocketExact`): parser and reference are
  recursive over sequences, and what a recursive definition computes for every
  input needs an induction the installed provers do not do;
* `HeadersRight`, the part `BodyAsGiven` of `DataAsGiven`, and `SentRight`: they compare with a sum, a
  concatenation or a search over the whole list of headers, pieces or calls, and
  need the same kind of induction.

## 6. What is not modelled

* the external event loop (`MHD_run()`, `MHD_get_fdset()`, `MHD_run_from_select()`)
  as an interface: the functions behind it are those of `Daemon` and `Epoll`,
  called by the application instead of a thread;
* the branch of `thread_main_handle_connection()` that uses `poll()`; with
  epoll: TLS sockets, `run_epoll_for_upgrade()` and quiescing;
* TLS itself (`connection_https.c`): sequences of calls into GnuTLS;
* the block functions of the hashes, and their hardware variants: pure
  functions, covered by test vectors in the repository;
* reason phrases, panic, replacements for missing system functions: tables and
  calls without state;
* `src/src/lib`, an unfinished second version of the library with copies of the
  same algorithms; `src/src/tools`, examples and tests.

The modules cover between a fifth and a quarter of the 104,000 lines of
implementation. The files that hold the concurrency and the state machines -
`daemon.c`, `connection.c`, `response.c`, `postprocessor.c`, `memorypool.c`,
`digestauth.c`, `mhd_send.c`, `mhd_str.c` and the websocket library - are mostly
covered; the rest is public headers, the second version of the library,
examples, hashes and tools.

## 7. Plan

1. **Proofs.** Of `Send` that the copies of the socket options are true and that
   the end of a reply is pushed.
2. **Abstract nonce table** - a map from nonces to sets of accepted counts,
   implemented by `DigestNonce` within its window.
3. `run_epoll_for_upgrade()` as a third polling function of `Forwarding`, and
   the `poll()` branch of `ThreadPerConn`.
4. The external event loop: `Daemon` with the steps of a turn called by the
   application, in any order the documentation allows.
