----------------------------- MODULE Connection -----------------------------
(***************************************************************************)
(* The state machine of one HTTP connection (connection.c): the thread     *)
(* that serves it runs call_handlers() whenever the polling function       *)
(* returns, which reads, writes and runs MHD_connection_handle_idle();     *)
(* the application acts inside its callbacks, and another of its threads   *)
(* may queue a response for a suspended connection and resume it.          *)
(*                                                                         *)
(* Data is cut into tokens: a request is the two parts of its request      *)
(* line, its header, the units of its body and, when it is chunked, the    *)
(* last chunk and the footer.  How much arrives, is taken by the           *)
(* application or goes out at a time is left open.  The struct             *)
(* MHD_Connection is the record c; its handlers are operators on such      *)
(* records.  TLS, the memory pool and the clock are not here: see          *)
(* ConnMemory and Timeouts.                                                *)
(*                                                                         *)
(* The definitions named Mutant... state a plausible slip in the code      *)
(* modelled by the definition that follows them; the specification does    *)
(* not use them.                                                           *)
(***************************************************************************)
EXTENDS Integers, Sequences

CONSTANTS
  Kinds,        \* the requests a client may send, see KindType
  MaxRequests,  \* how many a client sends on the connection
  Replies,      \* the responses the application may queue, see ReplyType
  BufSize,      \* how many tokens the read buffer holds at most
  MaxRead,      \* how much the content reader callback returns at most
  MaxUpload,    \* the longest request body
  MaxStream,    \* how much a reply body of unknown size comes to at most
  Threads,      \* does the daemon run its own threads (MHD_D_IS_USING_THREADS_)?
  MemoryFails,  \* may malloc() fail when an error response is created?
  Faults        \* may the socket, the client's syntax or the application fail?

MHD_SIZE_UNKNOWN == 1000000   \* UINT64_MAX in the code

KindType == [head : BOOLEAN,     \* is the method HEAD?
             old : BOOLEAN,      \* is the version HTTP/1.0?
             close : BOOLEAN,    \* does it ask for, or imply, "Connection: close"?
             expect : BOOLEAN,   \* "Expect: 100-continue"?
             chunked : BOOLEAN,  \* "Transfer-Encoding: chunked"?
             upload : 0..MaxUpload]  \* the size of its body

ReplyType == [code : {"none", "102", "101", "204", "200"},
              size : 0..MHD_SIZE_UNKNOWN,   \* response->total_size
              reader : BOOLEAN,   \* is the body produced by a callback (crc)?
              iov : BOOLEAN,      \* is it a vector of buffers (data_iov)?
              enforced : BOOLEAN, \* "Transfer-Encoding: chunked" in the header?
              strict : BOOLEAN]   \* MHD_RF_HTTP_1_0_COMPATIBLE_STRICT?

ASSUME KindAssumption == Kinds \subseteq KindType /\ Kinds # {}
\* Only a callback supplies a body of unknown size.  A vector of buffers with the
\* field "Transfer-Encoding: chunked" is left out: try_ready_chunked_body() asserts
\* that the response has a callback or one buffer.
ASSUME ReplyAssumption ==
  \A r \in Replies : /\ r \in ReplyType /\ r.code # "none"
                     /\ r.size = MHD_SIZE_UNKNOWN => r.reader
                     /\ r.iov => ~r.reader /\ ~r.enforced
ASSUME BoundAssumption ==
  /\ MaxUpload \in 0 .. MHD_SIZE_UNKNOWN - 1
  /\ MaxStream \in 0 .. MHD_SIZE_UNKNOWN - 1
  /\ MaxRequests \in Nat /\ BufSize \in Nat \ {0, 1, 2} /\ MaxRead \in Nat \ {0}
  /\ Threads \in BOOLEAN /\ MemoryFails \in BOOLEAN /\ Faults \in BOOLEAN

VARIABLES
  c,       \* struct MHD_Connection
  kinds,   \* the requests the client has begun to send
  wire,    \* their tokens that have not been read yet
  pc,      \* where the thread is
  after,   \* what call_handlers() does when handle_idle() returns
  fast,    \* on_fasttrack
  wready   \* write_ready

tvars == <<after, fast, wready>>
vars == <<c, kinds, wire, pc, tvars>>

-----------------------------------------------------------------------------
(* The states, in the order of enum MHD_CONNECTION_STATE.                  *)

Receiving == {"REQ_LINE_RECEIVING", "REQ_LINE_RECEIVED",
              "REQ_HEADERS_RECEIVING", "HEADERS_RECEIVED",
              "HEADERS_PROCESSED", "CONTINUE_SENDING", "BODY_RECEIVING",
              "BODY_RECEIVED", "FOOTERS_RECEIVING", "FOOTERS_RECEIVED"}

\* The states after START_REPLY.
Sending == {"HEADERS_SENDING", "HEADERS_SENT", "NORMAL_BODY_UNREADY",
            "NORMAL_BODY_READY", "CHUNKED_BODY_UNREADY", "CHUNKED_BODY_READY",
            "CHUNKED_BODY_SENT", "FOOTERS_SENDING", "FULL_REPLY_SENT",
            "CLOSED", "UPGRADE"}

States == {"INIT"} \cup Receiving \cup {"FULL_REQ_RECEIVED", "START_REPLY"}
                   \cup Sending

\* The states handle_idle() never stops in.
Milestones == {"REQ_LINE_RECEIVED", "HEADERS_RECEIVED", "HEADERS_PROCESSED",
               "BODY_RECEIVED", "FOOTERS_RECEIVED", "START_REPLY",
               "HEADERS_SENT", "CHUNKED_BODY_SENT", "FULL_REPLY_SENT"}

Writable == {"CONTINUE_SENDING", "HEADERS_SENDING", "NORMAL_BODY_READY",
             "CHUNKED_BODY_READY", "FOOTERS_SENDING"}

Infos == {"READ", "WRITE", "PROCESS", "PROCESS_READ", "CLEANUP"}
Reads == {"READ", "PROCESS_READ"}
Processes == {"PROCESS", "PROCESS_READ"}

NoResponse == [code |-> "none", size |-> 0, reader |-> FALSE, iov |-> FALSE,
               enforced |-> FALSE, strict |-> FALSE]
ErrorResponse == [code |-> "200", size |-> 1, reader |-> FALSE, iov |-> FALSE,
                  enforced |-> FALSE, strict |-> FALSE]
NoKind == [head |-> FALSE, old |-> FALSE, close |-> FALSE, expect |-> FALSE,
           chunked |-> FALSE, upload |-> 0]

\* MHD_connection_set_initial_state_().  The fields calls, got, out and stale
\* are the history the properties are about: the last call of the access
\* handler for the request ("none" exactly while rq.client_aware is false), the
\* part of the request's body the application has taken, the part of the reply's
\* body that has been sent, and whether event_loop_info is from before the
\* connection was suspended.
NewConnection ==
  [state |-> "INIT", info |-> "READ", suspended |-> FALSE, resuming |-> FALSE,
   keepalive |-> "UNKNOWN", discard |-> FALSE, stop_err |-> FALSE,
   read_closed |-> FALSE, rbuf |-> <<>>, rq |-> 0, remaining |-> 0,
   some |-> FALSE, cont |-> FALSE, response |-> NoResponse, wpos |-> 0,
   ready |-> 0, wbuf |-> FALSE, send_body |-> FALSE, chunked |-> FALSE,
   calls |-> "none", got |-> 0, out |-> 0, stale |-> FALSE]

Kind(k) == IF k.rq = 0 THEN NoKind ELSE kinds[k.rq]

Min(a, b) == IF a < b THEN a ELSE b

Drop(s, n) == SubSeq(s, n + 1, Len(s))

Tokens(n, kind) ==
  <<<<n, "start", 0>>, <<n, "line", 0>>, <<n, "header", 0>>>>
    \o [i \in 1..kind.upload |-> <<n, "body", i>>]
    \o (IF kind.chunked THEN <<<<n, "last", 0>>, <<n, "footer", 0>>>> ELSE <<>>)

Init ==
  /\ c = NewConnection
  /\ kinds = <<>> /\ wire = <<>>
  /\ pc = "poll" /\ after = "poll" /\ fast = FALSE /\ wready = FALSE

-----------------------------------------------------------------------------
(***************************************************************************)
(* Closing.                                                                *)
(***************************************************************************)

MutantNotNotified(k) ==
  [k EXCEPT !.response = NoResponse, !.state = "CLOSED", !.info = "CLEANUP"]

\* Notifies the application of the end of a request it knows, drops the
\* response and the pool.
MHD_connection_close_(k) ==
  [k EXCEPT !.calls = "none", !.got = 0, !.response = NoResponse,
            !.state = "CLOSED", !.info = "CLEANUP"]

connection_close_error(k) ==
  MHD_connection_close_([k EXCEPT !.stop_err = TRUE, !.discard = TRUE])

MutantNothingReset(k) ==
  [k EXCEPT !.state = "INIT", !.calls = "none", !.got = 0, !.rq = 0,
            !.keepalive = "UNKNOWN", !.response = NoResponse,
            !.info = IF k.rbuf = <<>> THEN "READ" ELSE "PROCESS"]

\* connection_reset() for reuse: the bytes already received are kept.
connection_reset(k) ==
  [NewConnection EXCEPT !.rbuf = k.rbuf, !.suspended = k.suspended,
                        !.resuming = k.resuming, !.discard = k.discard,
                        !.stop_err = k.stop_err, !.read_closed = k.read_closed,
                        !.info = IF k.rbuf = <<>> THEN "READ" ELSE "PROCESS"]

-----------------------------------------------------------------------------
(***************************************************************************)
(* Replies.                                                                *)
(***************************************************************************)

\* is_reply_body_needed() = RP_BODY_SEND
BodyNeeded(k) == k.response.code = "200" /\ ~Kind(k).head

keepalive_possible(k) ==
  CASE k.keepalive = "CLOSE" -> "CLOSE"
    [] k.keepalive # "CLOSE" /\ k.response.code = "101" -> "UPGRADE"
    [] k.keepalive # "CLOSE" /\ k.response.code # "101" ->
         IF k.read_closed \/ k.discard \/ Kind(k).close \/ k.response.strict
         THEN "CLOSE" ELSE "USE"

\* A body of unknown size, and any body if the application asks for it, is sent
\* in chunks unless the client or the flags of the response do not allow it: the
\* end of a body of unknown size is then the end of the connection.
setup_reply_properties(k) ==
  LET headers == k.response.code = "200"    \* use_reply_body_headers
      unknown == headers /\ k.response.size = MHD_SIZE_UNKNOWN
      chunked == /\ headers /\ (unknown \/ k.response.enforced)
                 /\ ~Kind(k).old /\ ~k.response.strict
  IN [k EXCEPT !.send_body = BodyNeeded(k),
               !.chunked = chunked,
               !.keepalive = IF unknown /\ ~chunked THEN "CLOSE"
                             ELSE keepalive_possible(k)]

build_header_response(k) ==
  [setup_reply_properties(k) EXCEPT !.wbuf = TRUE, !.out = 0, !.ready = 0,
                                    !.state = "HEADERS_SENDING"]

\* The conditions under which MHD_queue_response() accepts a response, apart
\* from those on the caller.
Queueable(k, r) ==
  /\ k.response = NoResponse
  /\ k.state \in {"HEADERS_PROCESSED", "FULL_REQ_RECEIVED"}
  /\ r.code \in {"101", "102"} => ~Kind(k).old /\ ~r.strict

MutantEarlyReplyKeepsBody(k, r) ==
  [k EXCEPT !.response = r,
            !.wpos = IF Kind(k).head \/ r.code # "200" THEN r.size ELSE @,
            !.state = IF @ = "HEADERS_PROCESSED" THEN "START_REPLY" ELSE @,
            !.remaining = IF k.state = "HEADERS_PROCESSED" THEN 0 ELSE @]

\* MHD_queue_response(): a body that must not be sent counts as sent; a reply
\* to a request that has not been received completely is the last one.
MHD_queue_response(k, r) ==
  LET q == [k EXCEPT !.response = r,
                     !.wpos = IF Kind(k).head \/ r.code # "200"
                              THEN r.size ELSE @]
  IN IF k.state = "HEADERS_PROCESSED"
     THEN [q EXCEPT !.discard = TRUE, !.state = "START_REPLY", !.remaining = 0]
     ELSE q

\* transmit_error_response_len(): the possible outcomes.  The connection is
\* closed after the error reply, at once if the reply is already under way or
\* there is no memory for the header.  When not even the response can be
\* allocated the code only sets the state.
transmit_error_response(k) ==
  LET e == [k EXCEPT !.stop_err = TRUE, !.discard = TRUE, !.rbuf = <<>>,
                     !.state = "FULL_REQ_RECEIVED", !.response = NoResponse]
      q == MHD_queue_response(e, ErrorResponse)
  IN IF k.state \in Sending THEN {connection_close_error(k)}
     ELSE {build_header_response([q EXCEPT !.keepalive = "CLOSE"]),
           connection_close_error(e)}
          \cup (IF MemoryFails THEN {[e EXCEPT !.state = "CLOSED"]} ELSE {})

-----------------------------------------------------------------------------
(***************************************************************************)
(* The content reader callback (response->crc), through                    *)
(* try_ready_normal_body() and try_ready_chunked_body().  It returns data, *)
(* nothing yet, the end of the stream or an error, and may suspend the     *)
(* connection.                                                             *)
(***************************************************************************)

\* What is left of the body; MaxStream bounds a stream of unknown size.
Left(k) == (IF k.response.size = MHD_SIZE_UNKNOWN THEN MaxStream
            ELSE k.response.size) - k.wpos

Ended(k) == [k EXCEPT !.response.size = k.wpos]

Suspendings(k) == {k, [k EXCEPT !.suspended = TRUE]}

\* The outcomes, each with the value the function returns.
try_ready_normal_body(k) ==
  IF \/ k.response.size \in {0, k.wpos}
     \/ ~k.response.reader
     \/ k.ready > 0
  THEN {<<TRUE, k>>}
       \cup (IF /\ Faults /\ k.response.iov /\ k.response.size \notin {0, k.wpos}
                /\ k.state = "NORMAL_BODY_UNREADY"   \* the copy of the vector
             THEN {<<FALSE, connection_close_error(k)>>} ELSE {})
  ELSE {<<TRUE, s>> : s \in UNION {Suspendings([k EXCEPT !.ready = n]) :
                                   n \in 1..Min(MaxRead, Left(k))}}
       \cup {<<FALSE, s>> : s \in Suspendings([k EXCEPT !.state = "NORMAL_BODY_UNREADY"])}
       \cup {<<FALSE, MHD_connection_close_(Ended(k))>>}
       \cup (IF Faults THEN {<<FALSE, connection_close_error(Ended(k))>>} ELSE {})

\* The chunk is put into the write buffer; the position moves at once.  A body in
\* memory is cut by the size of the buffer, and nothing calls the application.
\* The exits that close the connection drop the response, changed or not.
ReadyChunks(k) ==
  {[k EXCEPT !.wpos = @ + n, !.wbuf = TRUE, !.state = "CHUNKED_BODY_READY"] :
   n \in 1..Min(MaxRead, Left(k))}

try_ready_chunked_body(k) ==
  (IF k.response.reader
   THEN (UNION {Suspendings(e) : e \in ReadyChunks(k)})
        \cup {[Ended(k) EXCEPT !.state = "CHUNKED_BODY_SENT"]}
   ELSE ReadyChunks(k))
  \cup (IF Faults THEN {connection_close_error(Ended(k))} ELSE {})

-----------------------------------------------------------------------------
(***************************************************************************)
(* MHD_connection_update_event_loop_info(), with the possible outcomes of  *)
(* check_and_grow_read_buffer_space() when the buffer is full.             *)
(***************************************************************************)

\* Data of the body has been taken and more of it is in the buffer.
BodyInfo(k) ==
  IF ~(k.some /\ k.rbuf # <<>>) THEN "READ"
  ELSE IF Kind(k).chunked THEN "PROCESS_READ"
  ELSE IF k.remaining >= Len(k.rbuf) THEN "PROCESS" ELSE "PROCESS_READ"

MutantFinalWaitsForInput(k) ==
  CASE k.state \in {"INIT", "REQ_LINE_RECEIVING", "REQ_HEADERS_RECEIVING",
                    "FOOTERS_RECEIVING", "FULL_REQ_RECEIVED"} -> "READ"
    [] k.state = "BODY_RECEIVING" -> BodyInfo(k)
    [] k.state \in Writable -> "WRITE"
    [] k.state \in {"NORMAL_BODY_UNREADY", "CHUNKED_BODY_UNREADY"} -> "PROCESS"
    [] k.state = "CLOSED" -> "CLEANUP"
    [] OTHER -> k.info

EventInfo(k) ==
  CASE k.state \in {"INIT", "REQ_LINE_RECEIVING", "REQ_HEADERS_RECEIVING",
                    "FOOTERS_RECEIVING"} -> "READ"
    [] k.state = "BODY_RECEIVING" -> BodyInfo(k)
    [] k.state \in Writable -> "WRITE"
    [] k.state \in {"FULL_REQ_RECEIVED", "NORMAL_BODY_UNREADY",
                    "CHUNKED_BODY_UNREADY"} -> "PROCESS"
    [] k.state = "CLOSED" -> "CLEANUP"
    [] OTHER -> k.info

SetInfo(k) == [k EXCEPT !.info = EventInfo(k), !.stale = FALSE]

\* handle_recv_no_space(): before the request is recognised the connection is
\* closed, later an error is replied.
handle_recv_no_space(k) ==
  IF k.state \in {"INIT", "REQ_LINE_RECEIVING"}
  THEN {connection_close_error(k)} \cup transmit_error_response(k)
  ELSE transmit_error_response(k)

MHD_connection_update_event_loop_info(k) ==
  IF EventInfo(k) \notin Reads \/ Len(k.rbuf) < BufSize THEN {SetInfo(k)}
  ELSE IF ~Threads /\ k.state = "BODY_RECEIVING"
  THEN {[k EXCEPT !.info = "PROCESS", !.stale = FALSE]}
  ELSE {SetInfo(e) : e \in handle_recv_no_space(k)}

-----------------------------------------------------------------------------
(***************************************************************************)
(* The client, and the other thread of the application.                    *)
(***************************************************************************)

\* The client begins another request, without waiting for the reply.
ClientSends ==
  /\ pc # "gone" /\ wire = <<>> /\ Len(kinds) < MaxRequests
  /\ \E kind \in Kinds :
       /\ kinds' = Append(kinds, kind)
       /\ wire' = Tokens(Len(kinds) + 1, kind)
  /\ UNCHANGED <<c, pc, tvars>>

\* MHD_queue_response() outside of the access handler: for a suspended
\* connection, or for any connection when the application drives the polling.
\* handle_idle() runs unless it is running already; on a suspended connection
\* it does nothing.
OtherThreadQueues ==
  /\ c.suspended \/ (~Threads /\ pc = "poll")
  /\ \E r \in Replies :
       /\ Queueable(c, r)
       /\ c' = MHD_queue_response(c, r)
  /\ IF c.suspended THEN UNCHANGED <<pc, after>>
     ELSE pc' = "idle" /\ after' = "poll"
  /\ UNCHANGED <<kinds, wire, fast, wready>>

\* MHD_resume_connection()
OtherThreadResumes ==
  /\ c.suspended /\ ~c.resuming /\ c.state # "UPGRADE"
  /\ c' = [c EXCEPT !.resuming = TRUE]
  /\ UNCHANGED <<kinds, wire, pc, tvars>>

\* resume_suspended_connections() in the daemon's loop, which then polls
\* without waiting and calls call_handlers() for the connection in any case.
Resume ==
  /\ pc = "poll" /\ c.resuming
  /\ c' = [c EXCEPT !.suspended = FALSE, !.resuming = FALSE, !.stale = TRUE]
  /\ pc' = "resumed"
  /\ UNCHANGED <<kinds, wire, tvars>>

-----------------------------------------------------------------------------
(***************************************************************************)
(* call_handlers().                                                        *)
(***************************************************************************)

\* The polling function has returned: r, w and f are read_ready, write_ready
\* and force_close.
Dispatch(r, w, f) ==
  /\ pc \in {"poll", "resumed"} /\ ~c.suspended
  /\ r => c.info \in Reads
  /\ w => c.info = "WRITE"
  /\ f => Faults
  /\ fast' = (c.state = "INIT")
  /\ wready' = w
  /\ IF c.info \in Reads /\ (r \/ f)
     THEN /\ pc' = IF f THEN "read_err" ELSE "read"
          /\ after' = IF f THEN "poll" ELSE "write"
          /\ c' = c
     ELSE IF f
     THEN pc' = "idle" /\ after' = "poll" /\ c' = MHD_connection_close_(c)
     ELSE IF c.info = "WRITE" /\ w
     THEN pc' = "write" /\ after' = "fast1" /\ c' = c
     ELSE pc' = "idle" /\ after' = "poll" /\ c' = c
  /\ UNCHANGED <<kinds, wire>>

\* The rest of call_handlers() after handle_idle() has been run for a read or
\* a write.
AfterIdle ==
  \/ /\ pc = "after_write"
     /\ pc' = IF c.info = "WRITE" /\ wready THEN "write" ELSE "after_fast1"
     /\ after' = IF c.info = "WRITE" /\ wready THEN "fast1" ELSE after
     /\ UNCHANGED <<c, kinds, wire, fast, wready>>
  \/ /\ pc = "after_fast1"
     /\ pc' = IF fast /\ c.state = "HEADERS_SENDING" THEN "write" ELSE "after_fast2"
     /\ after' = "fast2"
     /\ UNCHANGED <<c, kinds, wire, fast, wready>>
  \/ /\ pc = "after_fast2"
     /\ pc' = IF fast /\ c.state \in {"NORMAL_BODY_READY", "CHUNKED_BODY_READY"}
              THEN "write" ELSE "poll"
     /\ after' = "poll"
     /\ UNCHANGED <<c, kinds, wire, fast, wready>>

Returned == CASE after = "poll" -> "poll"
              [] after = "write" -> "after_write"
              [] after = "fast1" -> "after_fast1"
              [] after = "fast2" -> "after_fast2"

-----------------------------------------------------------------------------
(***************************************************************************)
(* MHD_connection_handle_read()                                            *)
(***************************************************************************)

\* Data arrives; recv() may also find none after all.
ReadData ==
  /\ pc = "read"
  /\ \E n \in 0..Min(Len(wire), BufSize - Len(c.rbuf)) :
       /\ c' = [c EXCEPT !.rbuf = @ \o SubSeq(wire, 1, n)]
       /\ wire' = Drop(wire, n)
  /\ pc' = "idle"
  /\ UNCHANGED <<kinds, tvars>>

\* The client has closed its side.
ReadClosed ==
  /\ pc = "read" /\ wire = <<>>
  /\ Len(c.rbuf) < BufSize
  /\ c' = MHD_connection_close_([c EXCEPT !.read_closed = TRUE,
                                          !.discard = @ \/ c.state \in Receiving])
  /\ pc' = "idle"
  /\ UNCHANGED <<kinds, wire, tvars>>

\* A connection reset, or another error of the socket.  With a full buffer
\* handle_read() returns at once and call_handlers() goes on with handle_idle().
ReadError ==
  /\ pc = "read_err" \/ (pc = "read" /\ Faults)
  /\ c' \in IF Len(c.rbuf) = BufSize THEN {c}
            ELSE {connection_close_error(c),
                  MHD_connection_close_([c EXCEPT !.discard = @ \/ c.state \in Receiving])}
  /\ pc' = "idle"
  /\ UNCHANGED <<kinds, wire, tvars>>

-----------------------------------------------------------------------------
(***************************************************************************)
(* MHD_connection_handle_write()                                           *)
(***************************************************************************)

BodyWithHeader(k) ==
  /\ k.send_body /\ ~k.response.reader /\ ~k.response.iov
  /\ k.wpos = 0 /\ ~k.chunked

MutantHeaderForgetsBody(k) ==
  {k} \cup {[k EXCEPT !.state = "HEADERS_SENT", !.wbuf = FALSE, !.out = s] :
            s \in 0..(IF BodyWithHeader(k) THEN k.response.size ELSE 0)}

\* The header, with as much of a body in memory as the socket takes.
WriteHeader(k) ==
  {k} \cup {[k EXCEPT !.state = "HEADERS_SENT", !.wbuf = FALSE,
                      !.wpos = IF s > 0 THEN s ELSE @, !.out = s] :
            s \in 0..(IF BodyWithHeader(k) THEN k.response.size ELSE 0)}

Finished(k) == IF k.wpos = k.response.size
               THEN [k EXCEPT !.state = "FULL_REPLY_SENT"] ELSE k

SendNormal(k) ==
  LET ready == IF k.response.reader THEN k.ready ELSE Left(k)
  IN {Finished([k EXCEPT !.wpos = @ + s, !.out = @ + s,
                         !.ready = IF k.response.reader THEN @ - s ELSE @]) :
      s \in 0..ready}

WriteNormal(k) ==
  IF k.wpos < k.response.size
  THEN UNION {IF t[1] THEN SendNormal(t[2]) ELSE {t[2]} :
              t \in try_ready_normal_body(k)}
  ELSE {Finished(k)}

WriteChunk(k) ==
  {k, [k EXCEPT !.wbuf = FALSE, !.out = k.wpos,
                !.state = IF k.response.size = k.wpos THEN "CHUNKED_BODY_SENT"
                          ELSE "CHUNKED_BODY_UNREADY"]}

\* The outcomes of a write that does not fail.
Written(k) ==
  CASE k.state = "CONTINUE_SENDING" -> {k, [k EXCEPT !.cont = TRUE]}
    [] k.state = "HEADERS_SENDING" -> WriteHeader(k)
    [] k.state = "NORMAL_BODY_READY" -> WriteNormal(k)
    [] k.state = "CHUNKED_BODY_READY" -> WriteChunk(k)
    [] k.state = "FOOTERS_SENDING" ->
         {k, [k EXCEPT !.wbuf = FALSE, !.state = "FULL_REPLY_SENT"]}
    [] OTHER -> {k}

Write ==
  /\ pc = "write"
  /\ c' \in IF c.suspended THEN {c} ELSE Written(c)
  /\ pc' = "idle"
  /\ UNCHANGED <<kinds, wire, tvars>>

WriteError ==
  /\ pc = "write" /\ Faults /\ ~c.suspended /\ c.state \in Writable
  /\ c' = connection_close_error(c)
  /\ pc' = "idle"
  /\ UNCHANGED <<kinds, wire, tvars>>

-----------------------------------------------------------------------------
(***************************************************************************)
(* MHD_connection_handle_idle(): one action for every state of its loop.   *)
(* At(states) is the top of the loop, Continue and Break its two ways on.  *)
(***************************************************************************)

At(states) == pc = "idle" /\ ~c.suspended /\ c.state \in states

Rest == UNCHANGED <<kinds, wire, tvars>>

Continue(k) == c' = k /\ pc' = "idle" /\ Rest
Break(k) == c' = k /\ pc' = "post" /\ Rest
Goto(state) == Continue([c EXCEPT !.state = state])

\* The client's data is not what it should be.
Malformed == Faults /\ \E e \in transmit_error_response(c) : Continue(e)

\* get_request_line(): the first byte is enough for the first change of state.
IdleRequestLine ==
  /\ At({"INIT", "REQ_LINE_RECEIVING"})
  /\ \/ c.rbuf = <<>> /\ Break(c)
     \/ Len(c.rbuf) = 1 /\ Break([c EXCEPT !.state = "REQ_LINE_RECEIVING"])
     \/ /\ Len(c.rbuf) > 1
        /\ Continue([c EXCEPT !.rq = c.rbuf[1][1], !.rbuf = Drop(@, 2),
                              !.state = "REQ_LINE_RECEIVED"])
     \/ c.rbuf # <<>> /\ Malformed

IdleRequestLineReceived ==
  At({"REQ_LINE_RECEIVED"}) /\ Goto("REQ_HEADERS_RECEIVING")

\* get_req_headers() for the header
IdleHeaders ==
  /\ At({"REQ_HEADERS_RECEIVING"})
  /\ \/ c.rbuf = <<>> /\ Break(c)
     \/ /\ c.rbuf # <<>>
        /\ Continue([c EXCEPT !.rbuf = Tail(@), !.state = "HEADERS_RECEIVED"])
     \/ Malformed

\* parse_connection_headers().  A chunked request with a Content-Length as
\* well may be served if the connection is closed afterwards.
IdleParseHeaders ==
  /\ At({"HEADERS_RECEIVED"})
  /\ \/ \E ka \in {c.keepalive} \cup (IF Kind(c).chunked THEN {"CLOSE"} ELSE {}) :
          Continue([c EXCEPT !.remaining = IF Kind(c).chunked THEN MHD_SIZE_UNKNOWN
                                           ELSE Kind(c).upload,
                             !.keepalive = ka,
                             !.state = "HEADERS_PROCESSED"])
     \/ Malformed

\* call_connection_handler(): the application is called unless a response has
\* been queued already.
CallHandler(call) ==
  /\ c' = IF c.response # NoResponse THEN c ELSE [c EXCEPT !.calls = call]
  /\ pc' = IF c.response # NoResponse THEN "called" ELSE "handler"
  /\ Rest

IdleFirstCall == At({"HEADERS_PROCESSED"}) /\ CallHandler("first")

IdleFinalCall == At({"FULL_REQ_RECEIVED"}) /\ CallHandler("final")

need_100_continue(k) == Kind(k).expect /\ ~Kind(k).old /\ k.remaining # 0

MutantBodySkipped ==
  /\ pc = "called" /\ c.state = "HEADERS_PROCESSED"
  /\ IF c.suspended THEN Continue(c) ELSE Goto("FULL_REQ_RECEIVED")

\* After the first call.
AfterFirstCall ==
  /\ pc = "called" /\ c.state = "HEADERS_PROCESSED"
  /\ IF c.suspended THEN Continue(c)
     ELSE IF c.response = NoResponse /\ need_100_continue(c) /\ c.rbuf = <<>>
     THEN Break([c EXCEPT !.state = "CONTINUE_SENDING"])
     ELSE LET refused == c.response # NoResponse /\ c.remaining # 0
          IN Continue([c EXCEPT !.discard = @ \/ refused,
                                !.remaining = IF refused THEN 0 ELSE @,
                                !.state = IF refused \/ c.remaining = 0
                                          THEN "FULL_REQ_RECEIVED"
                                          ELSE "BODY_RECEIVING"])

\* After the final call.
AfterFinalCall ==
  /\ pc = "called" /\ c.state = "FULL_REQ_RECEIVED"
  /\ IF c.response = NoResponse THEN Break(c) ELSE Goto("START_REPLY")

\* The call has closed the connection or started the reply.
AfterOtherCall ==
  /\ pc = "called" /\ c.state \notin {"HEADERS_PROCESSED", "FULL_REQ_RECEIVED"}
  /\ Continue(c)

IdleContinue ==
  /\ At({"CONTINUE_SENDING"})
  /\ IF c.cont THEN Goto("BODY_RECEIVING") ELSE Break(c)

IdleBody ==
  /\ At({"BODY_RECEIVING"})
  /\ IF c.rbuf = <<>> THEN Break(c)
     ELSE c' = c /\ pc' = "body" /\ Rest

\* process_request_body() and what handle_idle() does when it returns.
BodyDone(k) ==
  IF k.remaining = 0 THEN Continue([k EXCEPT !.state = "BODY_RECEIVED"]) ELSE Break(k)

\* The loop of process_request_body(): the last chunk ends it, other data goes
\* to the application.
BodyPart ==
  /\ pc = "body"
  /\ \/ /\ Kind(c).chunked /\ c.rbuf[1][2] = "last"
        /\ BodyDone([c EXCEPT !.rbuf = Tail(@), !.remaining = 0])
     \/ /\ ~(Kind(c).chunked /\ c.rbuf[1][2] = "last")
        /\ c' = [c EXCEPT !.calls = "upload"] /\ pc' = "upload" /\ Rest
     \/ Kind(c).chunked /\ Malformed

\* How much of the buffer belongs to the body, and to the current chunk.
Offered(k) == IF Kind(k).chunked THEN 1 ELSE Min(k.remaining, Len(k.rbuf))

\* The application takes p units and leaves the rest.  The loop goes on at once
\* if the chunk is complete and there is more data; it does not look at
\* connection->suspended.
BodyTaken(p) ==
  LET k == [c EXCEPT !.rbuf = Drop(@, p), !.got = @ + p, !.some = p > 0,
                     !.remaining = IF Kind(c).chunked THEN @ ELSE @ - p]
  IN IF Kind(c).chunked /\ p = 1 /\ k.rbuf # <<>>
     THEN c' = k /\ pc' = "body" /\ Rest
     ELSE BodyDone(k)

IdleBodyReceived ==
  /\ At({"BODY_RECEIVED"})
  /\ Goto(IF Kind(c).chunked THEN "FOOTERS_RECEIVING" ELSE "FULL_REQ_RECEIVED")

\* get_req_headers() for the footer
IdleFooters ==
  /\ At({"FOOTERS_RECEIVING"})
  /\ \/ c.rbuf = <<>> /\ Break(c)
     \/ /\ c.rbuf # <<>>
        /\ Continue([c EXCEPT !.rbuf = Tail(@), !.state = "FOOTERS_RECEIVED"])
     \/ Malformed

IdleFootersReceived == At({"FOOTERS_RECEIVED"}) /\ Goto("FULL_REQ_RECEIVED")

IdleStartReply ==
  /\ At({"START_REPLY"})
  /\ \/ Break(build_header_response(c))
     \/ Faults /\ Continue(connection_close_error(c))

IdleNothing ==
  /\ At({"HEADERS_SENDING", "NORMAL_BODY_READY", "CHUNKED_BODY_READY",
         "FOOTERS_SENDING"})
  /\ Break(c)

\* An upgraded connection is suspended and handed to the application.
IdleHeadersSent ==
  /\ At({"HEADERS_SENT"})
  /\ IF c.response.code = "101"
     THEN \/ Continue([c EXCEPT !.state = "UPGRADE", !.suspended = TRUE,
                                !.response = NoResponse])
          \/ Faults /\ Continue(connection_close_error(c))
     ELSE Goto(IF ~c.send_body THEN "FULL_REPLY_SENT"
               ELSE IF c.chunked THEN "CHUNKED_BODY_UNREADY"
               ELSE "NORMAL_BODY_UNREADY")

IdleNormalBody ==
  /\ At({"NORMAL_BODY_UNREADY"})
  /\ IF c.response.size = 0 THEN Goto("FULL_REPLY_SENT")
     ELSE \E t \in try_ready_normal_body(c) :
            Break(IF t[1] THEN [t[2] EXCEPT !.state = "NORMAL_BODY_READY"] ELSE t[2])

IdleChunkedBody ==
  /\ At({"CHUNKED_BODY_UNREADY"})
  /\ IF c.response.size \in {0, c.wpos} THEN Goto("CHUNKED_BODY_SENT")
     ELSE \/ \E k \in try_ready_chunked_body(c) :
               IF k.state = "CLOSED" THEN Break(k) ELSE Continue(k)
          \/ c.response.reader /\ \E k \in Suspendings(c) : Break(k)

IdleChunkedSent ==
  /\ At({"CHUNKED_BODY_SENT"})
  /\ \/ Continue([c EXCEPT !.wbuf = TRUE, !.state = "FOOTERS_SENDING"])
     \/ Faults /\ Continue(connection_close_error(c))

MutantInterimKept ==
  /\ At({"FULL_REPLY_SENT"})
  /\ IF c.response.code = "102" THEN Goto("HEADERS_PROCESSED")
     ELSE Continue(MHD_connection_close_(c))

\* The reply is complete: another one follows a "102 Processing", otherwise the
\* next request, if there may be one.
IdleReplySent ==
  /\ At({"FULL_REPLY_SENT"})
  /\ IF c.response.code = "102"
     THEN Continue([c EXCEPT !.state = "HEADERS_PROCESSED", !.response = NoResponse])
     ELSE IF c.keepalive = "USE" /\ ~c.read_closed /\ ~c.discard
     THEN Continue(connection_reset(c))
     ELSE Continue(MHD_connection_close_(c))

\* cleanup_connection(): the daemon frees the connection.
IdleClosed ==
  /\ At({"CLOSED"})
  /\ pc' = "gone" /\ UNCHANGED <<c, kinds, wire, tvars>>

IdleSuspended ==
  /\ pc = "idle" /\ c.suspended
  /\ Break(c)

-----------------------------------------------------------------------------
(***************************************************************************)
(* The application inside its access handler.                              *)
(***************************************************************************)

AppQueues ==
  /\ pc \in {"handler", "upload"}
  /\ \E r \in Replies : Queueable(c, r) /\ c' = MHD_queue_response(c, r)
  /\ UNCHANGED <<kinds, wire, pc, tvars>>

\* MHD_suspend_connection()
AppSuspends ==
  /\ pc \in {"handler", "upload"} /\ ~c.suspended
  /\ c' = [c EXCEPT !.suspended = TRUE]
  /\ UNCHANGED <<kinds, wire, pc, tvars>>

AppReturns == pc = "handler" /\ pc' = "called" /\ UNCHANGED <<c, kinds, wire, tvars>>

AppTakes(p) == pc = "upload" /\ p <= Offered(c) /\ BodyTaken(p)

\* MHD_NO, which may not be combined with a suspension.
AppFails ==
  /\ pc \in {"handler", "upload"} /\ Faults /\ ~c.suspended
  /\ Continue(connection_close_error(c))

-----------------------------------------------------------------------------
(***************************************************************************)
(* The end of handle_idle(): the timeout, and what to wait for next.       *)
(***************************************************************************)

IdleTimeout ==
  /\ pc = "post" /\ ~c.suspended /\ Faults
  /\ c' = MHD_connection_close_(c) /\ pc' = Returned /\ Rest

IdleEnd ==
  /\ pc = "post"
  /\ c' \in IF c.suspended THEN {c} ELSE MHD_connection_update_event_loop_info(c)
  /\ pc' = Returned /\ Rest

\* Nothing is left to do for a connection that is gone or upgraded.
Done ==
  /\ pc = "gone" \/ (pc = "poll" /\ c.state = "UPGRADE")
  /\ UNCHANGED vars

ReadSteps == ReadData \/ ReadClosed \/ ReadError
WriteSteps == Write \/ WriteError
IdleSteps ==
  \/ IdleRequestLine \/ IdleRequestLineReceived \/ IdleHeaders
  \/ IdleParseHeaders \/ IdleFirstCall \/ IdleContinue \/ IdleBody \/ BodyPart
  \/ IdleBodyReceived \/ IdleFooters \/ IdleFootersReceived \/ IdleFinalCall
  \/ AfterFirstCall \/ AfterFinalCall \/ AfterOtherCall \/ IdleStartReply
  \/ IdleNothing \/ IdleHeadersSent \/ IdleNormalBody \/ IdleChunkedBody
  \/ IdleChunkedSent \/ IdleReplySent \/ IdleClosed \/ IdleSuspended
  \/ IdleTimeout \/ IdleEnd

AppSteps == AppQueues \/ AppSuspends \/ AppReturns \/ AppFails
            \/ \E p \in 0..MaxUpload : AppTakes(p)

Next ==
  \/ ClientSends \/ OtherThreadQueues \/ OtherThreadResumes \/ Resume
  \/ \E r, w, f \in BOOLEAN : Dispatch(r, w, f)
  \/ AfterIdle \/ ReadSteps \/ WriteSteps \/ IdleSteps \/ AppSteps \/ Done

Spec == Init /\ [][Next]_vars

-----------------------------------------------------------------------------
(***************************************************************************)
(* Fairness.  The thread goes on; the polling function reports an event    *)
(* that keeps being there; the client goes on sending or closes; the       *)
(* socket goes on taking data; and the application does what it has to:    *)
(* it resumes what it has suspended, takes the body, queues a final reply  *)
(* and supplies its body.                                                  *)
(***************************************************************************)

EventReported ==
  \E r, w \in BOOLEAN :
    /\ r \/ w \/ pc = "resumed" \/ c.info \in Processes \cup {"CLEANUP"}
    /\ Dispatch(r, w, FALSE)

DataArrives == (ReadData /\ wire' # wire) \/ ReadClosed

DataLeaves == Write /\ (c'.out > c.out \/ c'.state # c.state \/ c'.cont # c.cont)

FinalReplyQueued == AppQueues /\ c'.response.code # "102"

BodyAccepted == \E p \in 1..MaxUpload : AppTakes(p)

ReaderSupplies ==
  \/ IdleNormalBody /\ c'.state # "NORMAL_BODY_UNREADY"
  \/ IdleChunkedBody /\ c'.state # "CHUNKED_BODY_UNREADY"

Fairness ==
  /\ WF_vars(AfterIdle \/ IdleSteps \/ ReadSteps \/ WriteSteps \/ AppReturns
             \/ \E p \in 0..MaxUpload : AppTakes(p))
  /\ WF_vars(OtherThreadResumes) /\ WF_vars(Resume)
  /\ SF_vars(EventReported) /\ SF_vars(DataArrives) /\ SF_vars(DataLeaves)
  /\ SF_vars(FinalReplyQueued) /\ SF_vars(BodyAccepted)
  /\ SF_vars(ReaderSupplies)

FairSpec == Spec /\ Fairness

-----------------------------------------------------------------------------
(***************************************************************************)
(* Properties.                                                             *)
(***************************************************************************)

Steps == {"poll", "resumed", "read", "read_err", "write", "idle", "handler",
          "called", "body", "upload", "post", "after_write", "after_fast1",
          "after_fast2", "gone"}

\* The fields keep their ranges; the read buffer never holds more than fits.
TypeOK ==
  /\ c.state \in States /\ c.info \in Infos
  /\ c.keepalive \in {"UNKNOWN", "USE", "CLOSE", "UPGRADE"}
  /\ c.rq \in 0..Len(kinds) /\ Len(c.rbuf) <= BufSize
  /\ c.response \in ReplyType
  /\ c.remaining \in 0..MaxUpload \cup {MHD_SIZE_UNKNOWN}
  /\ c.calls \in {"none", "first", "upload", "final"}
  /\ pc \in Steps /\ after \in {"poll", "write", "fast1", "fast2"}

\* What the connection takes next from its input is what the client put there
\* for this purpose: the next request begins exactly where the last one ended,
\* whether or not its body was read, and the application gets the units of the
\* body of its own request, each once and in order.  Code: connection_reset()
\* keeps the rest of the read buffer, MHD_queue_response() and handle_idle()
\* refuse to reuse a connection whose request was not read to its end.
FramingKept ==
  LET input == c.rbuf \o wire
      next == IF input = <<>> THEN <<0, "start", 0>> ELSE Head(input)
  IN /\ c.state \in {"INIT", "REQ_LINE_RECEIVING"} => next[2] = "start"
     /\ (c.state = "REQ_HEADERS_RECEIVING" /\ input # <<>>) =>
          next = <<c.rq, "header", 0>>
     /\ (c.state = "BODY_RECEIVING" /\ input # <<>>) =>
          next = IF c.got < Kind(c).upload THEN <<c.rq, "body", c.got + 1>>
                 ELSE <<c.rq, "last", 0>>
     /\ (c.state = "FOOTERS_RECEIVING" /\ input # <<>>) =>
          next = <<c.rq, "footer", 0>>
     /\ (c.state = "FULL_REQ_RECEIVED" /\ ~c.discard) => next[2] = "start"

\* When a reply is taken for complete, the client has got the whole body of the
\* response that was queued, and none if it must not get one; only then can the
\* connection serve another request.  Code: rsp_write_position, the states
\* NORMAL_BODY_READY and CHUNKED_BODY_READY of handle_write().
ReplyWhole ==
  c.state = "FULL_REPLY_SENT" =>
    /\ c.out = IF c.send_body THEN c.response.size ELSE 0
    /\ ~c.wbuf

\* The switches of handle_read() and handle_write(): nothing is read or written
\* in a state in which it is "not possible".
ReadAndWriteInState ==
  /\ pc = "read" => c.state \notin (Milestones \ {"START_REPLY"}) \cup Writable
  /\ (pc = "write" /\ ~c.suspended) =>
       c.state \in Writable \cup {"HEADERS_SENT", "CLOSED"}

\* The assertions of handle_read(), handle_idle(), handle_write() and
\* update_event_loop_info() about the states they can meet, and those about
\* the response and the position in its body, and the types.  The first event after a resume
\* is an exception, see ReadAndWriteInState.
AssertionsHold ==
  /\ TypeOK
  /\ ~c.stale => ReadAndWriteInState
  /\ (pc = "post" /\ ~c.suspended) => c.state \notin Milestones \cup {"UPGRADE"}
  /\ c.state = "BODY_RECEIVING" =>
       c.remaining # 0 /\ ~c.discard /\ c.response = NoResponse
  /\ c.state \in {"START_REPLY"} \cup (Sending \ {"CLOSED", "UPGRADE"}) =>
       c.response # NoResponse
  /\ c.state = "HEADERS_SENDING" => c.wpos \in {0, c.response.size}
  /\ c.state = "HEADERS_SENT" /\ c.chunked => c.out = 0
  /\ c.state \in {"NORMAL_BODY_UNREADY", "NORMAL_BODY_READY"} =>
       c.send_body /\ ~c.chunked /\ c.wpos <= c.response.size
  /\ c.state \in {"CHUNKED_BODY_UNREADY", "CHUNKED_BODY_READY",
                  "CHUNKED_BODY_SENT", "FOOTERS_SENDING"} =>
       c.send_body /\ c.chunked
  /\ c.state \in {"CHUNKED_BODY_UNREADY", "CHUNKED_BODY_SENT"} => ~c.wbuf
  /\ c.state = "INIT" => ~c.stop_err /\ ~c.discard

\* The thread never goes to sleep for the wrong event: a connection that waits
\* to read has nothing in its buffer it could go on with (other than data the
\* application has refused), one with something to send waits to write, and one
\* that depends on the application alone is polled without waiting.  Code:
\* MHD_connection_update_event_loop_info(), connection_reset(), call_handlers().
WaitsForTheRightEvent ==
  (pc = "poll" /\ ~c.suspended) =>
    CASE c.state \in {"INIT", "REQ_LINE_RECEIVING"} ->
           c.info = "READ" /\ Len(c.rbuf) < 2
      [] c.state \in {"REQ_HEADERS_RECEIVING", "FOOTERS_RECEIVING"} ->
           c.info = "READ" /\ c.rbuf = <<>>
      [] c.state = "BODY_RECEIVING" ->
           c.info = "READ" => (c.rbuf = <<>> \/ ~c.some)
      [] c.state \in Writable -> c.info = "WRITE"
      [] c.state \in {"FULL_REQ_RECEIVED", "NORMAL_BODY_UNREADY",
                      "CHUNKED_BODY_UNREADY"} -> c.info = "PROCESS"
      [] c.state = "CLOSED" -> c.info = "CLEANUP"
      [] OTHER -> FALSE

\* A reply that is taken for complete is whole, and the assertions about the states hold on
\* the way to it.  Code: handle_read(), handle_write() and handle_idle().
RepliesWhole == ReplyWhole /\ AssertionsHold

\* When the connection is freed, every request the application knows of has
\* been reported complete.  Code: MHD_connection_close_().
CompletionReported == pc = "gone" => c.calls = "none"

\* The abstract specification, with the calls of this connection.
Handler == INSTANCE AccessHandler
             WITH calls <- c.calls, got <- c.got,
                  whole <- IF c.calls = "none" THEN 0 ELSE Kind(c).upload,
                  discarded <- c.calls # "none" /\ c.discard

\* The access handler is called, and the end of the request reported, as
\* microhttpd.h promises: see AccessHandler.tla; and when the connection is freed every
\* request the application knows of has been reported complete.
HandlerContract == Handler!Spec /\ []CompletionReported

\* Every request the application has been told of comes to its end, and the
\* application hears of it, whatever it suspends, refuses or sends in between;
\* an upgraded connection is handed over instead.  Code: handle_idle() with
\* the events update_event_loop_info() asks for.
RequestCompletes == c.calls # "none" ~> (c.calls = "none" \/ c.state = "UPGRADE")

=============================================================================
