---------------------------- MODULE ConnMemory -----------------------------
(***************************************************************************)
(* The memory of a connection: the pool of memorypool.c and the buffers    *)
(* that connection.c keeps in it, over any sequence of requests.           *)
(*                                                                         *)
(* The pool is one array.  Blocks are taken from its front and from its    *)
(* end; [pos, end) is free.  The read buffer is at the front; the part of  *)
(* it that holds the request line and the header fields is cut off as it   *)
(* is parsed and stays where it is, so the buffer's start is not aligned.  *)
(* The write buffer is behind the read buffer.  Everything else is taken   *)
(* from the end, and if there is not enough free memory the last buffer at *)
(* the front gives up the part of it that is not in use.                   *)
(*                                                                         *)
(* An address is an offset in the array; the build is the normal one,      *)
(* without the red zones of the address sanitizer.                         *)
(***************************************************************************)
EXTENDS Integers, FiniteSets

CONSTANTS
  Align,       \* ALIGN_SIZE
  PoolSize,    \* daemon->pool_size
  Increment,   \* daemon->pool_increment
  BufInc,      \* MHD_BUF_INC_SIZE
  Lengths,     \* numbers of bytes that are received, parsed, needed or sent
  MinChunked,  \* the least write buffer for a chunked body: 128
  Base,        \* the base of the digits of a chunk header: 16
  Digits,      \* how many digits a chunk header has room for: 6
  MaxChunk,    \* the largest chunk: 0xFFFFFF
  ReserveEbuf  \* RESERVE_EBUF_SIZE

ASSUME PoolAssumption ==
  /\ Align \in {4, 8, 16}
  /\ PoolSize \in Nat \ {0} /\ Increment \in Nat \ {0}
  /\ BufInc \in Nat /\ MinChunked \in Nat /\ ReserveEbuf \in Nat
  /\ Lengths \subseteq Nat
ASSUME ChunkAssumption ==
  /\ Base \in Nat \ {0, 1} /\ Digits \in Nat \ {0} /\ MaxChunk \in Nat
  /\ MaxChunk < Base ^ Digits /\ Digits + 4 < MinChunked

Null == -1

\* ROUND_TO_ALIGN()
Round(n) == ((n + (Align - 1)) \div Align) * Align

\* MHD_pool_create(): the size of the pool's memory.
Size == Round(PoolSize)

VARIABLES
  pool,     \* pos and end
  rbuf,     \* read_buffer, read_buffer_size and read_buffer_offset
  wbuf,     \* write_buffer with its size and its two offsets
  kept,     \* the end of the request's strings at the front of the pool
  phase,    \* what the connection is doing
  discard,  \* discard_request: there is no further request
  interim,  \* a "102 Processing" has been sent for this request
  failed    \* the assertions of the code that did not hold

vars == <<pool, rbuf, wbuf, kept, phase, discard, interim, failed>>

NoRead == [off |-> Null, size |-> 0, used |-> 0]
NoWrite == [off |-> Null, size |-> 0, send |-> 0, append |-> 0]

-----------------------------------------------------------------------------
(***************************************************************************)
(* The pool.                                                               *)
(***************************************************************************)
MHD_pool_get_free(p) == p.end - p.pos

Fits(p, size) == Round(size) <= MHD_pool_get_free(p)

\* MHD_pool_allocate() from the front or from the end, if it fits.
TakeFront(p, size) == [p EXCEPT !.pos = @ + Round(size)]
TakeEnd(p, size) == [p EXCEPT !.end = @ - Round(size)]

MHD_pool_is_resizable_inplace(p, off, size) ==
  off # Null /\ p.pos = Round(off + size)

\* MHD_pool_reallocate(): the pool and the block's new place, Null if there is
\* no space.
MHD_pool_reallocate(p, off, old_size, new_size) ==
  LET last == MHD_pool_is_resizable_inplace(p, off, old_size)
      new_apos == Round(off + new_size)
  IN CASE last /\ (new_size < old_size \/ new_apos <= p.end)
            -> [pool |-> [p EXCEPT !.pos = new_apos], off |-> off]
       [] ~last /\ off # Null /\ new_size < old_size
            -> [pool |-> p, off |-> off]
       [] ~last /\ (off = Null \/ new_size >= old_size) /\ Fits(p, new_size)
            -> [pool |-> TakeFront(p, new_size), off |-> p.pos]
       [] OTHER -> [pool |-> p, off |-> Null]

\* MHD_pool_deallocate(): memory is given back by the last block only.
MHD_pool_deallocate(p, off, size) ==
  CASE off = Null \/ size = 0 -> p
    [] off # Null /\ size # 0 /\ off <= p.pos /\ Round(off + size) = p.pos
         -> [p EXCEPT !.pos = Round(off)]
    [] off # Null /\ size # 0 /\ off > p.pos /\ off = p.end
         -> [p EXCEPT !.end = Round(off + size)]
    [] OTHER -> p

\* MHD_pool_reset()
MHD_pool_reset(new_size) == [pos |-> Round(new_size), end |-> Size]

-----------------------------------------------------------------------------
(***************************************************************************)
(* The buffers of a connection.                                            *)
(***************************************************************************)
ReadIsLast(p, r) == MHD_pool_is_resizable_inplace(p, r.off, r.size)
WriteIsLast(p, w) == MHD_pool_is_resizable_inplace(p, w.off, w.size)

Init ==
  /\ pool = TakeFront([pos |-> 0, end |-> Size], PoolSize \div 2)
  /\ rbuf = [off |-> 0, size |-> PoolSize \div 2, used |-> 0]
  /\ wbuf = NoWrite
  /\ kept = 0
  /\ phase = "head"
  /\ discard = FALSE
  /\ interim = FALSE
  /\ failed = {}

\* The request line and the header are received, the application is called
\* for the first time, the body and the footers are received, the application
\* is called for the last time; or it has queued a response at the first call.
Receiving == phase \in {"head", "called", "body", "foot", "full", "early"}

\* The phases in which the event loop asks for more data.
Reading == phase \in {"head", "body", "foot"}

Assert(holds, name) == IF holds THEN {} ELSE {name}

\* An assertion about the read buffer: after an interim reply the write buffer
\* is behind it, and the failure is told apart.
AssertRead(holds, name) == Assert(holds, IF interim THEN "again" ELSE name)

MutantNeverMandatory(required) ==
  LET small == MHD_pool_get_free(pool) \div 8 IN
  IF rbuf.size = 0 THEN MHD_pool_get_free(pool) \div 2
  ELSE IF Increment <= small THEN rbuf.size + small ELSE rbuf.size

\* The new size that try_grow_read_buffer() asks for: its present size if
\* there is no need to grow.
GrownSize(required) ==
  LET avail == MHD_pool_get_free(pool)
      small == avail \div 8
      left == rbuf.size - rbuf.used
      least == (IF BufInc > Increment THEN Increment ELSE BufInc) \div 8
  IN CASE rbuf.size = 0 -> avail \div 2
       [] rbuf.size # 0 /\ Increment <= small -> rbuf.size + small
       [] rbuf.size # 0 /\ Increment > small
          /\ Increment <= small + left /\ left < Increment
            -> rbuf.size + Increment - left
       [] OTHER -> IF ~required THEN rbuf.size
                   ELSE rbuf.size + (IF least < avail THEN least ELSE avail)

\* try_grow_read_buffer() returns false.
CannotGrow(required) ==
  \/ MHD_pool_get_free(pool) = 0
  \/ ~required /\ GrownSize(required) = rbuf.size
  \/ rbuf.off # Null /\ ~ReadIsLast(pool, rbuf)

\* connection_shrink_read_buffer(): the pool and the read buffer afterwards.
Shrunk ==
  CASE rbuf.off = Null \/ rbuf.size = 0 -> [pool |-> pool, rbuf |-> rbuf]
    [] rbuf.off # Null /\ rbuf.size # 0 /\ rbuf.used = 0
         -> [pool |-> MHD_pool_deallocate(pool, rbuf.off, rbuf.size),
             rbuf |-> NoRead]
    [] OTHER -> LET r == MHD_pool_reallocate(pool, rbuf.off, rbuf.size, rbuf.used)
                IN [pool |-> r.pool,
                    rbuf |-> [rbuf EXCEPT !.off = r.off, !.size = rbuf.used]]

\* connection_maximize_write_buffer(): the pool and the write buffer.
Maximized(p, w) ==
  LET free == MHD_pool_get_free(p)
      r == MHD_pool_reallocate(p, w.off, w.size, w.size + free)
      sent == w.send = w.append
  IN IF free = 0 THEN [pool |-> p, wbuf |-> w]
     ELSE [pool |-> r.pool,
           wbuf |-> [off |-> r.off, size |-> w.size + free,
                     send |-> IF sent THEN 0 ELSE w.send,
                     append |-> IF sent THEN 0 ELSE w.append]]

WriteNotMoved(p, w) ==
  Assert(MHD_pool_get_free(p) = 0 \/ w.off = Null \/ WriteIsLast(p, w), "moved")

-----------------------------------------------------------------------------
(***************************************************************************)
(* Receiving a request.                                                    *)
(***************************************************************************)

\* MHD_connection_handle_read().  A connection that was suspended may be read
\* from in any phase after it was resumed; if it is about to reply the read
\* buffer is cut to what is in it.
Receive(n) ==
  LET r == MHD_pool_reallocate(pool, rbuf.off, rbuf.size, rbuf.used + n) IN
  /\ Receiving /\ rbuf.off # Null
  /\ n > 0 /\ n <= rbuf.size - rbuf.used
  /\ IF phase = "early" /\ rbuf.used + n # rbuf.size
     THEN /\ pool' = r.pool
          /\ rbuf' = [off |-> r.off, size |-> rbuf.used + n, used |-> rbuf.used + n]
     ELSE /\ rbuf' = [rbuf EXCEPT !.used = @ + n]
          /\ UNCHANGED pool
  /\ UNCHANGED <<wbuf, kept, phase, discard, interim, failed>>

\* A line of the header or the footers is parsed and cut off.  Its strings
\* stay, unless the line was empty.
Parse(n) ==
  /\ phase \in {"head", "foot"}
  /\ n > 0 /\ n <= rbuf.used
  /\ rbuf' = [off |-> rbuf.off + n, size |-> rbuf.size - n, used |-> rbuf.used - n]
  /\ kept' \in {kept, rbuf.off + n}
  /\ UNCHANGED <<pool, wbuf, phase, discard, interim, failed>>

MutantShiftOverNul ==
  /\ phase = "head" /\ kept > 0
  /\ phase' = "called"
  /\ rbuf' = IF BufInc > rbuf.size
             THEN [rbuf EXCEPT !.off = kept - 1, !.size = @ + (rbuf.off - kept) + 1]
             ELSE rbuf
  /\ UNCHANGED <<pool, wbuf, kept, discard, interim, failed>>

\* get_req_headers(): the end of the header.  If the read buffer is small it
\* is moved back to the end of the last string.
HeadersReceived ==
  /\ phase = "head" /\ kept > 0
  /\ phase' = "called"
  /\ rbuf' = IF BufInc > rbuf.size
             THEN [rbuf EXCEPT !.off = kept, !.size = @ + (rbuf.off - kept)]
             ELSE rbuf
  /\ UNCHANGED <<pool, wbuf, kept, discard, interim, failed>>

\* process_request_body(): the application takes n bytes and the rest is moved
\* to the start of the buffer.
ProcessBody(n) ==
  /\ phase = "body"
  /\ n > 0 /\ n <= rbuf.used
  /\ rbuf' = [rbuf EXCEPT !.used = @ - n]
  /\ UNCHANGED <<pool, wbuf, kept, phase, discard, interim, failed>>

\* MHD_queue_response() at the first call: the rest of the request and any
\* further request are discarded.
QueueEarly ==
  /\ phase = "called"
  /\ phase' = "early"
  /\ discard' = TRUE
  /\ UNCHANGED <<pool, rbuf, wbuf, kept, interim, failed>>

\* MHD_connection_handle_idle() between the calls of the application.  After an
\* interim reply nothing of the request is left to be received.
Proceed ==
  /\ \/ phase = "called" /\ phase' \in IF interim THEN {"full"} ELSE {"body", "full"}
     \/ phase = "body" /\ phase' \in {"foot", "full"}
     \/ phase = "foot" /\ phase' = "full"
  /\ UNCHANGED <<pool, rbuf, wbuf, kept, discard, interim, failed>>

MutantNeededNotRounded(size) == size - MHD_pool_get_free(pool)

\* MHD_connection_alloc_memory_() for size bytes: the additional memory that
\* is needed, and the buffer that can give it.
Needed(size) == Round(size) - MHD_pool_get_free(pool)

Possible(size) == Round(size) <= pool.end

\* mhd_assert (NULL != res): "the pool has enough space".
AllocChecked(p, size) == Assert(Fits(p, size), "alloc")

AllocFree(size) ==
  /\ Fits(pool, size)
  /\ pool' = TakeEnd(pool, size)
  /\ UNCHANGED <<rbuf, wbuf, failed>>

AllocFromWrite(size) ==
  LET r == MHD_pool_reallocate(pool, wbuf.off, wbuf.size, wbuf.size - Needed(size)) IN
  /\ ~Fits(pool, size) /\ Possible(size)
  /\ WriteIsLast(pool, wbuf)
  /\ wbuf.size - wbuf.append >= Needed(size)
  /\ wbuf' = [wbuf EXCEPT !.off = r.off, !.size = @ - Needed(size)]
  /\ pool' = IF Fits(r.pool, size) THEN TakeEnd(r.pool, size) ELSE r.pool
  /\ failed' = failed \cup AllocChecked(r.pool, size)
  /\ UNCHANGED rbuf

AllocFromRead(size) ==
  LET r == MHD_pool_reallocate(pool, rbuf.off, rbuf.size, rbuf.size - Needed(size)) IN
  /\ ~Fits(pool, size) /\ Possible(size)
  /\ ~WriteIsLast(pool, wbuf) /\ ReadIsLast(pool, rbuf)
  /\ rbuf.size - rbuf.used >= Needed(size)
  /\ rbuf' = [rbuf EXCEPT !.off = r.off, !.size = @ - Needed(size)]
  /\ pool' = IF Fits(r.pool, size) THEN TakeEnd(r.pool, size) ELSE r.pool
  /\ failed' = failed \cup AllocChecked(r.pool, size)
  /\ UNCHANGED wbuf

\* While a request is received: header and cookie elements, authentication
\* data, and what the application sets.  Nothing changes if it fails.
MHD_connection_alloc_memory_(size) ==
  /\ Receiving
  /\ AllocFree(size) \/ AllocFromWrite(size) \/ AllocFromRead(size)
  /\ UNCHANGED <<kept, phase, discard, interim>>

-----------------------------------------------------------------------------
(***************************************************************************)
(* The reply.                                                              *)
(***************************************************************************)

\* build_header_response() in the write buffer w: does a header of n bytes fit?
HeaderFits(w, n) == w.size # 0 /\ w.append + n <= w.size

WithHeader(w, n) == [w EXCEPT !.append = @ + n]

\* transmit_error_response_len(): the read buffer is given up, and if that is
\* not enough the whole pool is.  There may even then be no space.
ErrorReply(n) ==
  LET p == MHD_pool_deallocate(pool, rbuf.off, rbuf.size)
      first == Maximized(p, wbuf)
      retry == Maximized(MHD_pool_reset(0), NoWrite)
  IN /\ failed' = failed \cup WriteNotMoved(p, wbuf)
     /\ discard' = TRUE
     /\ interim' = interim
     /\ \/ /\ HeaderFits(first.wbuf, n)
           /\ pool' = first.pool
           /\ wbuf' = WithHeader(first.wbuf, n)
           /\ rbuf' = IF rbuf.size # 0 THEN NoRead ELSE rbuf
           /\ kept' = kept
           /\ phase' = "last"
        \/ /\ ~HeaderFits(first.wbuf, n)
           /\ rbuf' = [off |-> 0, size |-> 0, used |-> 0]
           /\ kept' = 0
           /\ pool' = retry.pool
           /\ wbuf' = IF HeaderFits(retry.wbuf, n) THEN WithHeader(retry.wbuf, n)
                      ELSE retry.wbuf
           /\ phase' = IF HeaderFits(retry.wbuf, n) THEN "last" ELSE "closed"

\* The request cannot be parsed or is too large.
RequestError(n) ==
  /\ phase \in {"head", "called", "body", "foot"} /\ ~interim
  /\ n > 0 /\ ErrorReply(n)

\* check_and_grow_read_buffer_space(): grow the buffer when it is full or,
\* unless the rest of the body is small, when there is little space left.  If
\* a full buffer cannot be grown the reply is an error of n bytes.
GrowReadBuffer(n) ==
  LET required == rbuf.used = rbuf.size
      r == MHD_pool_reallocate(pool, rbuf.off, rbuf.size, GrownSize(required))
  IN /\ Reading /\ n > 0
     /\ required \/ rbuf.used + Increment > rbuf.size
     /\ \/ /\ ~CannotGrow(required)
           /\ pool' = r.pool
           /\ rbuf' = [rbuf EXCEPT !.off = r.off, !.size = GrownSize(required)]
           /\ failed' = failed \cup Assert(r.off # Null /\ r.off = rbuf.off, "grow")
           /\ UNCHANGED <<wbuf, kept, phase, discard, interim>>
        \/ /\ CannotGrow(required) /\ required
           /\ ErrorReply(n)

\* The assertions of connection_shrink_read_buffer().
ShrinkAsserted ==
  IF rbuf.off = Null \/ rbuf.size = 0 THEN rbuf.size = 0 /\ rbuf.used = 0
  ELSE rbuf.used = 0 \/ ReadIsLast(pool, rbuf)

\* MHD_connection_handle_idle(), START_REPLY: a reply with a header of n bytes
\* is begun.

StartReply(n) ==
  LET m == Maximized(Shrunk.pool, wbuf) IN
  /\ phase \in {"full", "early"} /\ n > 0
  /\ failed' = failed \cup WriteNotMoved(Shrunk.pool, wbuf)
       \cup AssertRead(ShrinkAsserted, "shrink")
  /\ pool' = m.pool
  /\ rbuf' = Shrunk.rbuf
  /\ IF HeaderFits(m.wbuf, n)
     THEN wbuf' = WithHeader(m.wbuf, n) /\ phase' = "send"
     ELSE wbuf' = m.wbuf /\ phase' = "closed"
  /\ UNCHANGED <<kept, discard, interim>>

\* MHD_connection_handle_write() and check_write_done().
Send(n) ==
  /\ phase \in {"send", "chunk", "done", "last"}
  /\ n > 0 /\ n <= wbuf.append - wbuf.send
  /\ wbuf' = IF wbuf.send + n = wbuf.append
             THEN [wbuf EXCEPT !.send = 0, !.append = 0]
             ELSE [wbuf EXCEPT !.send = @ + n]
  /\ UNCHANGED <<pool, rbuf, kept, phase, discard, interim, failed>>

AllSent == wbuf.append = 0

\* try_ready_normal_body(): memory for the vector of a response.  If there is
\* none the connection is closed.
ReadyVector(size) ==
  /\ phase = "send" /\ AllSent
  /\ AllocFree(size) \/ AllocFromWrite(size) \/ AllocFromRead(size)
  /\ phase' = "done"
  /\ UNCHANGED <<kept, discard, interim>>

Overhead == Digits + 4

\* MHD_uint32_to_strx(): how many digits the size of a chunk has.
DigitsOf(n) ==
  Digits - Cardinality({d \in 1 .. Digits - 1 : n < Base ^ d})

Smaller(a, b) == IF a < b THEN a ELSE b

\* try_ready_chunked_body(): the next chunk has n bytes; none if the
\* application has none ready.  Without memory the connection is closed.
ReadyChunk(n) ==
  LET size == Smaller(wbuf.size + MHD_pool_get_free(pool), MaxChunk + Overhead)
      r == MHD_pool_reallocate(pool, wbuf.off, wbuf.size, size)
      grow == wbuf.size < MinChunked
      w == IF grow THEN [wbuf EXCEPT !.off = r.off, !.size = size] ELSE wbuf
  IN /\ phase \in {"send", "chunk"} /\ AllSent
     /\ grow => wbuf.size + MHD_pool_get_free(pool) >= MinChunked
     /\ n <= Smaller(w.size - Overhead, MaxChunk)
     /\ pool' = IF grow THEN r.pool ELSE pool
     /\ wbuf' = IF n = 0 THEN w
                ELSE [w EXCEPT !.send = Digits - DigitsOf(n),
                               !.append = Digits + 2 + n + 2]
     /\ failed' = failed \cup Assert(~grow \/ r.off # Null, "chunk")
          \cup Assert(n = 0 \/ DigitsOf(n) < Digits, "digits")
     /\ phase' = "chunk"
     /\ UNCHANGED <<rbuf, kept, discard, interim>>

\* build_connection_chunked_response_footer(): footers of n bytes.
ReadyFooters(n) ==
  LET m == Maximized(pool, wbuf) IN
  /\ phase \in {"send", "chunk"} /\ AllSent /\ n > 0
  /\ failed' = failed \cup WriteNotMoved(pool, wbuf)
  /\ pool' = m.pool
  /\ IF n <= m.wbuf.size
     THEN wbuf' = WithHeader(m.wbuf, n) /\ phase' = "done"
     ELSE wbuf' = m.wbuf /\ phase' = "closed"
  /\ UNCHANGED <<rbuf, kept, discard, interim>>

\* FULL_REPLY_SENT after a "102 Processing": the application is called again, and
\* the write buffer is left where it is.
Interim ==
  /\ phase = "send" /\ AllSent
  /\ phase' = "called"
  /\ interim' = TRUE
  /\ UNCHANGED <<pool, rbuf, wbuf, kept, discard, failed>>

\* connection_reset() for the next request; what was read of it is kept.
Reuse ==
  LET size == IF rbuf.used > PoolSize \div 2 THEN rbuf.used ELSE PoolSize \div 2 IN
  /\ phase \in {"send", "done"} /\ AllSent /\ ~discard
  /\ pool' = MHD_pool_reset(size)
  /\ rbuf' = [off |-> 0, size |-> size, used |-> rbuf.used]
  /\ wbuf' = NoWrite
  /\ kept' = 0
  /\ phase' = "head"
  /\ interim' = FALSE
  /\ failed' = failed \cup AssertRead(rbuf.off # Null \/ rbuf.used = 0, "keep")
  /\ UNCHANGED discard

\* MHD_response_execute_upgrade_() with TLS: both buffers are given up and
\* the rest of the pool becomes the buffer of the forwarded data.
Upgrade ==
  LET p == MHD_pool_deallocate(MHD_pool_deallocate(pool, wbuf.off, wbuf.size),
                               rbuf.off, rbuf.size)
      avail == MHD_pool_get_free(p)
  IN /\ phase = "send" /\ AllSent
     /\ pool' = IF avail < ReserveEbuf THEN p ELSE TakeFront(p, avail)
     /\ rbuf' = NoRead /\ wbuf' = NoWrite
     /\ phase' = "upgraded"
     /\ UNCHANGED <<kept, discard, interim, failed>>

\* MHD_connection_close_() and MHD_pool_destroy()
Close ==
  /\ phase # "closed"
  /\ phase' = "closed"
  /\ pool' = [pos |-> 0, end |-> Size]
  /\ rbuf' = NoRead /\ wbuf' = NoWrite
  /\ kept' = 0
  /\ discard' = FALSE /\ interim' = FALSE
  /\ UNCHANGED failed

Next ==
  \/ HeadersReceived \/ QueueEarly \/ Proceed \/ Interim \/ Reuse \/ Upgrade \/ Close
  \/ \E n \in Lengths :
       \/ Receive(n) \/ Parse(n) \/ ProcessBody(n) \/ GrowReadBuffer(n)
       \/ MHD_connection_alloc_memory_(n) \/ RequestError(n)
       \/ StartReply(n) \/ Send(n)
       \/ ReadyVector(n) \/ ReadyChunk(n) \/ ReadyFooters(n)

Spec == Init /\ [][Next]_vars
-----------------------------------------------------------------------------
Offsets == 0 .. Size

\* The type invariant; the free part of the pool is aligned at both ends.
TypeOK ==
  /\ pool \in [pos : Offsets, end : Offsets]
  /\ Round(pool.pos) = pool.pos /\ Round(pool.end) = pool.end
  /\ rbuf \in [off : Offsets \cup {Null}, size : Offsets, used : Offsets]
  /\ wbuf \in [off : Offsets \cup {Null}, size : Offsets,
               send : Offsets, append : Offsets]
  /\ kept \in Offsets
  /\ discard \in BOOLEAN /\ interim \in BOOLEAN
  /\ phase \in {"head", "called", "body", "foot", "full", "early", "send", "chunk", "done", "last",
               "closed", "upgraded"}
  /\ failed \subseteq {"moved", "alloc", "grow", "shrink", "again", "keep", "chunk", "digits"}

\* The strings of the request, the read buffer, the write buffer, the free
\* memory and the blocks at the end follow one another in the pool: none of
\* them overlaps another, and the data in a buffer is within the buffer.  A
\* read buffer with data in it is not lost unless an assertion has failed in the
\* reply that follows an interim reply, see AssertionsHold.
Disjoint ==
  /\ kept <= pool.pos /\ pool.pos <= pool.end
  /\ rbuf.off # Null =>
       kept <= rbuf.off /\ rbuf.off + rbuf.size <= pool.pos
  /\ wbuf.off # Null =>
       kept <= wbuf.off /\ wbuf.off + wbuf.size <= pool.pos
  /\ rbuf.off # Null /\ wbuf.off # Null => rbuf.off + rbuf.size <= wbuf.off
  /\ rbuf.used <= rbuf.size
  /\ rbuf.off = Null /\ rbuf.used # 0 => "again" \in failed
  /\ wbuf.send <= wbuf.append /\ wbuf.append <= wbuf.size

\* The assertions about the pool hold: the buffer that is resized is always
\* the last block, it is never moved, and after it has given up the memory
\* that MHD_pool_try_alloc() asked for the allocation cannot fail.  Two are set
\* apart.  "digits", about the length of a chunk header, fails for a chunk whose
\* size has as many digits as there is room for.  "again", about the read buffer
\* in the reply that follows a "102 Processing", fails if something of the next
\* request has been read: the write buffer is behind it.
AssertionsHold == failed \subseteq {"digits", "again"}

\* A full read buffer that can be grown, because there is free memory, is
\* really larger afterwards, so that reading can go on.
GrowMakesRoom ==
  Reading /\ rbuf.used = rbuf.size /\ MHD_pool_get_free(pool) # 0
    => GrownSize(TRUE) > rbuf.size

\* The three together: the strings of the request, the buffers and the blocks at the end
\* of the pool never overlap, the assertions about the pool hold, and a full read buffer
\* grows if there is memory.  Code: memorypool.c and its callers in connection.c.
BuffersSafe == Disjoint /\ AssertionsHold /\ GrowMakesRoom
=============================================================================
