--------------------------- MODULE SharedResponse ---------------------------
(***************************************************************************)
(* One response object queued for several connections, each served by a    *)
(* thread of its own (response.c, and the parts of connection.c that use   *)
(* the response).  The body of the response is a buffer, a vector of       *)
(* buffers, or comes from the application's content reader callback.  What *)
(* the callback supplies goes to the write buffer of the connection when   *)
(* the reply is chunked, and otherwise, with a known size or without, to   *)
(* the buffer of the response, which all the connections share.  The mutex *)
(* of the response protects its reference counter and is held around the   *)
(* calls of the callback, but total_size is also read without it.          *)
(***************************************************************************)
EXTENDS Integers, FiniteSets

CONSTANTS
  Conn,      \* the connections
  Length,    \* the size of the body
  MaxRead,   \* how much the callback returns at most
  Failures   \* may the callback fail, end before Length or return too much?

MHD_SIZE_UNKNOWN == 1000000   \* UINT64_MAX in the code
NoOne == "none"

ConnAssumption == NoOne \notin Conn /\ IsFiniteSet(Conn)
LengthAssumption ==
  /\ Length \in Nat \ {0} /\ Length + 1 < MHD_SIZE_UNKNOWN /\ MaxRead \in Nat \ {0}
  /\ Failures \in BOOLEAN

VARIABLES
  \* struct MHD_Response
  kind,     \* "crc": from a callback; "buffer" or "iov": data in memory
  enforced, \* has the application set "Transfer-Encoding: chunked"?
  rc,       \* reference_count
  holder,   \* who has locked the mutex
  total,    \* total_size
  start,    \* data_start
  size,     \* data_size
  freed,    \* has it been freed?
  \* the application and the connections
  appref,   \* does the application still hold its reference?
  st,       \* where each connection is
  pos,      \* its rp.rsp_write_position
  promised, \* the size its header has announced
  chunked,  \* its rp.props.chunked
  wbuf,     \* the body it holds itself: a chunk, or its copy of the vector
  failed,   \* has the callback failed for some connection?
  stray     \* has the mutex been unlocked by one who had not locked it?

resp == <<kind, enforced, rc, holder, total, start, size, freed>>
vars == <<resp, appref, st, pos, promised, chunked, wbuf, failed, stray>>

Steps == {"none", "queued", "unready", "filling", "ready", "locking", "checking",
          "sending", "checked", "chunk", "done", "gone"}

\* The connections that have a reference.
Holders == {c \in Conn : st[c] \notin {"none", "gone"}}

\* MHD_create_response_from_callback() with or without the size, from_buffer()
\* and from_iovec(); a vector with enforced chunking is left out.
Init ==
  /\ kind \in {"crc", "buffer", "iov"}
  /\ enforced \in (IF kind = "iov" THEN {FALSE} ELSE BOOLEAN)
  /\ rc = 1 /\ holder = NoOne /\ freed = FALSE
  /\ total \in (IF kind = "crc" THEN {Length, MHD_SIZE_UNKNOWN} ELSE {Length})
  /\ start = 0 /\ size = (IF kind = "buffer" THEN Length ELSE 0)
  /\ appref = TRUE /\ failed = FALSE /\ stray = FALSE
  /\ st = [c \in Conn |-> "none"] /\ pos = [c \in Conn |-> 0]
  /\ promised = [c \in Conn |-> 0] /\ wbuf = [c \in Conn |-> 0]
  /\ chunked = [c \in Conn |-> FALSE]

Goto(c, step) == st' = [st EXCEPT ![c] = step]

-----------------------------------------------------------------------------
(* The reference counter.                                                  *)

\* MHD_queue_response(), with MHD_increment_response_rc(): the application queues
\* a response it still holds.
Queue(c) ==
  /\ st[c] = "none" /\ appref /\ holder = NoOne
  /\ rc' = rc + 1
  /\ Goto(c, "queued")
  /\ UNCHANGED <<kind, enforced, holder, total, start, size, freed>>
  /\ UNCHANGED <<appref, pos, promised, chunked, wbuf, failed, stray>>

\* MHD_destroy_response(): the last one frees it.
MHD_destroy_response ==
  /\ holder = NoOne
  /\ rc' = rc - 1
  /\ freed' = (freed \/ rc' = 0)
  /\ UNCHANGED <<kind, enforced, holder, total, start, size>>

AppDestroys ==
  /\ appref /\ appref' = FALSE
  /\ MHD_destroy_response
  /\ UNCHANGED <<st, pos, promised, chunked, wbuf, failed, stray>>

\* MHD_connection_close_() or connection_reset(), when the reply is complete
\* or has failed.
Release(c) ==
  /\ st[c] = "done"
  /\ MHD_destroy_response
  /\ Goto(c, "gone")
  /\ UNCHANGED <<appref, pos, promised, chunked, wbuf, failed, stray>>

\* The reply is given up: connection_close_error().
GivenUp(c) ==
  /\ Goto(c, "done")
  /\ pos' = [pos EXCEPT ![c] = 0] /\ promised' = [promised EXCEPT ![c] = 0]

\* The client goes away, or a timeout strikes.
Abort(c) ==
  /\ st[c] \in {"queued", "unready", "ready", "checked", "chunk"}
  /\ GivenUp(c)
  /\ UNCHANGED <<resp, appref, chunked, wbuf, failed, stray>>

-----------------------------------------------------------------------------
(* The mutex.                                                              *)

\* Only the users of a response with a callback lock it.
Lock(c) ==
  IF kind = "crc" THEN holder = NoOne /\ holder' = c ELSE holder' = holder

Unlock(c) ==
  /\ holder' = IF kind = "crc" THEN NoOne ELSE holder
  /\ stray' = (stray \/ (kind = "crc" /\ holder # c))

\* The exits that unlock it without asking for the callback.
UnlockAlways(c) == holder' = NoOne /\ stray' = (stray \/ holder # c)

-----------------------------------------------------------------------------
(* The body.                                                               *)

\* setup_reply_properties() and build_header_response(): total_size is read
\* without the mutex; a reply is chunked when the size is unknown or the
\* application says so, and the client and the flags allow it.  The header of
\* data in one buffer takes some of it along.
Header(c) ==
  /\ st[c] = "queued"
  /\ \E allowed \in BOOLEAN :
       chunked' = [chunked EXCEPT ![c] =
                     (total = MHD_SIZE_UNKNOWN \/ enforced) /\ allowed]
  /\ \E n \in 0..(IF kind = "buffer" /\ ~chunked'[c] THEN Length ELSE 0) :
       pos' = [pos EXCEPT ![c] = n]
  /\ promised' = [promised EXCEPT ![c] = total]
  /\ Goto(c, "unready")
  /\ UNCHANGED <<resp, appref, wbuf, failed, stray>>

\* handle_idle() in NORMAL_BODY_UNREADY or CHUNKED_BODY_UNREADY.
IdleLocks(c) ==
  /\ st[c] = "unready" /\ (kind = "crc" => holder = NoOne)
  /\ IF total = 0 \/ (chunked[c] /\ pos[c] = total)
     THEN holder' = holder /\ Goto(c, "done")
     ELSE Lock(c) /\ Goto(c, "filling")
  /\ UNCHANGED <<kind, enforced, rc, total, start, size, freed>>
  /\ UNCHANGED <<appref, pos, promised, chunked, wbuf, failed, stray>>

\* handle_write() in NORMAL_BODY_READY: the position is compared with the size
\* before the mutex is locked; past the size nothing is done at all.
WriteChecks(c) ==
  /\ st[c] = "ready"
  /\ \/ pos[c] < total /\ Goto(c, "locking")
     \/ pos[c] = total /\ Goto(c, "done")
  /\ UNCHANGED <<resp, appref, pos, promised, chunked, wbuf, failed, stray>>

MutantWriteUnlocked(c) ==
  /\ st[c] = "locking" /\ holder = NoOne
  /\ Goto(c, "checking")
  /\ UNCHANGED <<resp, appref, pos, promised, chunked, wbuf, failed, stray>>

WriteLocks(c) ==
  /\ st[c] = "locking"
  /\ Lock(c) /\ Goto(c, "checking")
  /\ UNCHANGED <<kind, enforced, rc, total, start, size, freed>>
  /\ UNCHANGED <<appref, pos, promised, chunked, wbuf, failed, stray>>

\* Is what comes next for the connection in the buffer of the response?
InBuffer(c) == start <= pos[c] /\ pos[c] < start + size

\* May the callback return n bytes?  What is left of the size wraps when another
\* connection has made it smaller than the position.
Supplies(c, n) == pos[c] + n <= Length /\ (pos[c] > total \/ pos[c] + n <= total)

\* The callback ends the body: the size of the response is set for all the
\* connections.  It is an error before the end of the body.
CallbackEnds(c) ==
  /\ pos[c] = Length \/ Failures
  /\ total' = pos[c] /\ failed' = (failed \/ pos[c] # Length)
  /\ Unlock(c) /\ Goto(c, "done")
  /\ UNCHANGED <<kind, enforced, rc, start, size, freed>>
  /\ UNCHANGED <<appref, pos, promised, chunked, wbuf>>

\* try_ready_normal_body() returns MHD_YES: handle_idle() unlocks the mutex,
\* handle_write() keeps it while it sends.
NormalReady(c) ==
  /\ IF st[c] = "filling" THEN Unlock(c) /\ Goto(c, "ready")
                          ELSE UNCHANGED <<holder, stray>> /\ Goto(c, "sending")
  /\ UNCHANGED <<kind, enforced, rc, total, freed, appref, pos, promised, chunked, failed>>

NothingToReady(c) ==
  \/ total = 0 \/ pos[c] = total
  \/ kind = "iov" /\ wbuf[c] # 0
  \/ kind = "buffer"
  \/ kind = "crc" /\ InBuffer(c)

\* The vector is copied to the memory of the connection, if there is room.
CopyVector(c) ==
  \/ /\ wbuf' = [wbuf EXCEPT ![c] = Length]
     /\ NormalReady(c) /\ UNCHANGED <<start, size>>
  \/ /\ UnlockAlways(c) /\ GivenUp(c)
     /\ UNCHANGED <<kind, enforced, rc, total, start, size, freed>>
     /\ UNCHANGED <<appref, chunked, wbuf, failed>>

\* The callback is asked for what comes next, into the buffer of the response.
FillBuffer(c) ==
  \/ \E n \in 1..MaxRead :
       /\ Supplies(c, n)
       /\ start' = pos[c] /\ size' = n
       /\ NormalReady(c) /\ UNCHANGED wbuf
  \/ /\ start' = pos[c] /\ size' = 0
     /\ Unlock(c) /\ Goto(c, "unready")
     /\ UNCHANGED <<kind, enforced, rc, total, freed>>
     /\ UNCHANGED <<appref, pos, promised, chunked, wbuf, failed>>
  \/ CallbackEnds(c)

\* try_ready_normal_body(), without sendfile()
try_ready_normal_body(c) ==
  /\ st[c] \in {"filling", "checking"} /\ ~chunked[c]
  /\ \/ NothingToReady(c) /\ NormalReady(c) /\ UNCHANGED <<start, size, wbuf>>
     \/ ~NothingToReady(c) /\ kind = "iov" /\ CopyVector(c)
     \/ ~NothingToReady(c) /\ kind = "crc" /\ FillBuffer(c)

\* How far MHD_send_data_() or MHD_send_iovec_() may get.  If the buffer is not
\* the connection's, data_size - data_write_offset wraps: past the end.
Reach(c) ==
  CASE kind = "iov" -> Length
    [] kind # "iov" /\ start <= pos[c] /\ pos[c] <= start + size -> start + size
    [] OTHER -> Length + 1

\* Some of it is sent, then the mutex is unlocked.
Send(c) ==
  /\ st[c] = "sending"
  /\ \E p \in pos[c]..Reach(c) : pos' = [pos EXCEPT ![c] = p]
  /\ Unlock(c) /\ Goto(c, "checked")
  /\ UNCHANGED <<kind, enforced, rc, total, start, size, freed>>
  /\ UNCHANGED <<appref, promised, chunked, wbuf, failed>>

\* The end of the case: the reply is complete when the position is total_size.
Check(c) ==
  /\ st[c] = "checked"
  /\ Goto(c, IF pos[c] = total THEN "done" ELSE "ready")
  /\ UNCHANGED <<resp, appref, pos, promised, chunked, wbuf, failed, stray>>

\* A chunk of n bytes is in the write buffer: the position moves with it.
ChunkReady(c, n) ==
  /\ pos' = [pos EXCEPT ![c] = @ + n] /\ wbuf' = [wbuf EXCEPT ![c] = n]
  /\ Unlock(c) /\ Goto(c, "chunk")
  /\ UNCHANGED <<kind, enforced, rc, total, start, size, freed>>
  /\ UNCHANGED <<appref, promised, chunked, failed>>

\* The exits of try_ready_chunked_body() that close the connection: too little
\* memory for a write buffer; more data than the callback was asked for.
ChunkGivenUp(c) ==
  /\ UnlockAlways(c) /\ GivenUp(c)
  /\ UNCHANGED <<kind, enforced, rc, total, start, size, freed>>
  /\ UNCHANGED <<appref, chunked, wbuf, failed>>

\* The callback is asked for what comes next, into the write buffer.
FillChunk(c) ==
  \/ \E n \in 1..MaxRead : Supplies(c, n) /\ ChunkReady(c, n)
  \/ /\ pos[c] < Length
     /\ Unlock(c) /\ Goto(c, "unready")
     /\ UNCHANGED <<kind, enforced, rc, total, start, size, freed>>
     /\ UNCHANGED <<appref, pos, promised, chunked, wbuf, failed>>
  \/ Failures /\ ChunkGivenUp(c)
  \/ CallbackEnds(c)

\* try_ready_chunked_body(): what is in the buffer of the response is used first.
try_ready_chunked_body(c) ==
  /\ st[c] = "filling" /\ chunked[c]
  /\ \/ ChunkGivenUp(c)
     \/ InBuffer(c) /\ \E n \in 1..(start + size - pos[c]) : Supplies(c, n) /\ ChunkReady(c, n)
     \/ ~InBuffer(c) /\ kind = "crc" /\ FillChunk(c)

\* handle_write() in CHUNKED_BODY_READY, once the chunk has been sent.
ChunkSent(c) ==
  /\ st[c] = "chunk"
  /\ wbuf' = [wbuf EXCEPT ![c] = 0]
  /\ Goto(c, IF pos[c] = total THEN "done" ELSE "unready")
  /\ UNCHANGED <<resp, appref, pos, promised, chunked, failed, stray>>

ThreadSteps(c) ==
  \/ Header(c) \/ IdleLocks(c) \/ WriteChecks(c) \/ WriteLocks(c)
  \/ try_ready_normal_body(c) \/ Send(c) \/ Check(c)
  \/ try_ready_chunked_body(c) \/ ChunkSent(c) \/ Release(c)

Next ==
  \/ AppDestroys
  \/ \E c \in Conn : Queue(c) \/ Abort(c) \/ ThreadSteps(c)

Spec == Init /\ [][Next]_vars

-----------------------------------------------------------------------------
(* Properties.                                                             *)

\* The fields keep their ranges; one past Length stands for every position past
\* the end.
TypeOK ==
  /\ kind \in {"crc", "buffer", "iov"} /\ enforced \in BOOLEAN
  /\ rc \in 0..(Cardinality(Conn) + 1) /\ holder \in Conn \cup {NoOne}
  /\ total \in 0..Length \cup {MHD_SIZE_UNKNOWN}
  /\ start \in 0..Length /\ size \in 0..Length
  /\ freed \in BOOLEAN /\ appref \in BOOLEAN
  /\ failed \in BOOLEAN /\ stray \in BOOLEAN
  /\ st \in [Conn -> Steps] /\ pos \in [Conn -> 0..(Length + 1)]
  /\ promised \in [Conn -> 0..Length \cup {MHD_SIZE_UNKNOWN}]
  /\ chunked \in [Conn -> BOOLEAN] /\ wbuf \in [Conn -> 0..Length]

\* The response is freed when, and only when, the application and every
\* connection it was queued for have given it up.  Code: reference_count in
\* MHD_destroy_response() and MHD_increment_response_rc().
FreedByTheLast ==
  /\ rc = Cardinality(Holders) + (IF appref THEN 1 ELSE 0)
  /\ freed <=> (~appref /\ Holders = {})

\* A reply of unknown size that is not chunked has been sent to its end, and
\* another connection has made the end known since the position was compared
\* with the size: try_ready_normal_body() finds nothing to do and handle_write()
\* sends from a buffer that may hold anything.
EndMadeKnown(c) ==
  promised[c] = MHD_SIZE_UNKNOWN /\ ~chunked[c] /\ pos[c] = total

\* What a connection sends from the shared buffer is its own part of the body,
\* however the connections take turns with the callback, unless the callback
\* has failed for some connection or the end was made known by another in
\* between (EndMadeKnown).  A chunk of a response without a callback is always
\* in its buffer ("There is no way to reach this code").  Code: the check of
\* data_start and data_size under the mutex.
SendsItsOwnPart ==
  /\ TypeOK
  /\ ~failed => \A c \in Conn :
       st[c] = "sending" => kind = "iov" \/ InBuffer(c) \/ EndMadeKnown(c)
  /\ \A c \in Conn : st[c] = "filling" /\ chunked[c] => kind = "crc" \/ InBuffer(c)

\* A reply that is taken for complete has the size its header has announced,
\* or, if none was announced or the reply is chunked, the size of the body, as
\* long as the callback has failed for no connection.  Code:
\* rsp_write_position == total_size.
SizeAsPromised ==
  \A c \in Conn :
    (st[c] = "done" /\ promised[c] # 0 /\ ~failed) =>
      pos[c] = IF chunked[c] \/ promised[c] = MHD_SIZE_UNKNOWN THEN Length ELSE promised[c]

\* The mutex is held by the one connection that is between lock and unlock, and
\* nobody unlocks it who has not locked it, unless the response has no callback:
\* then two exits for lack of memory unlock what nobody has locked.  Code: the
\* functions that return "the lock on the response will have been released
\* already", and their callers.
LockHeld ==
  /\ \A c \in Conn :
       holder = c <=> (kind = "crc" /\ st[c] \in {"filling", "checking", "sending"})
  /\ stray => kind # "crc"

\* What the connections that share a response may rely on: it is freed by the last
\* of them, the data they send is theirs, a complete reply has its size, and no
\* path leaves the mutex locked or unlocks that of another.
SharedSafely == FreedByTheLast /\ SendsItsOwnPart /\ SizeAsPromised /\ LockHeld

=============================================================================
