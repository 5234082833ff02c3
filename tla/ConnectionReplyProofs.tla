------------------------ MODULE ConnectionReplyProofs ------------------------
(***************************************************************************)
(* Proofs about the replies of a Connection and about the events it waits  *)
(* for, on top of the control of ConnectionProofs.                         *)
(***************************************************************************)
EXTENDS ConnectionProofs

\* The states of a reply that is being sent, and those of its body.
Beginning == Early \cup {"HEADERS_PROCESSED"} \cup Uploading \cup Footers
Normal == {"NORMAL_BODY_UNREADY", "NORMAL_BODY_READY"}
Chunks == {"CHUNKED_BODY_UNREADY", "CHUNKED_BODY_READY", "CHUNKED_BODY_SENT", "FOOTERS_SENDING"}

\* Where rsp_write_position is when a reply has been queued.
Position(k) == IF Kind(k).head \/ k.response.code # "200" THEN k.response.size ELSE 0

\* The response of a connection and how much of it has been sent.
ReplyHeld(k) ==
  /\ k.response \in ReplyType
  /\ k.response.code = "102" => k.response.size = 0
  /\ k.response.code = "none" => k.response = NoResponse
  /\ k.state \in {"START_REPLY"} \cup (Sending \ {"CLOSED", "UPGRADE"}) => k.response.code # "none"
  /\ k.stop_err => k.discard

BeforeBody(k) ==
  /\ k.state \in Beginning => k.wpos = 0
  /\ k.state = "FULL_REQ_RECEIVED" =>
       k.wpos = IF k.response.code = "none" THEN 0 ELSE Position(k)
  /\ k.state = "START_REPLY" => k.wpos = Position(k)
  /\ k.state = "HEADERS_SENDING" =>
       k.wpos = Position(k) /\ k.out = 0 /\ k.ready = 0 /\ k.send_body = BodyNeeded(k)
  /\ k.state = "HEADERS_SENT" => ~k.wbuf /\ k.ready = 0

InBody(k) ==
  /\ k.state \in {"HEADERS_SENT", "FULL_REPLY_SENT"} =>
       /\ k.send_body => k.response.code = "200"
       /\ ~k.send_body => k.wpos = k.response.size /\ k.out = 0
  /\ (k.state = "HEADERS_SENT" /\ k.send_body) \/ k.state \in Normal =>
       k.out = k.wpos /\ k.wpos \in 0..k.response.size
  /\ k.state = "HEADERS_SENT" /\ k.chunked => k.out = 0
  /\ k.state \in Normal =>
       /\ k.send_body /\ ~k.chunked /\ ~k.wbuf /\ k.response.code = "200"
       /\ k.ready >= 0 /\ (k.response.reader => k.wpos + k.ready <= k.response.size)
  /\ k.state \in Chunks =>
       /\ k.send_body /\ k.chunked /\ k.response.code = "200" /\ k.wpos \in 0..k.response.size
  /\ k.state \in {"CHUNKED_BODY_UNREADY", "CHUNKED_BODY_SENT"} => ~k.wbuf /\ k.out = k.wpos
  /\ k.state \in {"CHUNKED_BODY_SENT", "FOOTERS_SENDING"} => k.out = k.wpos /\ k.response.size = k.wpos
  /\ k.state = "FULL_REPLY_SENT" => ~k.wbuf /\ (k.send_body => k.out = k.response.size)

ReplyRight(k) == ReplyHeld(k) /\ BeforeBody(k) /\ InBody(k)

\* The event a connection waits for.
EventRight(k) ==
  /\ k.state \in {"INIT", "REQ_LINE_RECEIVING"} => k.info = "READ" /\ Len(k.rbuf) < 2
  /\ k.state \in {"REQ_HEADERS_RECEIVING", "FOOTERS_RECEIVING"} => k.info = "READ" /\ k.rbuf = <<>>
  /\ k.state = "BODY_RECEIVING" =>
       k.info \in Reads \cup Processes /\ (k.info = "READ" => k.rbuf = <<>> \/ ~k.some)
  /\ k.state \in Writable => k.info = "WRITE"
  /\ k.state \in {"FULL_REQ_RECEIVED", "NORMAL_BODY_UNREADY", "CHUNKED_BODY_UNREADY"} => k.info = "PROCESS"
  /\ k.state = "CLOSED" => k.info = "CLEANUP"
  /\ k.state \notin Milestones \cup {"UPGRADE"}

\* handle_idle() has left its loop.
LeftRight(k) ==
  /\ k.state \notin Milestones \cup {"UPGRADE"}
  /\ k.state \in {"INIT", "REQ_LINE_RECEIVING"} => Len(k.rbuf) < 2
  /\ k.state \in {"REQ_HEADERS_RECEIVING", "FOOTERS_RECEIVING"} => k.rbuf = <<>>

Waiting == {"poll", "after_write", "after_fast1", "after_fast2"}

Events ==
  /\ Len(c.rbuf) <= BufSize
  /\ c.resuming => c.suspended
  /\ c.state = "UPGRADE" => c.suspended /\ ~c.resuming
  /\ pc = "resumed" => c.stale
  /\ pc = "post" /\ ~c.suspended => LeftRight(c)
  /\ pc \in Waiting /\ ~c.suspended => EventRight(c)
  /\ pc = "read" /\ ~c.stale => c.state \notin (Milestones \ {"START_REPLY"}) \cup Writable
  /\ pc = "write" /\ ~c.suspended /\ ~c.stale => c.state \in Writable

ReplyInv == ReplyRight(c) /\ Events

\* rsp_write_position is not set back after an interim reply, which must
\* therefore have no body.
InterimEmpty == \A r \in Replies : r.code = "102" => r.size = 0

-----------------------------------------------------------------------------
(* The operators on the record of the connection. *)

LEMMA RightSame ==
  ASSUME UNCHANGED kinds, ReplyRight(c')
  PROVE  ReplyRight(c)'
BY DEF ReplyRight, ReplyHeld, BeforeBody, InBody, Position, BodyNeeded, Kind

\* Fields ReplyRight does not look at.
LEMMA RightUnseen ==
  ASSUME NEW k \in ConnType, NEW e, ReplyRight(k),
         e.state = k.state, e.response = k.response, e.stop_err = k.stop_err, e.discard = k.discard,
         e.rq = k.rq, e.wpos = k.wpos, e.out = k.out, e.ready = k.ready, e.wbuf = k.wbuf,
         e.send_body = k.send_body, e.chunked = k.chunked
  PROVE  ReplyRight(e)
<1>1. Kind(e) = Kind(k) /\ Position(e) = Position(k) /\ BodyNeeded(e) = BodyNeeded(k)
  BY DEF Kind, Position, BodyNeeded
<1> QED BY <1>1, SMT DEF ReplyRight, ReplyHeld, BeforeBody, InBody

LEMMA RightFacts ==
  /\ NoResponse \in ReplyType /\ ErrorResponse \in ReplyType
  /\ NoResponse.code = "none" /\ ErrorResponse.code = "200" /\ ErrorResponse.size = 1
  /\ \A r \in Replies : r \in ReplyType /\ r.code # "none"
BY ReplyAssumption, UnknownSize, SMT DEF NoResponse, ErrorResponse, ReplyType

LEMMA RightClosed ==
  ASSUME NEW e, e.state = "CLOSED", e.response = NoResponse, e.stop_err => e.discard
  PROVE  ReplyRight(e)
<1>1. ReplyHeld(e)
  BY RightFacts, SMT DEF ReplyHeld, Sending
<1>2. BeforeBody(e)
  BY SMT DEF BeforeBody, Beginning, Early, Uploading, Footers
<1>3. InBody(e)
  BY SMT DEF InBody, Normal, Chunks
<1> QED BY <1>1, <1>2, <1>3 DEF ReplyRight

LEMMA RightClosing ==
  ASSUME NEW k \in ConnType, k.stop_err => k.discard
  PROVE  ReplyRight(MHD_connection_close_(k)) /\ ReplyRight(connection_close_error(k))
<1>1. /\ MHD_connection_close_(k).state = "CLOSED" /\ MHD_connection_close_(k).response = NoResponse
      /\ MHD_connection_close_(k).stop_err = k.stop_err /\ MHD_connection_close_(k).discard = k.discard
  BY SMT DEF MHD_connection_close_, ConnType
<1>2. /\ connection_close_error(k).state = "CLOSED" /\ connection_close_error(k).response = NoResponse
      /\ connection_close_error(k).discard
  BY SMT DEF connection_close_error, MHD_connection_close_, ConnType
<1> QED BY <1>1, <1>2, RightClosed

LEMMA RightHeader ==
  ASSUME NEW k \in ConnType, k.response \in ReplyType, k.response.code # "none",
         k.response.code = "102" => k.response.size = 0, k.stop_err => k.discard, k.wpos = Position(k)
  PROVE  ReplyRight(build_header_response(k))
<1> DEFINE h == build_header_response(k)
<1>1. h \in ConnType /\ h.state = "HEADERS_SENDING" /\ h.response = k.response /\ h.rq = k.rq
      /\ h.discard = k.discard
  BY HeaderTyped
<1>2. /\ h.stop_err = k.stop_err /\ h.wpos = k.wpos /\ h.out = 0 /\ h.ready = 0
      /\ h.send_body = BodyNeeded(k)
  <2> DEFINE b == BodyNeeded(k)
             u == k.response.code = "200" /\ k.response.size = MHD_SIZE_UNKNOWN
             f == /\ k.response.code = "200" /\ (u \/ k.response.enforced)
                  /\ ~Kind(k).old /\ ~k.response.strict
             a == IF u /\ ~f THEN "CLOSE" ELSE keepalive_possible(k)
  <2>1. h = [k EXCEPT !.send_body = b, !.chunked = f, !.keepalive = a, !.wbuf = TRUE, !.out = 0,
                      !.ready = 0, !.state = "HEADERS_SENDING"]
    BY DEF build_header_response, setup_reply_properties
  <2> HIDE DEF b, f, a, h
  <2>2. /\ h.stop_err = k.stop_err /\ h.wpos = k.wpos /\ h.out = 0 /\ h.ready = 0
        /\ h.send_body = b
    BY <2>1, SMT DEF ConnType
  <2> QED BY <2>2 DEF b
<1> HIDE DEF h
<1>3. Position(h) = Position(k) /\ BodyNeeded(h) = BodyNeeded(k)
  BY <1>1 DEF Position, BodyNeeded, Kind
<1>4. ReplyHeld(h)
  BY <1>1, <1>2, SMT DEF ReplyHeld
<1>5. BeforeBody(h)
  BY <1>1, <1>2, <1>3, SMT DEF BeforeBody, Beginning, Early, Uploading, Footers
<1>6. InBody(h)
  BY <1>1, SMT DEF InBody, Normal, Chunks
<1> QED BY <1>4, <1>5, <1>6 DEF ReplyRight, h

LEMMA RightError ==
  ASSUME NEW k \in ConnType, NEW e \in transmit_error_response(k), k.stop_err => k.discard,
         k.state \notin Sending => k.wpos = 0
  PROVE  ReplyRight(e)
<1> DEFINE f == [k EXCEPT !.stop_err = TRUE, !.discard = TRUE, !.rbuf = <<>>,
                          !.state = "FULL_REQ_RECEIVED", !.response = NoResponse]
<1> DEFINE q == MHD_queue_response(f, ErrorResponse)
<1> DEFINE g == [q EXCEPT !.keepalive = "CLOSE"]
<1>1. "FULL_REQ_RECEIVED" \in States
  BY DEF States
<1>2. f \in ConnType
  BY <1>1, Responses, EmptySeq, Zenon DEF ConnType
<1>3. /\ f.rq = k.rq /\ f.discard /\ f.wpos = k.wpos /\ f.state = "FULL_REQ_RECEIVED"
      /\ f.response = NoResponse
  BY SMT DEF ConnType
<1>4. ReplyRight([f EXCEPT !.state = "CLOSED"])
  <2>1. /\ [f EXCEPT !.state = "CLOSED"].state = "CLOSED" /\ [f EXCEPT !.state = "CLOSED"].discard
        /\ [f EXCEPT !.state = "CLOSED"].response = NoResponse
    BY SMT DEF ConnType
  <2> QED BY <2>1, RightClosed, Zenon
<1> HIDE DEF f
<1>5. ASSUME k.wpos = 0 PROVE ReplyRight(build_header_response(g))
  <2> DEFINE w == IF Kind(f).head \/ ErrorResponse.code # "200" THEN ErrorResponse.size ELSE f.wpos
  <2>1. w \in Int
    BY <1>2, SMT DEF ConnType, ErrorResponse
  <2>2. q = [f EXCEPT !.response = ErrorResponse, !.wpos = w]
    BY <1>3 DEF MHD_queue_response
  <2> HIDE DEF w
  <2>3. q \in ConnType
    BY <1>2, <2>1, <2>2, Responses, ZenonT(60) DEF ConnType
  <2>a. q.response = ErrorResponse /\ q.wpos = w /\ q.discard /\ q.rq = f.rq
    BY <1>2, <1>3, <2>2, SMT DEF ConnType
  <2> HIDE DEF q
  <2>4. g \in ConnType
    BY <2>3, Zenon DEF ConnType
  <2>5. g.response = ErrorResponse /\ g.wpos = w /\ g.discard /\ g.rq = f.rq
    BY <2>3, <2>a, SMT DEF ConnType
  <2>6. Kind(g) = Kind(f)
    BY <2>5 DEF Kind
  <2>7. w = Position(g)
    BY <1>3, <1>5, <2>5, <2>6, RightFacts DEF Position, w
  <2> HIDE DEF g
  <2> QED BY <2>4, <2>5, <2>7, RightFacts, RightHeader
<1>6. ReplyRight(connection_close_error(f)) /\ ReplyRight(connection_close_error(k))
  BY <1>2, <1>3, RightClosing
<1> QED BY <1>4, <1>5, <1>6 DEF transmit_error_response, f, q, g

-----------------------------------------------------------------------------
(* The body of a reply. *)

NormalRight(k) ==
  /\ k.response \in ReplyType /\ k.response.code = "200" /\ (k.stop_err => k.discard)
  /\ k.send_body /\ ~k.chunked /\ ~k.wbuf /\ k.out = k.wpos /\ k.wpos \in 0..k.response.size
  /\ k.ready >= 0 /\ (k.response.reader => k.wpos + k.ready <= k.response.size)

LEMMA RightNormal ==
  ASSUME NEW k, k.state \in Normal
  PROVE  ReplyRight(k) <=> NormalRight(k)
<1>1. k.state \in Sending \ {"CLOSED", "UPGRADE"} /\ k.state \notin Beginning /\ k.state \notin Chunks
  BY SMT DEF Normal, Sending, Beginning, Early, Uploading, Footers, Chunks
<1>2. k.state \notin {"FULL_REQ_RECEIVED", "START_REPLY", "HEADERS_SENDING", "HEADERS_SENT", "FULL_REPLY_SENT"}
  BY SMT DEF Normal
<1>3. BeforeBody(k)
  BY <1>1, <1>2 DEF BeforeBody
<1>4. ReplyHeld(k) <=> /\ k.response \in ReplyType /\ (k.response.code = "102" => k.response.size = 0)
                       /\ k.response.code # "none" /\ (k.stop_err => k.discard)
  BY <1>1 DEF ReplyHeld
<1>5. InBody(k) <=> /\ k.out = k.wpos /\ k.wpos \in 0..k.response.size
                    /\ k.send_body /\ ~k.chunked /\ ~k.wbuf /\ k.response.code = "200"
                    /\ k.ready >= 0 /\ (k.response.reader => k.wpos + k.ready <= k.response.size)
  <2>1. k.state \notin {"CHUNKED_BODY_UNREADY", "CHUNKED_BODY_SENT", "FOOTERS_SENDING"}
    BY SMT DEF Normal
  <2> QED BY <1>1, <1>2, <2>1 DEF InBody
<1> QED BY <1>3, <1>4, <1>5 DEF ReplyRight, NormalRight

ChunkRight(k) ==
  /\ k.response \in ReplyType /\ k.response.code = "200" /\ (k.stop_err => k.discard)
  /\ k.send_body /\ k.chunked /\ k.wpos \in 0..k.response.size
  /\ k.state \in {"CHUNKED_BODY_UNREADY", "CHUNKED_BODY_SENT"} => ~k.wbuf /\ k.out = k.wpos
  /\ k.state \in {"CHUNKED_BODY_SENT", "FOOTERS_SENDING"} => k.out = k.wpos /\ k.response.size = k.wpos

LEMMA RightChunks ==
  ASSUME NEW k, k.state \in Chunks
  PROVE  ReplyRight(k) <=> ChunkRight(k)
<1>1. k.state \in Sending \ {"CLOSED", "UPGRADE"} /\ k.state \notin Beginning /\ k.state \notin Normal
  BY SMT DEF Normal, Sending, Beginning, Early, Uploading, Footers, Chunks
<1>2. k.state \notin {"FULL_REQ_RECEIVED", "START_REPLY", "HEADERS_SENDING", "HEADERS_SENT", "FULL_REPLY_SENT"}
  BY SMT DEF Chunks
<1>3. BeforeBody(k)
  BY <1>1, <1>2 DEF BeforeBody
<1>4. ReplyHeld(k) <=> /\ k.response \in ReplyType /\ (k.response.code = "102" => k.response.size = 0)
                       /\ k.response.code # "none" /\ (k.stop_err => k.discard)
  BY <1>1 DEF ReplyHeld
<1>5. InBody(k) <=>
        /\ k.send_body /\ k.chunked /\ k.response.code = "200" /\ k.wpos \in 0..k.response.size
        /\ k.state \in {"CHUNKED_BODY_UNREADY", "CHUNKED_BODY_SENT"} => ~k.wbuf /\ k.out = k.wpos
        /\ k.state \in {"CHUNKED_BODY_SENT", "FOOTERS_SENDING"} =>
             k.out = k.wpos /\ k.response.size = k.wpos
  BY <1>1, <1>2 DEF InBody
<1> QED BY <1>3, <1>4, <1>5 DEF ReplyRight, ChunkRight

WholeRight(k) ==
  /\ k.response \in ReplyType /\ k.response.code # "none" /\ (k.stop_err => k.discard)
  /\ k.response.code = "102" => k.response.size = 0
  /\ ~k.wbuf /\ (k.send_body => k.response.code = "200" /\ k.out = k.response.size)
  /\ ~k.send_body => k.wpos = k.response.size /\ k.out = 0

LEMMA RightSent ==
  ASSUME NEW k, k.state = "FULL_REPLY_SENT"
  PROVE  ReplyRight(k) <=> WholeRight(k)
<1>1. /\ k.state \in Sending \ {"CLOSED", "UPGRADE"} /\ k.state \notin Beginning
      /\ k.state \notin Normal /\ k.state \notin Chunks
  BY SMT DEF Normal, Sending, Beginning, Early, Uploading, Footers, Chunks
<1>3. BeforeBody(k)
  BY <1>1 DEF BeforeBody
<1>4. ReplyHeld(k) <=> /\ k.response \in ReplyType /\ (k.response.code = "102" => k.response.size = 0)
                       /\ k.response.code # "none" /\ (k.stop_err => k.discard)
  BY <1>1 DEF ReplyHeld
<1>5. InBody(k) <=> /\ ~k.wbuf /\ (k.send_body => k.response.code = "200" /\ k.out = k.response.size)
                    /\ ~k.send_body => k.wpos = k.response.size /\ k.out = 0
  BY <1>1 DEF InBody
<1> QED BY <1>3, <1>4, <1>5 DEF ReplyRight, WholeRight

HeaderSentRight(k) ==
  /\ k.response \in ReplyType /\ k.response.code # "none" /\ (k.stop_err => k.discard)
  /\ k.response.code = "102" => k.response.size = 0
  /\ ~k.wbuf /\ k.ready = 0 /\ (k.chunked => k.out = 0)
  /\ k.send_body => k.response.code = "200" /\ k.out = k.wpos /\ k.wpos \in 0..k.response.size
  /\ ~k.send_body => k.wpos = k.response.size /\ k.out = 0

LEMMA RightHeaderSent ==
  ASSUME NEW k, k.state = "HEADERS_SENT"
  PROVE  ReplyRight(k) <=> HeaderSentRight(k)
<1>1. /\ k.state \in Sending \ {"CLOSED", "UPGRADE"} /\ k.state \notin Beginning
      /\ k.state \notin Normal /\ k.state \notin Chunks
  BY SMT DEF Normal, Sending, Beginning, Early, Uploading, Footers, Chunks
<1>3. BeforeBody(k) <=> ~k.wbuf /\ k.ready = 0
  BY <1>1 DEF BeforeBody
<1>4. ReplyHeld(k) <=> /\ k.response \in ReplyType /\ (k.response.code = "102" => k.response.size = 0)
                       /\ k.response.code # "none" /\ (k.stop_err => k.discard)
  BY <1>1 DEF ReplyHeld
<1>5. InBody(k) <=>
        /\ k.chunked => k.out = 0
        /\ k.send_body => k.response.code = "200" /\ k.out = k.wpos /\ k.wpos \in 0..k.response.size
        /\ ~k.send_body => k.wpos = k.response.size /\ k.out = 0
  BY <1>1 DEF InBody
<1> QED BY <1>3, <1>4, <1>5 DEF ReplyRight, HeaderSentRight

LEMMA RightSuspendings ==
  ASSUME NEW k \in ConnType, NEW s \in Suspendings(k), ReplyRight(k)
  PROVE  ReplyRight(s)
<1>1. CASE s = k
  BY <1>1
<1>2. CASE s = [k EXCEPT !.suspended = TRUE]
  BY <1>2, RightUnseen, SMTT(40) DEF ConnType
<1> QED BY <1>1, <1>2 DEF Suspendings

LEMMA RightEnded ==
  ASSUME NEW k \in ConnType, k.stop_err => k.discard
  PROVE  ReplyRight(MHD_connection_close_(Ended(k))) /\ ReplyRight(connection_close_error(Ended(k)))
<1>1. Ended(k) \in ConnType
  BY EndedTyped DEF SameRequest
<1>2. Ended(k).stop_err = k.stop_err /\ Ended(k).discard = k.discard
  BY SMT DEF Ended, ConnType
<1> QED BY <1>1, <1>2, RightClosing

\* What try_ready_normal_body() returns.
LEMMA RightTryNormal ==
  ASSUME NEW k \in ConnType, NEW t \in try_ready_normal_body(k), ReplyRight(k), k.state \in Normal
  PROVE  /\ ReplyRight(t[2]) /\ t[2] \in ConnType
         /\ t[1] \in BOOLEAN /\ (t[1] => t[2].state = k.state)
<1>0. NormalRight(k) /\ k.response.size \in Int /\ k.wpos \in Int
  BY RightNormal DEF ConnType
<1>1. CASE t = <<TRUE, k>>
  BY <1>1
<1>2. ASSUME NEW n \in 1..Min(MaxRead, Left(k)), NEW s \in Suspendings([k EXCEPT !.ready = n]), t = <<TRUE, s>>
      PROVE  ReplyRight(t[2]) /\ t[2] \in ConnType /\ t[1] \in BOOLEAN /\ t[2].state = k.state
  <2> DEFINE l == [k EXCEPT !.ready = n]
  <2>1. n \in Int /\ n >= 1 /\ n <= Left(k) /\ Left(k) \in Int
    BY LeftTyped, BoundAssumption, SMT DEF Min
  <2>2. l \in ConnType
    BY <2>1, Zenon DEF ConnType
  <2>3. k.wpos + n <= k.response.size
    <3>1. MaxStream \in Int /\ MaxStream <= MHD_SIZE_UNKNOWN /\ MHD_SIZE_UNKNOWN \in Int
      BY BoundAssumption, UnknownSize, SMT
    <3> QED BY <1>0, <2>1, <3>1, SMT DEF Left
  <2>4. NormalRight(l) /\ l.state = k.state
    <3>1. /\ l.state = k.state /\ l.response = k.response /\ l.stop_err = k.stop_err
          /\ l.discard = k.discard /\ l.send_body = k.send_body /\ l.chunked = k.chunked
          /\ l.wbuf = k.wbuf /\ l.out = k.out /\ l.wpos = k.wpos /\ l.ready = n
      BY SMT DEF ConnType
    <3> HIDE DEF l
    <3> QED BY <1>0, <2>1, <2>3, <3>1 DEF NormalRight
  <2> HIDE DEF l
  <2>5. ReplyRight(l)
    BY <2>4, RightNormal
  <2>6. s \in Suspendings(l)
    BY DEF l
  <2>7. s \in ConnType /\ s.state = k.state
    BY <2>2, <2>4, <2>6, SuspendingsTyped DEF Small, SameRequest
  <2> QED BY <1>2, <2>2, <2>5, <2>6, <2>7, RightSuspendings
<1>3. ASSUME NEW s \in Suspendings([k EXCEPT !.state = "NORMAL_BODY_UNREADY"]), t = <<FALSE, s>>
      PROVE  ReplyRight(t[2]) /\ t[2] \in ConnType /\ t[1] = FALSE
  <2> DEFINE l == [k EXCEPT !.state = "NORMAL_BODY_UNREADY"]
  <2>1. "NORMAL_BODY_UNREADY" \in States
    BY DEF States, Sending
  <2>2. l \in ConnType
    BY <2>1, Zenon DEF ConnType
  <2>4. NormalRight(l) /\ l.state \in Normal
    <3>1. /\ l.state = "NORMAL_BODY_UNREADY" /\ l.response = k.response /\ l.stop_err = k.stop_err
          /\ l.discard = k.discard /\ l.send_body = k.send_body /\ l.chunked = k.chunked
          /\ l.wbuf = k.wbuf /\ l.out = k.out /\ l.wpos = k.wpos /\ l.ready = k.ready
      BY SMT DEF ConnType
    <3> HIDE DEF l
    <3> QED BY <1>0, <3>1 DEF NormalRight, Normal
  <2> HIDE DEF l
  <2>5. ReplyRight(l)
    BY <2>4, RightNormal
  <2>6. s \in Suspendings(l)
    BY DEF l
  <2>7. s \in ConnType
    BY <2>2, <2>6, SuspendingsTyped DEF Small, SameRequest
  <2> QED BY <1>3, <2>2, <2>5, <2>6, <2>7, RightSuspendings
<1>4. ASSUME NEW e, e = MHD_connection_close_(Ended(k)) \/ e = connection_close_error(Ended(k)),
             t = <<FALSE, e>>
      PROVE  ReplyRight(t[2]) /\ t[2] \in ConnType /\ t[1] = FALSE
  <2>1. ReplyRight(e)
    BY <1>0, <1>4, RightEnded DEF NormalRight
  <2>2. e \in ConnType
    BY <1>4, EndedCloses DEF Failed
  <2> QED BY <1>4, <2>1, <2>2
<1>5. CASE t = <<FALSE, connection_close_error(k)>>
  <2>1. ReplyRight(t[2]) /\ t[2] \in ConnType
    BY <1>0, <1>5, RightClosing, ClosingTyped DEF Failed, NormalRight
  <2> QED BY <1>5, <2>1
<1> QED BY <1>1, <1>2, <1>3, <1>4, <1>5, NormalOutcomes

LEMMA RightTryChunked ==
  ASSUME NEW k \in ConnType, NEW e \in try_ready_chunked_body(k), ReplyRight(k),
         k.state = "CHUNKED_BODY_UNREADY"
  PROVE  ReplyRight(e)
<1>0. /\ ChunkRight(k) /\ k.response.size \in Int /\ k.wpos \in Int
      /\ MaxStream \in Int /\ MaxStream <= MHD_SIZE_UNKNOWN /\ MHD_SIZE_UNKNOWN \in Int
  BY RightChunks, BoundAssumption, UnknownSize, SMT DEF ConnType, Chunks
<1>1. ASSUME NEW n \in 1..Min(MaxRead, Left(k)),
             e \in Suspendings([k EXCEPT !.wpos = @ + n, !.wbuf = TRUE, !.state = "CHUNKED_BODY_READY"])
      PROVE  ReplyRight(e)
  <2> DEFINE w == k.wpos + n
             l == [k EXCEPT !.wpos = w, !.wbuf = TRUE, !.state = "CHUNKED_BODY_READY"]
  <2>1. n \in Int /\ n >= 1 /\ n <= Left(k) /\ Left(k) \in Int
    BY LeftTyped, BoundAssumption, SMT DEF Min
  <2>2. w \in 0..k.response.size /\ w \in Int
    BY <1>0, <2>1, SMT DEF Left, ChunkRight
  <2>3. e \in Suspendings(l) /\ "CHUNKED_BODY_READY" \in States
    BY <1>1 DEF States, Sending
  <2> HIDE DEF w
  <2>4. l \in ConnType
    BY <2>2, <2>3, Zenon DEF ConnType
  <2>5. /\ l.state = "CHUNKED_BODY_READY" /\ l.response = k.response /\ l.stop_err = k.stop_err
        /\ l.discard = k.discard /\ l.send_body = k.send_body /\ l.chunked = k.chunked
        /\ l.wpos = w
    BY SMT DEF ConnType
  <2> HIDE DEF l
  <2>6. ChunkRight(l) /\ l.state \in Chunks
    BY <1>0, <2>2, <2>5 DEF ChunkRight, Chunks
  <2> QED BY <2>3, <2>4, <2>6, RightChunks, RightSuspendings
<1>2. CASE e = [Ended(k) EXCEPT !.state = "CHUNKED_BODY_SENT"]
  <2> DEFINE r == [k.response EXCEPT !.size = k.wpos]
             l == [k EXCEPT !.response = r, !.state = "CHUNKED_BODY_SENT"]
  <2>1. e = l
    BY <1>2 DEF Ended
  <2>2. r \in ReplyType /\ r.code = "200" /\ r.size = k.wpos /\ k.wpos \in 0..k.wpos
    <3>1. k.response \in ReplyType /\ k.response.code = "200" /\ k.wpos \in 0..k.response.size
      BY <1>0 DEF ChunkRight
    <3>2. k.wpos \in 0..MHD_SIZE_UNKNOWN /\ k.wpos \in 0..k.wpos
      BY <1>0, <3>1, SMT DEF ReplyType
    <3> QED BY <3>1, <3>2, SMT DEF ReplyType
  <2> HIDE DEF r
  <2>3. /\ l.state = "CHUNKED_BODY_SENT" /\ l.response = r /\ l.stop_err = k.stop_err
        /\ l.discard = k.discard /\ l.send_body = k.send_body /\ l.chunked = k.chunked
        /\ l.wpos = k.wpos /\ l.out = k.out /\ l.wbuf = k.wbuf
    BY SMT DEF ConnType
  <2> HIDE DEF l
  <2>4. ChunkRight(l) /\ l.state \in Chunks
    BY <1>0, <2>2, <2>3 DEF ChunkRight, Chunks
  <2> QED BY <2>1, <2>4, RightChunks
<1>3. CASE e = connection_close_error(Ended(k))
  BY <1>0, <1>3, RightEnded DEF ChunkRight
<1> QED BY <1>1, <1>2, <1>3, ChunkedOutcomes

-----------------------------------------------------------------------------
(* Writing. *)

LEMMA RightWriteHeader ==
  ASSUME NEW k \in ConnType, NEW e \in WriteHeader(k), ReplyRight(k), k.state = "HEADERS_SENDING"
  PROVE  ReplyRight(e)
<1> DEFINE m == IF BodyWithHeader(k) THEN k.response.size ELSE 0
<1>0. /\ k.response \in ReplyType /\ k.response.code # "none" /\ (k.stop_err => k.discard)
      /\ (k.response.code = "102" => k.response.size = 0)
      /\ k.wpos = Position(k) /\ k.out = 0 /\ k.ready = 0 /\ k.send_body = BodyNeeded(k)
  BY SMT DEF ReplyRight, ReplyHeld, BeforeBody, Sending
<1>1. k.response.size \in Int /\ 0 <= k.response.size
  BY <1>0, UnknownSize, SMT DEF ReplyType
<1>2. CASE e = k
  BY <1>2
<1>3. ASSUME NEW s \in 0..m,
             e = [k EXCEPT !.state = "HEADERS_SENT", !.wbuf = FALSE, !.wpos = IF s > 0 THEN s ELSE @, !.out = s]
      PROVE  ReplyRight(e)
  <2> DEFINE w == IF s > 0 THEN s ELSE k.wpos
  <2>1. /\ e.state = "HEADERS_SENT" /\ e.wbuf = FALSE /\ e.out = s /\ e.wpos = w
        /\ e.response = k.response /\ e.stop_err = k.stop_err /\ e.discard = k.discard
        /\ e.ready = k.ready /\ e.send_body = k.send_body /\ e.chunked = k.chunked
    <3>1. e = [k EXCEPT !.state = "HEADERS_SENT", !.wbuf = FALSE, !.wpos = w, !.out = s]
      BY <1>3
    <3> HIDE DEF w
    <3> QED BY <3>1, SMT DEF ConnType
  <2>2. k.send_body => k.response.code = "200" /\ k.wpos = 0
    BY <1>0 DEF BodyNeeded, Position
  <2>3. ~k.send_body => k.wpos = k.response.size /\ m = 0
    BY <1>0 DEF BodyNeeded, Position, BodyWithHeader
  <2>4. s \in Int /\ 0 <= s /\ s <= m /\ m <= k.response.size /\ m \in Int
    BY <1>1
  <2>4a. k.chunked => m = 0
    BY DEF BodyWithHeader
  <2> HIDE DEF m
  <2>5. k.send_body => w = s /\ w \in 0..k.response.size
    BY <1>1, <2>2, <2>4
  <2>6. ~k.send_body => s = 0 /\ w = k.wpos
    BY <2>3, <2>4
  <2>8. k.chunked => s = 0
    BY <2>4, <2>4a
  <2> HIDE DEF w
  <2>7. HeaderSentRight(e)
    BY <1>0, <2>1, <2>2, <2>3, <2>5, <2>6, <2>8 DEF HeaderSentRight
  <2> QED BY <2>1, <2>7, RightHeaderSent
<1> QED BY <1>2, <1>3 DEF WriteHeader

LEMMA RightFinished ==
  ASSUME NEW k \in ConnType, NormalRight(k), k.state \in Normal
  PROVE  ReplyRight(Finished(k))
<1>1. CASE k.wpos = k.response.size
  <2> DEFINE l == [k EXCEPT !.state = "FULL_REPLY_SENT"]
  <2>1. Finished(k) = l
    BY <1>1 DEF Finished
  <2>2. /\ l.state = "FULL_REPLY_SENT" /\ l.response = k.response /\ l.stop_err = k.stop_err
        /\ l.discard = k.discard /\ l.send_body = k.send_body /\ l.wbuf = k.wbuf
        /\ l.out = k.out /\ l.wpos = k.wpos
    BY SMT DEF ConnType
  <2> HIDE DEF l
  <2>3. WholeRight(l)
    BY <1>1, <2>2 DEF WholeRight, NormalRight
  <2> QED BY <2>1, <2>2, <2>3, RightSent
<1>2. CASE k.wpos # k.response.size
  BY <1>2, RightNormal DEF Finished
<1> QED BY <1>1, <1>2

LEMMA RightSendNormal ==
  ASSUME NEW k \in ConnType, NEW e \in SendNormal(k), NormalRight(k), k.state \in Normal
  PROVE  ReplyRight(e)
<1> DEFINE ready == IF k.response.reader THEN k.ready ELSE Left(k)
<1>1. PICK s \in 0..ready :
        e = Finished([k EXCEPT !.wpos = @ + s, !.out = @ + s,
                               !.ready = IF k.response.reader THEN @ - s ELSE @])
  BY DEF SendNormal
<1> DEFINE w == k.wpos + s
           o == k.out + s
           b == IF k.response.reader THEN k.ready - s ELSE k.ready
           l == [k EXCEPT !.wpos = w, !.out = o, !.ready = b]
<1>2. /\ k.wpos \in Int /\ k.out \in Int /\ k.ready \in Int /\ k.response.size \in Int
      /\ Left(k) \in Int /\ k.response.reader \in BOOLEAN
  BY LeftTyped, SMT DEF ConnType
<1>3. s \in Int /\ 0 <= s /\ s <= ready
  BY <1>2
<1>4. Left(k) <= k.response.size - k.wpos
  <2>1. MaxStream \in Int /\ MaxStream <= MHD_SIZE_UNKNOWN /\ MHD_SIZE_UNKNOWN \in Int
    BY BoundAssumption, UnknownSize, SMT
  <2> QED BY <1>2, <2>1, SMT DEF Left
<1>5. /\ w \in Int /\ o \in Int /\ b \in Int /\ o = w /\ w \in 0..k.response.size /\ b >= 0
      /\ k.response.reader => w + b <= k.response.size
  <2>1. k.out = k.wpos /\ k.wpos \in 0..k.response.size /\ k.ready >= 0
        /\ (k.response.reader => k.wpos + k.ready <= k.response.size)
    BY DEF NormalRight
  <2> QED BY <1>2, <1>3, <1>4, <2>1, SMT
<1>6. e = Finished(l)
  BY <1>1
<1> HIDE DEF w, o, b
<1>7. l \in ConnType
  BY <1>5, Zenon DEF ConnType
<1>8. /\ l.state = k.state /\ l.response = k.response /\ l.stop_err = k.stop_err
      /\ l.discard = k.discard /\ l.send_body = k.send_body /\ l.chunked = k.chunked
      /\ l.wbuf = k.wbuf /\ l.out = o /\ l.wpos = w /\ l.ready = b
  BY SMT DEF ConnType
<1> HIDE DEF l
<1>9. NormalRight(l)
  BY <1>5, <1>8 DEF NormalRight
<1> QED BY <1>6, <1>7, <1>8, <1>9, RightFinished

LEMMA RightWritten ==
  ASSUME NEW k \in ConnType, NEW e \in Written(k), ReplyRight(k)
  PROVE  ReplyRight(e)
<1>1. ASSUME e = k \/ e = [k EXCEPT !.cont = TRUE] PROVE ReplyRight(e)
  <2>1. CASE e = [k EXCEPT !.cont = TRUE]
    BY <2>1, RightUnseen, SMTT(40) DEF ConnType
  <2> QED BY <1>1, <2>1
<1>2. CASE k.state = "HEADERS_SENDING"
  BY <1>2, RightWriteHeader DEF Written
<1>3. CASE k.state = "NORMAL_BODY_READY"
  <2>0. NormalRight(k) /\ k.state \in Normal /\ e \in WriteNormal(k)
    BY <1>3, RightNormal DEF Normal, Written
  <2>1. CASE k.wpos < k.response.size
    <3>1. PICK t \in try_ready_normal_body(k) : e \in IF t[1] THEN SendNormal(t[2]) ELSE {t[2]}
      BY <2>0, <2>1 DEF WriteNormal
    <3>2. ReplyRight(t[2]) /\ t[2] \in ConnType /\ t[1] \in BOOLEAN /\ (t[1] => t[2].state = k.state)
      BY <2>0, RightTryNormal
    <3>3. CASE t[1]
      <4>1. NormalRight(t[2]) /\ t[2].state \in Normal
        BY <2>0, <3>2, <3>3, RightNormal
      <4> QED BY <3>1, <3>2, <3>3, <4>1, RightSendNormal
    <3> QED BY <3>1, <3>2, <3>3
  <2>2. CASE ~(k.wpos < k.response.size)
    BY <2>0, <2>2, RightFinished DEF WriteNormal
  <2> QED BY <2>1, <2>2
<1>4. CASE k.state = "CHUNKED_BODY_READY" /\ e # k
  <2>0. ChunkRight(k)
    BY <1>4, RightChunks DEF Chunks
  <2> DEFINE st == IF k.response.size = k.wpos THEN "CHUNKED_BODY_SENT" ELSE "CHUNKED_BODY_UNREADY"
  <2>1. e = [k EXCEPT !.wbuf = FALSE, !.out = k.wpos, !.state = st]
    BY <1>4 DEF Written, WriteChunk
  <2>2. st \in {"CHUNKED_BODY_SENT", "CHUNKED_BODY_UNREADY"}
    OBVIOUS
  <2>3. st = "CHUNKED_BODY_SENT" => k.response.size = k.wpos
    OBVIOUS
  <2> HIDE DEF st
  <2>4. /\ e.state = st /\ e.response = k.response /\ e.stop_err = k.stop_err
        /\ e.discard = k.discard /\ e.send_body = k.send_body /\ e.chunked = k.chunked
        /\ e.wpos = k.wpos /\ e.out = k.wpos /\ e.wbuf = FALSE
    BY <2>1, SMT DEF ConnType
  <2>5. ChunkRight(e) /\ e.state \in Chunks
    BY <2>0, <2>2, <2>3, <2>4 DEF ChunkRight, Chunks
  <2> QED BY <2>5, RightChunks
<1>5. CASE k.state = "FOOTERS_SENDING" /\ e # k
  <2>0. ChunkRight(k)
    BY <1>5, RightChunks DEF Chunks
  <2>1. e = [k EXCEPT !.wbuf = FALSE, !.state = "FULL_REPLY_SENT"]
    BY <1>5 DEF Written
  <2>2. /\ e.state = "FULL_REPLY_SENT" /\ e.response = k.response /\ e.stop_err = k.stop_err
        /\ e.discard = k.discard /\ e.send_body = k.send_body
        /\ e.wpos = k.wpos /\ e.out = k.out /\ e.wbuf = FALSE
    BY <2>1, SMT DEF ConnType
  <2>3. WholeRight(e)
    BY <1>5, <2>0, <2>2 DEF WholeRight, ChunkRight
  <2> QED BY <2>2, <2>3, RightSent
<1> QED BY <1>1, <1>2, <1>3, <1>4, <1>5 DEF Written

-----------------------------------------------------------------------------
(* The steps, and the reply. *)

\* The fields ReplyRight looks at.
Untouched(k, e) ==
  /\ e.state = k.state /\ e.response = k.response /\ e.stop_err = k.stop_err
  /\ e.discard = k.discard /\ e.rq = k.rq /\ e.wpos = k.wpos /\ e.out = k.out
  /\ e.ready = k.ready /\ e.wbuf = k.wbuf /\ e.send_body = k.send_body /\ e.chunked = k.chunked

LEMMA UntouchedStep ==
  ASSUME ConnInv, ReplyRight(c), UNCHANGED kinds, Untouched(c, c')
  PROVE  ReplyRight(c)'
BY ConnTyped, RightUnseen, RightSame DEF Untouched

\* A request that is being received has no reply.
LEMMA RightBegins ==
  ASSUME NEW e, e.state \in Beginning \cup {"FULL_REQ_RECEIVED"}, e.response = NoResponse,
         e.wpos = 0, e.stop_err => e.discard
  PROVE  ReplyRight(e)
<1>1. ReplyHeld(e)
  <2>1. e.state \notin {"START_REPLY"} \cup (Sending \ {"CLOSED", "UPGRADE"})
    BY SMT DEF Beginning, Early, Uploading, Footers, Sending
  <2> QED BY <2>1, RightFacts DEF ReplyHeld
<1>2. e.state \notin Normal /\ e.state \notin Chunks
      /\ e.state \notin {"START_REPLY", "HEADERS_SENDING", "HEADERS_SENT", "FULL_REPLY_SENT"}
  BY SMT DEF Beginning, Early, Uploading, Footers, Normal, Chunks
<1>3. BeforeBody(e)
  BY <1>2, RightFacts DEF BeforeBody
<1>4. e.state \notin {"CHUNKED_BODY_UNREADY", "CHUNKED_BODY_SENT", "FOOTERS_SENDING"}
  BY SMT DEF Beginning, Early, Uploading, Footers
<1>5. InBody(e)
  BY <1>2, <1>4 DEF InBody
<1> QED BY <1>1, <1>3, <1>5 DEF ReplyRight

LEMMA BeginsStep ==
  ASSUME ConnInv, ReplyRight(c), UNCHANGED kinds, c.state \in Beginning,
         c'.state \in Beginning \cup {"FULL_REQ_RECEIVED"}, c'.response = c.response,
         c'.wpos = c.wpos, c'.stop_err = c.stop_err, c'.discard = c.discard
  PROVE  ReplyRight(c)'
<1>1. c.response = NoResponse
  BY SMT DEF ConnInv, Control, Called, Beginning
<1>2. c.wpos = 0 /\ (c.stop_err => c.discard)
  BY DEF ReplyRight, ReplyHeld, BeforeBody
<1> QED BY <1>1, <1>2, RightBegins, RightSame

LEMMA StopErr == ReplyRight(c) => (c.stop_err => c.discard)
BY DEF ReplyRight, ReplyHeld

LEMMA ClosesStep ==
  ASSUME ConnInv, ReplyRight(c), UNCHANGED kinds,
         c' = MHD_connection_close_(c) \/ c' = connection_close_error(c)
  PROVE  ReplyRight(c)'
BY ConnTyped, StopErr, RightClosing, RightSame

LEMMA ErrorsStep ==
  ASSUME ConnInv, ReplyRight(c), Malformed, c.state \in Beginning
  PROVE  ReplyRight(c)'
<1>1. PICK e \in transmit_error_response(c) : c' = e /\ UNCHANGED kinds
  BY DEF Malformed, Continue, Rest
<1>2. c.wpos = 0 /\ (c.stop_err => c.discard)
  BY DEF ReplyRight, ReplyHeld, BeforeBody
<1> QED BY <1>1, <1>2, ConnTyped, RightError, RightSame

LEMMA RightQueues ==
  ASSUME ConnInv, ReplyRight(c), InterimEmpty, UNCHANGED kinds,
         NEW r \in Replies, Queueable(c, r), c' = MHD_queue_response(c, r)
  PROVE  ReplyRight(c)'
<1> DEFINE w == IF Kind(c).head \/ r.code # "200" THEN r.size ELSE c.wpos
           q == [c EXCEPT !.response = r, !.wpos = w]
<1>1. /\ c.state \in {"HEADERS_PROCESSED", "FULL_REQ_RECEIVED"} /\ c.response = NoResponse
      /\ r \in ReplyType /\ r.code # "none" /\ (r.code = "102" => r.size = 0)
  BY RightFacts DEF Queueable, InterimEmpty
<1>2. c.wpos = 0 /\ (c.stop_err => c.discard)
  BY <1>1, RightFacts, SMT DEF ReplyRight, ReplyHeld, BeforeBody, Beginning
<1>3. /\ c'.response = r /\ c'.wpos = w /\ c'.rq = c.rq
      /\ \/ c.state = "HEADERS_PROCESSED" /\ c'.state = "START_REPLY" /\ c'.discard
         \/ c'.state = "FULL_REQ_RECEIVED" /\ c'.discard = c.discard /\ c'.stop_err = c.stop_err
  <2>1. /\ q.response = r /\ q.wpos = w /\ q.rq = c.rq /\ q.state = c.state
        /\ q.discard = c.discard /\ q.stop_err = c.stop_err
    <3> HIDE DEF w
    <3> QED BY ConnTyped, SMT DEF ConnType
  <2>2. CASE c.state = "HEADERS_PROCESSED"
    <3>1. c' = [c EXCEPT !.response = r, !.wpos = w, !.discard = TRUE, !.state = "START_REPLY", !.remaining = 0]
      BY <2>2 DEF MHD_queue_response
    <3> HIDE DEF w
    <3> QED BY <2>2, <3>1, ConnTyped, SMT DEF ConnType
  <2>3. CASE c.state # "HEADERS_PROCESSED"
    <3>1. c' = q
      BY <2>3 DEF MHD_queue_response
    <3> QED BY <1>1, <2>1, <2>3, <3>1
  <2> QED BY <2>2, <2>3
<1>4. w = Position(c')
  BY <1>2, <1>3 DEF Position, Kind
<1> HIDE DEF w
<1>5. ReplyHeld(c')
  BY <1>1, <1>2, <1>3 DEF ReplyHeld
<1>6. BeforeBody(c')
  <2>1. c'.state \notin Beginning /\ c'.state \in {"FULL_REQ_RECEIVED", "START_REPLY"}
    BY <1>3, SMT DEF Beginning, Early, Uploading, Footers
  <2> QED BY <1>1, <1>3, <1>4, <2>1, SMT DEF BeforeBody
<1>7. InBody(c')
  BY <1>3, SMT DEF InBody, Normal, Chunks
<1> QED BY <1>5, <1>6, <1>7, RightSame DEF ReplyRight

LEMMA RightClient == ConnInv /\ ReplyRight(c) /\ ClientSends => ReplyRight(c)'
<1> SUFFICES ASSUME ConnInv, ReplyRight(c), ClientSends PROVE ReplyRight(c)'
  OBVIOUS
<1>1. PICK kind \in Kinds : kinds' = Append(kinds, kind)
  BY DEF ClientSends
<1>2. c' = c /\ kinds \in Seq(KindType) /\ c.rq \in Nat /\ c.rq <= Len(kinds) /\ kind \in KindType
  BY KindAssumption DEF ClientSends, ConnInv, Typed, ConnType
<1>3. Kind(c)' = Kind(c)
  BY <1>1, <1>2 DEF Kind
<1>4. Position(c)' = Position(c) /\ BodyNeeded(c)' = BodyNeeded(c)
  BY <1>2, <1>3 DEF Position, BodyNeeded
<1>5. ReplyHeld(c)' /\ InBody(c)'
  BY <1>2 DEF ReplyRight, ReplyHeld, InBody
<1>6. BeforeBody(c)'
  BY <1>2, <1>4 DEF ReplyRight, BeforeBody
<1> QED BY <1>5, <1>6 DEF ReplyRight

LEMMA RightDaemon ==
  ASSUME ConnInv, ReplyRight(c), InterimEmpty,
         OtherThreadQueues \/ OtherThreadResumes \/ Resume \/ AfterIdle \/ ReadSteps
                  \/ WriteSteps \/ \E r, w, f \in BOOLEAN : Dispatch(r, w, f)
  PROVE  ReplyRight(c)'
<1>0. ASSUME UNCHANGED kinds, c' = c PROVE ReplyRight(c)'
  BY <1>0, UntouchedStep DEF Untouched
<1>1. CASE OtherThreadQueues
  BY <1>1, RightQueues DEF OtherThreadQueues
<1>2. CASE OtherThreadResumes
  <2>1. Untouched(c, c')
    BY <1>2, ConnTyped, SMT DEF OtherThreadResumes, ConnType, Untouched
  <2> QED BY <1>2, <2>1, UntouchedStep DEF OtherThreadResumes
<1>3. CASE Resume
  <2>1. Untouched(c, c')
    BY <1>3, ConnTyped, SMT DEF Resume, ConnType, Untouched
  <2> QED BY <1>3, <2>1, UntouchedStep DEF Resume
<1>4. CASE AfterIdle
  BY <1>0, <1>4 DEF AfterIdle
<1>5. CASE \E r, w, f \in BOOLEAN : Dispatch(r, w, f)
  <2>1. UNCHANGED kinds /\ (c' = c \/ c' = MHD_connection_close_(c))
    BY <1>5 DEF Dispatch
  <2> QED BY <1>0, <2>1, ClosesStep
<1>6. CASE ReadData
  <2>1. PICK s : c' = [c EXCEPT !.rbuf = @ \o s]
    BY <1>6 DEF ReadData
  <2>2. Untouched(c, c')
    BY <2>1, ConnTyped, SMT DEF ConnType, Untouched
  <2> QED BY <1>6, <2>2, UntouchedStep DEF ReadData
<1>7. ASSUME NEW b \in BOOLEAN, NEW x \in BOOLEAN, UNCHANGED kinds,
             c' = MHD_connection_close_([c EXCEPT !.read_closed = x, !.discard = @ \/ b])
      PROVE  ReplyRight(c)'
  <2>1. /\ c'.state = "CLOSED" /\ c'.response = NoResponse /\ c'.stop_err = c.stop_err
        /\ c'.discard = (c.discard \/ b)
    BY <1>7, ConnTyped, SMT DEF MHD_connection_close_, ConnType
  <2> QED BY <1>7, <2>1, StopErr, RightClosed, RightSame
<1>8. CASE ReadClosed
  BY <1>7, <1>8 DEF ReadClosed
<1>9. CASE ReadError
  <2>1. ASSUME UNCHANGED kinds,
               c' = MHD_connection_close_([c EXCEPT !.discard = @ \/ c.state \in Receiving])
        PROVE  ReplyRight(c)'
    <3> DEFINE b == c.state \in Receiving
    <3>1. /\ c'.state = "CLOSED" /\ c'.response = NoResponse /\ c'.stop_err = c.stop_err
          /\ c'.discard = (c.discard \/ b)
      BY <2>1, ConnTyped, SMT DEF MHD_connection_close_, ConnType
    <3> HIDE DEF b
    <3> QED BY <2>1, <3>1, StopErr, RightClosed, RightSame
  <2> QED BY <1>0, <1>9, <2>1, ClosesStep DEF ReadError
<1>10. CASE WriteError
  BY <1>10, ClosesStep DEF WriteError
<1>11. CASE Write
  <2>1. UNCHANGED kinds /\ (c' = c \/ c' \in Written(c))
    BY <1>11 DEF Write
  <2> QED BY <1>0, <2>1, ConnTyped, RightWritten, RightSame
<1> QED BY <1>1, <1>2, <1>3, <1>4, <1>5, <1>6, <1>8, <1>9, <1>10, <1>11 DEF ReadSteps, WriteSteps

\* The single changes of state before the reply.
LEMMA RightReceiving ==
  ASSUME ConnInv, ReplyRight(c),
         IdleRequestLine \/ IdleRequestLineReceived \/ IdleHeaders \/ IdleParseHeaders
           \/ IdleContinue \/ IdleBody \/ IdleBodyReceived \/ IdleFooters \/ IdleFootersReceived
  PROVE  ReplyRight(c)'
<1>0. ASSUME UNCHANGED kinds, c' = c PROVE ReplyRight(c)'
  BY <1>0, UntouchedStep DEF Untouched
<1>1. c.state \in Beginning /\ UNCHANGED kinds
  <2>1. c.state \in {"INIT", "REQ_LINE_RECEIVING", "REQ_LINE_RECEIVED", "REQ_HEADERS_RECEIVING",
                    "HEADERS_RECEIVED", "CONTINUE_SENDING", "BODY_RECEIVING", "BODY_RECEIVED",
                    "FOOTERS_RECEIVING", "FOOTERS_RECEIVED"}
    BY DEF IdleRequestLine, IdleRequestLineReceived, IdleHeaders, IdleParseHeaders,
       IdleContinue, IdleBody, IdleBodyReceived, IdleFooters, IdleFootersReceived, At
  <2>2. UNCHANGED kinds
    BY DEF IdleRequestLine, IdleRequestLineReceived, IdleHeaders, IdleParseHeaders,
       IdleContinue, IdleBody, IdleBodyReceived, IdleFooters, IdleFootersReceived, Goto,
       Continue, Break, Malformed, Rest
  <2> QED BY <2>1, <2>2, SMT DEF Beginning, Early, Uploading, Footers
<1>2. ASSUME NEW s \in Beginning \cup {"FULL_REQ_RECEIVED"}, c' = [c EXCEPT !.state = s]
      PROVE  ReplyRight(c)'
  <2>1. /\ c'.state = s /\ c'.response = c.response /\ c'.wpos = c.wpos
        /\ c'.stop_err = c.stop_err /\ c'.discard = c.discard
    BY <1>2, ConnTyped, SMT DEF ConnType
  <2> QED BY <1>1, <2>1, BeginsStep
<1>3. /\ {"REQ_LINE_RECEIVING", "REQ_LINE_RECEIVED", "REQ_HEADERS_RECEIVING", "HEADERS_RECEIVED",
          "HEADERS_PROCESSED", "BODY_RECEIVING", "FOOTERS_RECEIVING", "FOOTERS_RECEIVED"} \subseteq Beginning
  BY SMT DEF Beginning, Early, Uploading, Footers
<1>4. CASE IdleRequestLine
  <2>1. CASE Len(c.rbuf) > 1 /\ Continue([c EXCEPT !.rq = c.rbuf[1][1], !.rbuf = Drop(@, 2),
                                                   !.state = "REQ_LINE_RECEIVED"])
    <3>1. /\ c'.state = "REQ_LINE_RECEIVED" /\ c'.response = c.response /\ c'.wpos = c.wpos
          /\ c'.stop_err = c.stop_err /\ c'.discard = c.discard
      BY <2>1, ConnTyped, SMT DEF Continue, ConnType
    <3> QED BY <1>1, <1>3, <3>1, BeginsStep
  <2>2. CASE Len(c.rbuf) = 1 /\ Break([c EXCEPT !.state = "REQ_LINE_RECEIVING"])
    BY <1>2, <1>3, <2>2 DEF Break
  <2> QED BY <1>0, <1>1, <1>4, <2>1, <2>2, ErrorsStep DEF IdleRequestLine, Break
<1>5. CASE IdleHeaders \/ IdleFooters
  <2>1. ASSUME NEW s \in Beginning, c' = [c EXCEPT !.rbuf = Tail(@), !.state = s] PROVE ReplyRight(c)'
    <3>1. /\ c'.state = s /\ c'.response = c.response /\ c'.wpos = c.wpos
          /\ c'.stop_err = c.stop_err /\ c'.discard = c.discard
      BY <2>1, ConnTyped, SMT DEF ConnType
    <3> QED BY <1>1, <3>1, BeginsStep
  <2> QED BY <1>0, <1>1, <1>3, <1>5, <2>1, ErrorsStep DEF IdleHeaders, IdleFooters, Continue, Break
<1>6. CASE IdleParseHeaders
  <2>1. ASSUME NEW a, NEW r, c' = [c EXCEPT !.remaining = r, !.keepalive = a, !.state = "HEADERS_PROCESSED"]
        PROVE  ReplyRight(c)'
    <3>1. /\ c'.state = "HEADERS_PROCESSED" /\ c'.response = c.response /\ c'.wpos = c.wpos
          /\ c'.stop_err = c.stop_err /\ c'.discard = c.discard
      BY <2>1, ConnTyped, SMT DEF ConnType
    <3> QED BY <1>1, <1>3, <3>1, BeginsStep
  <2> QED BY <1>1, <1>6, <2>1, ErrorsStep DEF IdleParseHeaders, Continue
<1>7. CASE IdleRequestLineReceived
  BY <1>2, <1>3, <1>7 DEF IdleRequestLineReceived, Goto, Continue
<1>8. CASE IdleContinue
  BY <1>0, <1>1, <1>2, <1>3, <1>8 DEF IdleContinue, Goto, Continue, Break
<1>9. CASE IdleBody
  BY <1>0, <1>1, <1>9 DEF IdleBody, Break
<1>10. CASE IdleBodyReceived \/ IdleFootersReceived
  BY <1>2, <1>3, <1>10 DEF IdleBodyReceived, IdleFootersReceived, Goto, Continue
<1> QED BY <1>4, <1>5, <1>6, <1>7, <1>8, <1>9, <1>10

LEMMA RightCalls ==
  ASSUME ConnInv, ReplyRight(c), IdleFirstCall \/ IdleFinalCall \/ BodyPart
  PROVE  ReplyRight(c)'
<1>0. ASSUME UNCHANGED kinds, c' = c PROVE ReplyRight(c)'
  BY <1>0, UntouchedStep DEF Untouched
<1>1. ASSUME UNCHANGED kinds, NEW s, c' = [c EXCEPT !.calls = s] PROVE ReplyRight(c)'
  <2>1. Untouched(c, c')
    BY <1>1, ConnTyped, SMT DEF ConnType, Untouched
  <2> QED BY <1>1, <2>1, UntouchedStep
<1>2. CASE IdleFirstCall \/ IdleFinalCall
  BY <1>0, <1>1, <1>2 DEF IdleFirstCall, IdleFinalCall, CallHandler, Rest
<1>3. CASE BodyPart
  <2>1. c.state = "BODY_RECEIVING" /\ c.state \in Beginning /\ "BODY_RECEIVED" \in Beginning
    BY <1>3, SMT DEF BodyPart, ConnInv, Control, InCalls, Beginning, Uploading, Footers
  <2>2. CASE BodyDone([c EXCEPT !.rbuf = Tail(@), !.remaining = 0])
    <3> DEFINE k == [c EXCEPT !.rbuf = Tail(@), !.remaining = 0]
               l == [k EXCEPT !.state = "BODY_RECEIVED"]
    <3>1. UNCHANGED kinds /\ (c' = k \/ c' = l)
      BY <2>2 DEF BodyDone, Continue, Break, Rest
    <3>2. /\ k.state = c.state /\ k.response = c.response /\ k.wpos = c.wpos
          /\ k.stop_err = c.stop_err /\ k.discard = c.discard
          /\ l.state = "BODY_RECEIVED" /\ l.response = c.response /\ l.wpos = c.wpos
          /\ l.stop_err = c.stop_err /\ l.discard = c.discard
      BY ConnTyped, SMT DEF ConnType
    <3> HIDE DEF k, l
    <3> QED BY <2>1, <3>1, <3>2, BeginsStep
  <2> QED BY <1>1, <1>3, <2>1, <2>2, ErrorsStep DEF BodyPart, Rest
<1> QED BY <1>2, <1>3

LEMMA RightAfterCalls ==
  ASSUME ConnInv, ReplyRight(c), AfterFirstCall \/ AfterFinalCall \/ AfterOtherCall
  PROVE  ReplyRight(c)'
<1>0. ASSUME UNCHANGED kinds, c' = c PROVE ReplyRight(c)'
  BY <1>0, UntouchedStep DEF Untouched
<1>1. CASE AfterFirstCall
  <2>1. c.state = "HEADERS_PROCESSED" /\ c.state \in Beginning /\ c.response = NoResponse
        /\ "CONTINUE_SENDING" \in Beginning /\ "BODY_RECEIVING" \in Beginning
    BY <1>1, SMT DEF AfterFirstCall, ConnInv, Control, Called, Beginning, Uploading
  <2>2. ASSUME UNCHANGED kinds, NEW s \in Beginning \cup {"FULL_REQ_RECEIVED"}, c' = [c EXCEPT !.state = s]
        PROVE  ReplyRight(c)'
    <3>1. /\ c'.state = s /\ c'.response = c.response /\ c'.wpos = c.wpos
          /\ c'.stop_err = c.stop_err /\ c'.discard = c.discard
      BY <2>2, ConnTyped, SMT DEF ConnType
    <3> QED BY <2>1, <2>2, <3>1, BeginsStep
  <2>3. CASE \/ c' = c \/ c' = [c EXCEPT !.state = "CONTINUE_SENDING"]
    BY <1>0, <1>1, <2>1, <2>2, <2>3 DEF AfterFirstCall, Continue, Break, Rest
  <2>4. CASE c' = [c EXCEPT !.discard = @ \/ FALSE, !.remaining = @,
                            !.state = IF c.remaining = 0 THEN "FULL_REQ_RECEIVED" ELSE "BODY_RECEIVING"]
    <3> DEFINE s == IF c.remaining = 0 THEN "FULL_REQ_RECEIVED" ELSE "BODY_RECEIVING"
    <3>1. s \in Beginning \cup {"FULL_REQ_RECEIVED"}
      BY <2>1
    <3> HIDE DEF s
    <3>2. /\ c'.state = s /\ c'.response = c.response /\ c'.wpos = c.wpos
          /\ c'.stop_err = c.stop_err /\ c'.discard = c.discard
      BY <2>4, ConnTyped, SMT DEF ConnType, s
    <3>3. UNCHANGED kinds
      BY <1>1 DEF AfterFirstCall, Continue, Break, Rest
    <3> QED BY <2>1, <3>1, <3>2, <3>3, BeginsStep
  <2> QED BY <1>1, <2>1, <2>3, <2>4 DEF AfterFirstCall, Continue, Break
<1>2. CASE AfterFinalCall
  <2>1. CASE c.response = NoResponse
    BY <1>0, <1>2, <2>1 DEF AfterFinalCall, Break, Rest
  <2>2. CASE c.response # NoResponse
    <3>1. /\ c.state = "FULL_REQ_RECEIVED" /\ c' = [c EXCEPT !.state = "START_REPLY"] /\ UNCHANGED kinds
      BY <1>2, <2>2 DEF AfterFinalCall, Goto, Continue, Rest
    <3>2. /\ c'.state = "START_REPLY" /\ c'.response = c.response /\ c'.wpos = c.wpos /\ c'.rq = c.rq
          /\ c'.stop_err = c.stop_err /\ c'.discard = c.discard
      BY <3>1, ConnTyped, SMT DEF ConnType
    <3>3. c.response.code # "none"
      BY <2>2 DEF ReplyRight, ReplyHeld
    <3>4. c'.wpos = Position(c')
      BY <3>1, <3>2, <3>3 DEF ReplyRight, BeforeBody, Position, Kind
    <3>5. ReplyHeld(c')
      BY <3>2, <3>3 DEF ReplyRight, ReplyHeld
    <3>6. BeforeBody(c') /\ InBody(c')
      BY <3>2, <3>4, SMT DEF BeforeBody, InBody, Beginning, Early, Uploading, Footers, Normal, Chunks
    <3> QED BY <3>1, <3>5, <3>6, RightSame DEF ReplyRight
  <2> QED BY <2>1, <2>2
<1>3. CASE AfterOtherCall
  BY <1>0, <1>3 DEF AfterOtherCall, Continue, Rest
<1> QED BY <1>1, <1>2, <1>3

LEMMA RightReply ==
  ASSUME ConnInv, ReplyRight(c),
         IdleStartReply \/ IdleNothing \/ IdleHeadersSent \/ IdleNormalBody
           \/ IdleChunkedBody \/ IdleChunkedSent \/ IdleReplySent \/ IdleClosed \/ IdleSuspended
  PROVE  ReplyRight(c)'
<1>0. ASSUME UNCHANGED kinds, c' = c PROVE ReplyRight(c)'
  BY <1>0, UntouchedStep DEF Untouched
<1>1. CASE IdleStartReply
  <2>1. CASE c' = build_header_response(c)
    <3>1. /\ c.state = "START_REPLY" /\ UNCHANGED kinds
      BY <1>1 DEF IdleStartReply, At, Continue, Break, Rest
    <3>2. /\ c.response \in ReplyType /\ c.response.code # "none" /\ (c.stop_err => c.discard)
          /\ (c.response.code = "102" => c.response.size = 0) /\ c.wpos = Position(c)
      BY <3>1 DEF ReplyRight, ReplyHeld, BeforeBody
    <3> QED BY <2>1, <3>1, <3>2, ConnTyped, RightHeader, RightSame
  <2> QED BY <1>1, <2>1, ClosesStep DEF IdleStartReply, Continue, Break, Rest
<1>2. CASE IdleNothing \/ IdleClosed \/ IdleSuspended
  BY <1>0, <1>2 DEF IdleNothing, IdleClosed, IdleSuspended, Break, Rest
<1>3. CASE IdleHeadersSent
  <2>0. c.state = "HEADERS_SENT" /\ UNCHANGED kinds /\ HeaderSentRight(c)
    BY <1>3, RightHeaderSent DEF IdleHeadersSent, At, Goto, Continue, Rest
  <2>1. CASE c' = [c EXCEPT !.state = "UPGRADE", !.suspended = TRUE, !.response = NoResponse]
    <3>1. /\ c'.state = "UPGRADE" /\ c'.response = NoResponse /\ c'.stop_err = c.stop_err
          /\ c'.discard = c.discard
      BY <2>1, ConnTyped, SMT DEF ConnType
    <3>2. ReplyHeld(c')
      BY <3>1, StopErr, RightFacts, SMT DEF ReplyHeld, Sending
    <3>3. BeforeBody(c') /\ InBody(c')
      BY <3>1, SMT DEF BeforeBody, InBody, Beginning, Early, Uploading, Footers, Normal, Chunks
    <3> QED BY <2>0, <3>2, <3>3, RightSame DEF ReplyRight
  <2>2. ASSUME NEW s, c' = [c EXCEPT !.state = s]
        PROVE  /\ c'.state = s /\ c'.response = c.response /\ c'.stop_err = c.stop_err
               /\ c'.discard = c.discard /\ c'.wpos = c.wpos /\ c'.out = c.out /\ c'.ready = c.ready
               /\ c'.wbuf = c.wbuf /\ c'.send_body = c.send_body /\ c'.chunked = c.chunked
    BY <2>2, ConnTyped, SMT DEF ConnType
  <2>3. CASE ~c.send_body /\ c' = [c EXCEPT !.state = "FULL_REPLY_SENT"]
    <3>1. WholeRight(c') /\ c'.state = "FULL_REPLY_SENT"
      BY <2>0, <2>2, <2>3 DEF WholeRight, HeaderSentRight
    <3> QED BY <2>0, <3>1, RightSent, RightSame
  <2>4. CASE c.send_body /\ c.chunked /\ c' = [c EXCEPT !.state = "CHUNKED_BODY_UNREADY"]
    <3>1. ChunkRight(c') /\ c'.state \in Chunks
      BY <2>0, <2>2, <2>4 DEF ChunkRight, HeaderSentRight, Chunks
    <3> QED BY <2>0, <3>1, RightChunks, RightSame
  <2>5. CASE c.send_body /\ ~c.chunked /\ c' = [c EXCEPT !.state = "NORMAL_BODY_UNREADY"]
    <3>0. c.wpos \in Int /\ (c.wpos \in 0..c.response.size => c.wpos + 0 <= c.response.size) /\ 0 >= 0
      <4>1. c.wpos \in Int /\ c.response.size \in Int
        BY ConnTyped, SMT DEF ConnType
      <4> QED BY <4>1
    <3>1. NormalRight(c') /\ c'.state \in Normal
      BY <2>0, <2>2, <2>5, <3>0 DEF NormalRight, HeaderSentRight, Normal
    <3> QED BY <2>0, <3>1, RightNormal, RightSame
  <2> QED BY <1>3, <2>0, <2>1, <2>3, <2>4, <2>5, ClosesStep DEF IdleHeadersSent, Goto, Continue
<1>4. CASE IdleNormalBody
  <2>0. c.state = "NORMAL_BODY_UNREADY" /\ c.state \in Normal /\ UNCHANGED kinds /\ NormalRight(c)
    BY <1>4, RightNormal DEF IdleNormalBody, At, Goto, Continue, Break, Rest, Normal
  <2>1. CASE c.response.size = 0 /\ c' = [c EXCEPT !.state = "FULL_REPLY_SENT"]
    <3>1. /\ c'.state = "FULL_REPLY_SENT" /\ c'.response = c.response /\ c'.stop_err = c.stop_err
          /\ c'.discard = c.discard /\ c'.wpos = c.wpos /\ c'.out = c.out
          /\ c'.wbuf = c.wbuf /\ c'.send_body = c.send_body
      BY <2>1, ConnTyped, SMT DEF ConnType
    <3>2. c.wpos = 0
      BY <2>0, <2>1 DEF NormalRight
    <3>3. WholeRight(c')
      BY <2>0, <2>1, <3>1, <3>2 DEF WholeRight, NormalRight
    <3> QED BY <2>0, <3>1, <3>3, RightSent, RightSame
  <2>2. ASSUME NEW t \in try_ready_normal_body(c),
               c' = IF t[1] THEN [t[2] EXCEPT !.state = "NORMAL_BODY_READY"] ELSE t[2]
        PROVE  ReplyRight(c)'
    <3>1. ReplyRight(t[2]) /\ t[2] \in ConnType /\ t[1] \in BOOLEAN /\ (t[1] => t[2].state = c.state)
      BY <2>0, ConnTyped, RightTryNormal
    <3>2. CASE t[1]
      <4> DEFINE k == t[2]
      <4>1. NormalRight(k) /\ k \in ConnType
        BY <2>0, <3>1, <3>2, RightNormal
      <4>2. c' = [k EXCEPT !.state = "NORMAL_BODY_READY"]
        BY <2>2, <3>2
      <4> HIDE DEF k
      <4>3. /\ c'.state = "NORMAL_BODY_READY" /\ c'.response = k.response /\ c'.stop_err = k.stop_err
            /\ c'.discard = k.discard /\ c'.wpos = k.wpos /\ c'.out = k.out /\ c'.ready = k.ready
            /\ c'.wbuf = k.wbuf /\ c'.send_body = k.send_body /\ c'.chunked = k.chunked
        BY <4>1, <4>2, SMT DEF ConnType
      <4>4. NormalRight(c') /\ c'.state \in Normal
        BY <4>1, <4>3 DEF NormalRight, Normal
      <4> QED BY <2>0, <4>4, RightNormal, RightSame
    <3>3. CASE ~t[1]
      BY <2>0, <2>2, <3>1, <3>3, RightSame
    <3> QED BY <3>1, <3>2, <3>3
  <2> QED BY <1>4, <2>1, <2>2 DEF IdleNormalBody, Goto, Continue, Break
<1>5. CASE IdleChunkedBody
  <2>0. c.state = "CHUNKED_BODY_UNREADY" /\ c.state \in Chunks /\ UNCHANGED kinds /\ ChunkRight(c)
    BY <1>5, RightChunks DEF IdleChunkedBody, At, Goto, Continue, Break, Rest, Chunks
  <2>1. CASE c.response.size \in {0, c.wpos} /\ c' = [c EXCEPT !.state = "CHUNKED_BODY_SENT"]
    <3>1. /\ c'.state = "CHUNKED_BODY_SENT" /\ c'.response = c.response /\ c'.stop_err = c.stop_err
          /\ c'.discard = c.discard /\ c'.wpos = c.wpos /\ c'.out = c.out
          /\ c'.wbuf = c.wbuf /\ c'.send_body = c.send_body /\ c'.chunked = c.chunked
      BY <2>1, ConnTyped, SMT DEF ConnType
    <3>2. c.response.size = c.wpos
      <4>1. c.wpos \in 0..c.response.size /\ c.wpos \in Int
        BY <2>0, ConnTyped DEF ChunkRight, ConnType
      <4> QED BY <2>1, <4>1, SMT
    <3>3. ChunkRight(c') /\ c'.state \in Chunks
      BY <2>0, <3>1, <3>2 DEF ChunkRight, Chunks
    <3> QED BY <2>0, <3>3, RightChunks, RightSame
  <2>2. ASSUME c' \in try_ready_chunked_body(c) PROVE ReplyRight(c)'
    BY <2>0, <2>2, ConnTyped, RightTryChunked, RightSame
  <2>3. ASSUME c' \in Suspendings(c) PROVE ReplyRight(c)'
    BY <2>0, <2>3, ConnTyped, RightSuspendings, RightSame
  <2> QED BY <1>5, <2>1, <2>2, <2>3 DEF IdleChunkedBody, Goto, Continue, Break
<1>6. CASE IdleChunkedSent
  <2>0. c.state = "CHUNKED_BODY_SENT" /\ UNCHANGED kinds /\ ChunkRight(c)
    BY <1>6, RightChunks DEF IdleChunkedSent, At, Continue, Rest, Chunks
  <2>1. CASE c' = [c EXCEPT !.wbuf = TRUE, !.state = "FOOTERS_SENDING"]
    <3>1. /\ c'.state = "FOOTERS_SENDING" /\ c'.response = c.response /\ c'.stop_err = c.stop_err
          /\ c'.discard = c.discard /\ c'.wpos = c.wpos /\ c'.out = c.out
          /\ c'.send_body = c.send_body /\ c'.chunked = c.chunked
      BY <2>1, ConnTyped, SMT DEF ConnType
    <3>2. ChunkRight(c') /\ c'.state \in Chunks
      BY <2>0, <3>1 DEF ChunkRight, Chunks
    <3> QED BY <2>0, <3>2, RightChunks, RightSame
  <2> QED BY <1>6, <2>0, <2>1, ClosesStep DEF IdleChunkedSent, Continue
<1>7. CASE IdleReplySent
  <2>0. c.state = "FULL_REPLY_SENT" /\ UNCHANGED kinds /\ WholeRight(c)
    BY <1>7, RightSent DEF IdleReplySent, At, Continue, Rest
  <2>1. CASE c.response.code = "102"
    <3>1. c' = [c EXCEPT !.state = "HEADERS_PROCESSED", !.response = NoResponse]
      BY <1>7, <2>1 DEF IdleReplySent, Continue
    <3>2. /\ c'.state = "HEADERS_PROCESSED" /\ c'.response = NoResponse /\ c'.wpos = c.wpos
          /\ c'.stop_err = c.stop_err /\ c'.discard = c.discard
      BY <3>1, ConnTyped, SMT DEF ConnType
    <3>3. c.wpos = 0
      BY <2>0, <2>1 DEF WholeRight
    <3> QED BY <2>0, <3>2, <3>3, StopErr, RightBegins, RightSame DEF Beginning
  <2>2. CASE c.response.code # "102" /\ c' = connection_reset(c) /\ ~c.discard
    <3>1. c'.state = "INIT" /\ c'.response = NoResponse /\ c'.wpos = 0 /\ c'.stop_err = c.stop_err
          /\ c'.discard = c.discard
      BY <2>2, SMT DEF connection_reset, NewConnection
    <3> QED BY <2>0, <3>1, StopErr, RightBegins, RightSame DEF Beginning, Early
  <2>3. CASE c' = MHD_connection_close_(c)
    BY <2>0, <2>3, ClosesStep
  <2> QED BY <1>7, <2>1, <2>2, <2>3 DEF IdleReplySent, Continue
<1> QED BY <1>1, <1>2, <1>3, <1>4, <1>5, <1>6, <1>7

LEMMA RightApp ==
  ASSUME ConnInv, ReplyRight(c), InterimEmpty, AppSteps
  PROVE  ReplyRight(c)'
<1>1. CASE AppQueues
  BY <1>1, RightQueues DEF AppQueues
<1>2. CASE AppSuspends
  <2>1. Untouched(c, c')
    BY <1>2, ConnTyped, SMT DEF AppSuspends, ConnType, Untouched
  <2> QED BY <1>2, <2>1, UntouchedStep DEF AppSuspends
<1>3. CASE AppReturns
  BY <1>3, UntouchedStep DEF AppReturns, Untouched
<1>4. CASE AppFails
  BY <1>4, ClosesStep DEF AppFails, Continue, Rest
<1>5. ASSUME NEW p \in 0..MaxUpload, AppTakes(p) PROVE ReplyRight(c)'
  <2>1. c.state = "BODY_RECEIVING" /\ c.state \in Beginning /\ "BODY_RECEIVED" \in Beginning
    BY <1>5, SMT DEF AppTakes, ConnInv, Control, InCalls, Beginning, Uploading, Footers
  <2> DEFINE r == IF Kind(c).chunked THEN c.remaining ELSE c.remaining - p
             k == [c EXCEPT !.rbuf = Drop(@, p), !.got = @ + p, !.some = p > 0, !.remaining = r]
             l == [k EXCEPT !.state = "BODY_RECEIVED"]
  <2>2. BodyTaken(p)
    BY <1>5 DEF AppTakes
  <2>3. UNCHANGED kinds /\ (c' = k \/ c' = l)
    BY <2>2 DEF BodyTaken, BodyDone, Continue, Break, Rest
  <2>4. /\ k.state = c.state /\ k.response = c.response /\ k.wpos = c.wpos
        /\ k.stop_err = c.stop_err /\ k.discard = c.discard
        /\ l.state = "BODY_RECEIVED" /\ l.response = c.response /\ l.wpos = c.wpos
        /\ l.stop_err = c.stop_err /\ l.discard = c.discard
    <3> HIDE DEF r
    <3> QED BY ConnTyped, SMT DEF ConnType
  <2> HIDE DEF k, l
  <2> QED BY <2>1, <2>3, <2>4, BeginsStep
<1> QED BY <1>1, <1>2, <1>3, <1>4, <1>5 DEF AppSteps

LEMMA RightSetInfo ==
  ASSUME NEW k \in ConnType, ReplyRight(k)
  PROVE  ReplyRight(SetInfo(k)) /\ ReplyRight([k EXCEPT !.info = "PROCESS", !.stale = FALSE])
<1>1. ASSUME NEW i PROVE ReplyRight([k EXCEPT !.info = i, !.stale = FALSE])
  <2> DEFINE e == [k EXCEPT !.info = i, !.stale = FALSE]
  <2>1. /\ e.state = k.state /\ e.response = k.response /\ e.stop_err = k.stop_err
        /\ e.discard = k.discard /\ e.rq = k.rq /\ e.wpos = k.wpos /\ e.out = k.out
        /\ e.ready = k.ready /\ e.wbuf = k.wbuf /\ e.send_body = k.send_body /\ e.chunked = k.chunked
    BY SMT DEF ConnType
  <2> HIDE DEF e
  <2>2. ReplyRight(e)
    BY <2>1, RightUnseen
  <2> QED BY <2>2 DEF e
<1> QED BY <1>1 DEF SetInfo

LEMMA RightEnd ==
  ASSUME ConnInv, ReplyRight(c), Events, IdleTimeout \/ IdleEnd
  PROVE  ReplyRight(c)'
<1>1. CASE IdleTimeout
  BY <1>1, ClosesStep DEF IdleTimeout, Rest
<1>2. CASE IdleEnd
  <2>1. /\ UNCHANGED kinds
        /\ \/ c' = c \/ c' = SetInfo(c) \/ c' = [c EXCEPT !.info = "PROCESS", !.stale = FALSE]
           \/ /\ EventInfo(c) \in Reads /\ ~c.suspended /\ pc = "post"
              /\ \E e \in handle_recv_no_space(c) : c' = SetInfo(e)
    BY <1>2 DEF IdleEnd, MHD_connection_update_event_loop_info, Rest
  <2>2. CASE c' = c
    BY <2>1, <2>2, UntouchedStep DEF Untouched
  <2>3. CASE c' = SetInfo(c) \/ c' = [c EXCEPT !.info = "PROCESS", !.stale = FALSE]
    BY <2>1, <2>3, ConnTyped, RightSetInfo, RightSame
  <2>4. ASSUME EventInfo(c) \in Reads, ~c.suspended, pc = "post", NEW e \in handle_recv_no_space(c),
               c' = SetInfo(e)
        PROVE  ReplyRight(c)'
    <3>1. c.state \in Beginning
      <4>1. c.state \notin Milestones \cup {"UPGRADE"} /\ c.state \in States
        BY <2>4, ConnTyped DEF Events, LeftRight, ConnType
      <4>2. c.state \in {"INIT", "REQ_LINE_RECEIVING", "REQ_HEADERS_RECEIVING", "FOOTERS_RECEIVING",
                         "BODY_RECEIVING"}
        BY <2>4, <4>1, SMT DEF EventInfo, Reads, Writable, Milestones, States, Receiving, Sending
      <4> QED BY <4>2, SMT DEF Beginning, Early, Uploading, Footers
    <3>2. c.wpos = 0 /\ (c.stop_err => c.discard)
      BY <3>1 DEF ReplyRight, ReplyHeld, BeforeBody
    <3>3. ReplyRight(e)
      BY <2>4, <3>2, ConnTyped, RightError, RightClosing DEF handle_recv_no_space
    <3>4. e \in ConnType
      BY ConnTyped, ClosingTyped, ErrorTyped DEF handle_recv_no_space, Failed
    <3> QED BY <2>1, <2>4, <3>3, <3>4, RightSetInfo, RightSame
  <2> QED BY <2>1, <2>2, <2>3, <2>4
<1> QED BY <1>1, <1>2

-----------------------------------------------------------------------------
(* The events: what a step may do to the connection on its way through *)
(* handle_idle(). *)

\* The step neither resumes the connection nor adds to its buffer.
Mild(k, e) ==
  /\ e.resuming = k.resuming /\ (k.suspended => e.suspended)
  /\ Len(e.rbuf) <= Len(k.rbuf)
  /\ e.state = "UPGRADE" => k.state = "UPGRADE"

LEMMA MildSame ==
  ASSUME NEW k \in ConnType, NEW e, e.resuming = k.resuming, e.suspended = k.suspended \/ e.suspended,
         e.rbuf = k.rbuf \/ e.rbuf = <<>>, e.state # "UPGRADE"
  PROVE  Mild(k, e)
<1>1. Len(k.rbuf) \in Nat
  BY LenProperties DEF ConnType
<1>2. Len(e.rbuf) <= Len(k.rbuf)
  <2>1. CASE e.rbuf = k.rbuf
    BY <1>1, <2>1
  <2>2. CASE e.rbuf = <<>>
    BY <1>1, <2>2, EmptySeq
  <2> QED BY <2>1, <2>2
<1> QED BY <1>2 DEF Mild

LEMMA MildTrans ==
  ASSUME NEW k \in ConnType, NEW e \in ConnType, NEW d \in ConnType, Mild(k, e), Mild(e, d)
  PROVE  Mild(k, d)
<1>1. Len(k.rbuf) \in Nat /\ Len(e.rbuf) \in Nat /\ Len(d.rbuf) \in Nat
  BY LenProperties DEF ConnType
<1> QED BY <1>1 DEF Mild

LEMMA MildClosing ==
  ASSUME NEW k \in ConnType
  PROVE  Mild(k, MHD_connection_close_(k)) /\ Mild(k, connection_close_error(k))
<1>1. /\ MHD_connection_close_(k).resuming = k.resuming /\ MHD_connection_close_(k).suspended = k.suspended
      /\ MHD_connection_close_(k).rbuf = k.rbuf /\ MHD_connection_close_(k).state = "CLOSED"
  BY SMT DEF MHD_connection_close_, ConnType
<1>2. /\ connection_close_error(k).resuming = k.resuming /\ connection_close_error(k).suspended = k.suspended
      /\ connection_close_error(k).rbuf = k.rbuf /\ connection_close_error(k).state = "CLOSED"
  BY SMT DEF connection_close_error, MHD_connection_close_, ConnType
<1> QED BY <1>1, <1>2, MildSame

LEMMA MildHeader ==
  ASSUME NEW k \in ConnType
  PROVE  Mild(k, build_header_response(k))
<1> DEFINE b == BodyNeeded(k)
           u == k.response.code = "200" /\ k.response.size = MHD_SIZE_UNKNOWN
           f == /\ k.response.code = "200" /\ (u \/ k.response.enforced)
                /\ ~Kind(k).old /\ ~k.response.strict
           a == IF u /\ ~f THEN "CLOSE" ELSE keepalive_possible(k)
           h == build_header_response(k)
<1>1. h = [k EXCEPT !.send_body = b, !.chunked = f, !.keepalive = a, !.wbuf = TRUE, !.out = 0,
                    !.ready = 0, !.state = "HEADERS_SENDING"]
  BY DEF build_header_response, setup_reply_properties
<1> HIDE DEF b, f, a, h
<1>2. h.resuming = k.resuming /\ h.suspended = k.suspended /\ h.rbuf = k.rbuf /\ h.state = "HEADERS_SENDING"
  BY <1>1, SMT DEF ConnType
<1>3. Mild(k, h)
  BY <1>2, MildSame
<1> QED BY <1>3 DEF h

LEMMA MildError ==
  ASSUME NEW k \in ConnType, NEW e \in transmit_error_response(k)
  PROVE  Mild(k, e) /\ e.state # "UPGRADE"
<1> DEFINE f == [k EXCEPT !.stop_err = TRUE, !.discard = TRUE, !.rbuf = <<>>,
                          !.state = "FULL_REQ_RECEIVED", !.response = NoResponse]
<1> DEFINE q == MHD_queue_response(f, ErrorResponse)
<1> DEFINE g == [q EXCEPT !.keepalive = "CLOSE"]
<1>1. "FULL_REQ_RECEIVED" \in States /\ "CLOSED" \in States
  BY DEF States, Sending
<1>2. f \in ConnType
  BY <1>1, Responses, EmptySeq, Zenon DEF ConnType
<1>3. /\ f.state = "FULL_REQ_RECEIVED" /\ f.resuming = k.resuming /\ f.suspended = k.suspended
      /\ f.rbuf = <<>>
  BY SMT DEF ConnType
<1>4. Mild(k, f)
  BY <1>3, MildSame
<1>5. Mild(k, [f EXCEPT !.state = "CLOSED"]) /\ [f EXCEPT !.state = "CLOSED"].state = "CLOSED"
  <2>1. /\ [f EXCEPT !.state = "CLOSED"].resuming = k.resuming
        /\ [f EXCEPT !.state = "CLOSED"].suspended = k.suspended
        /\ [f EXCEPT !.state = "CLOSED"].rbuf = <<>> /\ [f EXCEPT !.state = "CLOSED"].state = "CLOSED"
    BY SMT DEF ConnType
  <2> QED BY <2>1, MildSame, Zenon
<1> HIDE DEF f
<1>6. Mild(k, build_header_response(g)) /\ build_header_response(g).state = "HEADERS_SENDING"
  <2> DEFINE w == IF Kind(f).head \/ ErrorResponse.code # "200" THEN ErrorResponse.size ELSE f.wpos
  <2>1. w \in Int
    BY <1>2, SMT DEF ConnType, ErrorResponse
  <2>2. q = [f EXCEPT !.response = ErrorResponse, !.wpos = w]
    BY <1>3 DEF MHD_queue_response
  <2> HIDE DEF w
  <2>3. q \in ConnType
    BY <1>2, <2>1, <2>2, Responses, ZenonT(60) DEF ConnType
  <2>a. q.state = f.state /\ q.resuming = f.resuming /\ q.suspended = f.suspended /\ q.rbuf = f.rbuf
    BY <1>2, <2>2, SMT DEF ConnType
  <2> HIDE DEF q
  <2>4. g \in ConnType
    BY <2>3, Zenon DEF ConnType
  <2>5. g.state = f.state /\ g.resuming = f.resuming /\ g.suspended = f.suspended /\ g.rbuf = f.rbuf
    BY <2>3, <2>a, SMT DEF ConnType
  <2> HIDE DEF g
  <2>6. Mild(k, g)
    BY <1>3, <2>5, MildSame
  <2>7. build_header_response(g) \in ConnType /\ build_header_response(g).state = "HEADERS_SENDING"
    BY <2>4, HeaderTyped
  <2> QED BY <2>4, <2>6, <2>7, MildHeader, MildTrans
<1>7. /\ Mild(k, connection_close_error(f)) /\ Mild(k, connection_close_error(k))
      /\ connection_close_error(f).state = "CLOSED" /\ connection_close_error(k).state = "CLOSED"
  BY <1>2, <1>4, MildClosing, MildTrans, ClosingTyped DEF Failed, Closed
<1> QED BY <1>5, <1>6, <1>7 DEF transmit_error_response, f, q, g

LEMMA MildQueue ==
  ASSUME NEW k \in ConnType, NEW r, k.state # "UPGRADE"
  PROVE  LET e == MHD_queue_response(k, r)
         IN Mild(k, e) /\ e.suspended = k.suspended /\ e.rbuf = k.rbuf /\ e.stale = k.stale
            /\ e.state = IF k.state = "HEADERS_PROCESSED" THEN "START_REPLY" ELSE k.state
<1> DEFINE w == IF Kind(k).head \/ r.code # "200" THEN r.size ELSE k.wpos
           q == [k EXCEPT !.response = r, !.wpos = w]
           e == MHD_queue_response(k, r)
<1>1. e = IF k.state = "HEADERS_PROCESSED"
          THEN [q EXCEPT !.discard = TRUE, !.state = "START_REPLY", !.remaining = 0] ELSE q
  BY DEF MHD_queue_response
<1> HIDE DEF w, e
<1>2. /\ e.resuming = k.resuming /\ e.suspended = k.suspended /\ e.rbuf = k.rbuf /\ e.stale = k.stale
      /\ e.state = IF k.state = "HEADERS_PROCESSED" THEN "START_REPLY" ELSE k.state
  BY <1>1, SMT DEF ConnType
<1>3. e.state # "UPGRADE"
  BY <1>2
<1>4. Mild(k, e)
  BY <1>2, <1>3, MildSame
<1> QED BY <1>2, <1>4 DEF e

LEMMA MildSuspendings ==
  ASSUME NEW k \in ConnType, NEW s \in Suspendings(k), k.state # "UPGRADE"
  PROVE  Mild(k, s) /\ s \in ConnType /\ s.state = k.state
<1>1. s.resuming = k.resuming /\ (s.suspended = k.suspended \/ s.suspended) /\ s.rbuf = k.rbuf
  BY SMT DEF Suspendings, ConnType
<1>2. s \in ConnType /\ s.state = k.state
  BY SuspendingsTyped DEF Small, SameRequest
<1> QED BY <1>1, <1>2, MildSame

LEMMA MildEnded ==
  ASSUME NEW k \in ConnType, k.state # "UPGRADE"
  PROVE  Mild(k, Ended(k)) /\ Ended(k) \in ConnType
<1>1. Ended(k).resuming = k.resuming /\ Ended(k).suspended = k.suspended /\ Ended(k).rbuf = k.rbuf
  BY SMT DEF Ended, ConnType
<1>2. Ended(k) \in ConnType /\ Ended(k).state = k.state
  BY EndedTyped DEF SameRequest
<1> QED BY <1>1, <1>2, MildSame

LEMMA MildEndedCloses ==
  ASSUME NEW k \in ConnType, k.state # "UPGRADE"
  PROVE  Mild(k, MHD_connection_close_(Ended(k))) /\ Mild(k, connection_close_error(Ended(k)))
<1>1. Mild(k, Ended(k)) /\ Ended(k) \in ConnType
  BY MildEnded
<1>2. Mild(Ended(k), MHD_connection_close_(Ended(k))) /\ Mild(Ended(k), connection_close_error(Ended(k)))
  BY <1>1, MildClosing
<1>3. MHD_connection_close_(Ended(k)) \in ConnType /\ connection_close_error(Ended(k)) \in ConnType
  BY <1>1, ClosingTyped DEF Failed
<1> QED BY <1>1, <1>2, <1>3, MildTrans

LEMMA MildTryNormal ==
  ASSUME NEW k \in ConnType, NEW t \in try_ready_normal_body(k), k.state # "UPGRADE"
  PROVE  Mild(k, t[2])
<1>0. ASSUME NEW l \in ConnType, NEW s \in Suspendings(l), Mild(k, l), l.state # "UPGRADE"
      PROVE  Mild(k, s)
  BY <1>0, MildSuspendings, MildTrans
<1>1. CASE t = <<TRUE, k>>
  BY <1>1, MildSame
<1>2. CASE \E n \in 1..Min(MaxRead, Left(k)) : \E s \in Suspendings([k EXCEPT !.ready = n]) : t = <<TRUE, s>>
  <2>1. PICK n \in 1..Min(MaxRead, Left(k)) : \E s \in Suspendings([k EXCEPT !.ready = n]) : t = <<TRUE, s>>
    BY <1>2
  <2>2. n \in Int
    BY LeftTyped
  <2> DEFINE l == [k EXCEPT !.ready = n]
  <2>3. l \in ConnType
    BY <2>2, Zenon DEF ConnType
  <2>4. l.resuming = k.resuming /\ l.suspended = k.suspended /\ l.rbuf = k.rbuf /\ l.state = k.state
    BY SMT DEF ConnType
  <2> HIDE DEF l
  <2>5. PICK s \in Suspendings(l) : t = <<TRUE, s>>
    BY <2>1 DEF l
  <2>6. Mild(k, s)
    BY <1>0, <2>3, <2>4, MildSame
  <2> QED BY <2>5, <2>6
<1>3. CASE \E s \in Suspendings([k EXCEPT !.state = "NORMAL_BODY_UNREADY"]) : t = <<FALSE, s>>
  <2> DEFINE l == [k EXCEPT !.state = "NORMAL_BODY_UNREADY"]
  <2>1. "NORMAL_BODY_UNREADY" \in States
    BY DEF States, Sending
  <2>2. l \in ConnType
    BY <2>1, Zenon DEF ConnType
  <2>3. l.resuming = k.resuming /\ l.suspended = k.suspended /\ l.rbuf = k.rbuf /\ l.state = "NORMAL_BODY_UNREADY"
    BY SMT DEF ConnType
  <2> HIDE DEF l
  <2>4. PICK s \in Suspendings(l) : t = <<FALSE, s>>
    BY <1>3 DEF l
  <2>5. Mild(k, s)
    BY <1>0, <2>2, <2>3, MildSame
  <2> QED BY <2>4, <2>5
<1>4. ASSUME NEW e, e = MHD_connection_close_(Ended(k)) \/ e = connection_close_error(Ended(k)),
             t = <<FALSE, e>>
      PROVE  Mild(k, t[2])
  BY <1>4, MildEndedCloses
<1>5. CASE t = <<FALSE, connection_close_error(k)>>
  BY <1>5, MildClosing
<1> QED BY <1>1, <1>2, <1>3, <1>4, <1>5, NormalOutcomes

LEMMA MildTryChunked ==
  ASSUME NEW k \in ConnType, NEW e \in try_ready_chunked_body(k), k.state # "UPGRADE"
  PROVE  Mild(k, e)
<1>0. "CHUNKED_BODY_READY" \in States
  BY DEF States, Sending
<1>1. CASE \E n \in 1..Min(MaxRead, Left(k)) :
             e \in Suspendings([k EXCEPT !.wpos = @ + n, !.wbuf = TRUE, !.state = "CHUNKED_BODY_READY"])
  <2>1. PICK n \in 1..Min(MaxRead, Left(k)) :
             e \in Suspendings([k EXCEPT !.wpos = @ + n, !.wbuf = TRUE, !.state = "CHUNKED_BODY_READY"])
    BY <1>1
  <2> DEFINE w == k.wpos + n
             l == [k EXCEPT !.wpos = w, !.wbuf = TRUE, !.state = "CHUNKED_BODY_READY"]
  <2>2. w \in Int
    BY LeftTyped, SMT DEF ConnType
  <2>3. e \in Suspendings(l)
    BY <2>1
  <2> HIDE DEF w
  <2>4. l \in ConnType
    BY <1>0, <2>2, Zenon DEF ConnType
  <2>5. l.resuming = k.resuming /\ l.suspended = k.suspended /\ l.rbuf = k.rbuf /\ l.state = "CHUNKED_BODY_READY"
    BY SMT DEF ConnType
  <2> HIDE DEF l
  <2>6. Mild(k, l) /\ Mild(l, e) /\ e \in ConnType
    BY <2>3, <2>4, <2>5, MildSame, MildSuspendings
  <2> QED BY <2>4, <2>6, MildTrans
<1>2. CASE e = [Ended(k) EXCEPT !.state = "CHUNKED_BODY_SENT"]
  <2>1. /\ e.resuming = k.resuming /\ e.suspended = k.suspended /\ e.rbuf = k.rbuf
        /\ e.state = "CHUNKED_BODY_SENT"
    BY <1>2, SMT DEF Ended, ConnType
  <2> QED BY <2>1, MildSame
<1>3. CASE e = connection_close_error(Ended(k))
  BY <1>3, MildEndedCloses
<1> QED BY <1>1, <1>2, <1>3, ChunkedOutcomes

LEMMA MildWritten ==
  ASSUME NEW k \in ConnType, NEW e \in Written(k), k.state # "UPGRADE"
  PROVE  Mild(k, e)
<1>0. CASE e = k
  BY <1>0, MildSame
<1>1. CASE k.state = "CONTINUE_SENDING" /\ e = [k EXCEPT !.cont = TRUE]
  <2>1. e.resuming = k.resuming /\ e.suspended = k.suspended /\ e.rbuf = k.rbuf /\ e.state = k.state
    BY <1>1, SMT DEF ConnType
  <2> QED BY <2>1, MildSame
<1>2. CASE k.state = "HEADERS_SENDING" /\ e # k
  <2>1. PICK s : e = [k EXCEPT !.state = "HEADERS_SENT", !.wbuf = FALSE,
                               !.wpos = IF s > 0 THEN s ELSE @, !.out = s]
    BY <1>2 DEF Written, WriteHeader
  <2> DEFINE w == IF s > 0 THEN s ELSE k.wpos
  <2>2. e = [k EXCEPT !.state = "HEADERS_SENT", !.wbuf = FALSE, !.wpos = w, !.out = s]
    BY <2>1
  <2> HIDE DEF w
  <2>3. e.resuming = k.resuming /\ e.suspended = k.suspended /\ e.rbuf = k.rbuf /\ e.state = "HEADERS_SENT"
    BY <2>2, SMT DEF ConnType
  <2> QED BY <2>3, MildSame
<1>3. CASE k.state = "NORMAL_BODY_READY"
  <2>a. ASSUME NEW l \in ConnType, l.state # "UPGRADE" PROVE Mild(l, Finished(l))
    <3>1. /\ Finished(l).resuming = l.resuming /\ Finished(l).suspended = l.suspended
          /\ Finished(l).rbuf = l.rbuf /\ Finished(l).state \in {l.state, "FULL_REPLY_SENT"}
      BY SMT DEF Finished, ConnType
    <3> QED BY <2>a, <3>1, MildSame
  <2>0. e \in WriteNormal(k)
    BY <1>3 DEF Written
  <2>1. CASE k.wpos < k.response.size
    <3>1. PICK t \in try_ready_normal_body(k) : e \in IF t[1] THEN SendNormal(t[2]) ELSE {t[2]}
      BY <2>0, <2>1 DEF WriteNormal
    <3>2. Mild(k, t[2]) /\ t[2] \in ConnType
      BY MildTryNormal, NormalBodyTyped DEF Failed, SameRequest
    <3> DEFINE l == t[2]
    <3>3. l.state # "UPGRADE"
      BY <1>3, <3>2 DEF Mild
    <3>4. CASE e \in SendNormal(l)
      <4>1. PICK s : e = Finished([l EXCEPT !.wpos = @ + s, !.out = @ + s,
                                            !.ready = IF l.response.reader THEN @ - s ELSE @])
        BY <3>4 DEF SendNormal
      <4> DEFINE w == l.wpos + s
                 o == l.out + s
                 r == IF l.response.reader THEN l.ready - s ELSE l.ready
                 m == [l EXCEPT !.wpos = w, !.out = o, !.ready = r]
      <4>2. e = Finished(m)
        BY <4>1
      <4>3. m.resuming = l.resuming /\ m.suspended = l.suspended /\ m.rbuf = l.rbuf /\ m.state = l.state
        <5> HIDE DEF w, o, r
        <5> QED BY <3>2, SMT DEF ConnType
      <4>4. /\ Finished(m).resuming = m.resuming /\ Finished(m).suspended = m.suspended
            /\ Finished(m).rbuf = m.rbuf /\ Finished(m).state \in {m.state, "FULL_REPLY_SENT"}
        <5> HIDE DEF w, o, r
        <5> QED BY <3>2, SMT DEF Finished, ConnType
      <4> HIDE DEF m
      <4>5. Mild(l, e)
        BY <3>2, <3>3, <4>2, <4>3, <4>4, MildSame
      <4>6. e.resuming = k.resuming /\ (k.suspended => e.suspended) /\ e.state # "UPGRADE"
        BY <3>2, <3>3, <4>2, <4>3, <4>4 DEF Mild
      <4>7. Len(e.rbuf) <= Len(k.rbuf)
        BY <3>2, <4>2, <4>3, <4>4 DEF Mild
      <4> QED BY <4>6, <4>7 DEF Mild
    <3> QED BY <3>1, <3>2, <3>4
  <2>2. CASE ~(k.wpos < k.response.size)
    BY <2>a, <2>0, <2>2 DEF WriteNormal
  <2> QED BY <2>1, <2>2
<1>4. CASE k.state = "CHUNKED_BODY_READY" /\ e # k
  <2> DEFINE st == IF k.response.size = k.wpos THEN "CHUNKED_BODY_SENT" ELSE "CHUNKED_BODY_UNREADY"
  <2>1. e = [k EXCEPT !.wbuf = FALSE, !.out = k.wpos, !.state = st]
    BY <1>4 DEF Written, WriteChunk
  <2>2. st \in {"CHUNKED_BODY_SENT", "CHUNKED_BODY_UNREADY"}
    OBVIOUS
  <2> HIDE DEF st
  <2>3. e.resuming = k.resuming /\ e.suspended = k.suspended /\ e.rbuf = k.rbuf /\ e.state = st
    BY <2>1, SMT DEF ConnType
  <2> QED BY <2>2, <2>3, MildSame
<1>5. CASE k.state = "FOOTERS_SENDING" /\ e # k
  <2>1. e = [k EXCEPT !.wbuf = FALSE, !.state = "FULL_REPLY_SENT"]
    BY <1>5 DEF Written
  <2>2. e.resuming = k.resuming /\ e.suspended = k.suspended /\ e.rbuf = k.rbuf /\ e.state = "FULL_REPLY_SENT"
    BY <2>1, SMT DEF ConnType
  <2> QED BY <2>2, MildSame
<1> QED BY <1>0, <1>1, <1>2, <1>3, <1>4, <1>5 DEF Written

-----------------------------------------------------------------------------
(* The steps, and the events. *)

Inside == {"idle", "handler", "called", "body", "upload", "gone", "read_err"}

LEMMA MildEvents ==
  ASSUME ConnInv, Events, Mild(c, c'), c' \in ConnType,
         pc' \in Inside \/ (pc' = "post" /\ (c'.suspended \/ LeftRight(c')))
  PROVE  Events'
<1>1. Len(c.rbuf) \in Nat /\ Len(c'.rbuf) \in Nat /\ BufSize \in Nat
  BY ConnTyped, LenProperties, BoundAssumption DEF ConnType
<1>2. Len(c'.rbuf) <= BufSize
  BY <1>1 DEF Events, Mild
<1>3. (c'.resuming => c'.suspended) /\ (c'.state = "UPGRADE" => c'.suspended /\ ~c'.resuming)
  BY DEF Events, Mild
<1>4. pc' \notin Waiting /\ pc' # "resumed" /\ pc' # "read" /\ pc' # "write"
  BY DEF Inside, Waiting
<1>5. pc' = "post" => c'.suspended \/ LeftRight(c')
  BY DEF Inside
<1>6. LeftRight(c)' <=> LeftRight(c')
  BY DEF LeftRight
<1> QED BY <1>2, <1>3, <1>4, <1>5, <1>6 DEF Events

\* Where the connection is when it is read or written, and where its events
\* are those of handle_idle().
LEMMA EventStates ==
  ASSUME NEW k \in ConnType, EventRight(k)
  PROVE  /\ k.info \in Reads => k.state \notin (Milestones \ {"START_REPLY"}) \cup Writable
         /\ k.info = "WRITE" => k.state \in Writable
<1>1. k.state \in States /\ k.state \notin Milestones \cup {"UPGRADE"}
  BY DEF EventRight, ConnType
<1>2. k.info \in Reads => k.state \notin Writable
  BY DEF EventRight, Reads
<1>3. k.info = "WRITE" => k.state \in Writable
  BY <1>1, SMT DEF EventRight, States, Receiving, Sending, Milestones, Writable, Reads, Processes
<1> QED BY <1>1, <1>2, <1>3

LEMMA EventsResumes == ConnInv /\ Events /\ OtherThreadResumes => Events'
<1> SUFFICES ASSUME ConnInv, Events, OtherThreadResumes PROVE Events'
  OBVIOUS
<1>1. c.suspended /\ c.state # "UPGRADE" /\ c' = [c EXCEPT !.resuming = TRUE] /\ UNCHANGED pc
  BY DEF OtherThreadResumes
<1>2. /\ c'.resuming /\ c'.suspended /\ c'.state = c.state /\ c'.rbuf = c.rbuf /\ c'.stale = c.stale
  BY <1>1, ConnTyped, SMT DEF ConnType
<1> QED BY <1>1, <1>2 DEF Events

LEMMA EventsResume == ConnInv /\ Events /\ Resume => Events'
<1> SUFFICES ASSUME ConnInv, Events, Resume PROVE Events'
  OBVIOUS
<1>1. /\ c.resuming /\ c' = [c EXCEPT !.suspended = FALSE, !.resuming = FALSE, !.stale = TRUE]
      /\ pc' = "resumed"
  BY DEF Resume
<1>2. /\ ~c'.resuming /\ c'.state = c.state /\ c'.rbuf = c.rbuf /\ c'.stale
  BY <1>1, ConnTyped, SMT DEF ConnType
<1> QED BY <1>1, <1>2 DEF Events, Waiting

LEMMA EventsQueues == ConnInv /\ Events /\ (OtherThreadQueues \/ AppQueues) => Events'
<1> SUFFICES ASSUME ConnInv, Events, OtherThreadQueues \/ AppQueues PROVE Events'
  OBVIOUS
<1>1. PICK r \in Replies : Queueable(c, r) /\ c' = MHD_queue_response(c, r)
  BY DEF OtherThreadQueues, AppQueues
<1>2. c.state \in {"HEADERS_PROCESSED", "FULL_REQ_RECEIVED"}
  BY <1>1 DEF Queueable
<1>3. /\ Mild(c, c') /\ c'.suspended = c.suspended /\ c'.rbuf = c.rbuf /\ c'.stale = c.stale
      /\ c'.state = IF c.state = "HEADERS_PROCESSED" THEN "START_REPLY" ELSE c.state
  BY <1>1, <1>2, ConnTyped, MildQueue
<1>4. Len(c'.rbuf) <= BufSize /\ (c'.resuming => c'.suspended) /\ c'.state # "UPGRADE"
  BY <1>2, <1>3 DEF Events, Mild
<1>5. CASE c.suspended /\ UNCHANGED pc
  <2>1. pc = "read" /\ ~c.stale => c'.state \notin (Milestones \ {"START_REPLY"}) \cup Writable
    BY <1>2, <1>3 DEF Milestones, Writable
  <2> QED BY <1>3, <1>4, <1>5, <2>1 DEF Events
<1>6. CASE pc' \in {"idle", "handler", "upload"}
  BY <1>4, <1>6 DEF Events, Waiting
<1> QED BY <1>5, <1>6 DEF OtherThreadQueues, AppQueues

LEMMA EventsDispatch ==
  ASSUME ConnInv, Events, NEW r \in BOOLEAN, NEW w \in BOOLEAN, NEW f \in BOOLEAN, Dispatch(r, w, f)
  PROVE  Events'
<1>1. pc \in {"poll", "resumed"} /\ ~c.suspended
  BY DEF Dispatch
<1>2. pc = "resumed" => c.stale
  BY DEF Events
<1>3. pc = "poll" => EventRight(c)
  BY <1>1 DEF Events, Waiting
<1>4. CASE c.info \in Reads /\ (r \/ f)
  <2>1. c' = c /\ pc' \in {"read_err", "read"}
    BY <1>4 DEF Dispatch
  <2>2. ~c.stale => c.state \notin (Milestones \ {"START_REPLY"}) \cup Writable
    BY <1>1, <1>2, <1>3, <1>4, ConnTyped, EventStates
  <2> QED BY <2>1, <2>2 DEF Events, Waiting
<1>5. CASE ~(c.info \in Reads /\ (r \/ f)) /\ f
  <2>1. c' = MHD_connection_close_(c) /\ pc' = "idle"
    BY <1>5 DEF Dispatch
  <2>2. Mild(c, c') /\ c' \in ConnType
    BY <2>1, ConnTyped, MildClosing, ClosingTyped DEF Failed
  <2> QED BY <2>1, <2>2, MildEvents DEF Inside
<1>6. CASE ~(c.info \in Reads /\ (r \/ f)) /\ ~f /\ c.info = "WRITE" /\ w
  <2>1. c' = c /\ pc' = "write"
    BY <1>6 DEF Dispatch
  <2>2. ~c.stale => c.state \in Writable
    BY <1>1, <1>2, <1>3, <1>6, ConnTyped, EventStates
  <2> QED BY <2>1, <2>2 DEF Events, Waiting
<1>7. CASE ~(c.info \in Reads /\ (r \/ f)) /\ ~f /\ ~(c.info = "WRITE" /\ w)
  <2>1. c' = c /\ pc' = "idle"
    BY <1>7 DEF Dispatch
  <2> QED BY <2>1 DEF Events, Waiting
<1> QED BY <1>4, <1>5, <1>6, <1>7

LEMMA EventsAfterIdle == ConnInv /\ Events /\ AfterIdle => Events'
<1> SUFFICES ASSUME ConnInv, Events, AfterIdle PROVE Events'
  OBVIOUS
<1>1. /\ c' = c /\ pc \in Waiting /\ pc' \in Waiting \cup {"write"}
      /\ pc' = "write" =>
           c.info = "WRITE" \/ c.state \in {"HEADERS_SENDING", "NORMAL_BODY_READY", "CHUNKED_BODY_READY"}
  BY DEF AfterIdle, Waiting
<1>2. ~c.suspended => EventRight(c)
  BY <1>1 DEF Events
<1>3. pc' = "write" /\ ~c.suspended => c.state \in Writable
  BY <1>1, <1>2, ConnTyped, EventStates DEF Writable
<1>4. EventRight(c)' <=> EventRight(c)
  BY <1>1 DEF EventRight
<1> QED BY <1>1, <1>2, <1>3, <1>4 DEF Events, Waiting

LEMMA EventsRead == ConnInv /\ Events /\ ReadSteps => Events'
<1> SUFFICES ASSUME ConnInv, Events, ReadSteps PROVE Events'
  OBVIOUS
<1>0. c \in ConnType
  BY ConnTyped
<1>1. CASE ReadData
  <2>1. PICK n \in 0..Min(Len(wire), BufSize - Len(c.rbuf)) : c' = [c EXCEPT !.rbuf = @ \o SubSeq(wire, 1, n)]
    BY <1>1 DEF ReadData
  <2>2. pc' = "idle"
    BY <1>1 DEF ReadData
  <2> DEFINE s == c.rbuf \o SubSeq(wire, 1, n)
  <2>3. /\ wire \in Seq(Token) /\ c.rbuf \in Seq(Token) /\ Len(wire) \in Nat /\ Len(c.rbuf) \in Nat
        /\ BufSize \in Nat
    BY <1>0, BoundAssumption DEF ConnInv, Typed, ConnType
  <2>4. n \in 0..Len(wire) /\ n <= BufSize - Len(c.rbuf)
    BY <2>3 DEF Min
  <2>5. SubSeq(wire, 1, n) \in Seq(Token) /\ Len(SubSeq(wire, 1, n)) = n
    BY <2>3, <2>4
  <2> DEFINE u == SubSeq(wire, 1, n)
  <2> HIDE DEF u
  <2>6. s = c.rbuf \o u /\ u \in Seq(Token) /\ Len(u) = n
    BY <2>5 DEF u
  <2>7. Len(s) <= BufSize
    <3>1. Len(s) = Len(c.rbuf) + Len(u)
      BY <2>3, <2>6, ConcatProperties
    <3> HIDE DEF s
    <3> QED BY <2>3, <2>4, <2>6, <3>1
  <2>a. c' = [c EXCEPT !.rbuf = s]
    BY <2>1
  <2> HIDE DEF s
  <2>8. c'.rbuf = s /\ c'.resuming = c.resuming /\ c'.suspended = c.suspended /\ c'.state = c.state
    BY <1>0, <2>a, SMT DEF ConnType
  <2> QED BY <2>2, <2>7, <2>8 DEF Events, Waiting
<1>2. CASE ReadClosed
  <2> DEFINE d == c.discard \/ c.state \in Receiving
             k == [c EXCEPT !.read_closed = TRUE, !.discard = d]
  <2>1. k \in ConnType
    BY <1>0, Zenon DEF ConnType
  <2>2. /\ k.resuming = c.resuming /\ k.suspended = c.suspended /\ k.rbuf = c.rbuf /\ k.state = c.state
    BY <1>0, SMT DEF ConnType
  <2>3. c' = MHD_connection_close_(k) /\ pc' = "idle"
    BY <1>2 DEF ReadClosed
  <2> HIDE DEF k
  <2>4. Mild(k, c') /\ c' \in ConnType /\ c'.state = "CLOSED"
    BY <2>1, <2>3, MildClosing, ClosingTyped DEF Failed, Closed
  <2>5. Mild(c, c')
    BY <2>2, <2>4 DEF Mild
  <2> QED BY <2>3, <2>4, <2>5, MildEvents DEF Inside
<1>3. CASE ReadError
  <2> DEFINE d == c.discard \/ c.state \in Receiving
             k == [c EXCEPT !.discard = d]
  <2>1. k \in ConnType
    BY <1>0, Zenon DEF ConnType
  <2>2. /\ k.resuming = c.resuming /\ k.suspended = c.suspended /\ k.rbuf = c.rbuf /\ k.state = c.state
    BY <1>0, SMT DEF ConnType
  <2>3. (c' = c \/ c' = connection_close_error(c) \/ c' = MHD_connection_close_(k)) /\ pc' = "idle"
    BY <1>3 DEF ReadError
  <2> HIDE DEF k
  <2>4. CASE c' = MHD_connection_close_(k)
    <3>1. Mild(k, c') /\ c' \in ConnType /\ c'.state = "CLOSED"
      BY <2>1, <2>4, MildClosing, ClosingTyped DEF Failed, Closed
    <3>2. Mild(c, c')
      BY <2>2, <3>1 DEF Mild
    <3> QED BY <2>3, <3>1, <3>2, MildEvents DEF Inside
  <2>5. CASE c' = connection_close_error(c)
    <3>1. Mild(c, c') /\ c' \in ConnType
      BY <1>0, <2>5, MildClosing, ClosingTyped DEF Failed
    <3> QED BY <2>3, <3>1, MildEvents DEF Inside
  <2>6. CASE c' = c
    BY <2>3, <2>6 DEF Events, Waiting
  <2> QED BY <2>3, <2>4, <2>5, <2>6
<1> QED BY <1>1, <1>2, <1>3 DEF ReadSteps

LEMMA EventsWrite == ConnInv /\ Events /\ WriteSteps => Events'
<1> SUFFICES ASSUME ConnInv, Events, WriteSteps PROVE Events'
  OBVIOUS
<1>0. c \in ConnType /\ pc' = "idle"
  BY ConnTyped DEF WriteSteps, Write, WriteError
<1>1. CASE c' = c
  BY <1>0, <1>1 DEF Events, Waiting
<1>2. CASE c' \in Written(c) /\ ~c.suspended
  <2>1. c.state # "UPGRADE"
    BY <1>2 DEF Events
  <2>2. Mild(c, c')
    BY <1>0, <1>2, <2>1, MildWritten
  <2>3. Len(c'.rbuf) <= BufSize
    <3>1. Len(c.rbuf) \in Nat /\ BufSize \in Nat
      BY <1>0, BoundAssumption DEF ConnType
    <3>2. c' \in ConnType
      <4>1. [c EXCEPT !.cont = TRUE] \in ConnType
        BY <1>0, Zenon DEF ConnType
      <4> QED BY <1>0, <1>2, <4>1, WrittenTyped DEF Failed, SameRequest
    <3>3. Len(c'.rbuf) \in Nat
      BY <3>2, LenProperties DEF ConnType
    <3> QED BY <2>2, <3>1, <3>3 DEF Events, Mild
  <2> QED BY <1>0, <2>2, <2>3 DEF Events, Mild, Waiting
<1>3. CASE c' = connection_close_error(c)
  <2>1. Mild(c, c') /\ c' \in ConnType
    BY <1>0, <1>3, MildClosing, ClosingTyped DEF Failed
  <2> QED BY <1>0, <2>1, MildEvents DEF Inside
<1> QED BY <1>1, <1>2, <1>3 DEF WriteSteps, Write, WriteError

LEMMA PlainEvents ==
  ASSUME ConnInv, ConnInv', Events, c'.resuming = c.resuming, c'.suspended = c.suspended \/ c'.suspended,
         Len(c'.rbuf) <= Len(c.rbuf), c'.state # "UPGRADE",
         pc' \in Inside \/ (pc' = "post" /\ (c'.suspended \/ LeftRight(c')))
  PROVE  Events'
<1>1. Mild(c, c')
  BY DEF Mild
<1>2. c' \in ConnType
  BY DEF ConnInv, Typed
<1> QED BY <1>1, <1>2, MildEvents

\* A step that changes neither the buffer nor the suspension.
LEMMA StillEvents ==
  ASSUME ConnInv, ConnInv', Events, c'.resuming = c.resuming, c'.suspended = c.suspended,
         c'.rbuf = c.rbuf, c'.state # "UPGRADE", pc' \in Inside \/ (pc' = "post" /\ LeftRight(c'))
  PROVE  Events'
<1>1. Len(c.rbuf) \in Nat
  BY ConnTyped, LenProperties DEF ConnType
<1>2. Len(c'.rbuf) <= Len(c.rbuf)
  BY <1>1
<1> QED BY <1>2, PlainEvents

LEMMA EventsGoto ==
  ASSUME ConnInv, ConnInv', Events, NEW s, s # "UPGRADE", Goto(s)
  PROVE  Events'
<1>1. c' = [c EXCEPT !.state = s] /\ pc' = "idle"
  BY DEF Goto, Continue
<1>2. c'.resuming = c.resuming /\ c'.suspended = c.suspended /\ c'.rbuf = c.rbuf /\ c'.state = s
  BY <1>1, ConnTyped, SMT DEF ConnType
<1> QED BY <1>1, <1>2, StillEvents DEF Inside

LEMMA EventsStops ==
  ASSUME ConnInv, ConnInv', Events, Break(c), ~c.suspended, LeftRight(c)
  PROVE  Events'
<1>1. c' = c /\ pc' = "post" /\ c.state # "UPGRADE"
  BY DEF Break, LeftRight
<1>2. LeftRight(c')
  BY <1>1
<1> QED BY <1>1, <1>2, StillEvents

LEMMA EventsFails ==
  ASSUME ConnInv, ConnInv', Events,
         Malformed \/ Continue(connection_close_error(c)) \/ Continue(MHD_connection_close_(c))
  PROVE  Events'
<1>1. pc' = "idle" /\ Mild(c, c')
  BY ConnTyped, MildError, MildClosing DEF Malformed, Continue
<1>2. c' \in ConnType
  BY DEF ConnInv, Typed
<1> QED BY <1>1, <1>2, MildEvents DEF Inside

LEMMA ShorterTail ==
  ASSUME NEW s \in Seq(Token), s # <<>>
  PROVE  Len(Tail(s)) <= Len(s)
<1>1. Len(Tail(s)) = Len(s) - 1 /\ Len(s) \in Nat
  BY HeadTailProperties, LenProperties
<1> QED BY <1>1

LEMMA ShorterDrop ==
  ASSUME NEW s \in Seq(Token), NEW n \in 0..Len(s)
  PROVE  Len(Drop(s, n)) <= Len(s)
BY DEF Drop

LEMMA EventsReceiving ==
  ASSUME ConnInv, ConnInv', Events,
         IdleRequestLine \/ IdleRequestLineReceived \/ IdleHeaders \/ IdleParseHeaders
           \/ IdleContinue \/ IdleBody \/ BodyPart \/ IdleBodyReceived \/ IdleFooters
           \/ IdleFootersReceived
  PROVE  Events'
<1>0. c \in ConnType /\ c.rbuf \in Seq(Token)
  BY ConnTyped DEF ConnType
<1>1. CASE IdleRequestLine
  <2>0. ~c.suspended /\ c.state \in {"INIT", "REQ_LINE_RECEIVING"}
    BY <1>1 DEF IdleRequestLine, At
  <2>1. CASE c.rbuf = <<>> /\ Break(c)
    <3>0. Len(c.rbuf) < 2
      BY <2>1, SMT
    <3>1. LeftRight(c)
      BY <2>0, <2>1, <3>0 DEF LeftRight, Milestones
    <3> QED BY <2>0, <2>1, <3>1, EventsStops
  <2>2. CASE Len(c.rbuf) = 1 /\ Break([c EXCEPT !.state = "REQ_LINE_RECEIVING"])
    <3>1. c' = [c EXCEPT !.state = "REQ_LINE_RECEIVING"] /\ pc' = "post"
      BY <2>2 DEF Break
    <3>2. /\ c'.resuming = c.resuming /\ c'.suspended = c.suspended /\ c'.rbuf = c.rbuf
          /\ c'.state = "REQ_LINE_RECEIVING"
      BY <1>0, <3>1, SMT DEF ConnType
    <3>a. Len(c'.rbuf) < 2
      <4>1. Len(c'.rbuf) = 1
        BY <2>2, <3>2, Zenon
      <4> QED BY <4>1
    <3>3. LeftRight(c')
      BY <3>2, <3>a DEF LeftRight, Milestones
    <3> QED BY <3>1, <3>2, <3>3, StillEvents
  <2>3. CASE /\ Len(c.rbuf) > 1
             /\ Continue([c EXCEPT !.rq = c.rbuf[1][1], !.rbuf = Drop(@, 2), !.state = "REQ_LINE_RECEIVED"])
    <3> DEFINE d == Drop(c.rbuf, 2)
               q == c.rbuf[1][1]
    <3>1. c' = [c EXCEPT !.rq = q, !.rbuf = d, !.state = "REQ_LINE_RECEIVED"] /\ pc' = "idle"
      BY <2>3 DEF Continue
    <3>2. Len(d) <= Len(c.rbuf)
      <4>1. 2 \in 0..Len(c.rbuf)
        BY <1>0, <2>3
      <4> QED BY <1>0, <4>1, ShorterDrop
    <3> HIDE DEF d, q
    <3>3. /\ c'.resuming = c.resuming /\ c'.suspended = c.suspended /\ c'.rbuf = d
          /\ c'.state = "REQ_LINE_RECEIVED"
      BY <1>0, <3>1, SMT DEF ConnType
    <3> QED BY <3>1, <3>2, <3>3, PlainEvents DEF Inside
  <2> QED BY <1>1, <2>1, <2>2, <2>3, EventsFails DEF IdleRequestLine
<1>2. CASE IdleRequestLineReceived \/ IdleBodyReceived \/ IdleFootersReceived
  BY <1>2, EventsGoto DEF IdleRequestLineReceived, IdleBodyReceived, IdleFootersReceived
<1>3. CASE IdleHeaders \/ IdleFooters
  <2>0. ~c.suspended /\ c.state \in {"REQ_HEADERS_RECEIVING", "FOOTERS_RECEIVING"}
    BY <1>3 DEF IdleHeaders, IdleFooters, At
  <2>1. CASE c.rbuf = <<>> /\ Break(c)
    <3>1. LeftRight(c)
      BY <2>0, <2>1 DEF LeftRight, Milestones
    <3> QED BY <2>0, <2>1, <3>1, EventsStops
  <2>2. ASSUME c.rbuf # <<>>, NEW s \in {"HEADERS_RECEIVED", "FOOTERS_RECEIVED"},
               Continue([c EXCEPT !.rbuf = Tail(@), !.state = s])
        PROVE  Events'
    <3> DEFINE d == Tail(c.rbuf)
    <3>1. c' = [c EXCEPT !.rbuf = d, !.state = s] /\ pc' = "idle"
      BY <2>2 DEF Continue
    <3>2. Len(d) <= Len(c.rbuf)
      BY <1>0, <2>2, ShorterTail
    <3> HIDE DEF d
    <3>3. /\ c'.resuming = c.resuming /\ c'.suspended = c.suspended /\ c'.rbuf = d /\ c'.state = s
      BY <1>0, <3>1, SMT DEF ConnType
    <3> QED BY <3>1, <3>2, <3>3, PlainEvents DEF Inside
  <2> QED BY <1>3, <2>1, <2>2, EventsFails DEF IdleHeaders, IdleFooters
<1>4. CASE IdleParseHeaders
  <2>1. CASE Malformed
    BY <2>1, EventsFails
  <2>2. CASE ~Malformed
    <3> DEFINE r == IF Kind(c).chunked THEN MHD_SIZE_UNKNOWN ELSE Kind(c).upload
    <3>1. PICK ka : c' = [c EXCEPT !.remaining = r, !.keepalive = ka, !.state = "HEADERS_PROCESSED"] /\ pc' = "idle"
      BY <1>4, <2>2 DEF IdleParseHeaders, Continue
    <3> HIDE DEF r
    <3>2. /\ c'.resuming = c.resuming /\ c'.suspended = c.suspended /\ c'.rbuf = c.rbuf
          /\ c'.state = "HEADERS_PROCESSED"
      BY <1>0, <3>1, SMT DEF ConnType
    <3> QED BY <3>1, <3>2, StillEvents DEF Inside
  <2> QED BY <2>1, <2>2
<1>5. CASE IdleContinue
  <2>0. ~c.suspended /\ c.state = "CONTINUE_SENDING"
    BY <1>5 DEF IdleContinue, At
  <2>1. LeftRight(c)
    BY <2>0 DEF LeftRight, Milestones
  <2> QED BY <1>5, <2>0, <2>1, EventsGoto, EventsStops DEF IdleContinue
<1>6. CASE IdleBody
  <2>0. ~c.suspended /\ c.state = "BODY_RECEIVING"
    BY <1>6 DEF IdleBody, At
  <2>1. LeftRight(c)
    BY <2>0 DEF LeftRight, Milestones
  <2>2. CASE c' = c /\ pc' = "body"
    BY <2>0, <2>2, StillEvents DEF Inside
  <2> QED BY <1>6, <2>0, <2>1, <2>2, EventsStops DEF IdleBody
<1>7. CASE BodyPart
  <2>0. c.state = "BODY_RECEIVING" /\ c.rbuf # <<>>
    BY <1>7 DEF BodyPart, ConnInv, Control, InCalls
  <2>1. CASE BodyDone([c EXCEPT !.rbuf = Tail(@), !.remaining = 0])
    <3> DEFINE d == Tail(c.rbuf)
               k == [c EXCEPT !.rbuf = d, !.remaining = 0]
    <3>1. BodyDone(k)
      BY <2>1
    <3>2. Len(d) <= Len(c.rbuf)
      BY <1>0, <2>0, ShorterTail
    <3> HIDE DEF d
    <3>3. k.remaining = 0
      BY <1>0, SMT DEF ConnType
    <3>4. c' = [k EXCEPT !.state = "BODY_RECEIVED"] /\ pc' = "idle"
      BY <3>1, <3>3 DEF BodyDone, Continue
    <3>5. /\ c'.resuming = c.resuming /\ c'.suspended = c.suspended /\ c'.rbuf = d
          /\ c'.state = "BODY_RECEIVED"
      BY <1>0, <3>4, SMT DEF ConnType
    <3> QED BY <3>2, <3>4, <3>5, PlainEvents DEF Inside
  <2>2. CASE c' = [c EXCEPT !.calls = "upload"] /\ pc' = "upload"
    <3>1. c'.resuming = c.resuming /\ c'.suspended = c.suspended /\ c'.rbuf = c.rbuf /\ c'.state = c.state
      BY <1>0, <2>2, SMT DEF ConnType
    <3> QED BY <2>0, <2>2, <3>1, StillEvents DEF Inside
  <2> QED BY <1>7, <2>1, <2>2, EventsFails DEF BodyPart
<1> QED BY <1>1, <1>2, <1>3, <1>4, <1>5, <1>6, <1>7

LEMMA EventsCalls ==
  ASSUME ConnInv, ConnInv', Events,
         IdleFirstCall \/ IdleFinalCall \/ AfterFirstCall \/ AfterFinalCall \/ AfterOtherCall
  PROVE  Events'
<1>0. c \in ConnType
  BY ConnTyped
<1>1. CASE IdleFirstCall \/ IdleFinalCall
  <2>0. c.state \in {"HEADERS_PROCESSED", "FULL_REQ_RECEIVED"} /\ pc' \in {"called", "handler"}
    BY <1>1 DEF IdleFirstCall, IdleFinalCall, At, CallHandler
  <2>1. PICK call : c' = c \/ c' = [c EXCEPT !.calls = call]
    BY <1>1 DEF IdleFirstCall, IdleFinalCall, CallHandler
  <2>2. c'.resuming = c.resuming /\ c'.suspended = c.suspended /\ c'.rbuf = c.rbuf /\ c'.state = c.state
    BY <1>0, <2>1, SMT DEF ConnType
  <2> QED BY <2>0, <2>2, StillEvents DEF Inside
<1>2. CASE AfterFirstCall
  <2>0. c.state = "HEADERS_PROCESSED"
    BY <1>2 DEF AfterFirstCall
  <2>1. CASE c' = c /\ pc' = "idle"
    BY <2>0, <2>1, StillEvents DEF Inside
  <2>2. CASE c' = [c EXCEPT !.state = "CONTINUE_SENDING"] /\ pc' = "post"
    <3>1. /\ c'.resuming = c.resuming /\ c'.suspended = c.suspended /\ c'.rbuf = c.rbuf
          /\ c'.state = "CONTINUE_SENDING"
      BY <1>0, <2>2, SMT DEF ConnType
    <3>2. LeftRight(c')
      BY <3>1 DEF LeftRight, Milestones
    <3> QED BY <2>2, <3>1, <3>2, StillEvents
  <2> DEFINE refused == c.response # NoResponse /\ c.remaining # 0
             d == c.discard \/ refused
             m == IF refused THEN 0 ELSE c.remaining
             s == IF refused \/ c.remaining = 0 THEN "FULL_REQ_RECEIVED" ELSE "BODY_RECEIVING"
  <2>3. CASE c' = [c EXCEPT !.discard = d, !.remaining = m, !.state = s] /\ pc' = "idle"
    <3>0. s # "UPGRADE"
      OBVIOUS
    <3> HIDE DEF d, m, s
    <3>1. c'.resuming = c.resuming /\ c'.suspended = c.suspended /\ c'.rbuf = c.rbuf /\ c'.state = s
      BY <1>0, <2>3, SMT DEF ConnType
    <3> QED BY <2>3, <3>0, <3>1, StillEvents DEF Inside
  <2> QED BY <1>2, <2>1, <2>2, <2>3 DEF AfterFirstCall, Continue, Break
<1>3. CASE AfterFinalCall
  <2>0. c.state = "FULL_REQ_RECEIVED"
    BY <1>3 DEF AfterFinalCall
  <2>1. LeftRight(c)
    BY <2>0 DEF LeftRight, Milestones
  <2>2. CASE Break(c)
    <3>1. c' = c /\ pc' = "post"
      BY <2>2 DEF Break
    <3> QED BY <2>0, <2>1, <3>1, StillEvents
  <2> QED BY <1>3, <2>2, EventsGoto DEF AfterFinalCall
<1>4. CASE AfterOtherCall
  <2>1. c' = c /\ pc' = "idle" /\ c.state # "UPGRADE"
    BY <1>4 DEF AfterOtherCall, Continue, ConnInv, Control, InCalls
  <2> QED BY <2>1, StillEvents DEF Inside
<1> QED BY <1>1, <1>2, <1>3, <1>4

LEMMA EventsReply ==
  ASSUME ConnInv, ConnInv', Events,
         IdleStartReply \/ IdleNothing \/ IdleHeadersSent \/ IdleNormalBody
           \/ IdleChunkedBody \/ IdleChunkedSent \/ IdleReplySent \/ IdleClosed \/ IdleSuspended
  PROVE  Events'
<1>0. c \in ConnType /\ c' \in ConnType
  BY DEF ConnInv, Typed
<1>a. ASSUME Mild(c, c'), pc' = "idle" \/ (pc' = "post" /\ LeftRight(c')) PROVE Events'
  BY <1>0, <1>a, MildEvents DEF Inside
<1>1. CASE IdleStartReply
  <2>1. CASE Break(build_header_response(c))
    <3>1. Mild(c, c') /\ c'.state = "HEADERS_SENDING" /\ pc' = "post"
      BY <1>0, <2>1, MildHeader, HeaderTyped DEF Break
    <3>2. LeftRight(c')
      BY <3>1 DEF LeftRight, Milestones
    <3> QED BY <1>a, <3>1, <3>2
  <2> QED BY <1>1, <2>1, EventsFails DEF IdleStartReply
<1>2. CASE IdleNothing
  <2>1. ~c.suspended /\ LeftRight(c)
    BY <1>2 DEF IdleNothing, At, LeftRight, Milestones
  <2> QED BY <1>2, <2>1, EventsStops DEF IdleNothing
<1>3. CASE IdleClosed
  <2>1. c.state = "CLOSED" /\ c' = c /\ pc' = "gone"
    BY <1>3 DEF IdleClosed, At
  <2> QED BY <2>1, StillEvents DEF Inside
<1>4. CASE IdleSuspended
  <2>1. c.suspended /\ c' = c /\ pc' = "post"
    BY <1>4 DEF IdleSuspended, Break
  <2> QED BY <2>1 DEF Events, Waiting
<1>5. CASE IdleHeadersSent
  <2>0. c.state = "HEADERS_SENT" /\ ~c.suspended /\ pc' = "idle"
    BY <1>5 DEF IdleHeadersSent, At, Goto, Continue
  <2>1. CASE c' = [c EXCEPT !.state = "UPGRADE", !.suspended = TRUE, !.response = NoResponse]
    <3>1. /\ c'.resuming = c.resuming /\ c'.suspended /\ c'.rbuf = c.rbuf
      BY <1>0, <2>1, SMT DEF ConnType
    <3>2. ~c.resuming
      BY <2>0 DEF Events
    <3> QED BY <2>0, <3>1, <3>2 DEF Events, Waiting
  <2>2. ASSUME NEW s \in {"FULL_REPLY_SENT", "CHUNKED_BODY_UNREADY", "NORMAL_BODY_UNREADY"}, Goto(s)
        PROVE  Events'
    BY <2>2, EventsGoto
  <2> QED BY <1>5, <2>1, <2>2, EventsFails DEF IdleHeadersSent, Continue
<1>6. CASE IdleNormalBody
  <2>0. c.state = "NORMAL_BODY_UNREADY"
    BY <1>6 DEF IdleNormalBody, At
  <2>1. ASSUME NEW t \in try_ready_normal_body(c),
               Break(IF t[1] THEN [t[2] EXCEPT !.state = "NORMAL_BODY_READY"] ELSE t[2])
        PROVE  Events'
    <3> DEFINE k == t[2]
    <3>1. Mild(c, k)
      BY <1>0, <2>0, MildTryNormal
    <3>2. k \in ConnType /\ k.state \in {"CLOSED", "HEADERS_SENDING", "NORMAL_BODY_UNREADY"}
      BY <1>0, <2>0, NormalBodyTyped DEF Failed, Closed, SameRequest
    <3>3. (c' = k \/ c' = [k EXCEPT !.state = "NORMAL_BODY_READY"]) /\ pc' = "post"
      BY <2>1 DEF Break
    <3> HIDE DEF k
    <3>4. /\ c'.resuming = k.resuming /\ c'.suspended = k.suspended /\ c'.rbuf = k.rbuf
          /\ c'.state \in {"CLOSED", "HEADERS_SENDING", "NORMAL_BODY_UNREADY", "NORMAL_BODY_READY"}
      BY <3>2, <3>3, SMT DEF ConnType
    <3>5. LeftRight(c')
      BY <3>4 DEF LeftRight, Milestones
    <3>6. Mild(c, c')
      BY <3>1, <3>4 DEF Mild
    <3> QED BY <1>a, <3>3, <3>5, <3>6
  <2> QED BY <1>6, <2>1, EventsGoto DEF IdleNormalBody
<1>7. CASE IdleChunkedBody
  <2>0. c.state = "CHUNKED_BODY_UNREADY"
    BY <1>7 DEF IdleChunkedBody, At
  <2>1. ASSUME NEW k \in try_ready_chunked_body(c), IF k.state = "CLOSED" THEN Break(k) ELSE Continue(k)
        PROVE  Events'
    <3>1. c' = k /\ (pc' = "idle" \/ (pc' = "post" /\ k.state = "CLOSED"))
      BY <2>1 DEF Break, Continue
    <3>2. Mild(c, c')
      BY <1>0, <2>0, <3>1, MildTryChunked
    <3>3. pc' = "post" => LeftRight(c')
      BY <3>1 DEF LeftRight, Milestones
    <3> QED BY <1>a, <3>1, <3>2, <3>3
  <2>2. ASSUME NEW k \in Suspendings(c), Break(k) PROVE Events'
    <3>1. c' = k /\ pc' = "post" /\ Mild(c, c') /\ c'.state = c.state
      BY <1>0, <2>0, <2>2, MildSuspendings DEF Break
    <3>2. LeftRight(c')
      BY <2>0, <3>1 DEF LeftRight, Milestones
    <3> QED BY <1>a, <3>1, <3>2
  <2> QED BY <1>7, <2>1, <2>2, EventsGoto DEF IdleChunkedBody
<1>8. CASE IdleChunkedSent
  <2>1. CASE Continue([c EXCEPT !.wbuf = TRUE, !.state = "FOOTERS_SENDING"])
    <3>1. /\ c'.resuming = c.resuming /\ c'.suspended = c.suspended /\ c'.rbuf = c.rbuf
          /\ c'.state = "FOOTERS_SENDING" /\ pc' = "idle"
      BY <1>0, <2>1, SMT DEF ConnType, Continue
    <3> QED BY <3>1, StillEvents DEF Inside
  <2> QED BY <1>8, <2>1, EventsFails DEF IdleChunkedSent
<1>9. CASE IdleReplySent
  <2>1. CASE Continue([c EXCEPT !.state = "HEADERS_PROCESSED", !.response = NoResponse])
    <3>1. /\ c'.resuming = c.resuming /\ c'.suspended = c.suspended /\ c'.rbuf = c.rbuf
          /\ c'.state = "HEADERS_PROCESSED" /\ pc' = "idle"
      BY <1>0, <2>1, SMT DEF ConnType, Continue
    <3> QED BY <3>1, StillEvents DEF Inside
  <2>2. CASE Continue(connection_reset(c))
    <3>1. /\ c'.resuming = c.resuming /\ c'.suspended = c.suspended /\ c'.rbuf = c.rbuf
          /\ c'.state = "INIT" /\ pc' = "idle"
      BY <2>2, SMT DEF connection_reset, NewConnection, Continue
    <3> QED BY <3>1, StillEvents DEF Inside
  <2> QED BY <1>9, <2>1, <2>2, EventsFails DEF IdleReplySent
<1> QED BY <1>1, <1>2, <1>3, <1>4, <1>5, <1>6, <1>7, <1>8, <1>9

LEMMA EventsApp ==
  ASSUME ConnInv, ConnInv', Events, AppSteps
  PROVE  Events'
<1>0. c \in ConnType /\ c.rbuf \in Seq(Token)
  BY ConnTyped DEF ConnType
<1>1. CASE AppQueues
  BY <1>1, EventsQueues
<1>2. CASE AppSuspends
  <2>1. /\ c'.resuming = c.resuming /\ c'.suspended /\ c'.rbuf = c.rbuf /\ c'.state = c.state
        /\ ~c.suspended /\ pc' \in {"handler", "upload"}
    BY <1>0, <1>2, SMT DEF AppSuspends, ConnType
  <2>2. c.state # "UPGRADE"
    BY <2>1 DEF Events
  <2> QED BY <2>1, <2>2 DEF Events, Waiting
<1>3. CASE AppReturns
  <2>1. c' = c /\ pc' = "called"
    BY <1>3 DEF AppReturns
  <2> QED BY <2>1 DEF Events, Waiting
<1>4. CASE AppFails
  BY <1>4, EventsFails DEF AppFails
<1>5. ASSUME NEW p \in 0..MaxUpload, AppTakes(p) PROVE Events'
  <2>1. c.state = "BODY_RECEIVING" /\ c.rbuf # <<>>
    BY <1>5 DEF AppTakes, ConnInv, Control, InCalls
  <2> DEFINE r == IF Kind(c).chunked THEN c.remaining ELSE c.remaining - p
             d == Drop(c.rbuf, p)
             g == c.got + p
             o == p > 0
             k == [c EXCEPT !.rbuf = d, !.got = g, !.some = o, !.remaining = r]
             l == [k EXCEPT !.state = "BODY_RECEIVED"]
  <2>2. BodyTaken(p)
    BY <1>5 DEF AppTakes
  <2>3. c' = k \/ c' = l
    BY <2>2 DEF BodyTaken, BodyDone, Continue, Break
  <2>4. pc' \in {"body", "idle", "post"} /\ (pc' = "post" => c' = k)
    BY <2>2 DEF BodyTaken, BodyDone, Continue, Break
  <2>5. Len(d) <= Len(c.rbuf)
    <3>0. Len(c.rbuf) \in Nat /\ Len(c.rbuf) >= 1 /\ p \in Nat
      BY <1>0, <2>1
    <3>1. p <= Len(c.rbuf)
      <4>1. p <= Offered(c)
        BY <1>5 DEF AppTakes
      <4>2. c.remaining \in Int
        BY <1>0, UnknownSize, Bounds DEF ConnType, Remaining
      <4> QED BY <3>0, <4>1, <4>2 DEF Offered, Min
    <3> QED BY <1>0, <3>0, <3>1, ShorterDrop
  <2> HIDE DEF r, d, g, o
  <2>6. /\ k.resuming = c.resuming /\ k.suspended = c.suspended /\ k.rbuf = d /\ k.state = "BODY_RECEIVING"
        /\ l.resuming = c.resuming /\ l.suspended = c.suspended /\ l.rbuf = d /\ l.state = "BODY_RECEIVED"
    BY <1>0, <2>1, SMT DEF ConnType
  <2> HIDE DEF k, l
  <2>7. pc' = "post" => LeftRight(c')
    BY <2>4, <2>6 DEF LeftRight, Milestones
  <2> QED BY <2>3, <2>4, <2>5, <2>6, <2>7, PlainEvents DEF Inside
<1> QED BY <1>1, <1>2, <1>3, <1>4, <1>5 DEF AppSteps

LEMMA RightInfo ==
  ASSUME NEW k \in ConnType, LeftRight(k)
  PROVE  EventRight(SetInfo(k))
<1> DEFINE i == EventInfo(k)
           e == SetInfo(k)
<1>1. e = [k EXCEPT !.info = i, !.stale = FALSE]
  BY DEF SetInfo
<1> HIDE DEF i, e
<1>2. e.state = k.state /\ e.info = i /\ e.rbuf = k.rbuf /\ e.some = k.some
  BY <1>1, SMT DEF ConnType
<1>3. /\ k.state \in {"INIT", "REQ_LINE_RECEIVING", "REQ_HEADERS_RECEIVING", "FOOTERS_RECEIVING"} => i = "READ"
      /\ k.state \in Writable => i = "WRITE"
      /\ k.state \in {"FULL_REQ_RECEIVED", "NORMAL_BODY_UNREADY", "CHUNKED_BODY_UNREADY"} => i = "PROCESS"
      /\ k.state = "CLOSED" => i = "CLEANUP"
      /\ k.state = "BODY_RECEIVING" => i = BodyInfo(k)
  BY SMT DEF EventInfo, Writable, i
<1>4. BodyInfo(k) \in Reads \cup Processes /\ (BodyInfo(k) = "READ" => k.rbuf = <<>> \/ ~k.some)
  BY DEF BodyInfo, Reads, Processes
<1>5. EventRight(e)
  BY <1>2, <1>3, <1>4 DEF EventRight, LeftRight
<1> QED BY <1>5 DEF e

LEMMA MildInfo ==
  ASSUME NEW k \in ConnType, NEW i
  PROVE  LET e == [k EXCEPT !.info = i, !.stale = FALSE]
         IN /\ e.resuming = k.resuming /\ e.suspended = k.suspended /\ e.rbuf = k.rbuf
            /\ e.state = k.state /\ e.info = i /\ e.some = k.some
BY SMT DEF ConnType

LEMMA EventsEnd ==
  ASSUME ConnInv, ConnInv', AfterTyped, Events, IdleTimeout \/ IdleEnd
  PROVE  Events'
<1>0. c \in ConnType /\ c' \in ConnType /\ pc = "post" /\ pc' \in Waiting
  BY ReturnedTyped DEF ConnInv, Typed, IdleTimeout, IdleEnd, Waiting, Returned, AfterTyped
<1>a. ASSUME Mild(c, c'), c'.state # "UPGRADE", EventRight(c') PROVE Events'
  <2>1. Len(c.rbuf) \in Nat /\ Len(c'.rbuf) \in Nat /\ BufSize \in Nat
    BY <1>0, LenProperties, BoundAssumption DEF ConnType
  <2>2. Len(c'.rbuf) <= BufSize
    BY <1>a, <2>1 DEF Events, Mild
  <2>3. EventRight(c)'
    BY <1>a DEF EventRight
  <2> QED BY <1>0, <1>a, <2>2, <2>3 DEF Events, Mild, Waiting
<1>1. CASE IdleTimeout
  <2>1. c' = MHD_connection_close_(c)
    BY <1>1 DEF IdleTimeout
  <2>2. c'.state = "CLOSED" /\ c'.info = "CLEANUP"
    BY <1>0, <2>1, SMT DEF MHD_connection_close_, ConnType
  <2>3. EventRight(c')
    BY <2>2 DEF EventRight, Writable, Milestones
  <2> QED BY <1>0, <1>a, <2>1, <2>2, <2>3, MildClosing
<1>2. CASE IdleEnd /\ c.suspended
  <2>1. c' = c
    BY <1>2 DEF IdleEnd
  <2> QED BY <1>0, <1>2, <2>1 DEF Events, Waiting
<1>3. CASE IdleEnd /\ ~c.suspended
  <2>0. LeftRight(c) /\ c.state # "UPGRADE"
    BY <1>0, <1>3 DEF Events
  <2>a. ASSUME NEW k \in ConnType, Mild(c, k), LeftRight(k), c' = SetInfo(k) PROVE Events'
    <3>1. /\ c'.resuming = k.resuming /\ c'.suspended = k.suspended /\ c'.rbuf = k.rbuf
          /\ c'.state = k.state
      BY <2>a, MildInfo DEF SetInfo
    <3>2. Mild(c, c') /\ c'.state # "UPGRADE"
      BY <2>0, <2>a, <3>1 DEF Mild
    <3> QED BY <1>a, <2>a, <3>2, RightInfo
  <2>1. \/ c' = SetInfo(c)
        \/ c' = [c EXCEPT !.info = "PROCESS", !.stale = FALSE] /\ c.state = "BODY_RECEIVING"
        \/ \E e \in handle_recv_no_space(c) : c' = SetInfo(e)
    BY <1>3 DEF IdleEnd, MHD_connection_update_event_loop_info
  <2>2. CASE c' = SetInfo(c)
    <3>1. Mild(c, c)
      BY <1>0, <2>0, MildSame
    <3> QED BY <1>0, <2>0, <2>a, <2>2, <3>1
  <2>3. CASE c' = [c EXCEPT !.info = "PROCESS", !.stale = FALSE] /\ c.state = "BODY_RECEIVING"
    <3>1. /\ c'.resuming = c.resuming /\ c'.suspended = c.suspended /\ c'.rbuf = c.rbuf
          /\ c'.state = c.state /\ c'.info = "PROCESS"
      BY <1>0, <2>3, MildInfo
    <3>2. Mild(c, c')
      BY <1>0, <2>0, <3>1, MildSame
    <3>3. EventRight(c')
      BY <2>3, <3>1 DEF EventRight, Writable, Milestones, Reads, Processes
    <3> QED BY <1>a, <2>3, <3>1, <3>2, <3>3
  <2>4. ASSUME NEW e \in handle_recv_no_space(c), c' = SetInfo(e) PROVE Events'
    <3>1. Mild(c, e)
      BY <1>0, MildError, MildClosing DEF handle_recv_no_space
    <3>2. Failed(c, e)
      BY <1>0, ClosingTyped, ErrorTyped DEF handle_recv_no_space
    <3>3. e \in ConnType /\ e.state \in {"CLOSED", "HEADERS_SENDING"}
      BY <3>2 DEF Failed, Closed
    <3>4. LeftRight(e)
      BY <3>3 DEF LeftRight, Milestones
    <3> QED BY <2>a, <2>4, <3>1, <3>3, <3>4
  <2> QED BY <2>1, <2>2, <2>3, <2>4
<1> QED BY <1>1, <1>2, <1>3

LEMMA EventsKept == ConnInv /\ ConnInv' /\ AfterTyped /\ Events /\ [Next]_vars => Events'
<1> SUFFICES ASSUME ConnInv, ConnInv', AfterTyped, Events, [Next]_vars PROVE Events'
  OBVIOUS
<1>1. CASE UNCHANGED <<c, pc>>
  BY <1>1 DEF Events, LeftRight, EventRight
<1>2. CASE IdleSteps
  BY <1>2, EventsReceiving, EventsCalls, EventsReply, EventsEnd DEF IdleSteps
<1>3. CASE ClientSends \/ Done \/ UNCHANGED vars
  BY <1>1, <1>3 DEF ClientSends, Done, vars
<1> QED BY <1>2, <1>3, EventsQueues, EventsResumes, EventsResume, EventsDispatch, EventsAfterIdle,
           EventsRead, EventsWrite, EventsApp DEF Next

LEMMA EventsInit == Init => Events
<1> SUFFICES ASSUME Init PROVE Events
  OBVIOUS
<1>1. /\ c.state = "INIT" /\ c.info = "READ" /\ c.suspended = FALSE /\ c.resuming = FALSE
      /\ c.rbuf = <<>> /\ pc = "poll"
  BY SMT DEF Init, NewConnection
<1>2. Len(c.rbuf) < 2 /\ Len(c.rbuf) <= BufSize
  BY <1>1, BoundAssumption, SMT
<1>3. EventRight(c)
  BY <1>1, <1>2 DEF EventRight, Writable, Milestones
<1> QED BY <1>1, <1>2, <1>3 DEF Events

LEMMA WaitsFromEvents == ConnInv /\ Events => WaitsForTheRightEvent
<1> SUFFICES ASSUME ConnInv, Events, pc = "poll", ~c.suspended PROVE WaitsForTheRightEvent
  BY DEF WaitsForTheRightEvent
<1>1. EventRight(c)
  BY DEF Events, Waiting
<1>2. c.state \in States /\ c.state \notin Milestones \cup {"UPGRADE"}
  BY <1>1, ConnTyped DEF EventRight, ConnType
<1>3. c.state \in {"INIT", "REQ_LINE_RECEIVING", "REQ_HEADERS_RECEIVING", "FOOTERS_RECEIVING", "BODY_RECEIVING",
                   "FULL_REQ_RECEIVED", "NORMAL_BODY_UNREADY", "CHUNKED_BODY_UNREADY", "CLOSED"} \cup Writable
  BY <1>2, SMT DEF States, Receiving, Sending, Milestones, Writable
<1> QED BY <1>1, <1>3, SMT DEF EventRight, WaitsForTheRightEvent, Writable

\* The thread never goes to sleep for the wrong event: after handle_idle() has
\* returned, event_loop_info fits the state the connection is in, whatever was
\* read, queued, suspended, resumed or refused before.
THEOREM WaitsRightly == Spec => []WaitsForTheRightEvent
<1>1. Init => Events
  BY EventsInit
<1>2. StepInv /\ Events /\ [Next]_vars => Events'
  BY StepKept, EventsKept DEF StepInv
<1>3. StepInv /\ Events => WaitsForTheRightEvent
  BY WaitsFromEvents DEF StepInv
<1> QED BY <1>1, <1>2, <1>3, ControlKept, PTL DEF Spec

-----------------------------------------------------------------------------
(* The replies. *)

LEMMA RightKept == ConnInv /\ ReplyInv /\ InterimEmpty /\ [Next]_vars => ReplyRight(c)'
<1> SUFFICES ASSUME ConnInv, ReplyRight(c), Events, InterimEmpty, [Next]_vars PROVE ReplyRight(c)'
  BY DEF ReplyInv
<1>1. CASE UNCHANGED vars
  BY <1>1, UntouchedStep DEF vars, Untouched
<1>2. CASE IdleSteps
  BY <1>2, RightReceiving, RightCalls, RightAfterCalls, RightReply, RightEnd DEF IdleSteps
<1>3. CASE ClientSends
  BY <1>3, RightClient
<1>4. CASE Done
  BY <1>1, <1>4 DEF Done
<1>5. CASE AppSteps
  BY <1>5, RightApp
<1> QED BY <1>1, <1>2, <1>3, <1>4, <1>5, RightDaemon DEF Next

LEMMA RightInit == Init => ReplyRight(c)
<1> SUFFICES ASSUME Init PROVE ReplyRight(c)
  OBVIOUS
<1>1. c.state = "INIT" /\ c.response = NoResponse /\ c.wpos = 0 /\ ~c.stop_err
  BY SMT DEF Init, NewConnection
<1> QED BY <1>1, RightBegins DEF Beginning, Early

LEMMA WholeFromRight == ConnInv /\ AfterTyped /\ ReplyInv => RepliesWhole
<1> SUFFICES ASSUME ConnInv, AfterTyped, ReplyRight(c), Events PROVE RepliesWhole
  BY DEF ReplyInv
<1>0. c \in ConnType
  BY ConnTyped
<1>1. ReplyWhole
  BY RightSent DEF ReplyWhole, WholeRight
<1>2. TypeOK
  <2>1. /\ c.state \in States /\ c.info \in Infos
        /\ c.keepalive \in {"UNKNOWN", "USE", "CLOSE", "UPGRADE"}
        /\ c.calls \in {"none", "first", "upload", "final"} /\ c.remaining \in Remaining
    BY <1>0 DEF ConnType
  <2>2. c.rq \in 0..Len(kinds)
    BY <1>0, LenProperties DEF ConnInv, Typed, ConnType
  <2>3. c.response \in ReplyType /\ Len(c.rbuf) <= BufSize
    BY DEF ReplyRight, ReplyHeld, Events
  <2>4. pc \in Steps /\ after \in {"poll", "write", "fast1", "fast2"}
    BY DEF ConnInv, Typed, AfterTyped
  <2> QED BY <2>1, <2>2, <2>3, <2>4 DEF TypeOK, Remaining
<1>3. ~c.stale => ReadAndWriteInState
  BY DEF Events, ReadAndWriteInState
<1>4. (pc = "post" /\ ~c.suspended) => c.state \notin Milestones \cup {"UPGRADE"}
  BY DEF Events, LeftRight
<1>5. c.state = "BODY_RECEIVING" => c.remaining # 0 /\ ~c.discard /\ c.response = NoResponse
  BY DEF ConnInv, Control, Counted, Called, Uploading
<1>6. c.state \in {"START_REPLY"} \cup (Sending \ {"CLOSED", "UPGRADE"}) => c.response # NoResponse
  BY RightFacts DEF ReplyRight, ReplyHeld
<1>7. c.state = "HEADERS_SENDING" => c.wpos \in {0, c.response.size}
  BY DEF ReplyRight, BeforeBody, Position
<1>8. c.state \in {"NORMAL_BODY_UNREADY", "NORMAL_BODY_READY"} =>
        c.send_body /\ ~c.chunked /\ c.wpos <= c.response.size
  <2>1. c.state \in Normal => c.send_body /\ ~c.chunked /\ c.wpos \in 0..c.response.size
    BY RightNormal DEF NormalRight
  <2>2. c.wpos \in Int /\ c.response.size \in Int
    BY <1>0 DEF ConnType
  <2> QED BY <2>1, <2>2 DEF Normal
<1>9. c.state \in {"CHUNKED_BODY_UNREADY", "CHUNKED_BODY_READY", "CHUNKED_BODY_SENT", "FOOTERS_SENDING"} =>
        c.send_body /\ c.chunked
  BY RightChunks DEF ChunkRight, Chunks
<1>10. c.state \in {"CHUNKED_BODY_UNREADY", "CHUNKED_BODY_SENT"} => ~c.wbuf
  BY RightChunks DEF ChunkRight, Chunks
<1>11. c.state = "INIT" => ~c.stop_err /\ ~c.discard
  BY StopErr DEF ConnInv, Control, Called, Early
<1>12. c.state = "HEADERS_SENT" /\ c.chunked => c.out = 0
  BY RightHeaderSent DEF HeaderSentRight
<1>13. AssertionsHold
  BY <1>12, <1>2, <1>3, <1>4, <1>5, <1>6, <1>7, <1>8, <1>9, <1>10, <1>11, Zenon DEF AssertionsHold
<1> QED BY <1>1, <1>13 DEF RepliesWhole

\* A reply that is taken for complete is whole, and the assertions of
\* connection.c about the states hold, if the interim replies have no body: the
\* code does not set rsp_write_position back after a "102 Processing".
THEOREM RepliesAreWhole == InterimEmpty => (Spec => []RepliesWhole)
<1> SUFFICES ASSUME InterimEmpty PROVE Spec => []RepliesWhole
  OBVIOUS
<1>1. Init => ReplyInv
  BY RightInit, EventsInit DEF ReplyInv
<1>2. StepInv /\ ReplyInv /\ [Next]_vars => ReplyInv'
  BY StepKept, EventsKept, RightKept DEF StepInv, ReplyInv
<1>3. StepInv /\ ReplyInv => RepliesWhole
  BY WholeFromRight DEF StepInv
<1> QED BY <1>1, <1>2, <1>3, ControlKept, PTL DEF Spec
=============================================================================
