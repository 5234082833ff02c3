--------------------------- MODULE ConnectionProofs ---------------------------
(***************************************************************************)
(* Proofs about Connection for any requests, any number of them, any       *)
(* replies, any sizes of the read buffer and of what the content reader    *)
(* returns, with and without failures.                                     *)
(***************************************************************************)
EXTENDS Connection, SequenceTheorems, TLAPS

(***************************************************************************)
(* The input of a connection.                                              *)
(***************************************************************************)

Parts == {"start", "line", "header", "body", "last", "footer"}
Token == Nat \X Parts \X Nat

\* What the client has sent and the connection has not taken yet.
input == c.rbuf \o wire

\* What follows a request, and what follows the first i - 1 units of its body,
\* in a stream of the requests K.
Start(n) == <<n, "start", 0>>
BodyToken(K, n, i) ==
  IF i <= K[n].upload THEN <<n, "body", i>>
  ELSE IF K[n].chunked THEN <<n, "last", 0>> ELSE Start(n + 1)

Successor(K, t) ==
  CASE t[2] = "start" -> <<t[1], "line", 0>>
    [] t[2] = "line" -> <<t[1], "header", 0>>
    [] t[2] = "header" -> BodyToken(K, t[1], 1)
    [] t[2] = "body" -> BodyToken(K, t[1], t[3] + 1)
    [] t[2] = "last" -> <<t[1], "footer", 0>>
    [] t[2] = "footer" -> Start(t[1] + 1)

\* What comes after the first i tokens of what is left of the input.
After(K, s, i) == IF i < Len(s) THEN s[i + 1] ELSE Start(Len(K) + 1)

nextToken == After(kinds, input, 0)

\* The tokens follow each other as the client sends them; those of a body are
\* numbered.
Chained(K, s) ==
  /\ s \in Seq(Token)
  /\ \A i \in 1..Len(s) : s[i][1] \in 1..Len(K) /\ After(K, s, i) = Successor(K, s[i])
  /\ \A i \in 1..Len(s), d \in Nat :
       (i + d <= Len(s) /\ s[i][2] = "body" /\ s[i][3] + d <= K[s[i][1]].upload) =>
         s[i + d] = <<s[i][1], "body", s[i][3] + d>>

-----------------------------------------------------------------------------
(***************************************************************************)
(* The record of the connection.                                           *)
(***************************************************************************)

Remaining == 0..MaxUpload \cup {MHD_SIZE_UNKNOWN}

ConnType ==
  [state : States, info : Infos, suspended : BOOLEAN, resuming : BOOLEAN,
   keepalive : {"UNKNOWN", "USE", "CLOSE", "UPGRADE"}, discard : BOOLEAN,
   stop_err : BOOLEAN, read_closed : BOOLEAN, rbuf : Seq(Token), rq : Nat,
   remaining : Remaining, some : BOOLEAN, cont : BOOLEAN,
   response : [code : {"none", "102", "101", "204", "200"}, size : Int, reader : BOOLEAN,
               iov : BOOLEAN, enforced : BOOLEAN, strict : BOOLEAN],
   wpos : Int, ready : Int, wbuf : BOOLEAN, send_body : BOOLEAN, chunked : BOOLEAN,
   calls : {"none", "first", "upload", "final"}, got : Nat, out : Int,
   stale : BOOLEAN]

Typed ==
  /\ c \in ConnType /\ kinds \in Seq(KindType) /\ wire \in Seq(Token) /\ pc \in Steps
  /\ c.rq <= Len(kinds)

-----------------------------------------------------------------------------
(***************************************************************************)
(* Where the connection is.                                                *)
(***************************************************************************)

\* Before the application knows of the request.
Early == {"INIT", "REQ_LINE_RECEIVING", "REQ_LINE_RECEIVED", "REQ_HEADERS_RECEIVING",
          "HEADERS_RECEIVED"}
\* The body is being received.
Uploading == {"CONTINUE_SENDING", "BODY_RECEIVING"}
\* After it.
Footers == {"BODY_RECEIVED", "FOOTERS_RECEIVING", "FOOTERS_RECEIVED"}
\* The request is complete, or the rest of it is discarded.
Replying == {"FULL_REQ_RECEIVED", "START_REPLY"} \cup (Sending \ {"CLOSED", "UPGRADE"})

\* What the next token is.  An early or an error reply makes it unknown.
Framed ==
  /\ (c.state \in {"INIT", "REQ_LINE_RECEIVING"} /\ input # <<>>) => nextToken[2] = "start"
  /\ c.state \in {"REQ_LINE_RECEIVED", "REQ_HEADERS_RECEIVING"} =>
          nextToken = <<c.rq, "header", 0>>
  /\ c.state \in {"HEADERS_RECEIVED"} \cup Uploading => nextToken = BodyToken(kinds, c.rq, c.got + 1)
  /\ c.state = "HEADERS_PROCESSED" /\ ~c.discard =>
          nextToken = IF c.remaining = 0 THEN Start(c.rq + 1) ELSE BodyToken(kinds, c.rq, c.got + 1)
  /\ c.state \in {"BODY_RECEIVED", "FOOTERS_RECEIVING"} =>
          nextToken = IF Kind(c).chunked THEN <<c.rq, "footer", 0>> ELSE Start(c.rq + 1)
  /\ c.state = "FOOTERS_RECEIVING" => Kind(c).chunked
  /\ c.state = "FOOTERS_RECEIVED" \/ (c.state \in Replying /\ ~c.discard) =>
          nextToken = Start(c.rq + 1)

\* How much of the body is still to come.
Counted ==
  /\ c.got <= Kind(c).upload
  /\ (c.state \in {"HEADERS_PROCESSED"} \cup Uploading /\ ~c.discard) =>
       IF Kind(c).chunked
       THEN c.remaining \in {0, MHD_SIZE_UNKNOWN} /\ (c.remaining = 0 => c.got = Kind(c).upload)
       ELSE c.remaining = Kind(c).upload - c.got
  /\ c.state \in Uploading => c.remaining # 0
  /\ c.state = "FULL_REQ_RECEIVED" \/ c.response.code = "102" => c.remaining = 0
  /\ (c.state \in Footers \/ (c.state \in Replying /\ ~c.discard)) =>
       c.remaining = 0 /\ c.got = Kind(c).upload

\* Which calls of the access handler have been made, and whether there is a reply.
Called ==
  /\ c.state \in Early => c.calls = "none"
  /\ c.calls = "none" => c.got = 0
  /\ c.calls # "none" \/ c.state \in (Receiving \ {"REQ_LINE_RECEIVING"})
       \/ (c.state \in Replying /\ ~c.discard) => c.rq # 0
  /\ c.state \in Early \cup Uploading \cup Footers => ~c.discard
  /\ c.state \in Early \cup {"HEADERS_PROCESSED"} \cup Uploading \cup Footers =>
       c.response = NoResponse
  /\ c.state = "CONTINUE_SENDING" => c.calls = "first"
  /\ c.state \in {"BODY_RECEIVING"} \cup Footers => c.calls \in {"first", "upload"}
  /\ c.state = "HEADERS_PROCESSED" => c.calls # "upload" /\ (c.discard => c.remaining = 0 /\ c.calls # "none")
  /\ c.state = "FULL_REQ_RECEIVED" => c.calls # "none" /\ (c.discard => c.calls # "upload")
  /\ c.state = "FULL_REQ_RECEIVED" /\ c.response # NoResponse => c.calls = "final"
  /\ c.response.code = "102" => c.calls \in {"first", "final"}

\* Where the thread is: the end of the first and the last call.
InCalls ==
  /\ pc # "idle" \/ c.suspended =>
       /\ c.state = "HEADERS_PROCESSED" => c.calls = "first"
       /\ c.state = "FULL_REQ_RECEIVED" => c.calls = "final"
  /\ pc \in {"handler", "called"} =>
       /\ c.state \in {"HEADERS_PROCESSED", "FULL_REQ_RECEIVED", "START_REPLY"}
       /\ c.calls \in {"first", "final"}
  /\ pc \in {"body", "upload"} => c.state = "BODY_RECEIVING" /\ c.rbuf # <<>>
  /\ pc = "upload" => c.calls = "upload" /\ c.got < Kind(c).upload
  /\ ~MemoryFails /\ c.state = "CLOSED" => c.calls = "none"
  /\ pc = "gone" => c.state = "CLOSED"

Control == Framed /\ Counted /\ Called /\ InCalls

ConnInv == Typed /\ Chained(kinds, input) /\ Control

-----------------------------------------------------------------------------
(* Sequences. *)

LEMMA MovedAcross ==
  ASSUME NEW S, NEW a \in Seq(S), NEW b \in Seq(S), NEW n \in 0..Len(b)
  PROVE  (a \o SubSeq(b, 1, n)) \o Drop(b, n) = a \o b
<1> DEFINE x == SubSeq(b, 1, n)
<1> DEFINE y == SubSeq(b, n + 1, Len(b))
<1>1. x \in Seq(S) /\ y \in Seq(S)
  OBVIOUS
<1>2. x \o y = b
  <2>1. 1 \in 1..(Len(b) + 1) /\ n \in (1 - 1)..Len(b) /\ Len(b) \in n..Len(b)
    OBVIOUS
  <2>2. x \o y = SubSeq(b, 1, Len(b))
    BY ONLY <2>1, b \in Seq(S), ConcatAdjacentSubSeq
  <2> QED BY <2>2, SubSeqFull
<1> HIDE DEF x, y
<1>3. (a \o x) \o y = a \o (x \o y)
  BY <1>1, ConcatAssociative, SMTT(40)
<1> QED BY <1>2, <1>3 DEF x, y, Drop

LEMMA DroppedFirst ==
  ASSUME NEW S, NEW a \in Seq(S), NEW b \in Seq(S), NEW n \in 0..Len(a)
  PROVE  /\ Drop(a, n) \in Seq(S)
         /\ Drop(a, n) \o b = Drop(a \o b, n)
<1>1. Drop(a, n) \in Seq(S) /\ a \o b \in Seq(S) /\ Drop(a, n) \o b \in Seq(S)
  BY DEF Drop
<1>2. Drop(a \o b, n) \in Seq(S) /\ Len(a \o b) = Len(a) + Len(b)
  BY <1>1 DEF Drop
<1>3. Len(Drop(a, n) \o b) = Len(Drop(a \o b, n))
  BY <1>1, <1>2 DEF Drop
<1>4. \A i \in 1..Len(Drop(a, n) \o b) : (Drop(a, n) \o b)[i] = Drop(a \o b, n)[i]
  BY <1>1, <1>2 DEF Drop
<1> QED BY <1>1, <1>2, <1>3, <1>4, SeqEqual

LEMMA DroppedAll ==
  ASSUME NEW S, NEW a \in Seq(S), NEW b \in Seq(S)
  PROVE  Drop(a \o b, Len(a)) = b
<1>1. Drop(a, Len(a)) = <<>>
  BY SMT DEF Drop
<1>2. Drop(a, Len(a)) \o b = Drop(a \o b, Len(a))
  BY DroppedFirst, SMTT(40)
<1> QED BY <1>1, <1>2, ConcatEmptySeq

LEMMA TailIsDrop ==
  ASSUME NEW S, NEW a \in Seq(S), a # <<>>
  PROVE  Tail(a) = Drop(a, 1)
BY TailIsSubSeq DEF Drop

(* What is left of a chained input is chained. *)
LEMMA ChainedDrop ==
  ASSUME NEW s, Chained(kinds, s), NEW n \in 0..Len(s)
  PROVE  /\ Chained(kinds, Drop(s, n))
         /\ \A i \in 0..(Len(s) - n) : After(kinds, Drop(s, n), i) = After(kinds, s, n + i)
<1>1. s \in Seq(Token) /\ Drop(s, n) \in Seq(Token)
  BY DEF Chained, Drop
<1>2. Len(Drop(s, n)) = Len(s) - n /\ \A i \in 1..(Len(s) - n) : Drop(s, n)[i] = s[n + i]
  BY <1>1 DEF Drop
<1>3. \A i \in 0..(Len(s) - n) : After(kinds, Drop(s, n), i) = After(kinds, s, n + i)
  BY <1>1, <1>2, SMTT(40) DEF After
<1>4. ASSUME NEW i \in 1..Len(Drop(s, n))
      PROVE  /\ Drop(s, n)[i][1] \in 1..Len(kinds)
             /\ After(kinds, Drop(s, n), i) = Successor(kinds, Drop(s, n)[i])
  <2>1. n + i \in 1..Len(s)
    BY <1>1, <1>2
  <2>2. s[n + i][1] \in 1..Len(kinds) /\ After(kinds, s, n + i) = Successor(kinds, s[n + i])
    BY <2>1 DEF Chained
  <2> QED BY <1>1, <1>2, <1>3, <2>2
<1>5. ASSUME NEW i \in 1..Len(Drop(s, n)), NEW d \in Nat, i + d <= Len(Drop(s, n)),
             Drop(s, n)[i][2] = "body", Drop(s, n)[i][3] + d <= kinds[Drop(s, n)[i][1]].upload
      PROVE  Drop(s, n)[i + d] = <<Drop(s, n)[i][1], "body", Drop(s, n)[i][3] + d>>
  <2>1. n + i \in 1..Len(s) /\ (n + i) + d <= Len(s) /\ (n + i) + d = n + (i + d)
    BY <1>1, <1>2, <1>5, SMTT(40)
  <2>2. Drop(s, n)[i] = s[n + i] /\ Drop(s, n)[i + d] = s[(n + i) + d]
    BY <1>1, <1>2, <1>5, <2>1, SMTT(40)
  <2> QED BY <1>5, <2>1, <2>2 DEF Chained
<1> QED BY <1>1, <1>3, <1>4, <1>5 DEF Chained

(* Whether a sequence is chained depends on the requests alone. *)
LEMMA ChainedSame ==
  ASSUME NEW s, UNCHANGED kinds, Chained(kinds, s), input' = s
  PROVE  Chained(kinds, input)'
BY DEF Chained, After, Successor, BodyToken, Start

-----------------------------------------------------------------------------
(* Steps that leave the input alone. *)

LEMMA Unmoved ==
  ASSUME c'.rbuf = c.rbuf, UNCHANGED <<wire, kinds>>
  PROVE  /\ input' = input /\ nextToken' = nextToken
         /\ Chained(kinds, input) => Chained(kinds, input)'
BY ZenonT(60) DEF input, nextToken, After, Chained, Successor, BodyToken, Start

(* An unknown size is none of the sizes that are known. *)
LEMMA UnknownSize == MHD_SIZE_UNKNOWN \in Nat /\ MHD_SIZE_UNKNOWN > 100
BY SMT DEF MHD_SIZE_UNKNOWN

LEMMA Bounds ==
  /\ MaxUpload \in Nat /\ MaxUpload < MHD_SIZE_UNKNOWN
  /\ 0 \in Remaining /\ MHD_SIZE_UNKNOWN \in Remaining
  /\ \A n \in 0..MaxUpload : n \in Remaining
BY BoundAssumption, UnknownSize, SMT DEF Remaining

(* The request the connection serves is one the client has sent. *)
LEMMA KindTyped ==
  ASSUME Typed
  PROVE  Kind(c) \in KindType /\ Kind(c).upload \in 0..MaxUpload
<1>1. CASE c.rq = 0
  <2>1. NoKind \in KindType
    BY BoundAssumption, UnknownSize, SMT DEF NoKind, KindType
  <2> QED BY <1>1, <2>1, SMT DEF Kind, KindType
<1>2. CASE c.rq # 0
  <2>1. c.rq \in 1..Len(kinds) /\ kinds \in Seq(KindType)
    BY <1>2 DEF Typed, ConnType
  <2>2. kinds[c.rq] \in KindType
    BY <2>1, ElementOfSeq
  <2> QED BY <1>2, <2>2, SMT DEF Kind, KindType
<1> QED BY <1>1, <1>2


(* A step that keeps the request and does not touch the input. *)
LEMMA Assemble ==
  ASSUME ConnInv, c' \in ConnType, c'.rbuf = c.rbuf, c'.rq = c.rq, pc' \in Steps,
         UNCHANGED <<kinds, wire>>, Control'
  PROVE  ConnInv'
<1>1. Typed'
  BY DEF ConnInv, Typed
<1>2. Chained(kinds, input)'
  BY Unmoved DEF ConnInv
<1> QED BY <1>1, <1>2 DEF ConnInv

LEMMA ParseHeaders ==
  ASSUME ConnInv, IdleParseHeaders, ~Malformed
  PROVE  ConnInv'
<1> DEFINE r == IF Kind(c).chunked THEN MHD_SIZE_UNKNOWN ELSE Kind(c).upload
<1>1. pc = "idle" /\ ~c.suspended /\ c.state = "HEADERS_RECEIVED"
  BY DEF IdleParseHeaders, At
<1>2. Kind(c) \in KindType /\ Kind(c).upload \in 0..MaxUpload /\ r \in Remaining
  BY KindTyped, Bounds DEF ConnInv
<1>3. PICK ka \in {c.keepalive, "CLOSE"} :
        /\ c' = [c EXCEPT !.remaining = r, !.keepalive = ka, !.state = "HEADERS_PROCESSED"]
        /\ pc' = "idle" /\ UNCHANGED <<kinds, wire>>
  BY DEF IdleParseHeaders, Continue, Rest
<1>4. Control'
  BY <1>1, <1>2, <1>3, Unmoved, UnknownSize, Bounds, SMTT(40) DEF ConnInv, Typed, ConnType, KindType, Control, Framed, Counted, Called, InCalls, Kind, Early, Uploading, Footers, Replying, Receiving, Sending, BodyToken, Start
<1>5. c' \in ConnType
  <2> HIDE DEF r
  <2>1. c \in ConnType /\ "HEADERS_PROCESSED" \in States
    BY DEF ConnInv, Typed, States, Receiving
  <2> QED BY <2>1, <1>2, <1>3, Zenon DEF ConnType
<1> QED BY <1>3, <1>4, <1>5, Assemble DEF ConnType, Steps

-----------------------------------------------------------------------------
(* Steps that end in an error. *)

Closed(k, e) ==
  e.state = "CLOSED" /\ e.calls = "none" /\ e.got = 0 /\ e.response = NoResponse

\* The outcomes of closing and of transmit_error_response().
Failed(k, e) ==
  /\ e \in ConnType /\ e.rq = k.rq /\ e.rbuf \in {<<>>, k.rbuf}
  /\ \/ Closed(k, e)
     \/ /\ e.state = "HEADERS_SENDING" /\ e.discard /\ e.response = ErrorResponse
        /\ e.calls = k.calls /\ e.got = k.got
     \/ /\ MemoryFails /\ e.state = "CLOSED" /\ e.discard /\ e.response = NoResponse
        /\ e.calls = k.calls /\ e.got = k.got

LEMMA Responses ==
  LET R == [code : {"none", "102", "101", "204", "200"}, size : Int, reader : BOOLEAN,
               iov : BOOLEAN, enforced : BOOLEAN, strict : BOOLEAN]
  IN NoResponse \in R /\ ErrorResponse \in R /\ \A r \in Replies : r \in R
BY ReplyAssumption, UnknownSize, SMT DEF NoResponse, ErrorResponse, ReplyType

LEMMA ClosingTyped ==
  ASSUME NEW k \in ConnType
  PROVE  /\ Failed(k, MHD_connection_close_(k))
         /\ Failed(k, connection_close_error(k))
         /\ MHD_connection_close_(k).rbuf = k.rbuf /\ connection_close_error(k).rbuf = k.rbuf
         /\ Closed(k, MHD_connection_close_(k)) /\ Closed(k, connection_close_error(k))
<1>1. "CLOSED" \in States /\ "CLEANUP" \in Infos /\ 0 \in Nat
  BY DEF States, Sending, Infos
<1>2. MHD_connection_close_(k) \in ConnType
  BY <1>1, Responses, Zenon DEF ConnType, MHD_connection_close_
<1>3. connection_close_error(k) \in ConnType
  BY <1>1, Responses, ZenonT(60) DEF ConnType, MHD_connection_close_, connection_close_error
<1>4. /\ Closed(k, MHD_connection_close_(k))
      /\ MHD_connection_close_(k).rq = k.rq /\ MHD_connection_close_(k).rbuf = k.rbuf
  BY SMT DEF ConnType, MHD_connection_close_, Closed
<1>5. /\ Closed(k, connection_close_error(k))
      /\ connection_close_error(k).rq = k.rq /\ connection_close_error(k).rbuf = k.rbuf
  BY SMT DEF ConnType, MHD_connection_close_, connection_close_error, Closed
<1> QED BY <1>2, <1>3, <1>4, <1>5 DEF Failed

LEMMA HeaderTyped ==
  ASSUME NEW k \in ConnType
  PROVE  LET h == build_header_response(k)
         IN /\ h \in ConnType /\ h.state = "HEADERS_SENDING" /\ h.response = k.response
            /\ h.rq = k.rq /\ h.rbuf = k.rbuf /\ h.calls = k.calls /\ h.got = k.got
            /\ h.discard = k.discard /\ h.remaining = k.remaining /\ h.suspended = k.suspended
<1> DEFINE b == BodyNeeded(k)
           u == k.response.code = "200" /\ k.response.size = MHD_SIZE_UNKNOWN
           f == /\ k.response.code = "200" /\ (u \/ k.response.enforced)
                /\ ~Kind(k).old /\ ~k.response.strict
           a == IF u /\ ~f THEN "CLOSE" ELSE keepalive_possible(k)
<1>1. b \in BOOLEAN /\ f \in BOOLEAN
  BY DEF BodyNeeded
<1>2. a \in {"UNKNOWN", "USE", "CLOSE", "UPGRADE"}
  BY DEF keepalive_possible
<1>3. build_header_response(k) =
        [k EXCEPT !.send_body = b, !.chunked = f, !.keepalive = a, !.wbuf = TRUE, !.out = 0,
                  !.ready = 0, !.state = "HEADERS_SENDING"]
  BY DEF build_header_response, setup_reply_properties
<1> HIDE DEF b, u, f, a
<1>4. "HEADERS_SENDING" \in States /\ 0 \in Int
  BY DEF States, Sending
<1>5. build_header_response(k) \in ConnType
  <2> DEFINE m == [k EXCEPT !.send_body = b, !.chunked = f, !.keepalive = a]
  <2>1. m \in ConnType
    BY <1>1, <1>2, Zenon DEF ConnType
  <2>2. build_header_response(k) =
          [m EXCEPT !.wbuf = TRUE, !.out = 0, !.ready = 0, !.state = "HEADERS_SENDING"]
    BY <1>3
  <2> HIDE DEF m
  <2> QED BY <2>1, <2>2, <1>4, ZenonT(60) DEF ConnType
<1> QED BY <1>3, <1>5, SMT DEF ConnType

LEMMA ErrorTyped ==
  ASSUME NEW k \in ConnType, NEW e \in transmit_error_response(k)
  PROVE  Failed(k, e)
<1> DEFINE f == [k EXCEPT !.stop_err = TRUE, !.discard = TRUE, !.rbuf = <<>>,
                          !.state = "FULL_REQ_RECEIVED", !.response = NoResponse]
<1> DEFINE q == MHD_queue_response(f, ErrorResponse)
<1> DEFINE g == [q EXCEPT !.keepalive = "CLOSE"]
<1>1. "FULL_REQ_RECEIVED" \in States /\ "HEADERS_SENDING" \in States /\ "CLOSED" \in States
  BY DEF States, Sending
<1>2. f \in ConnType
  BY <1>1, Responses, EmptySeq, Zenon DEF ConnType
<1>3. /\ f.rq = k.rq /\ f.rbuf = <<>> /\ f.calls = k.calls /\ f.got = k.got /\ f.discard
      /\ f.state = "FULL_REQ_RECEIVED" /\ f.response = NoResponse
  BY SMT DEF ConnType
<1> HIDE DEF f
<1>4. /\ q \in ConnType /\ q.rq = k.rq /\ q.rbuf = <<>> /\ q.calls = k.calls /\ q.got = k.got
      /\ q.discard /\ q.response = ErrorResponse
  <2> DEFINE w == IF Kind(f).head \/ ErrorResponse.code # "200" THEN ErrorResponse.size ELSE f.wpos
  <2>1. w \in Int
    BY <1>2, SMT DEF ConnType, ErrorResponse
  <2>2. q = [f EXCEPT !.response = ErrorResponse, !.wpos = w]
    BY <1>3 DEF MHD_queue_response
  <2> HIDE DEF w
  <2>3. q \in ConnType
    BY <1>2, <2>1, <2>2, Responses, ZenonT(60) DEF ConnType
  <2> QED BY <1>2, <1>3, <2>2, <2>3, SMT DEF ConnType
<1> HIDE DEF q
<1>5. Failed(k, build_header_response(g))
  <2>1. g \in ConnType
    BY <1>4, Zenon DEF ConnType
  <2>2. /\ g.rq = k.rq /\ g.rbuf = <<>> /\ g.calls = k.calls /\ g.got = k.got
        /\ g.discard /\ g.response = ErrorResponse
    BY <1>4, SMT DEF ConnType
  <2> HIDE DEF g
  <2> QED BY <2>1, <2>2, HeaderTyped, Zenon DEF Failed
<1>6. Failed(k, connection_close_error(f))
  BY <1>2, <1>3, ClosingTyped DEF Failed, Closed
<1>7. MemoryFails => Failed(k, [f EXCEPT !.state = "CLOSED"])
  <2>1. [f EXCEPT !.state = "CLOSED"] \in ConnType
    BY <1>1, <1>2, Zenon DEF ConnType
  <2> QED BY <1>2, <1>3, <2>1, SMT DEF ConnType, Failed
<1>8. Failed(k, connection_close_error(k))
  BY ClosingTyped
<1> QED BY <1>5, <1>6, <1>7, <1>8 DEF transmit_error_response, f, q, g

LEMMA FailedKeeps ==
  ASSUME ConnInv, Failed(c, c'), UNCHANGED <<kinds, wire>>,
         pc' \in {"poll", "idle", "post", "after_write", "after_fast1", "after_fast2"}
  PROVE  ConnInv'
<1>1. Control'
  <2>1. Kind(c') = Kind(c) /\ Kind(c)' = Kind(c) /\ Kind(c).upload \in Nat
    BY KindTyped, Bounds, SMT DEF ConnInv, Failed, Kind
  <2>2. Framed'
    BY DEF Failed, Closed, Framed, Uploading, Replying, Sending
  <2>3. Counted'
    <3>1. c'.got = 0 \/ (c'.got = c.got /\ c.got <= Kind(c).upload)
      BY DEF ConnInv, Control, Counted, Failed, Closed
    <3>2. /\ c'.state = "CLOSED" \/ (c'.state = "HEADERS_SENDING" /\ c'.discard)
          /\ c'.response.code # "102"
      BY DEF Failed, Closed, NoResponse, ErrorResponse
    <3> QED BY <2>1, <3>1, <3>2, SMT DEF Counted, Uploading, Footers, Replying, Sending
  <2>4. Called'
    BY SMTT(40) DEF ConnInv, Typed, ConnType, Failed, Closed, NoResponse, ErrorResponse, Control, Called,
       Early, Uploading, Footers, Replying, Receiving, Sending
  <2>5. InCalls'
    BY SMT DEF ConnInv, Failed, Closed, Control, InCalls
  <2> QED BY <2>2, <2>3, <2>4, <2>5 DEF Control
<1>2. Typed'
  BY DEF ConnInv, Typed, Failed, Steps
<1>3. Chained(kinds, input)'
  <2>1. CASE c'.rbuf = c.rbuf
    BY <2>1, Unmoved DEF ConnInv
  <2>2. CASE c'.rbuf = <<>>
    <3>1. c.rbuf \in Seq(Token) /\ wire \in Seq(Token)
      BY DEF ConnInv, Typed, ConnType
    <3>2. Drop(input, Len(c.rbuf)) = wire
      BY <3>1, DroppedAll DEF input
    <3>3. input' = wire
      BY <2>2, <3>1 DEF input
    <3>4. Chained(kinds, wire)
      <4>1. Len(c.rbuf) \in 0..Len(input)
        BY <3>1, SMT DEF input
      <4> QED BY <4>1, <3>2, ChainedDrop DEF ConnInv
    <3> QED BY <3>3, <3>4, ChainedSame
  <2> QED BY <2>1, <2>2 DEF Failed
<1> QED BY <1>1, <1>2, <1>3 DEF ConnInv

-----------------------------------------------------------------------------
(* Steps that leave the request alone. *)

\* The thread is in none of the calls of the application.
Plain == {"poll", "resumed", "read", "read_err", "write", "idle", "post",
          "after_write", "after_fast1", "after_fast2"}

SameRequest(k, e) ==
  /\ e \in ConnType /\ e.rbuf = k.rbuf /\ e.rq = k.rq /\ e.got = k.got /\ e.calls = k.calls
  /\ e.discard = k.discard /\ e.remaining = k.remaining
  /\ e.response.code = k.response.code

Small(k, e) == SameRequest(k, e) /\ e.response = k.response

LEMMA SameKind ==
  ASSUME c'.rq = c.rq, UNCHANGED kinds
  PROVE  Kind(c)' = Kind(c) /\ BodyToken(kinds, c.rq, c.got + 1)' = BodyToken(kinds, c'.rq, c'.got + 1)
BY DEF Kind, BodyToken, Start

LEMMA SameState ==
  ASSUME ConnInv, Small(c, c'), c'.state = c.state, UNCHANGED <<kinds, wire>>,
         pc' = pc \/ pc' \in Plain,
         pc' # "idle" \/ c'.suspended => pc # "idle" \/ c.suspended
  PROVE  ConnInv'
<1>1. /\ Kind(c)' = Kind(c) /\ nextToken' = nextToken /\ input' = input
      /\ BodyToken(kinds, c.rq, c.got + 1)' = BodyToken(kinds, c.rq, c.got + 1)
  BY SameKind, Unmoved DEF Small, SameRequest, BodyToken, Start
<1>2. Framed'
  BY <1>1, SMT DEF ConnInv, Control, Framed, Small, SameRequest, Start
<1>3. Counted'
  BY <1>1, SMT DEF ConnInv, Control, Counted, Small, SameRequest
<1>4. Called'
  BY SMT DEF ConnInv, Control, Called, Small, SameRequest
<1>5. InCalls'
  BY <1>1, SMT DEF ConnInv, Control, InCalls, Small, SameRequest, Plain
<1> QED BY <1>2, <1>3, <1>4, <1>5, Assemble DEF Control, Small, SameRequest, Plain, ConnInv, Typed, Steps

(* A step of a reply. *)
LEMMA ReplyStep ==
  ASSUME ConnInv, SameRequest(c, c'), UNCHANGED <<kinds, wire>>, pc' \in Plain,
         c.state \in Replying, c'.state \in (Replying \ {"FULL_REQ_RECEIVED"}) \cup {"UPGRADE"}
  PROVE  ConnInv'
<1>1. /\ Kind(c)' = Kind(c) /\ nextToken' = nextToken /\ input' = input
  BY SameKind, Unmoved DEF SameRequest
<1>2. Framed'
  BY <1>1, SMT DEF ConnInv, Control, Framed, SameRequest, Start, Replying, Sending, Uploading
<1>3. Counted'
  BY <1>1, SMT DEF ConnInv, Control, Counted, SameRequest, Replying, Sending, Uploading, Footers
<1>4. Called'
  BY SMT DEF ConnInv, Control, Called, SameRequest, Replying, Sending, Uploading, Footers, Early, Receiving
<1>5. InCalls'
  BY <1>1, SMT DEF ConnInv, Control, InCalls, SameRequest, Plain, Replying, Sending
<1> QED BY <1>2, <1>3, <1>4, <1>5, Assemble DEF Control, SameRequest, Plain, Steps

(* The single assignments. *)
LEMMA SmallChanges ==
  ASSUME NEW k \in ConnType
  PROVE  /\ Small(k, k)
         /\ \A i \in Infos, b \in BOOLEAN : Small(k, [k EXCEPT !.info = i, !.stale = b])
         /\ \A b \in BOOLEAN : Small(k, [k EXCEPT !.suspended = b])
         /\ \A b \in BOOLEAN : Small(k, [k EXCEPT !.resuming = b])
         /\ Small(k, [k EXCEPT !.suspended = FALSE, !.resuming = FALSE, !.stale = TRUE])
         /\ Small(k, [k EXCEPT !.cont = TRUE])
         /\ \A s \in States : Small(k, [k EXCEPT !.state = s])
<1>1. Small(k, k)
  BY DEF Small, SameRequest
<1>2. ASSUME NEW i \in Infos, NEW b \in BOOLEAN
      PROVE  Small(k, [k EXCEPT !.info = i, !.stale = b])
  <2>1. [k EXCEPT !.info = i, !.stale = b] \in ConnType
    BY Zenon DEF ConnType
  <2> QED BY <2>1, SMT DEF ConnType, Small, SameRequest
<1>3. ASSUME NEW b \in BOOLEAN PROVE Small(k, [k EXCEPT !.suspended = b])
  <2>1. [k EXCEPT !.suspended = b] \in ConnType
    BY Zenon DEF ConnType
  <2> QED BY <2>1, SMT DEF ConnType, Small, SameRequest
<1>4. ASSUME NEW b \in BOOLEAN PROVE Small(k, [k EXCEPT !.resuming = b])
  <2>1. [k EXCEPT !.resuming = b] \in ConnType
    BY Zenon DEF ConnType
  <2> QED BY <2>1, SMT DEF ConnType, Small, SameRequest
<1>5. Small(k, [k EXCEPT !.suspended = FALSE, !.resuming = FALSE, !.stale = TRUE])
  <2>1. [k EXCEPT !.suspended = FALSE, !.resuming = FALSE, !.stale = TRUE] \in ConnType
    BY Zenon DEF ConnType
  <2> QED BY <2>1, SMT DEF ConnType, Small, SameRequest
<1>6. Small(k, [k EXCEPT !.cont = TRUE])
  <2>1. [k EXCEPT !.cont = TRUE] \in ConnType
    BY Zenon DEF ConnType
  <2> QED BY <2>1, SMT DEF ConnType, Small, SameRequest
<1>7. ASSUME NEW s \in States PROVE Small(k, [k EXCEPT !.state = s])
  <2>1. [k EXCEPT !.state = s] \in ConnType
    BY Zenon DEF ConnType
  <2> QED BY <2>1, SMT DEF ConnType, Small, SameRequest
<1> QED BY <1>1, <1>2, <1>3, <1>4, <1>5, <1>6, <1>7

LEMMA InfoTyped ==
  ASSUME NEW k \in ConnType
  PROVE  Small(k, SetInfo(k)) /\ SetInfo(k).state = k.state
<1>1. EventInfo(k) \in Infos
  BY DEF EventInfo, BodyInfo, Infos, ConnType
<1> QED BY <1>1, SmallChanges DEF SetInfo, ConnType

LEMMA ConnTyped == ASSUME ConnInv PROVE c \in ConnType
BY DEF ConnInv, Typed

LEMMA Stays ==
  ASSUME ConnInv, c' = c, UNCHANGED <<kinds, wire>>, pc' \in Plain, pc' = "idle" \/ pc # "idle" \/ c.suspended
  PROVE  ConnInv'
BY ConnTyped, SmallChanges, SameState

-----------------------------------------------------------------------------
(* The daemon and the other thread of the application. *)

LEMMA InvOtherThreadResumes == ConnInv /\ OtherThreadResumes => ConnInv'
<1> SUFFICES ASSUME ConnInv, OtherThreadResumes PROVE ConnInv'
  OBVIOUS
<1>1. c' = [c EXCEPT !.resuming = TRUE] /\ UNCHANGED <<kinds, wire, pc>>
  BY DEF OtherThreadResumes
<1>2. Small(c, c') /\ c'.state = c.state /\ c'.suspended = c.suspended
  BY <1>1, ConnTyped, SmallChanges DEF ConnType
<1> QED BY <1>1, <1>2, SameState

LEMMA InvResume == ConnInv /\ Resume => ConnInv'
<1> SUFFICES ASSUME ConnInv, Resume PROVE ConnInv'
  OBVIOUS
<1>1. /\ pc = "poll" /\ pc' = "resumed" /\ UNCHANGED <<kinds, wire>>
      /\ c' = [c EXCEPT !.suspended = FALSE, !.resuming = FALSE, !.stale = TRUE]
  BY DEF Resume
<1>2. Small(c, c') /\ c'.state = c.state
  BY <1>1, ConnTyped, SmallChanges DEF ConnType
<1> QED BY <1>1, <1>2, SameState DEF Plain

LEMMA InvDispatch ==
  ASSUME ConnInv, NEW r \in BOOLEAN, NEW w \in BOOLEAN, NEW f \in BOOLEAN, Dispatch(r, w, f)
  PROVE  ConnInv'
<1>1. pc \in {"poll", "resumed"} /\ UNCHANGED <<kinds, wire>>
  BY DEF Dispatch
<1>2. CASE c' = c
  <2>1. pc' \in {"read_err", "read", "write", "idle"}
    BY DEF Dispatch
  <2> QED BY <1>1, <1>2, <2>1, Stays DEF Plain
<1>3. CASE c' = MHD_connection_close_(c) /\ pc' = "idle"
  BY <1>1, <1>3, ConnTyped, ClosingTyped, FailedKeeps
<1> QED BY <1>2, <1>3 DEF Dispatch

LEMMA InvAfterIdle == ConnInv /\ AfterIdle => ConnInv'
<1> SUFFICES ASSUME ConnInv, AfterIdle PROVE ConnInv'
  OBVIOUS
<1>1. /\ pc # "idle" /\ c' = c /\ UNCHANGED <<kinds, wire>>
      /\ pc' \in {"write", "after_fast1", "after_fast2", "poll"}
  BY DEF AfterIdle
<1> QED BY <1>1, Stays DEF Plain

LEMMA InvReadClosed == ConnInv /\ ReadClosed => ConnInv'
<1> SUFFICES ASSUME ConnInv, ReadClosed PROVE ConnInv'
  OBVIOUS
<1> DEFINE k == [c EXCEPT !.read_closed = TRUE, !.discard = @ \/ c.state \in Receiving]
<1>1. c' = MHD_connection_close_(k) /\ pc' = "idle" /\ UNCHANGED <<kinds, wire>>
  BY DEF ReadClosed
<1>2. k \in ConnType
  BY ConnTyped, Zenon DEF ConnType
<1>3. k.rq = c.rq /\ k.rbuf = c.rbuf
  BY ConnTyped, SMT DEF ConnType
<1> HIDE DEF k
<1>4. Failed(c, c')
  BY <1>1, <1>2, <1>3, ClosingTyped DEF Failed, Closed
<1> QED BY <1>1, <1>4, FailedKeeps

LEMMA InvReadError == ConnInv /\ ReadError => ConnInv'
<1> SUFFICES ASSUME ConnInv, ReadError PROVE ConnInv'
  OBVIOUS
<1> DEFINE k == [c EXCEPT !.discard = @ \/ c.state \in Receiving]
<1>1. pc' = "idle" /\ UNCHANGED <<kinds, wire>>
  BY DEF ReadError
<1>2. k \in ConnType
  BY ConnTyped, Zenon DEF ConnType
<1>3. k.rq = c.rq /\ k.rbuf = c.rbuf
  BY ConnTyped, SMT DEF ConnType
<1>4. c' = c \/ c' = connection_close_error(c) \/ c' = MHD_connection_close_(k)
  BY DEF ReadError
<1> HIDE DEF k
<1>5. CASE c' = c
  BY <1>1, <1>5, Stays DEF Plain
<1>6. CASE c' = connection_close_error(c)
  BY <1>1, <1>6, ConnTyped, ClosingTyped, FailedKeeps
<1>7. CASE c' = MHD_connection_close_(k)
  <2>1. Failed(c, c')
    BY <1>7, <1>2, <1>3, ClosingTyped DEF Failed, Closed
  <2> QED BY <1>1, <2>1, FailedKeeps
<1> QED BY <1>4, <1>5, <1>6, <1>7

LEMMA InvWriteError == ConnInv /\ WriteError => ConnInv'
BY ConnTyped, ClosingTyped, FailedKeeps DEF WriteError

LEMMA InvMalformed == ConnInv /\ Malformed => ConnInv'
BY ConnTyped, ErrorTyped, FailedKeeps DEF Malformed, Continue, Rest

AfterTyped == after \in {"poll", "write", "fast1", "fast2"}

LEMMA ReturnedTyped ==
  ASSUME AfterTyped
  PROVE  Returned \in {"poll", "after_write", "after_fast1", "after_fast2"}
BY DEF AfterTyped, Returned

LEMMA InvIdleTimeout == ConnInv /\ AfterTyped /\ IdleTimeout => ConnInv'
BY ConnTyped, ReturnedTyped, ClosingTyped, FailedKeeps DEF IdleTimeout, Rest

LEMMA InvIdleEnd == ConnInv /\ AfterTyped /\ IdleEnd => ConnInv'
<1> SUFFICES ASSUME ConnInv, AfterTyped, IdleEnd PROVE ConnInv'
  OBVIOUS
<1>1. /\ pc = "post" /\ pc' \in {"poll", "after_write", "after_fast1", "after_fast2"}
      /\ UNCHANGED <<kinds, wire>>
  BY ReturnedTyped DEF IdleEnd, Rest
<1>2. \/ c' = c \/ c' = SetInfo(c) \/ c' = [c EXCEPT !.info = "PROCESS", !.stale = FALSE]
      \/ \E e \in handle_recv_no_space(c) : c' = SetInfo(e)
  BY DEF IdleEnd, MHD_connection_update_event_loop_info
<1>3. CASE c' = c
  BY <1>1, <1>3, Stays DEF Plain
<1>4. CASE c' = SetInfo(c)
  <2>1. Small(c, c') /\ c'.state = c.state
    BY <1>4, ConnTyped, InfoTyped
  <2> QED BY <1>1, <2>1, SameState DEF Plain
<1>5. CASE c' = [c EXCEPT !.info = "PROCESS", !.stale = FALSE]
  <2>1. Small(c, c') /\ c'.state = c.state
    BY <1>5, ConnTyped, SmallChanges DEF ConnType, Infos
  <2> QED BY <1>1, <2>1, SameState DEF Plain
<1>6. CASE \E e \in handle_recv_no_space(c) : c' = SetInfo(e)
  <2>1. PICK e \in handle_recv_no_space(c) : c' = SetInfo(e)
    BY <1>6
  <2>2. Failed(c, e)
    BY ConnTyped, ClosingTyped, ErrorTyped DEF handle_recv_no_space
  <2>3. Small(e, c') /\ c'.state = e.state
    BY <2>1, <2>2, InfoTyped DEF Failed
  <2>4. Failed(c, c')
    BY <2>2, <2>3, Zenon DEF Failed, Closed, Small, SameRequest
  <2> QED BY <1>1, <2>4, FailedKeeps
<1> QED BY <1>2, <1>3, <1>4, <1>5, <1>6

-----------------------------------------------------------------------------
(* The access handler. *)

LEMMA InvIdleFirstCall == ConnInv /\ IdleFirstCall => ConnInv'
<1> SUFFICES ASSUME ConnInv, IdleFirstCall PROVE ConnInv'
  OBVIOUS
<1>1. /\ pc = "idle" /\ ~c.suspended /\ c.state = "HEADERS_PROCESSED" /\ c.response = NoResponse
      /\ UNCHANGED <<kinds, wire>>
  BY DEF IdleFirstCall, At, CallHandler, Rest, ConnInv, Control, Called
<1>2. c' = [c EXCEPT !.calls = "first"] /\ pc' = "handler"
  BY <1>1 DEF IdleFirstCall, CallHandler
<1>3. c' \in ConnType
  BY <1>2, ConnTyped, Zenon DEF ConnType
<1>4. /\ c'.calls = "first" /\ c'.state = c.state /\ c'.rbuf = c.rbuf /\ c'.rq = c.rq /\ c'.got = c.got
      /\ c'.discard = c.discard /\ c'.remaining = c.remaining /\ c'.response = c.response
      /\ c'.suspended = c.suspended
  BY <1>2, ConnTyped, SMT DEF ConnType
<1>5. Kind(c)' = Kind(c) /\ nextToken' = nextToken /\ BodyToken(kinds, c.rq, c.got + 1)' = BodyToken(kinds, c.rq, c.got + 1)
  BY <1>1, <1>4, Unmoved, SameKind
<1>6. Framed'
  BY <1>1, <1>4, <1>5, SMT DEF ConnInv, Control, Framed, Uploading, Replying, Sending, Start
<1>7. Counted'
  BY <1>1, <1>4, <1>5, SMT DEF ConnInv, Control, Counted, Uploading, Footers, Replying, Sending
<1>8. Called'
  BY <1>1, <1>4, <1>5, SMT DEF ConnInv, Control, Called, NoResponse, Early, Uploading, Footers, Replying, Sending, Receiving
<1>9. InCalls'
  BY <1>1, <1>2, <1>4, <1>5, SMT DEF ConnInv, Control, InCalls
<1> QED BY <1>1, <1>2, <1>3, <1>4, <1>6, <1>7, <1>8, <1>9, Assemble DEF Control, Steps

LEMMA InvIdleFinalCall == ConnInv /\ IdleFinalCall => ConnInv'
<1> SUFFICES ASSUME ConnInv, IdleFinalCall PROVE ConnInv'
  OBVIOUS
<1>1. /\ pc = "idle" /\ ~c.suspended /\ c.state = "FULL_REQ_RECEIVED"
      /\ UNCHANGED <<kinds, wire>>
  BY DEF IdleFinalCall, At, CallHandler, Rest, ConnInv, Control, Called
<1>2. \/ c.response # NoResponse /\ c' = c /\ pc' = "called"
      \/ c.response = NoResponse /\ c' = [c EXCEPT !.calls = "final"] /\ pc' = "handler"
  BY <1>1 DEF IdleFinalCall, CallHandler
<1>3. c' \in ConnType
  BY <1>2, ConnTyped, ZenonT(60) DEF ConnType
<1>4. /\ c'.state = c.state /\ c'.rbuf = c.rbuf /\ c'.rq = c.rq /\ c'.got = c.got
      /\ c'.discard = c.discard /\ c'.remaining = c.remaining /\ c'.response = c.response
      /\ c'.suspended = c.suspended
      /\ pc' = "handler" => c'.calls = "final"
      /\ pc' = "called" => c'.calls = c.calls
  BY <1>2, ConnTyped, SMT DEF ConnType
<1>5. Kind(c)' = Kind(c) /\ nextToken' = nextToken /\ BodyToken(kinds, c.rq, c.got + 1)' = BodyToken(kinds, c.rq, c.got + 1)
  BY <1>1, <1>4, Unmoved, SameKind
<1>6. Framed'
  BY <1>1, <1>4, <1>5, SMT DEF ConnInv, Control, Framed, Uploading, Replying, Sending, Start
<1>7. Counted'
  BY <1>1, <1>4, <1>5, SMT DEF ConnInv, Control, Counted, Uploading, Footers, Replying, Sending
<1>8. Called'
  BY <1>1, <1>2, <1>4, <1>5, SMT DEF ConnInv, Control, Called, NoResponse, Early, Uploading, Footers, Replying, Sending, Receiving
<1>9. InCalls'
  BY <1>1, <1>2, <1>4, <1>5, SMT DEF ConnInv, Control, Called, InCalls
<1> QED BY <1>1, <1>2, <1>3, <1>4, <1>6, <1>7, <1>8, <1>9, Assemble DEF Control, Steps

LEMMA InvAfterFirstCall == ConnInv /\ AfterFirstCall => ConnInv'
<1> SUFFICES ASSUME ConnInv, AfterFirstCall PROVE ConnInv'
  OBVIOUS
<1>1. /\ pc = "called" /\ c.state = "HEADERS_PROCESSED" /\ c.response = NoResponse
      /\ c.calls = "first" /\ UNCHANGED <<kinds, wire>>
  BY DEF AfterFirstCall, Continue, Break, Rest, ConnInv, Control, Called, InCalls
<1>2. CASE c.suspended
  BY <1>1, <1>2, Stays DEF AfterFirstCall, Continue, Plain
<1>3. CASE ~c.suspended
  <2> DEFINE s == IF need_100_continue(c) /\ c.rbuf = <<>> THEN "CONTINUE_SENDING"
                  ELSE IF c.remaining = 0 THEN "FULL_REQ_RECEIVED" ELSE "BODY_RECEIVING"
  <2> DEFINE d == c.discard \/ (c.response # NoResponse /\ c.remaining # 0)
             m == IF c.response # NoResponse /\ c.remaining # 0 THEN 0 ELSE c.remaining
  <2>1. /\ c' \in {[c EXCEPT !.state = s], [c EXCEPT !.discard = d, !.remaining = m, !.state = s]}
        /\ pc' = "idle" \/ (pc' = "post" /\ s = "CONTINUE_SENDING")
    BY <1>1, <1>3, Zenon DEF AfterFirstCall, Continue, Break
  <2>0. d = c.discard /\ m = c.remaining
    BY <1>1, ConnTyped DEF ConnType
  <2> HIDE DEF d, m, s
  <2>2. /\ c'.state = s /\ c'.rbuf = c.rbuf /\ c'.rq = c.rq /\ c'.got = c.got
        /\ c'.discard = c.discard /\ c'.remaining = c.remaining /\ c'.response = c.response
        /\ c'.suspended = c.suspended /\ c'.calls = c.calls
    <3>1. CASE c' = [c EXCEPT !.state = s]
      BY <3>1, ConnTyped, SMT DEF ConnType
    <3>2. CASE c' = [c EXCEPT !.discard = d, !.remaining = m, !.state = s]
      BY <2>0, <3>2, ConnTyped, SMT DEF ConnType
    <3> QED BY <2>1, <3>1, <3>2
  <2>3. /\ Kind(c)' = Kind(c) /\ nextToken' = nextToken
        /\ BodyToken(kinds, c.rq, c.got + 1)' = BodyToken(kinds, c.rq, c.got + 1)
    BY <1>1, <2>2, Unmoved, SameKind
  <2>4. /\ s = "CONTINUE_SENDING" => c.remaining # 0
        /\ s = "FULL_REQ_RECEIVED" => c.remaining = 0
        /\ s = "BODY_RECEIVING" => c.remaining # 0
        /\ s \in {"CONTINUE_SENDING", "FULL_REQ_RECEIVED", "BODY_RECEIVING"}
    BY DEF need_100_continue, s
  <2>5. c' \in ConnType
    <3>1. s \in States /\ c.discard \in BOOLEAN /\ c.remaining \in Remaining
      BY <2>4, ConnTyped DEF States, Receiving, ConnType
    <3>2. CASE c' = [c EXCEPT !.state = s]
      BY <3>1, <3>2, ConnTyped, Zenon DEF ConnType
    <3>3. CASE c' = [c EXCEPT !.discard = d, !.remaining = m, !.state = s]
      BY <3>1, <2>0, <3>3, ConnTyped, ZenonT(60) DEF ConnType
    <3> QED BY <2>1, <3>2, <3>3
  <2>6. Framed'
    BY <1>1, <2>2, <2>3, <2>4, SMT DEF ConnInv, Control, Framed, Called, Uploading, Replying, Sending, Start
  <2>7. Counted'
    <3>1. c.got \in Nat /\ Kind(c).upload \in Nat
      BY ConnTyped, KindTyped, Bounds DEF ConnInv, ConnType
    <3> QED BY <3>1, <1>1, <2>2, <2>3, <2>4, SMT DEF ConnInv, Control, Counted, Called, Uploading, Footers,
            Replying, Sending
  <2>8. Called'
    BY <1>1, <2>2, <2>4, SMT DEF ConnInv, Control, Called, NoResponse, Early, Uploading, Footers,
       Replying, Sending, Receiving
  <2>9. InCalls'
    BY <1>1, <1>3, <2>1, <2>2, <2>3, <2>4, SMT DEF ConnInv, Control, InCalls
  <2> QED BY <1>1, <2>1, <2>2, <2>5, <2>6, <2>7, <2>8, <2>9, Assemble DEF Control, Steps
<1> QED BY <1>2, <1>3, ConnTyped DEF ConnType

LEMMA InvAfterFinalCall == ConnInv /\ AfterFinalCall => ConnInv'
<1> SUFFICES ASSUME ConnInv, AfterFinalCall PROVE ConnInv'
  OBVIOUS
<1>1. pc = "called" /\ c.state = "FULL_REQ_RECEIVED" /\ UNCHANGED <<kinds, wire>>
  BY DEF AfterFinalCall, Continue, Break, Goto, Rest
<1>2. CASE c' = c /\ pc' = "post"
  BY <1>1, <1>2, Stays DEF Plain
<1>3. CASE c' = [c EXCEPT !.state = "START_REPLY"] /\ pc' = "idle"
  <2>1. SameRequest(c, c') /\ c'.state = "START_REPLY"
    BY <1>3, ConnTyped, SmallChanges DEF ConnType, States, Small
  <2> QED BY <1>1, <1>3, <2>1, ReplyStep DEF Plain, Replying
<1> QED BY <1>2, <1>3 DEF AfterFinalCall, Continue, Break, Goto

LEMMA InvAfterOtherCall == ConnInv /\ AfterOtherCall => ConnInv'
BY Stays DEF AfterOtherCall, Continue, Rest, Plain

LEMMA InvAppReturns == ConnInv /\ AppReturns => ConnInv'
<1> SUFFICES ASSUME ConnInv, AppReturns PROVE ConnInv'
  OBVIOUS
<1>1. pc = "handler" /\ pc' = "called" /\ UNCHANGED <<c, kinds, wire>>
  BY DEF AppReturns
<1>2. Control'
  <2>1. /\ Kind(c)' = Kind(c) /\ nextToken' = nextToken /\ input' = input
        /\ BodyToken(kinds, c.rq, c.got + 1)' = BodyToken(kinds, c.rq, c.got + 1)
    BY <1>1, Unmoved, SameKind
  <2>2. Framed'
    BY <1>1, <2>1, SMT DEF ConnInv, Control, Framed, Start
  <2>3. Counted'
    BY <1>1, <2>1, SMT DEF ConnInv, Control, Counted
  <2>4. Called' /\ InCalls'
    BY <1>1, SMT DEF ConnInv, Control, Called, InCalls
  <2> QED BY <2>2, <2>3, <2>4 DEF Control
<1> QED BY <1>1, <1>2, ConnTyped, Assemble DEF Steps

LEMMA InvAppSuspends == ConnInv /\ AppSuspends => ConnInv'
<1> SUFFICES ASSUME ConnInv, AppSuspends PROVE ConnInv'
  OBVIOUS
<1>1. /\ pc \in {"handler", "upload"} /\ c' = [c EXCEPT !.suspended = TRUE]
      /\ UNCHANGED <<kinds, wire, pc>>
  BY DEF AppSuspends
<1>2. Small(c, c') /\ c'.state = c.state
  BY <1>1, ConnTyped, SmallChanges DEF ConnType
<1> QED BY <1>1, <1>2, SameState

LEMMA InvAppFails == ConnInv /\ AppFails => ConnInv'
BY ConnTyped, ClosingTyped, FailedKeeps DEF AppFails, Continue, Rest

(* MHD_queue_response(), in the access handler, for a suspended connection or while the daemon *)
(* waits: the last call was the first or the final one. *)
LEMMA InvQueues ==
  ASSUME ConnInv, NEW r \in Replies, Queueable(c, r), c' = MHD_queue_response(c, r),
         UNCHANGED <<kinds, wire>>, pc # "idle" \/ c.suspended,
         pc' = pc \/ (pc' = "idle" /\ ~c.suspended)
  PROVE  ConnInv'
<1> DEFINE w == IF Kind(c).head \/ r.code # "200" THEN r.size ELSE c.wpos
           q == [c EXCEPT !.response = r, !.wpos = w]
           first == c.state = "HEADERS_PROCESSED"
<1>1. /\ c.state \in {"HEADERS_PROCESSED", "FULL_REQ_RECEIVED"} /\ c.response = NoResponse
      /\ pc # "upload" /\ pc # "body" /\ pc # "gone"
      /\ first => c.calls = "first"
      /\ ~first => c.calls = "final"
  BY DEF Queueable, ConnInv, Control, InCalls
<1>2. w \in Int /\ r \in [code : {"none", "102", "101", "204", "200"}, size : Int, reader : BOOLEAN,
               iov : BOOLEAN, enforced : BOOLEAN, strict : BOOLEAN]
      /\ r # NoResponse
  BY Responses, ReplyAssumption, ConnTyped, SMT DEF ConnType, NoResponse
<1>3. q \in ConnType
  <2> HIDE DEF w
  <2> QED BY <1>2, ConnTyped, Zenon DEF ConnType
<1>4. /\ q.state = c.state /\ q.rbuf = c.rbuf /\ q.rq = c.rq /\ q.got = c.got /\ q.calls = c.calls
      /\ q.suspended = c.suspended /\ q.response = r /\ q.discard = c.discard /\ q.remaining = c.remaining
  BY ConnTyped, SMT DEF ConnType
<1> HIDE DEF q
<1>5. /\ c' \in ConnType
      /\ c'.rbuf = c.rbuf /\ c'.rq = c.rq /\ c'.got = c.got /\ c'.calls = c.calls
      /\ c'.suspended = c.suspended /\ c'.response = r
      /\ first => c'.discard /\ c'.state = "START_REPLY" /\ c'.remaining = 0
      /\ ~first => c'.discard = c.discard /\ c'.state = c.state /\ c'.remaining = c.remaining
  <2>1. CASE first
    <3>1. c' = [q EXCEPT !.discard = TRUE, !.state = "START_REPLY", !.remaining = 0]
      BY <2>1 DEF MHD_queue_response, q
    <3>2. "START_REPLY" \in States
      BY DEF States
    <3>3. c' \in ConnType
      BY <1>3, <3>1, <3>2, Bounds, ZenonT(60) DEF ConnType
    <3> QED BY <1>3, <1>4, <2>1, <3>1, <3>3, SMT DEF ConnType
  <2>2. CASE ~first
    <3>1. c' = q
      BY <2>2 DEF MHD_queue_response, q
    <3> QED BY <1>3, <1>4, <2>2, <3>1
  <2> QED BY <2>1, <2>2
<1>6. /\ Kind(c)' = Kind(c) /\ nextToken' = nextToken
  BY <1>5, Unmoved, SameKind
<1>7. Framed'
  BY <1>1, <1>5, <1>6, SMT DEF ConnInv, Control, Framed, Uploading, Replying, Sending, Start
<1>8. Counted'
  BY <1>1, <1>5, <1>6, SMT DEF ConnInv, Control, Counted, Uploading, Footers, Replying, Sending
<1>9. Called'
  BY <1>1, <1>5, SMT DEF ConnInv, Control, Called, Early, Uploading, Footers, Replying, Sending, Receiving
<1>10. InCalls'
  BY <1>1, <1>5, <1>6, SMT DEF ConnInv, Control, InCalls
<1>11. pc' \in Steps
  BY DEF ConnInv, Typed, Steps
<1> QED BY <1>5, <1>7, <1>8, <1>9, <1>10, <1>11, Assemble DEF Control

LEMMA InvAppQueues == ConnInv /\ AppQueues => ConnInv'
BY InvQueues DEF AppQueues

LEMMA InvOtherThreadQueues == ConnInv /\ OtherThreadQueues => ConnInv'
<1> SUFFICES ASSUME ConnInv, OtherThreadQueues PROVE ConnInv'
  OBVIOUS
<1>1. pc # "idle" \/ c.suspended
  BY DEF OtherThreadQueues
<1>2. pc' = pc \/ (pc' = "idle" /\ ~c.suspended)
  BY DEF OtherThreadQueues
<1> QED BY <1>1, <1>2, InvQueues DEF OtherThreadQueues

(* handle_idle() leaves its loop and waits for something. *)
LEMMA Leaves ==
  ASSUME ConnInv, c' = c, pc' = "post", UNCHANGED <<kinds, wire>>,
         c.state \notin {"HEADERS_PROCESSED", "FULL_REQ_RECEIVED"}
  PROVE  ConnInv'
<1>1. /\ Kind(c)' = Kind(c) /\ nextToken' = nextToken /\ input' = input
      /\ BodyToken(kinds, c.rq, c.got + 1)' = BodyToken(kinds, c.rq, c.got + 1)
  BY Unmoved, SameKind
<1>2. Framed'
  BY <1>1, SMT DEF ConnInv, Control, Framed, Start
<1>3. Counted'
  BY <1>1, SMT DEF ConnInv, Control, Counted
<1>4. Called' /\ InCalls'
  BY SMT DEF ConnInv, Control, Called, InCalls
<1> QED BY <1>2, <1>3, <1>4, ConnTyped, Assemble DEF Control, Steps

(* The changes of state that need nothing else, while the request is received. *)
LEMMA InvGoto ==
  ASSUME ConnInv, NEW s, c' = [c EXCEPT !.state = s], pc' = "idle", UNCHANGED <<kinds, wire>>,
         ~c.suspended,
         \/ c.state = "REQ_LINE_RECEIVED" /\ s = "REQ_HEADERS_RECEIVING"
         \/ c.state = "CONTINUE_SENDING" /\ s = "BODY_RECEIVING"
         \/ c.state = "BODY_RECEIVED" /\ s = IF Kind(c).chunked THEN "FOOTERS_RECEIVING"
                                             ELSE "FULL_REQ_RECEIVED"
         \/ c.state = "FOOTERS_RECEIVED" /\ s = "FULL_REQ_RECEIVED"
  PROVE  ConnInv'
<1>1. s \in States
  BY DEF States, Receiving
<1>2. Small(c, c') /\ c'.state = s /\ c'.suspended = c.suspended
  BY <1>1, ConnTyped, SmallChanges DEF ConnType
<1>3. /\ Kind(c)' = Kind(c) /\ nextToken' = nextToken
      /\ BodyToken(kinds, c.rq, c.got + 1)' = BodyToken(kinds, c.rq, c.got + 1)
  BY <1>2, Unmoved, SameKind DEF Small, SameRequest
<1>4. Framed'
  BY <1>2, <1>3, SMT DEF ConnInv, Control, Framed, Small, SameRequest, Start, Uploading, Replying, Sending
<1>5. Counted'
  BY <1>2, <1>3, SMT DEF ConnInv, Control, Counted, Called, Small, SameRequest, Uploading, Footers, Replying, Sending
<1>6. Called'
  BY <1>2, SMT DEF ConnInv, Control, Called, Small, SameRequest, Early, Uploading, Footers, Replying, Sending, Receiving
<1>7. InCalls'
  BY <1>2, <1>3, SMT DEF ConnInv, Control, InCalls
<1> QED BY <1>2, <1>4, <1>5, <1>6, <1>7, Assemble DEF Control, Steps, Small, SameRequest

-----------------------------------------------------------------------------
(* The steps of handle_idle() that do not touch the input. *)

\* The ways on from a step of handle_idle().
LEMMA InvIdleParseHeaders == ConnInv /\ IdleParseHeaders => ConnInv'
BY ParseHeaders, InvMalformed

LEMMA InvIdleRequestLineReceived == ConnInv /\ IdleRequestLineReceived => ConnInv'
<1> SUFFICES ASSUME ConnInv, IdleRequestLineReceived PROVE ConnInv'
  OBVIOUS
<1>1. /\ pc = "idle" /\ ~c.suspended /\ c.state = "REQ_LINE_RECEIVED" /\ pc' = "idle"
      /\ c' = [c EXCEPT !.state = "REQ_HEADERS_RECEIVING"] /\ UNCHANGED <<kinds, wire>>
  BY DEF IdleRequestLineReceived, At, Goto, Continue, Rest
<1> QED BY <1>1, InvGoto

LEMMA InvIdleBodyReceived == ConnInv /\ IdleBodyReceived => ConnInv'
BY InvGoto DEF IdleBodyReceived, At, Goto, Continue, Rest

LEMMA InvIdleFootersReceived == ConnInv /\ IdleFootersReceived => ConnInv'
BY InvGoto DEF IdleFootersReceived, At, Goto, Continue, Rest

LEMMA InvIdleContinue == ConnInv /\ IdleContinue => ConnInv'
<1> SUFFICES ASSUME ConnInv, IdleContinue PROVE ConnInv'
  OBVIOUS
<1>1. pc = "idle" /\ ~c.suspended /\ c.state = "CONTINUE_SENDING" /\ UNCHANGED <<kinds, wire>>
  BY DEF IdleContinue, At, Goto, Continue, Break, Rest
<1>2. CASE c' = c /\ pc' = "post"
  BY <1>1, <1>2, Leaves
<1>3. CASE c' = [c EXCEPT !.state = "BODY_RECEIVING"] /\ pc' = "idle"
  BY <1>1, <1>3, InvGoto
<1> QED BY <1>2, <1>3 DEF IdleContinue, Goto, Continue, Break

LEMMA InvIdleNothing == ConnInv /\ IdleNothing => ConnInv'
BY Leaves DEF IdleNothing, At, Break, Rest

LEMMA InvIdleSuspended == ConnInv /\ IdleSuspended => ConnInv'
BY Stays DEF IdleSuspended, Break, Rest, Plain

LEMMA InvIdleClosed == ConnInv /\ IdleClosed => ConnInv'
<1> SUFFICES ASSUME ConnInv, IdleClosed PROVE ConnInv'
  OBVIOUS
<1>1. c.state = "CLOSED" /\ pc' = "gone" /\ UNCHANGED <<c, kinds, wire>>
  BY DEF IdleClosed, At
<1>2. Control'
  <2>1. /\ Kind(c)' = Kind(c) /\ nextToken' = nextToken /\ input' = input
    BY <1>1, Unmoved, SameKind
  <2>2. Framed'
    BY <1>1, SMT DEF Framed, Uploading, Replying, Sending
  <2>3. Counted'
    BY <1>1, <2>1, SMT DEF ConnInv, Control, Counted
  <2>4. Called' /\ InCalls'
    BY <1>1, SMT DEF ConnInv, Control, Called, InCalls
  <2> QED BY <2>2, <2>3, <2>4 DEF Control
<1> QED BY <1>1, <1>2, ConnTyped, Assemble DEF Steps

-----------------------------------------------------------------------------
(* The reply. *)

LEMMA LeftTyped == ASSUME NEW k \in ConnType PROVE Left(k) \in Int /\ Min(MaxRead, Left(k)) \in Int
<1>1. k.response.size \in Int /\ k.wpos \in Int /\ MaxStream \in Int /\ MaxRead \in Int
  BY BoundAssumption, UnknownSize, SMT DEF ConnType
<1> QED BY <1>1, SMT DEF Left, Min

LEMMA EndedTyped ==
  ASSUME NEW k \in ConnType
  PROVE  SameRequest(k, Ended(k)) /\ Ended(k).state = k.state
<1> DEFINE r == [k.response EXCEPT !.size = k.wpos]
<1>1. /\ r \in [code : {"none", "102", "101", "204", "200"}, size : Int, reader : BOOLEAN,
               iov : BOOLEAN, enforced : BOOLEAN, strict : BOOLEAN]
      /\ r.code = k.response.code
  BY SMT DEF ConnType
<1>2. Ended(k) = [k EXCEPT !.response = r]
  BY DEF Ended
<1> HIDE DEF r
<1>3. Ended(k) \in ConnType
  BY <1>1, <1>2, ZenonT(60) DEF ConnType
<1> QED BY <1>1, <1>2, <1>3, SMT DEF ConnType, SameRequest

LEMMA EndedCloses ==
  ASSUME NEW k \in ConnType
  PROVE  Failed(k, MHD_connection_close_(Ended(k))) /\ Failed(k, connection_close_error(Ended(k)))
<1>1. Ended(k) \in ConnType /\ Ended(k).rq = k.rq /\ Ended(k).rbuf = k.rbuf
  BY EndedTyped DEF SameRequest
<1>2. /\ Failed(Ended(k), MHD_connection_close_(Ended(k))) /\ Failed(Ended(k), connection_close_error(Ended(k)))
      /\ Closed(k, MHD_connection_close_(Ended(k))) /\ Closed(k, connection_close_error(Ended(k)))
  BY <1>1, ClosingTyped DEF Closed
<1> QED BY <1>1, <1>2, Zenon DEF Failed

LEMMA SuspendingsTyped ==
  ASSUME NEW k \in ConnType, NEW s \in Suspendings(k)
  PROVE  Small(k, s) /\ s.state = k.state
BY SmallChanges DEF Suspendings, ConnType

LEMMA SameRequestTrans ==
  ASSUME NEW k, NEW l, NEW m, SameRequest(k, l), SameRequest(l, m)
  PROVE  SameRequest(k, m)
BY Zenon DEF SameRequest

\* What try_ready_normal_body() may return.
LEMMA NormalOutcomes ==
  ASSUME NEW k, NEW t \in try_ready_normal_body(k)
  PROVE  \/ t = <<TRUE, k>>
         \/ t = <<FALSE, connection_close_error(k)>>
         \/ \E n \in 1..Min(MaxRead, Left(k)) : \E s \in Suspendings([k EXCEPT !.ready = n]) : t = <<TRUE, s>>
         \/ \E s \in Suspendings([k EXCEPT !.state = "NORMAL_BODY_UNREADY"]) : t = <<FALSE, s>>
         \/ t = <<FALSE, MHD_connection_close_(Ended(k))>>
         \/ t = <<FALSE, connection_close_error(Ended(k))>>
BY Zenon DEF try_ready_normal_body

LEMMA NormalBodyTyped ==
  ASSUME NEW k \in ConnType, NEW t \in try_ready_normal_body(k)
  PROVE  \/ t[1] = FALSE /\ Failed(k, t[2])
         \/ SameRequest(k, t[2]) /\ (t[2].state = "NORMAL_BODY_UNREADY" \/ t[2].state = k.state)
<1>1. CASE t = <<TRUE, k>>
  BY <1>1 DEF SameRequest
<1>2. CASE \E n \in 1..Min(MaxRead, Left(k)) : \E s \in Suspendings([k EXCEPT !.ready = n]) : t = <<TRUE, s>>
  <2>1. PICK n \in 1..Min(MaxRead, Left(k)) : \E s \in Suspendings([k EXCEPT !.ready = n]) : t = <<TRUE, s>>
    BY <1>2
  <2>2. n \in Int
    BY LeftTyped
  <2> DEFINE l == [k EXCEPT !.ready = n]
  <2>3. l \in ConnType
    BY <2>2, Zenon DEF ConnType
  <2>4. SameRequest(k, l) /\ l.state = k.state
    BY <2>3, SMT DEF ConnType, SameRequest
  <2> HIDE DEF l
  <2>5. PICK s \in Suspendings(l) : t = <<TRUE, s>>
    BY <2>1 DEF l
  <2>6. SameRequest(l, s) /\ s.state = l.state
    BY <2>3, SuspendingsTyped DEF Small
  <2>7. SameRequest(k, s)
    BY <2>4, <2>6, SameRequestTrans
  <2> QED BY <2>4, <2>5, <2>6, <2>7
<1>3. CASE \E s \in Suspendings([k EXCEPT !.state = "NORMAL_BODY_UNREADY"]) : t = <<FALSE, s>>
  <2> DEFINE l == [k EXCEPT !.state = "NORMAL_BODY_UNREADY"]
  <2>1. "NORMAL_BODY_UNREADY" \in States
    BY DEF States, Sending
  <2>2. SameRequest(k, l) /\ l \in ConnType
    BY <2>1, SmallChanges DEF Small, SameRequest
  <2>3. l.state = "NORMAL_BODY_UNREADY"
    BY SMT DEF ConnType
  <2> HIDE DEF l
  <2>4. PICK s \in Suspendings(l) : t = <<FALSE, s>>
    BY <1>3 DEF l
  <2>5. SameRequest(l, s) /\ s.state = l.state
    BY <2>2, SuspendingsTyped DEF Small
  <2>6. SameRequest(k, s)
    BY <2>2, <2>5, SameRequestTrans
  <2> QED BY <2>3, <2>4, <2>5, <2>6
<1>4. ASSUME NEW e, e = MHD_connection_close_(Ended(k)) \/ e = connection_close_error(Ended(k)),
             t = <<FALSE, e>>
      PROVE  t[1] = FALSE /\ Failed(k, t[2])
  BY <1>4, EndedCloses
<1>5. CASE t = <<FALSE, connection_close_error(k)>>
  BY <1>5, ClosingTyped
<1> QED BY <1>1, <1>2, <1>3, <1>4, <1>5, NormalOutcomes

\* What try_ready_chunked_body() may return.
LEMMA ChunkedOutcomes ==
  ASSUME NEW k, NEW e \in try_ready_chunked_body(k)
  PROVE  \/ \E n \in 1..Min(MaxRead, Left(k)) :
              e \in Suspendings([k EXCEPT !.wpos = @ + n, !.wbuf = TRUE, !.state = "CHUNKED_BODY_READY"])
         \/ e = [Ended(k) EXCEPT !.state = "CHUNKED_BODY_SENT"]
         \/ e = connection_close_error(Ended(k))
<1> DEFINE C == ReadyChunks(k)
           U == {Suspendings(x) : x \in C}
           a == [Ended(k) EXCEPT !.state = "CHUNKED_BODY_SENT"]
           b == connection_close_error(Ended(k))
<1>1. try_ready_chunked_body(k) \subseteq (UNION U) \cup C \cup {a, b}
  BY DEF try_ready_chunked_body
<1> HIDE DEF C, U, a, b
<1>2. e \in UNION U \/ e \in C \/ e = a \/ e = b
  BY <1>1
<1>3. (e \in UNION U \/ e \in C) => \E x \in C : e \in Suspendings(x)
  BY Zenon DEF U, Suspendings
<1>4. (\E x \in C : e \in Suspendings(x)) =>
        \E n \in 1..Min(MaxRead, Left(k)) :
           e \in Suspendings([k EXCEPT !.wpos = @ + n, !.wbuf = TRUE, !.state = "CHUNKED_BODY_READY"])
  BY Zenon DEF C, ReadyChunks
<1> QED BY <1>2, <1>3, <1>4, Zenon DEF a, b

LEMMA ChunkedBodyTyped ==
  ASSUME NEW k \in ConnType, NEW e \in try_ready_chunked_body(k)
  PROVE  \/ Failed(k, e)
         \/ SameRequest(k, e) /\ e.state \in {"CHUNKED_BODY_READY", "CHUNKED_BODY_SENT"}
<1>0. "CHUNKED_BODY_READY" \in States /\ "CHUNKED_BODY_SENT" \in States
  BY DEF States, Sending
<1>1. CASE \E n \in 1..Min(MaxRead, Left(k)) :
             e \in Suspendings([k EXCEPT !.wpos = @ + n, !.wbuf = TRUE, !.state = "CHUNKED_BODY_READY"])
  <2>1. PICK n \in 1..Min(MaxRead, Left(k)) :
             e \in Suspendings([k EXCEPT !.wpos = @ + n, !.wbuf = TRUE, !.state = "CHUNKED_BODY_READY"])
    BY <1>1
  <2> DEFINE w == k.wpos + n
             l == [k EXCEPT !.wpos = w, !.wbuf = TRUE, !.state = "CHUNKED_BODY_READY"]
  <2>2. w \in Int
    BY LeftTyped, SMT DEF ConnType
  <2>3. e \in Suspendings(l)
    BY <2>1
  <2> HIDE DEF w
  <2>4. l \in ConnType
    BY <1>0, <2>2, Zenon DEF ConnType
  <2>5. SameRequest(k, l) /\ l.state = "CHUNKED_BODY_READY"
    BY <2>4, SMT DEF ConnType, SameRequest
  <2> HIDE DEF l
  <2>6. SameRequest(l, e) /\ e.state = l.state
    BY <2>3, <2>4, SuspendingsTyped DEF Small
  <2>7. SameRequest(k, e)
    BY <2>5, <2>6, SameRequestTrans
  <2> QED BY <2>5, <2>6, <2>7
<1>2. CASE e = [Ended(k) EXCEPT !.state = "CHUNKED_BODY_SENT"]
  <2>1. SameRequest(k, Ended(k)) /\ Ended(k) \in ConnType
    BY EndedTyped DEF SameRequest
  <2>2. SameRequest(Ended(k), e) /\ e.state = "CHUNKED_BODY_SENT"
    BY <1>0, <1>2, <2>1, SmallChanges DEF Small, ConnType
  <2>3. SameRequest(k, e)
    BY <2>1, <2>2, SameRequestTrans
  <2> QED BY <2>2, <2>3
<1>3. CASE e = connection_close_error(Ended(k))
  BY <1>3, EndedCloses
<1> QED BY <1>1, <1>2, <1>3, ChunkedOutcomes

LEMMA InvIdleStartReply == ConnInv /\ IdleStartReply => ConnInv'
<1> SUFFICES ASSUME ConnInv, IdleStartReply PROVE ConnInv'
  OBVIOUS
<1>1. c.state = "START_REPLY" /\ pc' \in {"idle", "post"} /\ UNCHANGED <<kinds, wire>>
  BY DEF IdleStartReply, At, Continue, Break, Rest
<1>2. CASE c' = build_header_response(c)
  <2>1. SameRequest(c, c') /\ c'.state = "HEADERS_SENDING"
    BY <1>2, ConnTyped, HeaderTyped DEF SameRequest
  <2> QED BY <1>1, <2>1, ReplyStep DEF Plain, Replying, Sending
<1>3. CASE c' = connection_close_error(c)
  BY <1>1, <1>3, ConnTyped, ClosingTyped, FailedKeeps
<1> QED BY <1>2, <1>3 DEF IdleStartReply, Continue, Break

LEMMA InvIdleHeadersSent == ConnInv /\ IdleHeadersSent => ConnInv'
<1> SUFFICES ASSUME ConnInv, IdleHeadersSent PROVE ConnInv'
  OBVIOUS
<1>1. c.state = "HEADERS_SENT" /\ pc' = "idle" /\ UNCHANGED <<kinds, wire>>
  BY DEF IdleHeadersSent, At, Continue, Goto, Rest
<1>2. CASE c' = [c EXCEPT !.state = "UPGRADE", !.suspended = TRUE, !.response = NoResponse]
  <2>1. "UPGRADE" \in States
    BY DEF States, Sending
  <2>2. c' \in ConnType
    BY <1>2, <2>1, ConnTyped, Responses, ZenonT(60) DEF ConnType
  <2>3. /\ c'.state = "UPGRADE" /\ c'.rbuf = c.rbuf /\ c'.rq = c.rq /\ c'.got = c.got
        /\ c'.calls = c.calls /\ c'.response = NoResponse
    BY <1>2, ConnTyped, SMT DEF ConnType
  <2>4. Kind(c)' = Kind(c)
    BY <1>1, <2>3, SameKind
  <2>5. Control'
    BY <1>1, <2>3, <2>4, SMT DEF ConnInv, Control, Framed, Counted, Called, InCalls, NoResponse,
       Early, Uploading, Footers, Replying, Receiving, Sending
  <2> QED BY <1>1, <2>2, <2>3, <2>5, Assemble DEF Steps
<1>3. CASE c' = connection_close_error(c)
  BY <1>1, <1>3, ConnTyped, ClosingTyped, FailedKeeps
<1>4. CASE \E s \in {"FULL_REPLY_SENT", "CHUNKED_BODY_UNREADY", "NORMAL_BODY_UNREADY"} : c' = [c EXCEPT !.state = s]
  <2>0. PICK s \in {"FULL_REPLY_SENT", "CHUNKED_BODY_UNREADY", "NORMAL_BODY_UNREADY"} : c' = [c EXCEPT !.state = s]
    BY <1>4
  <2>1. s \in States
    BY DEF States, Sending
  <2>2. SameRequest(c, c') /\ c'.state = s
    BY <2>0, <2>1, ConnTyped, SmallChanges DEF Small, ConnType
  <2> QED BY <1>1, <2>2, ReplyStep DEF Plain, Replying, Sending
<1> QED BY <1>2, <1>3, <1>4 DEF IdleHeadersSent, Continue, Goto

LEMMA InvIdleNormalBody == ConnInv /\ IdleNormalBody => ConnInv'
<1> SUFFICES ASSUME ConnInv, IdleNormalBody PROVE ConnInv'
  OBVIOUS
<1>1. c.state = "NORMAL_BODY_UNREADY" /\ pc' \in {"idle", "post"} /\ UNCHANGED <<kinds, wire>>
  BY DEF IdleNormalBody, At, Continue, Break, Goto, Rest
<1>2. CASE c' = [c EXCEPT !.state = "FULL_REPLY_SENT"]
  <2>1. "FULL_REPLY_SENT" \in States
    BY DEF States, Sending
  <2>2. SameRequest(c, c') /\ c'.state = "FULL_REPLY_SENT"
    BY <1>2, <2>1, ConnTyped, SmallChanges DEF Small, ConnType
  <2> QED BY <1>1, <2>2, ReplyStep DEF Plain, Replying, Sending
<1>3. CASE \E t \in try_ready_normal_body(c) :
             c' = IF t[1] THEN [t[2] EXCEPT !.state = "NORMAL_BODY_READY"] ELSE t[2]
  <2>1. PICK t \in try_ready_normal_body(c) :
             c' = IF t[1] THEN [t[2] EXCEPT !.state = "NORMAL_BODY_READY"] ELSE t[2]
    BY <1>3
  <2>2. CASE t[1] = FALSE /\ Failed(c, t[2])
    BY <1>1, <2>1, <2>2, FailedKeeps
  <2>3. CASE SameRequest(c, t[2]) /\ t[2].state = "NORMAL_BODY_UNREADY"
    <3>1. "NORMAL_BODY_READY" \in States /\ t[2] \in ConnType
      BY <2>3 DEF States, Sending, SameRequest
    <3>2. SameRequest(t[2], c') /\ c'.state \in {"NORMAL_BODY_READY", "NORMAL_BODY_UNREADY"}
      <4>1. CASE c' = t[2]
        BY <4>1, <2>3, <3>1 DEF SameRequest
      <4>2. CASE c' = [t[2] EXCEPT !.state = "NORMAL_BODY_READY"]
        BY <4>2, <3>1, SmallChanges DEF Small, ConnType
      <4> QED BY <2>1, <4>1, <4>2
    <3>3. SameRequest(c, c')
      BY <2>3, <3>2, SameRequestTrans
    <3> QED BY <1>1, <3>2, <3>3, ReplyStep DEF Plain, Replying, Sending
  <2> QED BY <1>1, <2>2, <2>3, ConnTyped, NormalBodyTyped
<1> QED BY <1>2, <1>3 DEF IdleNormalBody, Continue, Break, Goto

LEMMA InvIdleChunkedBody == ConnInv /\ IdleChunkedBody => ConnInv'
<1> SUFFICES ASSUME ConnInv, IdleChunkedBody PROVE ConnInv'
  OBVIOUS
<1>1. c.state = "CHUNKED_BODY_UNREADY" /\ pc' \in {"idle", "post"} /\ UNCHANGED <<kinds, wire>>
  BY DEF IdleChunkedBody, At, Continue, Break, Goto, Rest
<1>2. CASE c' = [c EXCEPT !.state = "CHUNKED_BODY_SENT"]
  <2>1. "CHUNKED_BODY_SENT" \in States
    BY DEF States, Sending
  <2>2. SameRequest(c, c') /\ c'.state = "CHUNKED_BODY_SENT"
    BY <1>2, <2>1, ConnTyped, SmallChanges DEF Small, ConnType
  <2> QED BY <1>1, <2>2, ReplyStep DEF Plain, Replying, Sending
<1>3. CASE c' \in try_ready_chunked_body(c)
  <2>1. CASE Failed(c, c')
    BY <1>1, <2>1, FailedKeeps
  <2>2. CASE SameRequest(c, c') /\ c'.state \in {"CHUNKED_BODY_READY", "CHUNKED_BODY_SENT"}
    BY <1>1, <2>2, ReplyStep DEF Plain, Replying, Sending
  <2> QED BY <1>3, <2>1, <2>2, ConnTyped, ChunkedBodyTyped
<1>4. CASE c' \in Suspendings(c)
  <2>1. SameRequest(c, c') /\ c'.state = c.state
    BY <1>4, ConnTyped, SuspendingsTyped DEF Small
  <2> QED BY <1>1, <2>1, ReplyStep DEF Plain, Replying, Sending
<1> QED BY <1>2, <1>3, <1>4 DEF IdleChunkedBody, Continue, Break, Goto

LEMMA InvIdleChunkedSent == ConnInv /\ IdleChunkedSent => ConnInv'
<1> SUFFICES ASSUME ConnInv, IdleChunkedSent PROVE ConnInv'
  OBVIOUS
<1>1. c.state = "CHUNKED_BODY_SENT" /\ pc' = "idle" /\ UNCHANGED <<kinds, wire>>
  BY DEF IdleChunkedSent, At, Continue, Rest
<1>2. CASE c' = [c EXCEPT !.wbuf = TRUE, !.state = "FOOTERS_SENDING"]
  <2>1. "FOOTERS_SENDING" \in States
    BY DEF States, Sending
  <2>2. c' \in ConnType
    BY <1>2, <2>1, ConnTyped, Zenon DEF ConnType
  <2>3. SameRequest(c, c') /\ c'.state = "FOOTERS_SENDING"
    BY <1>2, <2>2, ConnTyped, SMT DEF ConnType, SameRequest
  <2> QED BY <1>1, <2>3, ReplyStep DEF Plain, Replying, Sending
<1>3. CASE c' = connection_close_error(c)
  BY <1>1, <1>3, ConnTyped, ClosingTyped, FailedKeeps
<1> QED BY <1>2, <1>3 DEF IdleChunkedSent, Continue

LEMMA NewTyped ==
  /\ NewConnection \in ConnType
  /\ \A k \in ConnType : connection_reset(k) \in ConnType
<1>1. /\ "INIT" \in States /\ "READ" \in Infos /\ "PROCESS" \in Infos /\ <<>> \in Seq(Token) /\ 0 \in Nat /\ 0 \in Int
  BY DEF States, Infos
<1>2. NewConnection \in ConnType
  BY <1>1, Responses, Bounds, Zenon DEF NewConnection, ConnType
<1>3. ASSUME NEW k \in ConnType PROVE connection_reset(k) \in ConnType
  <2> DEFINE i == IF k.rbuf = <<>> THEN "READ" ELSE "PROCESS"
             m == [NewConnection EXCEPT !.rbuf = k.rbuf, !.suspended = k.suspended, !.resuming = k.resuming]
  <2>1. i \in Infos
    BY <1>1
  <2>2. m \in ConnType
    BY <1>2, Zenon DEF ConnType
  <2>3. connection_reset(k) = [m EXCEPT !.discard = k.discard, !.stop_err = k.stop_err,
                                        !.read_closed = k.read_closed, !.info = i]
    BY DEF connection_reset
  <2> HIDE DEF i, m
  <2> QED BY <2>1, <2>2, <2>3, ZenonT(60) DEF ConnType
<1> QED BY <1>2, <1>3

LEMMA InvIdleReplySent == ConnInv /\ IdleReplySent => ConnInv'
<1> SUFFICES ASSUME ConnInv, IdleReplySent PROVE ConnInv'
  OBVIOUS
<1>1. /\ c.state = "FULL_REPLY_SENT" /\ pc' = "idle" /\ ~c.suspended /\ UNCHANGED <<kinds, wire>>
  BY DEF IdleReplySent, At, Continue, Rest
<1>2. CASE /\ c.response.code = "102"
           /\ c' = [c EXCEPT !.state = "HEADERS_PROCESSED", !.response = NoResponse]
  <2>1. "HEADERS_PROCESSED" \in States
    BY DEF States, Receiving
  <2>2. c' \in ConnType
    BY <1>2, <2>1, ConnTyped, Responses, ZenonT(60) DEF ConnType
  <2>3. /\ c'.state = "HEADERS_PROCESSED" /\ c'.rbuf = c.rbuf /\ c'.rq = c.rq /\ c'.got = c.got
        /\ c'.calls = c.calls /\ c'.response = NoResponse /\ c'.discard = c.discard
        /\ c'.remaining = c.remaining /\ c'.suspended = c.suspended
    BY <1>2, ConnTyped, SMT DEF ConnType
  <2>4. Kind(c)' = Kind(c) /\ nextToken' = nextToken
    BY <1>1, <2>3, SameKind, Unmoved
  <2>5. c.got \in Nat /\ Kind(c).upload \in Nat
    BY ConnTyped, KindTyped, Bounds DEF ConnInv, ConnType
  <2>6. Framed'
    BY <1>1, <1>2, <2>3, <2>4, SMT DEF ConnInv, Control, Framed, Counted, Replying, Sending, Start, Uploading
  <2>7. Counted'
    BY <1>1, <1>2, <2>3, <2>4, <2>5, SMT DEF ConnInv, Control, Counted, Replying, Sending, Uploading, Footers, NoResponse
  <2>8. Called'
    BY <1>1, <1>2, <2>3, SMT DEF ConnInv, Control, Counted, Called, Replying, Sending, Uploading,
       Footers, NoResponse, Early, Receiving
  <2>9. InCalls'
    BY <1>1, <1>2, <2>3, SMT DEF ConnInv, Control, InCalls
  <2> QED BY <1>1, <2>2, <2>3, <2>6, <2>7, <2>8, <2>9, Assemble DEF Control, Steps
<1>3. CASE c' = connection_reset(c) /\ ~c.discard
  <2>1. c' \in ConnType
    BY <1>3, ConnTyped, NewTyped
  <2>2. /\ c'.state = "INIT" /\ c'.rbuf = c.rbuf /\ c'.rq = 0 /\ c'.got = 0
        /\ c'.calls = "none" /\ c'.response = NoResponse /\ c'.discard = FALSE
        /\ c'.remaining = 0 /\ c'.suspended = FALSE
    BY <1>1, <1>3, ConnTyped, SMT DEF ConnType, connection_reset, NewConnection
  <2>3. nextToken' = nextToken /\ input' = input /\ Chained(kinds, input)'
    BY <1>1, <2>2, Unmoved DEF ConnInv
  <2>4. nextToken = Start(c.rq + 1)
    BY <1>1, <1>3 DEF ConnInv, Control, Framed, Replying, Sending
  <2>5. Typed'
    BY <1>1, <2>1, <2>2 DEF ConnInv, Typed, Steps
  <2>6. Framed'
    BY <2>2, <2>3, <2>4, SMT DEF Framed, Start, Uploading, Replying, Sending
  <2>7. Counted'
    <3>1. Kind(c)'.upload = 0
      BY <2>2 DEF Kind, NoKind
    <3> QED BY <2>2, <3>1, SMT DEF Counted, Uploading, Footers, Replying, Sending, NoResponse
  <2>8. Called' /\ InCalls'
    BY <1>1, <2>2, SMT DEF Called, InCalls, Uploading, Footers, Replying, Sending, NoResponse, Early, Receiving
  <2> QED BY <2>3, <2>5, <2>6, <2>7, <2>8 DEF ConnInv, Control
<1>4. CASE c' = MHD_connection_close_(c)
  BY <1>1, <1>4, ConnTyped, ClosingTyped, FailedKeeps
<1> QED BY <1>2, <1>3, <1>4 DEF IdleReplySent, Continue

-----------------------------------------------------------------------------
(* Writing. *)

LEMMA WrittenTyped ==
  ASSUME NEW k \in ConnType, NEW e \in Written(k)
  PROVE  \/ e = k \/ e = [k EXCEPT !.cont = TRUE] \/ Failed(k, e)
         \/ /\ SameRequest(k, e) /\ k.state \in Replying \ {"FULL_REQ_RECEIVED"}
            /\ e.state \in Replying \ {"FULL_REQ_RECEIVED"}
<1> DEFINE Fine(x) == SameRequest(k, x) /\ x.state \in Replying \ {"FULL_REQ_RECEIVED"}
<1>0. /\ {"HEADERS_SENT", "FULL_REPLY_SENT", "CHUNKED_BODY_SENT", "CHUNKED_BODY_UNREADY"} \subseteq States
      /\ {"HEADERS_SENDING", "HEADERS_SENT", "NORMAL_BODY_READY", "NORMAL_BODY_UNREADY", "FULL_REPLY_SENT",
          "CHUNKED_BODY_SENT", "CHUNKED_BODY_READY", "CHUNKED_BODY_UNREADY", "FOOTERS_SENDING"} \subseteq
             Replying \ {"FULL_REQ_RECEIVED"}
  BY DEF States, Sending, Replying
<1>1. CASE k.state = "HEADERS_SENDING" /\ e \in WriteHeader(k)
  <2>1. CASE e = k
    BY <2>1
  <2>2. CASE \E s \in 0..(IF BodyWithHeader(k) THEN k.response.size ELSE 0) :
               e = [k EXCEPT !.state = "HEADERS_SENT", !.wbuf = FALSE,
                             !.wpos = IF s > 0 THEN s ELSE @, !.out = s]
    <3>1. PICK s \in 0..(IF BodyWithHeader(k) THEN k.response.size ELSE 0) :
               e = [k EXCEPT !.state = "HEADERS_SENT", !.wbuf = FALSE,
                             !.wpos = IF s > 0 THEN s ELSE @, !.out = s]
      BY <2>2
    <3> DEFINE w == IF s > 0 THEN s ELSE k.wpos
    <3>2. s \in Int /\ w \in Int
      BY SMT DEF ConnType
    <3>3. e = [k EXCEPT !.state = "HEADERS_SENT", !.wbuf = FALSE, !.wpos = w, !.out = s]
      BY <3>1
    <3> HIDE DEF w
    <3>4. e \in ConnType
      BY <1>0, <3>2, <3>3, ZenonT(60) DEF ConnType
    <3>5. SameRequest(k, e) /\ e.state = "HEADERS_SENT"
      BY <3>3, <3>4, SMT DEF ConnType, SameRequest
    <3> QED BY <1>0, <1>1, <3>5
  <2> QED BY <1>1, <2>1, <2>2 DEF WriteHeader
<1>2. ASSUME NEW x \in ConnType, Fine(x)
      PROVE  Fine(Finished(x))
  <2>1. CASE Finished(x) = x
    BY <1>2, <2>1
  <2>2. CASE Finished(x) = [x EXCEPT !.state = "FULL_REPLY_SENT"]
    <3>0. "FULL_REPLY_SENT" \in States
      BY <1>0
    <3>1. SameRequest(x, Finished(x)) /\ Finished(x).state = "FULL_REPLY_SENT"
      <4>1. Small(x, [x EXCEPT !.state = "FULL_REPLY_SENT"])
        BY <3>0, SmallChanges
      <4>2. [x EXCEPT !.state = "FULL_REPLY_SENT"].state = "FULL_REPLY_SENT"
        BY SMT DEF ConnType
      <4> QED BY <2>2, <4>1, <4>2 DEF Small
    <3> QED BY <1>0, <1>2, <3>1, SameRequestTrans
  <2> QED BY <2>1, <2>2 DEF Finished
<1>3. ASSUME NEW x \in ConnType, Fine(x), NEW y \in SendNormal(x)
      PROVE  Fine(y)
  <2> DEFINE r == IF x.response.reader THEN x.ready ELSE Left(x)
  <2>1. PICK s \in 0..r : y = Finished([x EXCEPT !.wpos = @ + s, !.out = @ + s,
                                                 !.ready = IF x.response.reader THEN @ - s ELSE @])
    BY <1>3 DEF SendNormal
  <2> DEFINE w == x.wpos + s
             o == x.out + s
             d == IF x.response.reader THEN x.ready - s ELSE x.ready
             z == [x EXCEPT !.wpos = w, !.out = o, !.ready = d]
  <2>2. y = Finished(z)
    BY <2>1
  <2>3. w \in Int /\ o \in Int /\ d \in Int
    <3>1. r \in Int
      BY LeftTyped DEF ConnType
    <3> QED BY <3>1, SMTT(40) DEF ConnType
  <2> HIDE DEF w, o, d
  <2>4. z \in ConnType
    BY <2>3, Zenon DEF ConnType
  <2>5. SameRequest(x, z) /\ z.state = x.state
    BY <2>4, SMT DEF ConnType, SameRequest
  <2> HIDE DEF z
  <2>6. Fine(z)
    BY <1>3, <2>5, SameRequestTrans
  <2> QED BY <1>2, <2>2, <2>4, <2>6
<1>4. CASE k.state = "NORMAL_BODY_READY" /\ e \in WriteNormal(k)
  <2>1. SameRequest(k, k) /\ Fine(k)
    BY <1>0, <1>4 DEF SameRequest
  <2>2. CASE e = Finished(k)
    BY <1>0, <1>2, <1>4, <2>1, <2>2
  <2>3. CASE \E t \in try_ready_normal_body(k) : e \in IF t[1] THEN SendNormal(t[2]) ELSE {t[2]}
    <3>1. PICK t \in try_ready_normal_body(k) : e \in IF t[1] THEN SendNormal(t[2]) ELSE {t[2]}
      BY <2>3
    <3>2. CASE t[1] = FALSE /\ Failed(k, t[2])
      BY <3>1, <3>2
    <3>3. CASE SameRequest(k, t[2]) /\ (t[2].state = "NORMAL_BODY_UNREADY" \/ t[2].state = k.state)
      <4>1. Fine(t[2]) /\ t[2] \in ConnType
        BY <1>0, <1>4, <3>3 DEF SameRequest
      <4>2. Fine(e)
        BY <1>3, <3>1, <4>1
      <4> QED BY <1>0, <1>4, <4>2
    <3> QED BY <3>2, <3>3, NormalBodyTyped
  <2> QED BY <1>4, <2>2, <2>3 DEF WriteNormal
<1>5. CASE k.state = "CHUNKED_BODY_READY" /\ e \in WriteChunk(k)
  <2> DEFINE s == IF k.response.size = k.wpos THEN "CHUNKED_BODY_SENT" ELSE "CHUNKED_BODY_UNREADY"
  <2>1. CASE e = k
    BY <2>1
  <2>2. CASE e = [k EXCEPT !.wbuf = FALSE, !.out = k.wpos, !.state = s]
    <3>1. s \in States /\ s \in Replying \ {"FULL_REQ_RECEIVED"} /\ k.wpos \in Int
      BY <1>0 DEF ConnType
    <3> HIDE DEF s
    <3>2. e \in ConnType
      BY <2>2, <3>1, Zenon DEF ConnType
    <3>3. SameRequest(k, e) /\ e.state = s
      BY <2>2, <3>2, SMT DEF ConnType, SameRequest
    <3> QED BY <1>0, <1>5, <3>1, <3>3
  <2> QED BY <1>5, <2>1, <2>2 DEF WriteChunk
<1>6. CASE k.state = "FOOTERS_SENDING" /\ e = [k EXCEPT !.wbuf = FALSE, !.state = "FULL_REPLY_SENT"]
  <2>1. e \in ConnType
    BY <1>0, <1>6, ZenonT(60) DEF ConnType
  <2>2. SameRequest(k, e) /\ e.state = "FULL_REPLY_SENT"
    BY <1>6, <2>1, SMT DEF ConnType, SameRequest
  <2> QED BY <1>0, <1>6, <2>2
<1> QED BY <1>1, <1>4, <1>5, <1>6 DEF Written

LEMMA InvWrite == ConnInv /\ Write => ConnInv'
<1> SUFFICES ASSUME ConnInv, Write PROVE ConnInv'
  OBVIOUS
<1>1. pc = "write" /\ pc' = "idle" /\ UNCHANGED <<kinds, wire>>
  BY DEF Write
<1>2. CASE c' = c
  BY <1>1, <1>2, Stays DEF Plain
<1>3. CASE c' = [c EXCEPT !.cont = TRUE]
  <2>1. Small(c, c') /\ c'.state = c.state
    BY <1>3, ConnTyped, SmallChanges DEF ConnType
  <2> QED BY <1>1, <2>1, SameState DEF Plain
<1>4. CASE Failed(c, c')
  BY <1>1, <1>4, FailedKeeps
<1>5. CASE /\ SameRequest(c, c') /\ c.state \in Replying \ {"FULL_REQ_RECEIVED"}
           /\ c'.state \in Replying \ {"FULL_REQ_RECEIVED"}
  BY <1>1, <1>5, ReplyStep DEF Plain
<1> QED BY <1>2, <1>3, <1>4, <1>5, ConnTyped, WrittenTyped DEF Write

-----------------------------------------------------------------------------
(* The steps that take something from the input. *)

LEMMA InputTyped ==
  ASSUME ConnInv
  PROVE  /\ c.rbuf \in Seq(Token) /\ wire \in Seq(Token) /\ input \in Seq(Token)
         /\ Len(input) = Len(c.rbuf) + Len(wire)
         /\ \A i \in 1..Len(c.rbuf) : input[i] = c.rbuf[i]
BY DEF ConnInv, Typed, ConnType, input

LEMMA InvReadData == ConnInv /\ ReadData => ConnInv'
<1> SUFFICES ASSUME ConnInv, ReadData PROVE ConnInv'
  OBVIOUS
<1>1. PICK n \in 0..Min(Len(wire), BufSize - Len(c.rbuf)) :
        c' = [c EXCEPT !.rbuf = @ \o SubSeq(wire, 1, n)] /\ wire' = Drop(wire, n)
  BY DEF ReadData
<1>2. pc = "read" /\ pc' = "idle" /\ UNCHANGED kinds
  BY DEF ReadData
<1> DEFINE b == c.rbuf \o SubSeq(wire, 1, n)
<1>3. n \in 0..Len(wire)
  BY InputTyped, BoundAssumption, SMT DEF Min
<1>4. b \in Seq(Token) /\ Drop(wire, n) \in Seq(Token)
  BY <1>3, InputTyped DEF Drop
<1>5. b \o Drop(wire, n) = input
  BY <1>3, InputTyped, MovedAcross DEF input
<1>6. c' = [c EXCEPT !.rbuf = b]
  BY <1>1
<1> HIDE DEF b
<1>7. c' \in ConnType
  BY <1>4, <1>6, ConnTyped, Zenon DEF ConnType
<1>8. /\ c'.rbuf = b /\ c'.state = c.state /\ c'.rq = c.rq /\ c'.got = c.got /\ c'.calls = c.calls
      /\ c'.discard = c.discard /\ c'.remaining = c.remaining /\ c'.response = c.response
      /\ c'.suspended = c.suspended
  BY <1>6, ConnTyped, SMT DEF ConnType
<1>9. input' = input
  BY <1>1, <1>5, <1>8 DEF input
<1>10. /\ nextToken' = nextToken /\ Kind(c)' = Kind(c)
       /\ BodyToken(kinds, c.rq, c.got + 1)' = BodyToken(kinds, c.rq, c.got + 1)
  BY <1>2, <1>8, <1>9, SameKind DEF nextToken, After, Start
<1>11. Typed'
  BY <1>1, <1>2, <1>4, <1>7, <1>8 DEF ConnInv, Typed, Steps
<1>12. Chained(kinds, input)'
  BY <1>2, <1>9, ChainedSame DEF ConnInv
<1>13. Framed'
  BY <1>8, <1>9, <1>10, SMT DEF ConnInv, Control, Framed, Start
<1>14. Counted'
  BY <1>8, <1>10, SMT DEF ConnInv, Control, Counted
<1>15. Called' /\ InCalls'
  BY <1>2, <1>8, SMT DEF ConnInv, Control, Called, InCalls
<1> QED BY <1>11, <1>12, <1>13, <1>14, <1>15 DEF ConnInv, Control

(* What is left when n tokens have been taken from the read buffer. *)
LEMMA Taken ==
  ASSUME ConnInv, NEW n \in 0..Len(c.rbuf), c'.rbuf = Drop(c.rbuf, n), UNCHANGED <<kinds, wire>>
  PROVE  /\ Chained(kinds, input)' /\ nextToken' = After(kinds, input, n)
         /\ Drop(c.rbuf, n) \in Seq(Token) /\ Len(Drop(c.rbuf, n)) = Len(c.rbuf) - n
<1>1. n \in 0..Len(input) /\ c.rbuf \in Seq(Token) /\ wire \in Seq(Token)
  BY InputTyped
<1>2. input' = Drop(input, n) /\ Drop(c.rbuf, n) \in Seq(Token)
  BY <1>1, DroppedFirst, ZenonT(60) DEF input
<1>3. Chained(kinds, Drop(input, n)) /\ After(kinds, Drop(input, n), 0) = After(kinds, input, n + 0)
  BY <1>1, ChainedDrop, InputTyped DEF ConnInv
<1>4. nextToken' = After(kinds, Drop(input, n), 0)
  BY <1>2 DEF nextToken, After, Start
<1>5. Len(Drop(c.rbuf, n)) = Len(c.rbuf) - n
  BY <1>1 DEF Drop
<1> QED BY <1>1, <1>2, <1>3, <1>4, <1>5, ChainedSame

(* The first tokens of the read buffer. *)
LEMMA FirstTokens ==
  ASSUME ConnInv, c.rbuf # <<>>
  PROVE  /\ nextToken = c.rbuf[1] /\ nextToken \in Token /\ nextToken[1] \in 1..Len(kinds)
         /\ input # <<>> /\ 1 \in 0..Len(c.rbuf)
         /\ After(kinds, input, 1) = Successor(kinds, nextToken)
         /\ Len(c.rbuf) > 1 => 2 \in 0..Len(c.rbuf) /\ After(kinds, input, 2) = Successor(kinds, Successor(kinds, nextToken))
<1>1. Len(c.rbuf) \in Nat /\ Len(c.rbuf) > 0
  BY InputTyped
<1>2. Len(input) > 0 /\ input[1] = c.rbuf[1] /\ 1 \in 1..Len(input) /\ input \in Seq(Token) /\ Len(input) \in Nat
  BY <1>1, InputTyped
<1>3. nextToken = input[1]
  BY <1>2, SMT DEF nextToken, After
<1>4. input[1] \in Token
  BY <1>2, ElementOfSeq
<1>5. After(kinds, input, 1) = Successor(kinds, input[1]) /\ input[1][1] \in 1..Len(kinds)
  BY <1>2 DEF ConnInv, Chained
<1>6. ASSUME Len(c.rbuf) > 1 PROVE After(kinds, input, 2) = Successor(kinds, Successor(kinds, input[1]))
  <2>1. 2 \in 1..Len(input) /\ 1 < Len(input)
    BY <1>1, <1>6, InputTyped
  <2>2. After(kinds, input, 1) = input[2]
    BY <2>1, SMT DEF After
  <2>3. After(kinds, input, 2) = Successor(kinds, input[2])
    BY <2>1 DEF ConnInv, Chained
  <2> QED BY <1>5, <2>2, <2>3
<1> QED BY <1>1, <1>2, <1>3, <1>4, <1>5, <1>6

LEMMA InvIdleRequestLine == ConnInv /\ IdleRequestLine => ConnInv'
<1> SUFFICES ASSUME ConnInv, IdleRequestLine PROVE ConnInv'
  OBVIOUS
<1>1. pc = "idle" /\ ~c.suspended /\ c.state \in {"INIT", "REQ_LINE_RECEIVING"}
  BY DEF IdleRequestLine, At
<1>2. CASE Break(c)
  BY <1>1, <1>2, Leaves DEF Break, Rest
<1>3. CASE Break([c EXCEPT !.state = "REQ_LINE_RECEIVING"])
  <2>1. c' = [c EXCEPT !.state = "REQ_LINE_RECEIVING"] /\ pc' = "post" /\ UNCHANGED <<kinds, wire>>
    BY <1>3 DEF Break, Rest
  <2>2. "REQ_LINE_RECEIVING" \in States
    BY DEF States, Receiving
  <2>3. Small(c, c') /\ c'.state = "REQ_LINE_RECEIVING" /\ c'.suspended = c.suspended
    BY <2>1, <2>2, ConnTyped, SmallChanges DEF ConnType
  <2>4. Kind(c)' = Kind(c) /\ nextToken' = nextToken /\ input' = input
    BY <2>1, <2>3, SameKind, Unmoved DEF Small, SameRequest
  <2>5. Framed' /\ Counted'
    BY <1>1, <2>3, <2>4, SMT DEF ConnInv, Control, Framed, Counted, Small, SameRequest, Uploading, Footers, Replying, Sending
  <2>6. Called' /\ InCalls'
    BY <1>1, <2>1, <2>3, SMT DEF ConnInv, Control, Called, InCalls, Small, SameRequest, Early, Uploading, Footers, Replying,
       Sending, Receiving
  <2> QED BY <2>1, <2>3, <2>5, <2>6, Assemble DEF Control, Small, SameRequest, Steps
<1>4. CASE /\ Len(c.rbuf) > 1
           /\ Continue([c EXCEPT !.rq = c.rbuf[1][1], !.rbuf = Drop(@, 2), !.state = "REQ_LINE_RECEIVED"])
  <2> DEFINE n == c.rbuf[1][1]
             b == Drop(c.rbuf, 2)
  <2>1. c' = [c EXCEPT !.rq = n, !.rbuf = b, !.state = "REQ_LINE_RECEIVED"] /\ pc' = "idle" /\ UNCHANGED <<kinds, wire>>
    BY <1>4 DEF Continue, Rest
  <2>2. c.rbuf # <<>> /\ Len(c.rbuf) \in Nat
    BY <1>4, InputTyped
  <2>3. /\ nextToken \in Token /\ n = nextToken[1] /\ n \in 1..Len(kinds) /\ nextToken[2] = "start"
        /\ 2 \in 0..Len(c.rbuf) /\ After(kinds, input, 2) = Successor(kinds, Successor(kinds, nextToken))
    BY <1>1, <1>4, <2>2, FirstTokens DEF ConnInv, Control, Framed
  <2>4. Successor(kinds, Successor(kinds, nextToken)) = <<n, "header", 0>>
    BY <2>3 DEF Successor
  <2>5. b \in Seq(Token) /\ n \in Nat /\ "REQ_LINE_RECEIVED" \in States
    BY <2>3, InputTyped DEF Drop, States, Receiving
  <2> HIDE DEF n, b
  <2>6. c' \in ConnType
    BY <2>1, <2>5, ConnTyped, Zenon DEF ConnType
  <2>7. /\ c'.rbuf = b /\ c'.state = "REQ_LINE_RECEIVED" /\ c'.rq = n /\ c'.got = c.got /\ c'.calls = c.calls
        /\ c'.discard = c.discard /\ c'.remaining = c.remaining /\ c'.response = c.response
        /\ c'.suspended = c.suspended
    BY <2>1, ConnTyped, SMT DEF ConnType
  <2>8. Chained(kinds, input)' /\ nextToken' = <<n, "header", 0>>
    BY <2>1, <2>3, <2>4, <2>7, Taken DEF b
  <2>9. Typed' /\ c'.rq # 0
    BY <2>1, <2>3, <2>6, <2>7 DEF ConnInv, Typed, Steps
  <2>10. Framed'
    BY <2>7, <2>8, SMT DEF Framed, Uploading, Replying, Sending
  <2>11. Counted'
    <3>1. c.got = 0
      BY <1>1 DEF ConnInv, Control, Called, Early
    <3>2. Kind(c)' = kinds[n] /\ kinds[n].upload \in Nat
      <4>1. kinds[n] \in KindType
        BY <2>3, ElementOfSeq DEF ConnInv, Typed
      <4>2. kinds[n].upload \in 0..MaxUpload
        BY <4>1 DEF KindType
      <4> QED BY <2>1, <2>7, <2>9, <4>2, Bounds DEF Kind
    <3> QED BY <1>1, <2>7, <3>1, <3>2, SMT DEF ConnInv, Control, Counted, Called, Early, NoResponse, Uploading, Footers, Replying, Sending
  <2>12. Called' /\ InCalls'
    BY <1>1, <2>1, <2>7, <2>9, SMT DEF ConnInv, Control, Called, InCalls, Early, Uploading, Footers, Replying,
       Sending, Receiving
  <2> QED BY <2>8, <2>9, <2>10, <2>11, <2>12 DEF ConnInv, Control
<1>5. CASE Malformed
  BY <1>5, InvMalformed
<1> QED BY <1>2, <1>3, <1>4, <1>5 DEF IdleRequestLine

(* One token is taken. *)
LEMMA OneTaken ==
  ASSUME ConnInv, c.rbuf # <<>>, c'.rbuf = Tail(c.rbuf), UNCHANGED <<kinds, wire>>
  PROVE  Chained(kinds, input)' /\ nextToken' = Successor(kinds, nextToken) /\ Tail(c.rbuf) \in Seq(Token)
<1>1. Tail(c.rbuf) = Drop(c.rbuf, 1)
  BY InputTyped, TailIsDrop
<1>2. Tail(c.rbuf) \in Seq(Token)
  BY InputTyped
<1> QED BY <1>1, <1>2, FirstTokens, Taken

LEMMA InvIdleHeaders == ConnInv /\ IdleHeaders => ConnInv'
<1> SUFFICES ASSUME ConnInv, IdleHeaders PROVE ConnInv'
  OBVIOUS
<1>1. pc = "idle" /\ ~c.suspended /\ c.state = "REQ_HEADERS_RECEIVING"
  BY DEF IdleHeaders, At
<1>2. CASE Break(c)
  BY <1>1, <1>2, Leaves DEF Break, Rest
<1>3. CASE c.rbuf # <<>> /\ Continue([c EXCEPT !.rbuf = Tail(@), !.state = "HEADERS_RECEIVED"])
  <2> DEFINE b == Tail(c.rbuf)
  <2>1. c' = [c EXCEPT !.rbuf = b, !.state = "HEADERS_RECEIVED"] /\ pc' = "idle" /\ UNCHANGED <<kinds, wire>>
    BY <1>3 DEF Continue, Rest
  <2>2. b \in Seq(Token) /\ "HEADERS_RECEIVED" \in States
    BY <1>3, InputTyped DEF States, Receiving
  <2> HIDE DEF b
  <2>3. c' \in ConnType
    BY <2>1, <2>2, ConnTyped, Zenon DEF ConnType
  <2>4. /\ c'.rbuf = b /\ c'.state = "HEADERS_RECEIVED" /\ c'.rq = c.rq /\ c'.got = c.got /\ c'.calls = c.calls
        /\ c'.discard = c.discard /\ c'.remaining = c.remaining /\ c'.response = c.response
        /\ c'.suspended = c.suspended
    BY <2>1, ConnTyped, SMT DEF ConnType
  <2>5. /\ Chained(kinds, input)' /\ nextToken' = Successor(kinds, nextToken)
        /\ Kind(c)' = Kind(c) /\ BodyToken(kinds, c.rq, c.got + 1)' = BodyToken(kinds, c.rq, c.got + 1)
    BY <1>3, <2>1, <2>4, OneTaken, SameKind DEF b
  <2>6. nextToken = <<c.rq, "header", 0>> /\ c.got = 0
    BY <1>1 DEF ConnInv, Control, Framed, Called, Early
  <2>7. Successor(kinds, nextToken) = BodyToken(kinds, c.rq, c.got + 1)
    BY <2>6 DEF Successor
  <2>8. Framed'
    BY <2>4, <2>5, <2>7, SMT DEF Framed, Uploading, Replying, Sending
  <2>9. Counted'
    BY <1>1, <2>4, <2>5, SMT DEF ConnInv, Control, Counted, Uploading, Footers, Replying, Sending
  <2>10. Called' /\ InCalls'
    BY <1>1, <2>1, <2>4, SMT DEF ConnInv, Control, Called, InCalls, Early, Uploading, Footers, Replying,
       Sending, Receiving
  <2>11. Typed'
    BY <2>1, <2>3, <2>4 DEF ConnInv, Typed, Steps
  <2> QED BY <2>5, <2>8, <2>9, <2>10, <2>11 DEF ConnInv, Control
<1>4. CASE Malformed
  BY <1>4, InvMalformed
<1> QED BY <1>2, <1>3, <1>4 DEF IdleHeaders

LEMMA InvIdleFooters == ConnInv /\ IdleFooters => ConnInv'
<1> SUFFICES ASSUME ConnInv, IdleFooters PROVE ConnInv'
  OBVIOUS
<1>1. pc = "idle" /\ ~c.suspended /\ c.state = "FOOTERS_RECEIVING"
  BY DEF IdleFooters, At
<1>2. CASE Break(c)
  BY <1>1, <1>2, Leaves DEF Break, Rest
<1>3. CASE c.rbuf # <<>> /\ Continue([c EXCEPT !.rbuf = Tail(@), !.state = "FOOTERS_RECEIVED"])
  <2> DEFINE b == Tail(c.rbuf)
  <2>1. c' = [c EXCEPT !.rbuf = b, !.state = "FOOTERS_RECEIVED"] /\ pc' = "idle" /\ UNCHANGED <<kinds, wire>>
    BY <1>3 DEF Continue, Rest
  <2>2. b \in Seq(Token) /\ "FOOTERS_RECEIVED" \in States
    BY <1>3, InputTyped DEF States, Receiving
  <2> HIDE DEF b
  <2>3. c' \in ConnType
    BY <2>1, <2>2, ConnTyped, Zenon DEF ConnType
  <2>4. /\ c'.rbuf = b /\ c'.state = "FOOTERS_RECEIVED" /\ c'.rq = c.rq /\ c'.got = c.got /\ c'.calls = c.calls
        /\ c'.discard = c.discard /\ c'.remaining = c.remaining /\ c'.response = c.response
        /\ c'.suspended = c.suspended
    BY <2>1, ConnTyped, SMT DEF ConnType
  <2>5. Chained(kinds, input)' /\ nextToken' = Successor(kinds, nextToken) /\ Kind(c)' = Kind(c)
    BY <1>3, <2>1, <2>4, OneTaken, SameKind DEF b
  <2>6. nextToken = <<c.rq, "footer", 0>>
    BY <1>1 DEF ConnInv, Control, Framed
  <2>7. Successor(kinds, nextToken) = <<c.rq + 1, "start", 0>>
    BY <2>6 DEF Successor, Start
  <2>8. Framed'
    BY <2>4, <2>5, <2>7, SMT DEF Framed, Uploading, Replying, Sending, Start
  <2>9. Counted'
    BY <1>1, <2>4, <2>5, SMT DEF ConnInv, Control, Counted, Uploading, Footers, Replying, Sending
  <2>10. Called' /\ InCalls'
    BY <1>1, <2>1, <2>4, SMT DEF ConnInv, Control, Called, InCalls, Early, Uploading, Footers, Replying,
       Sending, Receiving
  <2>11. Typed'
    BY <2>1, <2>3, <2>4 DEF ConnInv, Typed, Steps
  <2> QED BY <2>5, <2>8, <2>9, <2>10, <2>11 DEF ConnInv, Control
<1>4. CASE Malformed
  BY <1>4, InvMalformed
<1> QED BY <1>2, <1>3, <1>4 DEF IdleFooters

LEMMA InvIdleBody == ConnInv /\ IdleBody => ConnInv'
<1> SUFFICES ASSUME ConnInv, IdleBody PROVE ConnInv'
  OBVIOUS
<1>1. pc = "idle" /\ ~c.suspended /\ c.state = "BODY_RECEIVING"
  BY DEF IdleBody, At
<1>2. CASE Break(c)
  BY <1>1, <1>2, Leaves DEF Break, Rest
<1>3. CASE c.rbuf # <<>> /\ c' = c /\ pc' = "body" /\ Rest
  <2>1. /\ Kind(c)' = Kind(c) /\ nextToken' = nextToken /\ input' = input
        /\ BodyToken(kinds, c.rq, c.got + 1)' = BodyToken(kinds, c.rq, c.got + 1)
    BY <1>3, Unmoved, SameKind DEF Rest
  <2>2. Framed'
    BY <1>3, <2>1, SMT DEF ConnInv, Control, Framed, Start
  <2>3. Counted'
    BY <1>3, <2>1, SMT DEF ConnInv, Control, Counted
  <2>4. Called' /\ InCalls'
    BY <1>1, <1>3, SMT DEF ConnInv, Control, Called, InCalls
  <2> QED BY <1>3, <2>2, <2>3, <2>4, ConnTyped, Assemble DEF Control, Steps, Rest
<1> QED BY <1>2, <1>3 DEF IdleBody

(* The next token while the body is received. *)
LEMMA BodyNext ==
  ASSUME ConnInv, c.state = "BODY_RECEIVING", c.rbuf # <<>>
  PROVE  /\ nextToken = c.rbuf[1] /\ nextToken = BodyToken(kinds, c.rq, c.got + 1)
         /\ c.rq # 0 /\ Kind(c) = kinds[c.rq] /\ Kind(c) \in KindType
         /\ c.got \in Nat /\ Kind(c).upload \in Nat /\ c.got <= Kind(c).upload /\ c.rq \in Nat
         /\ c.got < Kind(c).upload => nextToken = <<c.rq, "body", c.got + 1>>
         /\ c.got = Kind(c).upload => Kind(c).chunked /\ nextToken = <<c.rq, "last", 0>>
<1>1. nextToken = c.rbuf[1] /\ nextToken = BodyToken(kinds, c.rq, c.got + 1)
  BY FirstTokens DEF ConnInv, Control, Framed, Uploading
<1>2. c.rq # 0 /\ Kind(c) = kinds[c.rq]
  BY DEF ConnInv, Control, Called, Receiving, Kind
<1>3. /\ Kind(c) \in KindType /\ c.got \in Nat /\ Kind(c).upload \in Nat /\ c.rq \in Nat
  BY KindTyped, ConnTyped, Bounds DEF ConnInv, ConnType
<1>4. c.got <= Kind(c).upload
  BY DEF ConnInv, Control, Counted
<1>5. c.got = Kind(c).upload => Kind(c).chunked
  BY <1>3, SMT DEF ConnInv, Control, Counted, Called, Uploading
<1> QED BY <1>1, <1>2, <1>3, <1>4, <1>5, SMT DEF BodyToken

LEMMA InvBodyPart == ConnInv /\ BodyPart => ConnInv'
<1> SUFFICES ASSUME ConnInv, BodyPart PROVE ConnInv'
  OBVIOUS
<1>1. pc = "body" /\ c.state = "BODY_RECEIVING" /\ c.rbuf # <<>>
  BY DEF BodyPart, ConnInv, Control, InCalls
<1>2. CASE /\ Kind(c).chunked /\ c.rbuf[1][2] = "last"
           /\ BodyDone([c EXCEPT !.rbuf = Tail(@), !.remaining = 0])
  <2> DEFINE b == Tail(c.rbuf)
             k == [c EXCEPT !.rbuf = b, !.remaining = 0]
  <2>1. BodyDone(k)
    BY <1>2
  <2>2. b \in Seq(Token) /\ "BODY_RECEIVED" \in States
    BY <1>1, InputTyped DEF States, Receiving
  <2> HIDE DEF b
  <2>3. k \in ConnType
    BY <2>2, ConnTyped, Bounds, Zenon DEF ConnType
  <2>4. /\ k.rbuf = b /\ k.rq = c.rq /\ k.got = c.got /\ k.calls = c.calls
        /\ k.discard = c.discard /\ k.remaining = 0 /\ k.response = c.response
        /\ k.suspended = c.suspended
    BY ConnTyped, SMT DEF ConnType
  <2> HIDE DEF k
  <2>5. c' = [k EXCEPT !.state = "BODY_RECEIVED"] /\ pc' = "idle" /\ UNCHANGED <<kinds, wire>>
    BY <2>1, <2>4 DEF BodyDone, Continue, Rest
  <2>6. c' \in ConnType
    BY <2>2, <2>3, <2>5, Zenon DEF ConnType
  <2>7. /\ c'.rbuf = b /\ c'.state = "BODY_RECEIVED" /\ c'.rq = c.rq /\ c'.got = c.got /\ c'.calls = c.calls
        /\ c'.discard = c.discard /\ c'.remaining = 0 /\ c'.response = c.response
        /\ c'.suspended = c.suspended
    BY <2>3, <2>4, <2>5, SMT DEF ConnType
  <2>8. Chained(kinds, input)' /\ nextToken' = Successor(kinds, nextToken) /\ Kind(c)' = Kind(c)
    BY <1>1, <2>5, <2>7, OneTaken, SameKind DEF b
  <2>9. c.got = Kind(c).upload /\ nextToken = <<c.rq, "last", 0>>
    BY <1>1, <1>2, BodyNext
  <2>10. Successor(kinds, nextToken) = <<c.rq, "footer", 0>>
    BY <2>9 DEF Successor
  <2>11. Framed'
    BY <1>2, <2>7, <2>8, <2>10, SMT DEF Framed, Uploading, Replying, Sending
  <2>12. Counted'
    BY <1>1, <2>7, <2>8, <2>9, SMT DEF ConnInv, Control, Counted, Uploading, Footers, Replying, Sending
  <2>13. Called' /\ InCalls'
    BY <1>1, <2>5, <2>7, SMT DEF ConnInv, Control, Called, InCalls, Early, Uploading, Footers, Replying,
       Sending, Receiving
  <2>14. Typed'
    BY <2>5, <2>6, <2>7 DEF ConnInv, Typed, Steps
  <2> QED BY <2>8, <2>11, <2>12, <2>13, <2>14 DEF ConnInv, Control
<1>3. CASE /\ ~(Kind(c).chunked /\ c.rbuf[1][2] = "last")
           /\ c' = [c EXCEPT !.calls = "upload"] /\ pc' = "upload" /\ Rest
  <2>1. c' \in ConnType
    BY <1>3, ConnTyped, Zenon DEF ConnType
  <2>2. /\ c'.rbuf = c.rbuf /\ c'.state = c.state /\ c'.rq = c.rq /\ c'.got = c.got /\ c'.calls = "upload"
        /\ c'.discard = c.discard /\ c'.remaining = c.remaining /\ c'.response = c.response
        /\ c'.suspended = c.suspended
    BY <1>3, ConnTyped, SMT DEF ConnType
  <2>3. /\ Kind(c)' = Kind(c) /\ nextToken' = nextToken
        /\ BodyToken(kinds, c.rq, c.got + 1)' = BodyToken(kinds, c.rq, c.got + 1)
    BY <1>3, <2>2, Unmoved, SameKind DEF Rest
  <2>4. c.got < Kind(c).upload /\ c.rq # 0
    BY <1>1, <1>3, BodyNext
  <2>5. Framed'
    BY <1>1, <2>2, <2>3, SMT DEF ConnInv, Control, Framed, Uploading, Replying, Sending
  <2>6. Counted'
    BY <1>1, <2>2, <2>3, SMT DEF ConnInv, Control, Counted, Uploading, Footers, Replying, Sending
  <2>7. Called'
    BY <1>1, <2>2, <2>4, SMT DEF ConnInv, Control, Called, NoResponse, Early, Uploading, Footers, Replying,
       Sending, Receiving
  <2>8. InCalls'
    BY <1>1, <1>3, <2>2, <2>3, <2>4, SMT DEF InCalls
  <2> QED BY <1>3, <2>1, <2>2, <2>5, <2>6, <2>7, <2>8, Assemble DEF Control, Steps, Rest
<1>4. CASE Malformed
  BY <1>4, InvMalformed
<1> QED BY <1>2, <1>3, <1>4 DEF BodyPart

(* The units of a body that are in the read buffer. *)
LEMMA BodyUnits ==
  ASSUME ConnInv, c.state = "BODY_RECEIVING", c.rbuf # <<>>, c.got < Kind(c).upload,
         NEW p \in 0..Len(c.rbuf), c.got + p <= Kind(c).upload
  PROVE  After(kinds, input, p) = BodyToken(kinds, c.rq, c.got + p + 1)
<1>1. /\ nextToken = BodyToken(kinds, c.rq, c.got + 1) /\ nextToken = <<c.rq, "body", c.got + 1>>
      /\ Kind(c) = kinds[c.rq] /\ c.got \in Nat /\ c.rq \in Nat /\ Kind(c).upload \in Nat
  BY BodyNext
<1>2. CASE p = 0
  BY <1>1, <1>2 DEF nextToken
<1>3. CASE p # 0
  <2>1. /\ p \in 1..Len(input) /\ 1 \in 1..Len(input) /\ p - 1 \in Nat /\ 1 + (p - 1) = p /\ p \in Nat
        /\ 1 + (p - 1) <= Len(input)
    BY <1>3, InputTyped
  <2>2. input[1] = <<c.rq, "body", c.got + 1>>
    BY <1>1, <2>1, SMT DEF nextToken, After
  <2>3. (c.got + 1) + (p - 1) = c.got + p /\ c.got + p <= kinds[c.rq].upload
    BY <1>1, <2>1, SMTT(40)
  <2>4. input[1 + (p - 1)] = <<c.rq, "body", (c.got + 1) + (p - 1)>>
    BY <2>1, <2>2, <2>3 DEF ConnInv, Chained
  <2>5. input[p] = <<c.rq, "body", c.got + p>>
    BY <2>1, <2>3, <2>4
  <2>6. After(kinds, input, p) = Successor(kinds, input[p])
    BY <2>1 DEF ConnInv, Chained
  <2> QED BY <2>5, <2>6 DEF Successor
<1> QED BY <1>2, <1>3

LEMMA InvAppTakes ==
  ASSUME ConnInv, NEW p \in 0..MaxUpload, AppTakes(p)
  PROVE  ConnInv'
<1>1. /\ pc = "upload" /\ p <= Offered(c) /\ BodyTaken(p) /\ c.state = "BODY_RECEIVING"
      /\ c.rbuf # <<>> /\ c.got < Kind(c).upload /\ c.calls = "upload"
  BY DEF AppTakes, ConnInv, Control, InCalls
<1>2. /\ c.rq # 0 /\ Kind(c) \in KindType /\ c.got \in Nat /\ Kind(c).upload \in Nat /\ p \in Nat
      /\ c.remaining \in Remaining /\ MaxUpload \in Nat /\ c.remaining # 0 /\ ~c.discard
      /\ c.response = NoResponse
  BY <1>1, BodyNext, ConnTyped, Bounds DEF ConnType, ConnInv, Control, Counted, Called, Uploading
<1>3. /\ Kind(c).chunked => c.remaining = MHD_SIZE_UNKNOWN /\ p <= 1
      /\ ~Kind(c).chunked => c.remaining = Kind(c).upload - c.got /\ p <= c.remaining /\ p <= Len(c.rbuf)
  <2>1. /\ Kind(c).chunked => c.remaining = MHD_SIZE_UNKNOWN
        /\ ~Kind(c).chunked => c.remaining = Kind(c).upload - c.got
    BY <1>1, <1>2, SMT DEF ConnInv, Control, Counted, Uploading
  <2>2. Len(c.rbuf) \in Nat
    BY InputTyped
  <2> QED BY <1>1, <1>2, <2>1, <2>2, SMT DEF Offered, Min
<1>4. p \in 0..Len(c.rbuf) /\ c.got + p <= Kind(c).upload
  <2>1. Len(c.rbuf) \in Nat /\ Len(c.rbuf) >= 1
    BY <1>1, InputTyped
  <2> QED BY <1>1, <1>2, <1>3, <2>1, SMT
<1> DEFINE b == Drop(c.rbuf, p)
           g == c.got + p
           o == p > 0
           m == IF Kind(c).chunked THEN c.remaining ELSE c.remaining - p
           k == [c EXCEPT !.rbuf = b, !.got = g, !.some = o, !.remaining = m]
<1>5. IF Kind(c).chunked /\ p = 1 /\ k.rbuf # <<>> THEN c' = k /\ pc' = "body" /\ Rest ELSE BodyDone(k)
  BY <1>1 DEF BodyTaken
<1>6. /\ b \in Seq(Token) /\ g \in Nat /\ o \in BOOLEAN /\ m \in Remaining /\ "BODY_RECEIVED" \in States
      /\ g <= Kind(c).upload
  <2>1. b \in Seq(Token)
    BY <1>4, InputTyped DEF Drop
  <2>2. Kind(c).upload <= MaxUpload
    BY KindTyped, Bounds DEF ConnInv
  <2>3. m \in Remaining
    BY <1>2, <1>3, <1>4, <2>2, SMT DEF Remaining
  <2> QED BY <1>2, <1>4, <2>1, <2>3 DEF States, Receiving
<1>7. /\ Kind(c).chunked => m = MHD_SIZE_UNKNOWN
      /\ ~Kind(c).chunked => m = Kind(c).upload - g
  BY <1>2, <1>3, SMT
<1>8. m # 0 \/ (~Kind(c).chunked /\ g = Kind(c).upload)
  BY <1>2, <1>6, <1>7, UnknownSize, SMT
<1> HIDE DEF b, g, o, m
<1>9. k \in ConnType
  BY <1>6, ConnTyped, Zenon DEF ConnType
<1>10. /\ k.rbuf = b /\ k.rq = c.rq /\ k.got = g /\ k.calls = c.calls /\ k.state = c.state
       /\ k.discard = c.discard /\ k.remaining = m /\ k.response = c.response
       /\ k.suspended = c.suspended
  BY ConnTyped, SMT DEF ConnType
<1> HIDE DEF k
<1>11. /\ UNCHANGED <<kinds, wire>>
       /\ \/ c' = k /\ pc' = "body" /\ k.rbuf # <<>> /\ m # 0
          \/ c' = [k EXCEPT !.state = "BODY_RECEIVED"] /\ pc' = "idle" /\ m = 0
          \/ c' = k /\ pc' = "post" /\ m # 0
  <2>1. CASE Kind(c).chunked /\ p = 1 /\ k.rbuf # <<>>
    BY <1>5, <1>8, <2>1 DEF Rest
  <2>2. CASE ~(Kind(c).chunked /\ p = 1 /\ k.rbuf # <<>>)
    BY <1>5, <1>10, <2>2 DEF BodyDone, Continue, Break, Rest
  <2> QED BY <2>1, <2>2
<1>12. /\ c' \in ConnType /\ c'.rbuf = b /\ c'.rq = c.rq /\ c'.got = g /\ c'.calls = c.calls
       /\ c'.discard = c.discard /\ c'.remaining = m /\ c'.response = c.response
       /\ c'.suspended = c.suspended
       /\ m # 0 => c'.state = "BODY_RECEIVING" /\ pc' \in {"body", "post"}
       /\ m = 0 => c'.state = "BODY_RECEIVED" /\ pc' = "idle"
       /\ pc' = "body" => b # <<>>
  <2>1. CASE c' = k
    BY <1>1, <1>9, <1>10, <1>11, <2>1, SMT DEF ConnType
  <2>2. CASE c' = [k EXCEPT !.state = "BODY_RECEIVED"] /\ pc' = "idle" /\ m = 0
    <3>1. c' \in ConnType
      BY <1>6, <1>9, <2>2, Zenon DEF ConnType
    <3> QED BY <1>9, <1>10, <2>2, <3>1, SMT DEF ConnType
  <2> QED BY <1>11, <2>1, <2>2
<1>13. /\ Chained(kinds, input)' /\ nextToken' = BodyToken(kinds, c.rq, g + 1)
  BY <1>1, <1>4, <1>11, <1>12, Taken, BodyUnits DEF b, g
<1>14. /\ Kind(c)' = Kind(c) /\ BodyToken(kinds, c.rq, c.got + 1)' = BodyToken(kinds, c.rq, g + 1)
  BY <1>11, <1>12, SameKind DEF BodyToken, Start
<1>15. Framed'
  <2>1. g = Kind(c).upload /\ ~Kind(c).chunked => BodyToken(kinds, c.rq, g + 1) = Start(c.rq + 1)
    BY <1>2, <1>6, SMT DEF BodyToken, Kind
  <2> QED BY <1>8, <1>12, <1>13, <1>14, <2>1, SMT DEF Framed, Uploading, Replying, Sending, Start
<1>16. Counted'
  BY <1>2, <1>6, <1>7, <1>8, <1>12, <1>14, SMT DEF Counted, NoResponse, Uploading, Footers, Replying, Sending
<1>17. Called'
  BY <1>1, <1>2, <1>12, SMT DEF Called, NoResponse, Early, Uploading, Footers, Replying, Sending, Receiving
<1>18. InCalls'
  BY <1>12, SMT DEF InCalls
<1>19. Typed'
  BY <1>11, <1>12 DEF ConnInv, Typed, Steps
<1> QED BY <1>13, <1>15, <1>16, <1>17, <1>18, <1>19 DEF ConnInv, Control

-----------------------------------------------------------------------------
(* Another request. *)

LEMMA TokensShape ==
  ASSUME NEW n \in Nat, NEW kind \in KindType
  PROVE  LET t == Tokens(n, kind)
             u == kind.upload
         IN /\ t \in Seq(Token) /\ u \in Nat
            /\ Len(t) = IF kind.chunked THEN u + 5 ELSE u + 3
            /\ t[1] = <<n, "start", 0>> /\ t[2] = <<n, "line", 0>> /\ t[3] = <<n, "header", 0>>
            /\ \A i \in 1..u : t[3 + i] = <<n, "body", i>>
            /\ kind.chunked => t[u + 4] = <<n, "last", 0>> /\ t[u + 5] = <<n, "footer", 0>>
<1> DEFINE u == kind.upload
           a == <<<<n, "start", 0>>, <<n, "line", 0>>, <<n, "header", 0>>>>
           b == [i \in 1..u |-> <<n, "body", i>>]
           d == IF kind.chunked THEN <<<<n, "last", 0>>, <<n, "footer", 0>>>> ELSE <<>>
<1>1. u \in Nat
  BY Bounds DEF KindType
<1>2. a \in Seq(Token) /\ Len(a) = 3
  BY DEF Token, Parts
<1>3. b \in Seq(Token) /\ Len(b) = u /\ \A i \in 1..u : b[i] = <<n, "body", i>>
  <2>1. \A i \in 1..u : <<n, "body", i>> \in Token
    BY <1>1 DEF Token, Parts
  <2> QED BY <1>1, <2>1, IsASeq
<1>4. d \in Seq(Token) /\ Len(d) = IF kind.chunked THEN 2 ELSE 0
  <2>1. CASE kind.chunked
    BY <2>1 DEF Token, Parts
  <2>2. CASE ~kind.chunked
    <3>1. d = <<>>
      BY <2>2
    <3> HIDE DEF d
    <3> QED BY <2>2, <3>1, EmptySeq
  <2> QED BY <2>1, <2>2
<1>5. Tokens(n, kind) = (a \o b) \o d
  BY DEF Tokens
<1>6. /\ a[1] = <<n, "start", 0>> /\ a[2] = <<n, "line", 0>> /\ a[3] = <<n, "header", 0>>
      /\ kind.chunked => d[1] = <<n, "last", 0>> /\ d[2] = <<n, "footer", 0>>
  OBVIOUS
<1> HIDE DEF a, b, d, u
<1> DEFINE e == a \o b
<1>7. /\ e \in Seq(Token) /\ Len(e) = u + 3
      /\ \A i \in 1..(3 + u) : e[i] = IF i <= 3 THEN a[i] ELSE b[i - 3]
  <2>1. /\ e \in Seq(Token) /\ Len(e) = Len(a) + Len(b)
        /\ \A i \in 1..(Len(a) + Len(b)) : e[i] = IF i <= Len(a) THEN a[i] ELSE b[i - Len(a)]
    BY <1>2, <1>3, ConcatProperties
  <2> HIDE DEF e
  <2> QED BY <1>1, <1>2, <1>3, <2>1, SMT
<1> HIDE DEF e
<1>8. /\ e \o d \in Seq(Token) /\ Len(e \o d) = Len(e) + Len(d)
      /\ \A i \in 1..(Len(e) + Len(d)) : (e \o d)[i] = IF i <= Len(e) THEN e[i] ELSE d[i - Len(e)]
  BY <1>4, <1>7, ConcatProperties
<1> DEFINE f == e \o d
<1> HIDE DEF f
<1>9. Len(f) = (IF kind.chunked THEN u + 5 ELSE u + 3) /\ f \in Seq(Token)
  BY <1>1, <1>4, <1>7, <1>8, SMT DEF f
<1>10. f[1] = a[1] /\ f[2] = a[2] /\ f[3] = a[3]
  BY <1>1, <1>4, <1>7, <1>8, SMT DEF f
<1>11. ASSUME NEW i \in 1..u PROVE f[3 + i] = <<n, "body", i>>
  <2>1. 3 + i \in 1..(Len(e) + Len(d)) /\ 3 + i <= Len(e) /\ 3 + i \in 1..(3 + u) /\ ~(3 + i <= 3) /\ (3 + i) - 3 = i
    BY <1>1, <1>4, <1>7, SMT
  <2> QED BY <1>3, <1>7, <1>8, <2>1 DEF f
<1>12. kind.chunked => f[u + 4] = d[1] /\ f[u + 5] = d[2]
  BY <1>1, <1>4, <1>7, <1>8, SMT DEF f
<1> QED BY <1>1, <1>5, <1>6, <1>9, <1>10, <1>11, <1>12 DEF u, e, f


LEMMA Successors ==
  ASSUME NEW K, NEW n, NEW i
  PROVE  /\ Successor(K, <<n, "start", 0>>) = <<n, "line", 0>>
         /\ Successor(K, <<n, "line", 0>>) = <<n, "header", 0>>
         /\ Successor(K, <<n, "header", 0>>) = BodyToken(K, n, 1)
         /\ Successor(K, <<n, "body", i>>) = BodyToken(K, n, i + 1)
         /\ Successor(K, <<n, "last", 0>>) = <<n, "footer", 0>>
         /\ Successor(K, <<n, "footer", 0>>) = Start(n + 1)
BY DEF Successor

\* Before the d-th unit of a body there is room for one more.
LEMMA OneMore ==
  ASSUME NEW x \in Nat, NEW e \in Nat, NEW d \in Nat, NEW u \in Nat, e < d, x + d <= u
  PROVE  x + e <= u /\ (x + e) + 1 <= u
OBVIOUS

(* A request is a chained stream, and may follow one. *)
LEMMA SentIsChained ==
  ASSUME NEW K \in Seq(KindType), NEW kind \in KindType, NEW s, Chained(K, s)
  PROVE  LET L == Append(K, kind)
             z == s \o Tokens(Len(K) + 1, kind)
         IN Chained(L, z) /\ After(L, z, 0) = After(K, s, 0) /\ z # <<>>
<1> DEFINE n == Len(K) + 1
           L == Append(K, kind)
           t == Tokens(n, kind)
           z == s \o t
           u == kind.upload
<1>3. s \in Seq(Token) /\ n \in Nat /\ Len(K) \in Nat /\ Len(s) \in Nat
  BY DEF Chained
<1>5. /\ t \in Seq(Token) /\ u \in Nat /\ Len(t) \in Nat
      /\ Len(t) = IF kind.chunked THEN u + 5 ELSE u + 3
      /\ t[1] = <<n, "start", 0>> /\ t[2] = <<n, "line", 0>> /\ t[3] = <<n, "header", 0>>
      /\ \A i \in 1..u : t[3 + i] = <<n, "body", i>>
      /\ kind.chunked => t[u + 4] = <<n, "last", 0>> /\ t[u + 5] = <<n, "footer", 0>>
  <2>1. /\ t \in Seq(Token) /\ u \in Nat
        /\ Len(t) = IF kind.chunked THEN u + 5 ELSE u + 3
        /\ t[1] = <<n, "start", 0>> /\ t[2] = <<n, "line", 0>> /\ t[3] = <<n, "header", 0>>
        /\ \A i \in 1..u : t[3 + i] = <<n, "body", i>>
        /\ kind.chunked => t[u + 4] = <<n, "last", 0>> /\ t[u + 5] = <<n, "footer", 0>>
    BY <1>3, TokensShape
  <2>2. Len(t) \in Nat
    BY <2>1, LenProperties
  <2> QED BY <2>1, <2>2
<1>6. /\ L \in Seq(KindType) /\ Len(L) = n /\ L[n] = kind
      /\ \A i \in 1..Len(K) : L[i] = K[i]
  BY <1>3
<1>7. \A i \in Nat : BodyToken(L, n, i) = IF i <= u THEN <<n, "body", i>>
                     ELSE IF kind.chunked THEN <<n, "last", 0>> ELSE Start(n + 1)
  BY <1>6 DEF BodyToken
<1> HIDE DEF t, L
<1>8. /\ z \in Seq(Token) /\ Len(z) = Len(s) + Len(t)
      /\ \A i \in 1..(Len(s) + Len(t)) : z[i] = IF i <= Len(s) THEN s[i] ELSE t[i - Len(s)]
  BY <1>3, <1>5, ConcatProperties
<1> HIDE DEF z, u, n
<1>a. /\ u \in Nat /\ Len(t) \in Nat /\ Len(t) >= u + 3
      /\ kind.chunked => Len(t) = u + 5
      /\ ~kind.chunked => Len(t) = u + 3
  <2>1. u \in Nat /\ Len(t) \in Nat /\ Len(t) = IF kind.chunked THEN u + 5 ELSE u + 3
    BY <1>5
  <2> QED BY ONLY <2>1
<1>b. t[1] = <<n, "start", 0>> /\ t[2] = <<n, "line", 0>> /\ t[3] = <<n, "header", 0>>
  BY <1>5
<1>c. \A i \in 1..u : t[3 + i] = <<n, "body", i>>
  BY <1>5
<1>d. kind.chunked => t[u + 4] = <<n, "last", 0>> /\ t[u + 5] = <<n, "footer", 0>>
  BY <1>5
<1>e. /\ Successor(L, <<n, "start", 0>>) = <<n, "line", 0>>
      /\ Successor(L, <<n, "line", 0>>) = <<n, "header", 0>>
      /\ Successor(L, <<n, "header", 0>>) = BodyToken(L, n, 1)
      /\ \A i : Successor(L, <<n, "body", i>>) = BodyToken(L, n, i + 1)
      /\ Successor(L, <<n, "last", 0>>) = <<n, "footer", 0>>
      /\ Successor(L, <<n, "footer", 0>>) = Start(n + 1)
  BY Successors, Zenon
<1>9. /\ \A i \in 1..Len(s) : z[i] = s[i]
      /\ \A j \in 1..Len(t) : z[Len(s) + j] = t[j]
  <2>1. ASSUME NEW i \in 1..Len(s) PROVE z[i] = s[i]
    <3>1. i \in 1..(Len(s) + Len(t)) /\ i <= Len(s)
      BY <1>3, <1>a
    <3> QED BY <3>1, <1>8
  <2>2. ASSUME NEW j \in 1..Len(t) PROVE z[Len(s) + j] = t[j]
    <3>1. Len(s) + j \in 1..(Len(s) + Len(t)) /\ ~(Len(s) + j <= Len(s)) /\ (Len(s) + j) - Len(s) = j
      BY <1>3, <1>a
    <3> QED BY <3>1, <1>8
  <2> QED BY <2>1, <2>2
<1>10. \A i \in 1..Len(s) : s[i] \in Token /\ s[i][1] \in 1..Len(K) /\ After(K, s, i) = Successor(K, s[i])
  BY <1>3, ElementOfSeq DEF Chained
\* The successors of the tokens of the earlier requests do not change.
<1>11. ASSUME NEW x \in Token, x[1] \in 1..Len(K)
       PROVE  Successor(L, x) = Successor(K, x)
  <2>1. L[x[1]] = K[x[1]]
    BY <1>6, <1>11
  <2>2. \A i : BodyToken(L, x[1], i) = BodyToken(K, x[1], i)
    BY <2>1 DEF BodyToken
  <2> QED BY <2>2 DEF Successor
<1>12. /\ After(K, s, Len(s)) = t[1] /\ z[Len(s) + 1] = t[1]
  <2>1. 1 \in 1..Len(t)
    BY <1>a
  <2> QED BY <1>3, <1>b, <1>9, <2>1 DEF After, Start, n
<1>13. ASSUME NEW i \in 0..Len(s) PROVE After(L, z, i) = After(K, s, i)
  <2>1. After(L, z, i) = z[i + 1]
    BY <1>3, <1>a, <1>8 DEF After
  <2>2. CASE i = Len(s)
    BY <2>1, <2>2, <1>12
  <2>3. CASE i # Len(s)
    <3>1. i + 1 \in 1..Len(s) /\ i < Len(s)
      BY <2>3, <1>3
    <3> QED BY <2>1, <3>1, <1>9 DEF After
  <2> QED BY <2>2, <2>3
<1>14. ASSUME NEW i \in 1..Len(s)
       PROVE  z[i][1] \in 1..Len(L) /\ After(L, z, i) = Successor(L, z[i])
  <2>1. z[i] = s[i] /\ s[i] \in Token /\ s[i][1] \in 1..Len(K)
    BY <1>9, <1>10
  <2>2. Successor(L, s[i]) = After(K, s, i)
    BY <2>1, <1>10, <1>11
  <2>3. After(L, z, i) = After(K, s, i)
    BY <1>3, <1>13
  <2>4. s[i][1] \in 1..Len(L)
    BY <2>1, <1>3, <1>6 DEF n
  <2> QED BY <2>1, <2>2, <2>3, <2>4
<1>15. ASSUME NEW j \in 1..Len(t)
       PROVE  t[j][1] = n /\ After(L, z, Len(s) + j) = Successor(L, t[j])
  <2>1. After(L, z, Len(s) + j) = IF j < Len(t) THEN t[j + 1] ELSE Start(n + 1)
    <3>1. CASE j < Len(t)
      <4>1. j + 1 \in 1..Len(t) /\ Len(s) + j < Len(z) /\ (Len(s) + j) + 1 = Len(s) + (j + 1)
        BY <3>1, <1>3, <1>a, <1>8
      <4> QED BY <3>1, <4>1, <1>9 DEF After
    <3>2. CASE ~(j < Len(t))
      <4>1. ~(Len(s) + j < Len(z))
        BY <3>2, <1>3, <1>a, <1>8
      <4> QED BY <3>2, <4>1, <1>6 DEF After
    <3> QED BY <3>1, <3>2
  <2>2. CASE j = 1
    <3>1. j < Len(t) /\ j + 1 = 2
      BY <2>2, <1>a
    <3>2. t[j] = <<n, "start", 0>> /\ t[j + 1] = <<n, "line", 0>>
      BY <2>2, <3>1, <1>b
    <3> QED BY <2>1, <3>1, <3>2, <1>e
  <2>3. CASE j = 2
    <3>1. j < Len(t) /\ j + 1 = 3
      BY <2>3, <1>a
    <3>2. t[j] = <<n, "line", 0>> /\ t[j + 1] = <<n, "header", 0>>
      BY <2>3, <3>1, <1>b
    <3> QED BY <2>1, <3>1, <3>2, <1>e
  <2>4. CASE j \in 3..(3 + u)
    <3> DEFINE i == j - 3
    <3>1. i \in 0..u /\ j = 3 + i /\ i + 1 \in Nat
      BY <2>4, <1>a
    <3>2. t[j][1] = n /\ Successor(L, t[j]) = BodyToken(L, n, i + 1)
      <4>1. CASE i = 0
        <5>1. j = 3 /\ i + 1 = 1
          BY <4>1, <3>1
        <5> QED BY <5>1, <1>b, <1>e
      <4>2. CASE i # 0
        <5>1. i \in 1..u
          BY <4>2, <3>1, <1>a
        <5>2. t[j] = <<n, "body", i>>
          BY <5>1, <3>1, <1>c
        <5> QED BY <5>2, <1>e
      <4> QED BY <4>1, <4>2
    <3> HIDE DEF i
    <3>3. CASE i + 1 <= u
      <4>1. i + 1 \in 1..u /\ 3 + (i + 1) = j + 1 /\ j < Len(t)
        BY <3>1, <3>3, <1>a
      <4>2. t[3 + (i + 1)] = <<n, "body", i + 1>>
        BY <4>1, <1>c
      <4> QED BY <2>1, <3>2, <3>3, <4>1, <4>2, <1>7
    <3>4. CASE ~(i + 1 <= u) /\ kind.chunked
      <4>1. j + 1 = u + 4 /\ j < Len(t)
        BY <3>1, <3>4, <1>a
      <4> QED BY <2>1, <3>1, <3>2, <3>4, <4>1, <1>a, <1>d, <1>7
    <3>5. CASE ~(i + 1 <= u) /\ ~kind.chunked
      <4>1. ~(j < Len(t))
        BY <3>1, <3>5, <1>a
      <4> QED BY <2>1, <3>1, <3>2, <3>5, <4>1, <1>7
    <3> QED BY <3>3, <3>4, <3>5
  <2>5. CASE j = u + 4
    <3>1. kind.chunked /\ j < Len(t) /\ j + 1 = u + 5
      BY <2>5, <1>a
    <3>2. t[j] = <<n, "last", 0>> /\ t[j + 1] = <<n, "footer", 0>>
      BY <2>5, <3>1, <1>d
    <3> QED BY <2>1, <3>1, <3>2, <1>e
  <2>6. CASE j = u + 5
    <3>1. kind.chunked /\ ~(j < Len(t))
      BY <2>6, <1>a
    <3>2. t[j] = <<n, "footer", 0>>
      BY <2>6, <3>1, <1>d
    <3> QED BY <2>1, <3>1, <3>2, <1>e
  <2>7. j = 1 \/ j = 2 \/ j \in 3..(3 + u) \/ j = u + 4 \/ j = u + 5
    BY <1>a
  <2> QED BY <2>2, <2>3, <2>4, <2>5, <2>6, <2>7
<1>16. ASSUME NEW i \in 1..Len(z)
       PROVE  z[i][1] \in 1..Len(L) /\ After(L, z, i) = Successor(L, z[i])
  <2>1. CASE i <= Len(s)
    BY <2>1, <1>3, <1>14
  <2>2. CASE ~(i <= Len(s))
    <3> DEFINE j == i - Len(s)
    <3>1. j \in 1..Len(t) /\ i = Len(s) + j
      BY <2>2, <1>3, <1>a, <1>8
    <3> HIDE DEF j
    <3>2. z[i] = t[j] /\ t[j][1] = n /\ After(L, z, i) = Successor(L, t[j])
      BY <3>1, <1>9, <1>15
    <3>3. n \in 1..Len(L)
      BY <1>3, <1>6 DEF n
    <3> QED BY <3>2, <3>3
  <2> QED BY <2>1, <2>2
<1>17. ASSUME NEW i \in 1..Len(z), NEW d \in Nat, i + d <= Len(z), z[i][2] = "body",
              z[i][3] + d <= L[z[i][1]].upload
       PROVE  z[i + d] = <<z[i][1], "body", z[i][3] + d>>
  <2>1. CASE i <= Len(s)
    <3>1. /\ i \in 1..Len(s) /\ z[i] = s[i] /\ s[i] \in Token /\ s[i][1] \in 1..Len(K)
          /\ L[s[i][1]] = K[s[i][1]] /\ s[i][3] \in Nat
      BY <2>1, <1>3, <1>6, <1>9, <1>10, SMTT(40) DEF Token
    <3>2. CASE i + d <= Len(s)
      <4>1. s[i + d] = <<s[i][1], "body", s[i][3] + d>>
        BY <3>1, <3>2, <1>17 DEF Chained
      <4>2. i + d \in 1..Len(s)
        BY <3>1, <3>2, <1>3
      <4> QED BY <3>1, <4>1, <4>2, <1>9
    \* The body would go on where the stream so far ends.
    <3>3. CASE ~(i + d <= Len(s))
      <4> DEFINE e == Len(s) - i
      <4>1. e \in Nat /\ i + e = Len(s) /\ e < d /\ Len(s) \in 1..Len(s)
        BY <3>1, <3>3, <1>3
      <4>2. K[s[i][1]].upload \in Nat
        <5>1. K[s[i][1]] \in KindType
          BY <3>1, ElementOfSeq
        <5> QED BY <5>1, Bounds DEF KindType
      <4> HIDE DEF e
      <4>3. s[i][3] + e <= K[s[i][1]].upload /\ (s[i][3] + e) + 1 <= K[s[i][1]].upload
        <5>1. s[i][3] + d <= K[s[i][1]].upload /\ s[i][3] \in Nat
          BY <3>1, <1>17
        <5> QED BY <5>1, <4>1, <4>2, OneMore, ZenonT(60)
      <4>4. s[Len(s)] = <<s[i][1], "body", s[i][3] + e>>
        <5>1. s[i][2] = "body" /\ i + e <= Len(s)
          BY <3>1, <4>1, <1>17
        <5>2. s[i + e] = <<s[i][1], "body", s[i][3] + e>>
          BY <5>1, <3>1, <4>1, <4>3 DEF Chained
        <5> QED BY <5>2, <4>1
      <4>5. After(K, s, Len(s)) = BodyToken(K, s[i][1], (s[i][3] + e) + 1)
        BY <4>1, <4>4, <1>10, Successors
      <4>6. After(K, s, Len(s)) = <<s[i][1], "body", (s[i][3] + e) + 1>>
        BY <4>3, <4>5 DEF BodyToken
      <4> QED BY <4>6, <1>b, <1>12
    <3> QED BY <3>2, <3>3
  <2>2. CASE ~(i <= Len(s))
    <3> DEFINE j == i - Len(s)
    <3>1. j \in 1..Len(t) /\ i = Len(s) + j /\ j + d \in 1..Len(t) /\ i + d = Len(s) + (j + d)
      <4>1. Len(z) = Len(s) + Len(t) /\ i + d <= Len(z) /\ i \in 1..Len(z)
        BY <1>8, <1>17
      <4> QED BY <2>2, <1>3, <1>a, <4>1
    <3> HIDE DEF j
    <3>2. z[i] = t[j] /\ z[i + d] = t[j + d]
      BY <3>1, <1>9
    <3>3. j \in 4..(3 + u)
      <4>1. j # 1 /\ j # 2 /\ j # 3 /\ (kind.chunked => j # u + 4 /\ j # u + 5)
        BY <3>2, <1>b, <1>d, <1>17
      <4> QED BY <3>1, <4>1, <1>a
    <3> DEFINE q == j - 3
    <3>4. q \in 1..u /\ j = 3 + q
      BY <3>3, <1>a
    <3> HIDE DEF q
    <3>5. t[j] = <<n, "body", q>>
      BY <3>4, <1>c
    <3>6. q + d <= u
      BY <3>2, <3>5, <1>6, <1>17 DEF u
    <3>7. q + d \in 1..u /\ j + d = 3 + (q + d)
      BY <3>4, <3>6, <1>a
    <3>8. t[j + d] = <<n, "body", q + d>>
      BY <3>7, <1>c
    <3> QED BY <3>2, <3>5, <3>8
  <2> QED BY <2>1, <2>2
<1>18. After(L, z, 0) = After(K, s, 0)
  BY <1>3, <1>13
<1>19. z # <<>>
  BY <1>3, <1>a, <1>8
<1>20. Chained(L, z)
  BY <1>8, <1>16, <1>17 DEF Chained
<1> QED BY <1>18, <1>19, <1>20 DEF L, z, t, n

LEMMA InvClientSends == ConnInv /\ ClientSends => ConnInv'
<1> SUFFICES ASSUME ConnInv, ClientSends PROVE ConnInv'
  OBVIOUS
<1>1. PICK kind \in Kinds : kinds' = Append(kinds, kind) /\ wire' = Tokens(Len(kinds) + 1, kind)
  BY DEF ClientSends
<1>2. wire = <<>> /\ UNCHANGED <<c, pc>>
  BY DEF ClientSends
<1>3. /\ kind \in KindType /\ kinds \in Seq(KindType) /\ c \in ConnType /\ c.rbuf \in Seq(Token)
      /\ c.rq \in Nat /\ c.rq <= Len(kinds) /\ pc \in Steps /\ Chained(kinds, input)
  BY KindAssumption DEF ConnInv, Typed, ConnType
<1>4. input = c.rbuf /\ input' = c.rbuf \o Tokens(Len(kinds) + 1, kind)
  BY <1>1, <1>2, <1>3, ConcatEmptySeq DEF input
<1>5. Chained(kinds', input') /\ After(kinds', input', 0) = After(kinds, input, 0) /\ input' # <<>>
  BY <1>1, <1>3, <1>4, SentIsChained
<1>6. nextToken' = nextToken /\ Chained(kinds, input)'
  BY <1>5 DEF nextToken, Chained, After, Successor, BodyToken, Start
<1>7. /\ kinds' \in Seq(KindType) /\ Len(kinds') = Len(kinds) + 1 /\ Len(kinds) \in Nat
      /\ \A i \in 1..Len(kinds) : kinds'[i] = kinds[i]
  BY <1>1, <1>3
<1>8. wire' \in Seq(Token)
  <2>1. Len(kinds) + 1 \in Nat
    BY <1>7
  <2> QED BY <1>1, <1>3, <2>1, TokensShape
<1>9. Typed'
  BY <1>2, <1>3, <1>7, <1>8 DEF Typed
<1>10. Kind(c)' = Kind(c)
  BY <1>2, <1>3, <1>7 DEF Kind
<1>12. input = <<>> => nextToken[2] = "start"
  BY <1>3, <1>7 DEF nextToken, After, Start
<1>13. c.state \in {"HEADERS_RECEIVED", "HEADERS_PROCESSED"} \cup Uploading => c.rq # 0
  BY SMT DEF ConnInv, Control, Called, Uploading, Receiving
<1>14. BodyToken(kinds, c.rq, c.got + 1)' = BodyToken(kinds', c.rq, c.got + 1)
  BY <1>2 DEF BodyToken, Start
<1>15. c.rq # 0 => BodyToken(kinds', c.rq, c.got + 1) = BodyToken(kinds, c.rq, c.got + 1)
  BY <1>3, <1>7 DEF BodyToken
<1>16. Framed'
  BY <1>2, <1>6, <1>10, <1>12, <1>13, <1>14, <1>15, SMT DEF ConnInv, Control, Framed, Start
<1>17. Counted' /\ Called' /\ InCalls'
  BY <1>2, <1>10, SMT DEF ConnInv, Control, Counted, Called, InCalls
<1> QED BY <1>6, <1>9, <1>16, <1>17 DEF ConnInv, Control

-----------------------------------------------------------------------------
(* All steps together. *)

StepInv == ConnInv /\ AfterTyped

LEMMA InitInv == Init => StepInv
<1> SUFFICES ASSUME Init PROVE StepInv
  OBVIOUS
<1>1. c = NewConnection /\ kinds = <<>> /\ wire = <<>> /\ pc = "poll" /\ after = "poll"
  BY DEF Init
<1>2. c \in ConnType
  <2>1. "INIT" \in States /\ "READ" \in Infos /\ 0 \in Remaining /\ <<>> \in Seq(Token)
    BY Bounds DEF States, Infos
  <2>2. 0 \in Nat /\ 0 \in Int
    OBVIOUS
  <2> QED BY <1>1, <2>1, <2>2, Responses, Zenon DEF NewConnection, ConnType
<1>3. /\ c.state = "INIT" /\ c.rbuf = <<>> /\ c.rq = 0 /\ c.got = 0 /\ c.calls = "none"
      /\ ~c.discard /\ c.response = NoResponse /\ ~c.suspended
  BY <1>1, SMT DEF NewConnection
<1>4. Typed
  BY <1>1, <1>2, <1>3 DEF Typed, Steps
<1>5. input = <<>>
  BY <1>1, <1>3 DEF input
<1>6. Chained(kinds, input)
  BY <1>5 DEF Chained
<1>7. Kind(c).upload = 0
  BY <1>3, SMT DEF Kind, NoKind
<1>8. Framed
  BY <1>3, <1>5, SMT DEF Framed, Uploading, Replying, Sending
<1>9. Counted
  BY <1>3, <1>7, SMT DEF Counted, Uploading, Footers, Replying, Sending, NoResponse
<1>10. Called
  BY <1>3, SMT DEF Called, Early, Uploading, Footers, Receiving, Replying, Sending, NoResponse
<1>11. InCalls
  BY <1>1, <1>3, SMT DEF InCalls
<1> QED BY <1>1, <1>4, <1>6, <1>8, <1>9, <1>10, <1>11 DEF StepInv, ConnInv, Control, AfterTyped

LEMMA AfterKept == ConnInv /\ AfterTyped /\ [Next]_vars => AfterTyped'
<1> SUFFICES ASSUME AfterTyped, [Next]_vars PROVE AfterTyped'
  OBVIOUS
<1>1. CASE UNCHANGED after
  BY <1>1 DEF AfterTyped
<1>2. CASE OtherThreadQueues
  BY <1>2 DEF OtherThreadQueues, AfterTyped
<1>3. ASSUME NEW r \in BOOLEAN, NEW w \in BOOLEAN, NEW f \in BOOLEAN, Dispatch(r, w, f) PROVE AfterTyped'
  BY <1>3 DEF Dispatch, AfterTyped
<1>4. CASE AfterIdle
  BY <1>4 DEF AfterIdle, AfterTyped
<1>5. CASE ClientSends \/ OtherThreadResumes \/ Resume \/ ReadSteps \/ WriteSteps \/ Done \/ UNCHANGED vars
  <2>1. UNCHANGED after
    BY <1>5 DEF ClientSends, OtherThreadResumes, Resume, ReadSteps, ReadData, ReadClosed, ReadError,
                WriteSteps, Write, WriteError, Done, vars, tvars
  <2> QED BY <1>1, <2>1
<1>6. CASE IdleSteps
  <2>1. UNCHANGED after
    BY <1>6, ZenonT(60) DEF IdleSteps, IdleRequestLine, IdleRequestLineReceived, IdleHeaders, IdleParseHeaders,
       IdleFirstCall, IdleContinue, IdleBody, BodyPart, IdleBodyReceived, IdleFooters,
       IdleFootersReceived, IdleFinalCall, AfterFirstCall, AfterFinalCall, AfterOtherCall,
       IdleStartReply, IdleNothing, IdleHeadersSent, IdleNormalBody, IdleChunkedBody,
       IdleChunkedSent, IdleReplySent, IdleClosed, IdleSuspended, IdleTimeout, IdleEnd,
       CallHandler, BodyDone, Goto, Continue, Break, Malformed, Rest, tvars
  <2> QED BY <1>1, <2>1
<1>7. CASE AppSteps
  <2>1. UNCHANGED after
    BY <1>7 DEF AppSteps, AppQueues, AppSuspends, AppReturns, AppFails, AppTakes, BodyTaken, BodyDone,
       Continue, Break, Rest, tvars
  <2> QED BY <1>1, <2>1
<1> QED BY <1>2, <1>3, <1>4, <1>5, <1>6, <1>7 DEF Next

LEMMA StepKept == ConnInv /\ AfterTyped /\ [Next]_vars => ConnInv'
<1> SUFFICES ASSUME ConnInv, AfterTyped, [Next]_vars PROVE ConnInv'
  OBVIOUS
<1>1. CASE UNCHANGED vars
  <2>1. UNCHANGED <<c, kinds, wire, pc>>
    BY <1>1 DEF vars
  <2>2. Kind(c)' = Kind(c) /\ nextToken' = nextToken /\ input' = input
        /\ BodyToken(kinds, c.rq, c.got + 1)' = BodyToken(kinds, c.rq, c.got + 1)
    BY <2>1, Unmoved DEF Kind, BodyToken, Start
  <2>3. Control'
    BY <2>1, <2>2, SMT DEF ConnInv, Control, Framed, Counted, Called, InCalls, Start
  <2> QED BY <2>1, <2>3, Assemble DEF ConnInv, Typed
<1>2. CASE Done
  BY <1>1, <1>2 DEF Done
<1>3. CASE ClientSends \/ OtherThreadQueues \/ OtherThreadResumes \/ Resume
  BY <1>3, InvClientSends, InvOtherThreadQueues, InvOtherThreadResumes, InvResume
<1>4. ASSUME NEW r \in BOOLEAN, NEW w \in BOOLEAN, NEW f \in BOOLEAN, Dispatch(r, w, f) PROVE ConnInv'
  BY <1>4, InvDispatch
<1>5. CASE AfterIdle \/ ReadSteps \/ WriteSteps
  BY <1>5, InvAfterIdle, InvReadData, InvReadClosed, InvReadError, InvWrite, InvWriteError
     DEF ReadSteps, WriteSteps
<1>6. CASE IdleSteps
  BY <1>6, InvIdleRequestLine, InvIdleRequestLineReceived, InvIdleHeaders, InvIdleParseHeaders,
     InvIdleFirstCall, InvIdleContinue, InvIdleBody, InvBodyPart, InvIdleBodyReceived,
     InvIdleFooters, InvIdleFootersReceived, InvIdleFinalCall, InvAfterFirstCall,
     InvAfterFinalCall, InvAfterOtherCall, InvIdleStartReply, InvIdleNothing, InvIdleHeadersSent,
     InvIdleNormalBody, InvIdleChunkedBody, InvIdleChunkedSent, InvIdleReplySent, InvIdleClosed,
     InvIdleSuspended, InvIdleTimeout, InvIdleEnd DEF IdleSteps
<1>7. CASE AppSteps
  BY <1>7, InvAppQueues, InvAppSuspends, InvAppReturns, InvAppFails, InvAppTakes DEF AppSteps
<1> QED BY <1>1, <1>2, <1>3, <1>4, <1>5, <1>6, <1>7 DEF Next

\* ConnInv holds in every reachable state: where the connection is in its
\* request decides what is next in its input, how much of the body is missing
\* and which calls of the access handler have been made.  Code:
\* MHD_connection_handle_idle() with the functions it calls.
THEOREM ControlKept == Spec => []StepInv
<1>1. Init => StepInv
  BY InitInv
<1>2. StepInv /\ [Next]_vars => StepInv'
  BY StepKept, AfterKept DEF StepInv
<1> QED BY <1>1, <1>2, PTL DEF Spec

LEMMA FramingFromControl == ConnInv => FramingKept
<1> SUFFICES ASSUME ConnInv PROVE FramingKept
  OBVIOUS
<1> DEFINE next == IF input = <<>> THEN <<0, "start", 0>> ELSE Head(input)
<1>1. input \in Seq(Token) /\ c.got \in Nat /\ Kind(c).upload \in Nat /\ c.rq \in Nat
  BY KindTyped, Bounds DEF ConnInv, Chained, Typed, ConnType
<1>2. input # <<>> => next = nextToken
  <2>1. input # <<>> => 0 < Len(input) /\ Head(input) = input[1] /\ 0 + 1 = 1
    BY <1>1, SMT
  <2> QED BY <2>1 DEF nextToken, After
<1>3. input = <<>> => next[2] = "start"
  OBVIOUS
<1> HIDE DEF next
<1>4. c.state \in {"INIT", "REQ_LINE_RECEIVING"} => next[2] = "start"
  BY <1>2, <1>3 DEF ConnInv, Control, Framed
<1>5. c.state = "REQ_HEADERS_RECEIVING" /\ input # <<>> => next = <<c.rq, "header", 0>>
  BY <1>2 DEF ConnInv, Control, Framed
<1>6. ASSUME c.state = "BODY_RECEIVING", input # <<>>
      PROVE  next = IF c.got < Kind(c).upload THEN <<c.rq, "body", c.got + 1>>
                    ELSE <<c.rq, "last", 0>>
  <2>1. nextToken = BodyToken(kinds, c.rq, c.got + 1) /\ ~c.discard /\ c.rq # 0
    BY <1>6, SMT DEF ConnInv, Control, Framed, Called, Uploading, Receiving
  <2>2. Kind(c) = kinds[c.rq]
    BY <2>1 DEF Kind
  <2>3. ~Kind(c).chunked => c.got < Kind(c).upload
    BY <1>1, <1>6, <2>1, SMT DEF ConnInv, Control, Counted, Uploading
  <2>4. c.got + 1 <= Kind(c).upload <=> c.got < Kind(c).upload
    BY <1>1
  <2> QED BY <1>2, <1>6, <2>1, <2>2, <2>3, <2>4 DEF BodyToken
<1>7. c.state = "FOOTERS_RECEIVING" /\ input # <<>> => next = <<c.rq, "footer", 0>>
  BY <1>2 DEF ConnInv, Control, Framed
<1>8. c.state = "FULL_REQ_RECEIVED" /\ ~c.discard => next[2] = "start"
  <2>1. c.state = "FULL_REQ_RECEIVED" /\ ~c.discard => nextToken = Start(c.rq + 1)
    BY SMT DEF ConnInv, Control, Framed, Replying
  <2> QED BY <1>2, <1>3, <2>1 DEF Start
<1> QED BY <1>4, <1>5, <1>6, <1>7, <1>8 DEF FramingKept, next, input

\* What the connection takes next from its input is what the client put there
\* for this purpose, for any requests in any number and cut in any way by the
\* socket, with early replies, errors, suspensions and 102 replies.  Code:
\* connection_reset(), MHD_queue_response(), process_request_body(),
\* get_request_line() and get_req_headers().
THEOREM FramingIsKept == Spec => []FramingKept
BY ControlKept, FramingFromControl, PTL DEF StepInv

-----------------------------------------------------------------------------
(***************************************************************************)
(* The calls of the access handler are those of AccessHandler.             *)
(***************************************************************************)

HandlerStep == [Handler!Next]_(Handler!hvars)

\* What a step does with the calls.
Quiet(k, e) == e.calls = k.calls /\ e.got = k.got /\ e.rq = k.rq /\ e.discard = k.discard
GivesUp(k, e) == e.calls = k.calls /\ e.got = k.got /\ e.rq = k.rq /\ e.discard = TRUE
Over(e) == e.calls = "none" /\ e.got = 0

LEMMA QuietStep ==
  ASSUME Kind(c)' = Kind(c), Quiet(c, c')
  PROVE  HandlerStep
BY DEF HandlerStep, Handler!hvars, Quiet

LEMMA GivesUpStep ==
  ASSUME ConnInv, Kind(c)' = Kind(c), GivesUp(c, c')
  PROVE  HandlerStep
<1>1. CASE c.calls = "none"
  BY <1>1 DEF HandlerStep, Handler!hvars, GivesUp
<1>2. CASE c.calls # "none"
  <2>1. Handler!Discard
    BY <1>2 DEF Handler!Discard, GivesUp
  <2> QED BY <2>1 DEF HandlerStep, Handler!Next
<1> QED BY <1>1, <1>2

LEMMA OverStep ==
  ASSUME ConnInv, Over(c')
  PROVE  HandlerStep
<1>1. CASE c.calls = "none"
  <2>1. c.got = 0
    BY <1>1 DEF ConnInv, Control, Called
  <2> QED BY <1>1, <2>1 DEF HandlerStep, Handler!hvars, Over
<1>2. CASE c.calls # "none"
  <2>1. Handler!Completed
    BY <1>2 DEF Handler!Completed, Over
  <2> QED BY <2>1 DEF HandlerStep, Handler!Next
<1> QED BY <1>1, <1>2

LEMMA FailedStep ==
  ASSUME ConnInv, Failed(c, c'), UNCHANGED kinds
  PROVE  HandlerStep
<1>1. Over(c') \/ GivesUp(c, c')
  BY ConnTyped DEF Failed, Closed, Over, GivesUp, ConnType
<1>2. Kind(c)' = Kind(c)
  BY SameKind DEF Failed
<1> QED BY <1>1, <1>2, OverStep, GivesUpStep

LEMMA SameStep ==
  ASSUME ConnInv, SameRequest(c, c') \/ c' = c, UNCHANGED kinds
  PROVE  HandlerStep
<1>1. Quiet(c, c')
  BY DEF SameRequest, Quiet
<1> QED BY <1>1, SameKind, QuietStep DEF Quiet

\* A change of a few fields the contract does not speak of.
LEMMA QuietChange ==
  ASSUME ConnInv, UNCHANGED kinds, Quiet(c, c')
  PROVE  HandlerStep
BY SameKind, QuietStep DEF Quiet

LEMMA HandlerQueues ==
  ASSUME ConnInv, UNCHANGED kinds, NEW r \in Replies, c' = MHD_queue_response(c, r)
  PROVE  HandlerStep
<1>1. Quiet(c, c') \/ GivesUp(c, c')
  BY ConnTyped, SMT DEF MHD_queue_response, ConnType, Quiet, GivesUp
<1> QED BY <1>1, SameKind, QuietStep, GivesUpStep DEF Quiet, GivesUp

LEMMA HandlerClient == ConnInv /\ ClientSends => HandlerStep
<1> SUFFICES ASSUME ConnInv, ClientSends PROVE HandlerStep
  OBVIOUS
<1>1. PICK kind \in Kinds : kinds' = Append(kinds, kind)
  BY DEF ClientSends
<1>2. c' = c /\ kinds \in Seq(KindType) /\ c.rq \in Nat /\ c.rq <= Len(kinds) /\ kind \in KindType
  BY KindAssumption DEF ClientSends, ConnInv, Typed, ConnType
<1>3. Kind(c)' = Kind(c)
  BY <1>1, <1>2 DEF Kind
<1> QED BY <1>2, <1>3, QuietStep DEF Quiet

LEMMA HandlerDaemon ==
  ASSUME ConnInv, OtherThreadQueues \/ OtherThreadResumes \/ Resume \/ AfterIdle \/ ReadSteps
                  \/ WriteSteps \/ \E r, w, f \in BOOLEAN : Dispatch(r, w, f)
  PROVE  HandlerStep
<1>1. CASE OtherThreadQueues
  BY <1>1, HandlerQueues DEF OtherThreadQueues
<1>2. CASE OtherThreadResumes
  <2>1. Quiet(c, c')
    BY <1>2, ConnTyped, SMT DEF OtherThreadResumes, ConnType, Quiet
  <2> QED BY <1>2, <2>1, QuietChange DEF OtherThreadResumes
<1>3. CASE Resume
  <2>1. Quiet(c, c')
    BY <1>3, ConnTyped, SMT DEF Resume, ConnType, Quiet
  <2> QED BY <1>3, <2>1, QuietChange DEF Resume
<1>4. CASE AfterIdle
  BY <1>4, SameStep DEF AfterIdle
<1>5. CASE \E r, w, f \in BOOLEAN : Dispatch(r, w, f)
  <2>1. UNCHANGED kinds /\ (c' = c \/ c' = MHD_connection_close_(c))
    BY <1>5 DEF Dispatch
  <2> QED BY <2>1, SameStep, FailedStep, ConnTyped, ClosingTyped
<1>6. CASE ReadData
  <2>1. PICK s : c' = [c EXCEPT !.rbuf = @ \o s]
    BY <1>6 DEF ReadData
  <2>2. Quiet(c, c')
    BY <2>1, ConnTyped, SMT DEF ConnType, Quiet
  <2> QED BY <1>6, <2>2, QuietChange DEF ReadData
<1>8. CASE ReadClosed
  <2>1. Over(c')
    BY <1>8, ConnTyped, SMT DEF ReadClosed, MHD_connection_close_, Over, ConnType
  <2> QED BY <2>1, OverStep
<1>9. CASE ReadError
  <2>1. UNCHANGED kinds /\ (c' = c \/ Over(c'))
    <3> DEFINE k == [c EXCEPT !.discard = @ \/ c.state \in Receiving]
    <3>1. UNCHANGED kinds /\ (c' = c \/ c' = connection_close_error(c) \/ c' = MHD_connection_close_(k))
      BY <1>9 DEF ReadError
    <3>2. Over(connection_close_error(c)) /\ Over(MHD_connection_close_(k))
      BY ConnTyped, SMT DEF connection_close_error, MHD_connection_close_, Over, ConnType
    <3> HIDE DEF k
    <3> QED BY <3>1, <3>2
  <2> QED BY <2>1, SameStep, OverStep
<1>10. CASE WriteError
  BY <1>10, FailedStep, ConnTyped, ClosingTyped DEF WriteError
<1>11. CASE Write
  <2>1. UNCHANGED kinds /\ (c' = c \/ c' = [c EXCEPT !.cont = TRUE] \/ Failed(c, c') \/ SameRequest(c, c'))
    BY <1>11, ConnTyped, WrittenTyped, SMTT(40) DEF Write
  <2>2. c' = [c EXCEPT !.cont = TRUE] => SameRequest(c, c')
    BY ConnTyped, SmallChanges DEF Small
  <2> QED BY <2>1, <2>2, SameStep, FailedStep
<1> QED BY <1>1, <1>2, <1>3, <1>4, <1>5, <1>6, <1>8, <1>9, <1>10, <1>11 DEF ReadSteps, WriteSteps

LEMMA ErrorStep == ConnInv /\ Malformed => HandlerStep
BY ConnTyped, ErrorTyped, FailedStep DEF Malformed, Continue, Rest

LEMMA HandlerReceiving ==
  ASSUME ConnInv, IdleRequestLine \/ IdleRequestLineReceived \/ IdleHeaders \/ IdleParseHeaders
                  \/ IdleContinue \/ IdleBody \/ IdleBodyReceived \/ IdleFooters
                  \/ IdleFootersReceived
  PROVE  HandlerStep
<1>1. ASSUME UNCHANGED kinds, c' = c PROVE HandlerStep
  BY <1>1, SameStep
<1>2. ASSUME UNCHANGED kinds, NEW s, c' = [c EXCEPT !.state = s] PROVE HandlerStep
  <2>1. Quiet(c, c')
    BY <1>2, ConnTyped, SMT DEF ConnType, Quiet
  <2> QED BY <1>2, <2>1, QuietChange
<1>3. CASE IdleRequestLine
  <2>1. CASE Len(c.rbuf) > 1 /\ Continue([c EXCEPT !.rq = c.rbuf[1][1], !.rbuf = Drop(@, 2),
                                                   !.state = "REQ_LINE_RECEIVED"])
    <3>1. c.calls = "none" /\ c'.calls = c.calls /\ c'.got = c.got
      <4>1. c.calls = "none"
        BY <1>3, SMT DEF IdleRequestLine, At, ConnInv, Control, Called, Early
      <4> QED BY <2>1, <4>1, ConnTyped, SMT DEF Continue, ConnType
    <3> QED BY <3>1 DEF HandlerStep, Handler!hvars
  <2> QED BY <1>1, <1>2, <1>3, <2>1, ErrorStep DEF IdleRequestLine, Continue, Break, Rest
<1>4. CASE IdleHeaders \/ IdleFooters
  <2>1. ASSUME NEW s, c' = [c EXCEPT !.rbuf = Tail(@), !.state = s], UNCHANGED kinds PROVE HandlerStep
    <3>1. Quiet(c, c')
      BY <2>1, ConnTyped, SMT DEF ConnType, Quiet
    <3> QED BY <2>1, <3>1, QuietChange
  <2> QED BY <1>1, <1>4, <2>1, ErrorStep DEF IdleHeaders, IdleFooters, Continue, Break, Rest
<1>5. CASE IdleParseHeaders
  <2>1. ASSUME NEW a, NEW r, NEW s, c' = [c EXCEPT !.remaining = r, !.keepalive = a, !.state = s],
               UNCHANGED kinds PROVE HandlerStep
    <3>1. Quiet(c, c')
      BY <2>1, ConnTyped, SMT DEF ConnType, Quiet
    <3> QED BY <2>1, <3>1, QuietChange
  <2> QED BY <1>5, <2>1, ErrorStep DEF IdleParseHeaders, Continue, Rest
<1>6. CASE IdleRequestLineReceived \/ IdleContinue \/ IdleBody \/ IdleBodyReceived \/ IdleFootersReceived
  BY <1>1, <1>2, <1>6 DEF IdleRequestLineReceived, IdleContinue, IdleBody, IdleBodyReceived,
     IdleFootersReceived, Goto, Continue, Break, Rest
<1> QED BY <1>3, <1>4, <1>5, <1>6

\* The first call, the parts of the body, and the final call.
LEMMA HandlerCalls ==
  ASSUME ConnInv, IdleFirstCall \/ IdleFinalCall \/ BodyPart
  PROVE  HandlerStep
<1>1. ASSUME NEW s, c' = [c EXCEPT !.calls = s], UNCHANGED kinds
      PROVE  /\ c'.calls = s /\ c'.got = c.got /\ c'.rq = c.rq /\ c'.discard = c.discard
             /\ Kind(c)' = Kind(c)
  <2>1. c'.calls = s /\ c'.got = c.got /\ c'.rq = c.rq /\ c'.discard = c.discard
    BY <1>1, ConnTyped, SMT DEF ConnType
  <2> QED BY <1>1, <2>1, SameKind
<1>2. /\ Kind(c).upload \in 0..MaxUpload /\ c.got \in Nat /\ c.got <= Kind(c).upload
      /\ c.calls \in {"none", "first", "upload", "final"} /\ c.discard \in BOOLEAN
  BY KindTyped DEF ConnInv, Typed, ConnType, Control, Counted
<1>3. CASE IdleFirstCall
  <2>1. /\ c.state = "HEADERS_PROCESSED" /\ c.calls # "upload" /\ c.response = NoResponse
        /\ c.calls = "none" => ~c.discard
    BY <1>3, SMT DEF IdleFirstCall, At, ConnInv, Control, Called
  <2>2. c' = [c EXCEPT !.calls = "first"] /\ UNCHANGED kinds
    BY <1>3, <2>1 DEF IdleFirstCall, CallHandler, Rest
  <2>3. Handler!First
    BY <1>1, <1>2, <2>1, <2>2 DEF Handler!First
  <2> QED BY <2>3 DEF HandlerStep, Handler!Next
<1>4. CASE IdleFinalCall
  <2>1. /\ c.state = "FULL_REQ_RECEIVED" /\ c.calls # "none"
        /\ c.got = Kind(c).upload \/ (c.discard /\ c.calls # "upload")
    BY <1>4, SMT DEF IdleFinalCall, At, ConnInv, Control, Called, Counted, Replying
  <2>2. UNCHANGED kinds /\ (c' = c \/ c' = [c EXCEPT !.calls = "final"])
    BY <1>4 DEF IdleFinalCall, CallHandler, Rest
  <2>3. CASE c' = [c EXCEPT !.calls = "final"]
    <3>1. Handler!Final
      BY <1>1, <1>2, <2>1, <2>2, <2>3 DEF Handler!Final
    <3> QED BY <3>1 DEF HandlerStep, Handler!Next
  <2> QED BY <2>2, <2>3, SameStep
<1>5. CASE BodyPart
  <2>1. pc = "body" /\ c.state = "BODY_RECEIVING" /\ c.calls \in {"first", "upload"} /\ ~c.discard
    BY <1>5, SMT DEF BodyPart, ConnInv, Control, InCalls, Called, Uploading
  <2>2. CASE c' = [c EXCEPT !.calls = "upload"] /\ UNCHANGED kinds
    <3>1. Handler!Upload
      BY <1>1, <1>2, <2>1, <2>2 DEF Handler!Upload
    <3> QED BY <3>1 DEF HandlerStep, Handler!Next
  <2>3. CASE BodyDone([c EXCEPT !.rbuf = Tail(@), !.remaining = 0])
    <3> DEFINE k == [c EXCEPT !.rbuf = Tail(@), !.remaining = 0]
    <3>0. UNCHANGED kinds /\ (c' = k \/ c' = [k EXCEPT !.state = "BODY_RECEIVED"])
      BY <2>3 DEF BodyDone, Continue, Break, Rest
    <3>2. Quiet(c, k) /\ Quiet(c, [k EXCEPT !.state = "BODY_RECEIVED"])
      BY ConnTyped, SMT DEF ConnType, Quiet
    <3> HIDE DEF k
    <3>1. Quiet(c, c') /\ UNCHANGED kinds
      BY <3>0, <3>2
    <3> QED BY <3>1, QuietChange
  <2> QED BY <1>5, <2>2, <2>3, ErrorStep DEF BodyPart, Rest
<1> QED BY <1>3, <1>4, <1>5

LEMMA HandlerAfterCalls ==
  ASSUME ConnInv, AfterFirstCall \/ AfterFinalCall \/ AfterOtherCall
  PROVE  HandlerStep
<1>1. UNCHANGED kinds
  BY DEF AfterFirstCall, AfterFinalCall, AfterOtherCall, Goto, Continue, Break, Rest
<1>2. Quiet(c, c') \/ GivesUp(c, c')
  <2>1. CASE c' = c
    BY <2>1 DEF Quiet
  <2>2. ASSUME NEW s, c' = [c EXCEPT !.state = s] PROVE Quiet(c, c')
    BY <2>2, ConnTyped, SMT DEF ConnType, Quiet
  <2>3. ASSUME NEW b \in BOOLEAN, NEW r, NEW s,
               c' = [c EXCEPT !.discard = @ \/ b, !.remaining = r, !.state = s]
        PROVE  Quiet(c, c') \/ GivesUp(c, c')
    <3>1. c'.calls = c.calls /\ c'.got = c.got /\ c'.rq = c.rq /\ c'.discard = (c.discard \/ b)
      BY <2>3, ConnTyped, SMT DEF ConnType
    <3>2. c.discard \in BOOLEAN
      BY ConnTyped DEF ConnType
    <3> QED BY <3>1, <3>2 DEF Quiet, GivesUp
  <2>4. CASE AfterFirstCall
    BY <2>1, <2>2, <2>3, <2>4 DEF AfterFirstCall, Continue, Break
  <2>5. CASE AfterFinalCall \/ AfterOtherCall
    BY <2>1, <2>2, <2>5 DEF AfterFinalCall, AfterOtherCall, Goto, Continue, Break
  <2> QED BY <2>4, <2>5
<1> QED BY <1>1, <1>2, SameKind, QuietStep, GivesUpStep DEF Quiet, GivesUp

LEMMA HandlerReply ==
  ASSUME ConnInv, IdleStartReply \/ IdleNothing \/ IdleHeadersSent \/ IdleNormalBody
                  \/ IdleChunkedBody \/ IdleChunkedSent \/ IdleReplySent \/ IdleClosed
                  \/ IdleSuspended
  PROVE  HandlerStep
<1>1. ASSUME UNCHANGED kinds, c' = connection_close_error(c) \/ c' = MHD_connection_close_(c)
      PROVE  HandlerStep
  BY <1>1, ConnTyped, ClosingTyped, FailedStep
<1>2. ASSUME UNCHANGED kinds, NEW s, c' = [c EXCEPT !.state = s] PROVE HandlerStep
  <2>1. Quiet(c, c')
    BY <1>2, ConnTyped, SMT DEF ConnType, Quiet
  <2> QED BY <1>2, <2>1, QuietChange
<1>3. CASE IdleStartReply
  <2>1. SameRequest(c, build_header_response(c))
    BY ConnTyped, HeaderTyped DEF SameRequest
  <2> QED BY <1>1, <1>3, <2>1, SameStep DEF IdleStartReply, Continue, Break, Rest
<1>4. CASE IdleNothing \/ IdleClosed \/ IdleSuspended
  BY <1>4, SameStep DEF IdleNothing, IdleClosed, IdleSuspended, Break, Rest
<1>5. CASE IdleHeadersSent
  <2>1. ASSUME c' = [c EXCEPT !.state = "UPGRADE", !.suspended = TRUE, !.response = NoResponse],
               UNCHANGED kinds PROVE HandlerStep
    <3>1. Quiet(c, c')
      BY <2>1, ConnTyped, SMT DEF ConnType, Quiet
    <3> QED BY <2>1, <3>1, QuietChange
  <2> QED BY <1>1, <1>2, <1>5, <2>1 DEF IdleHeadersSent, Goto, Continue, Rest
<1>6. CASE IdleNormalBody
  <2>1. ASSUME NEW t \in try_ready_normal_body(c), UNCHANGED kinds,
               c' = IF t[1] THEN [t[2] EXCEPT !.state = "NORMAL_BODY_READY"] ELSE t[2]
        PROVE  HandlerStep
    <3>1. CASE t[1] = FALSE /\ Failed(c, t[2])
      BY <2>1, <3>1, FailedStep
    <3>2. CASE SameRequest(c, t[2])
      <4>1. Quiet(c, c')
        BY <2>1, <3>2, SMT DEF SameRequest, ConnType, Quiet
      <4> QED BY <2>1, <4>1, QuietChange
    <3> QED BY <3>1, <3>2, ConnTyped, NormalBodyTyped
  <2> QED BY <1>2, <1>6, <2>1 DEF IdleNormalBody, Goto, Continue, Break, Rest
<1>7. CASE IdleChunkedBody
  <2>1. ASSUME UNCHANGED kinds, c' \in try_ready_chunked_body(c) \/ c' \in Suspendings(c)
        PROVE  HandlerStep
    <3>1. Failed(c, c') \/ SameRequest(c, c')
      BY <2>1, ConnTyped, ChunkedBodyTyped, SuspendingsTyped DEF Small
    <3> QED BY <2>1, <3>1, FailedStep, SameStep
  <2> QED BY <1>2, <1>7, <2>1 DEF IdleChunkedBody, Goto, Continue, Break, Rest
<1>8. CASE IdleChunkedSent
  <2>1. ASSUME c' = [c EXCEPT !.wbuf = TRUE, !.state = "FOOTERS_SENDING"], UNCHANGED kinds
        PROVE  HandlerStep
    <3>1. Quiet(c, c')
      BY <2>1, ConnTyped, SMT DEF ConnType, Quiet
    <3> QED BY <2>1, <3>1, QuietChange
  <2> QED BY <1>1, <1>8, <2>1 DEF IdleChunkedSent, Continue, Rest
<1>9. CASE IdleReplySent
  <2>1. ASSUME c' = [c EXCEPT !.state = "HEADERS_PROCESSED", !.response = NoResponse], UNCHANGED kinds
        PROVE  HandlerStep
    <3>1. Quiet(c, c')
      BY <2>1, ConnTyped, SMT DEF ConnType, Quiet
    <3> QED BY <2>1, <3>1, QuietChange
  <2>2. Over(connection_reset(c))
    BY SMT DEF connection_reset, NewConnection, Over
  <2> QED BY <1>1, <1>9, <2>1, <2>2, OverStep DEF IdleReplySent, Continue, Rest
<1> QED BY <1>3, <1>4, <1>5, <1>6, <1>7, <1>8, <1>9

LEMMA HandlerApp ==
  ASSUME ConnInv, ConnInv', AppSteps
  PROVE  HandlerStep
<1>1. CASE AppQueues
  BY <1>1, HandlerQueues DEF AppQueues
<1>2. CASE AppSuspends
  <2>1. Quiet(c, c')
    BY <1>2, ConnTyped, SMT DEF AppSuspends, ConnType, Quiet
  <2> QED BY <1>2, <2>1, QuietChange DEF AppSuspends
<1>3. CASE AppReturns
  BY <1>3, SameStep DEF AppReturns
<1>4. CASE AppFails
  BY <1>4, ConnTyped, ClosingTyped, FailedStep DEF AppFails, Continue, Rest
<1>5. ASSUME NEW p \in 0..MaxUpload, AppTakes(p) PROVE HandlerStep
  <2>1. c.state = "BODY_RECEIVING" /\ c.calls = "upload" /\ ~c.discard /\ p \in Nat /\ c.got \in Nat
    BY <1>5, ConnTyped, Bounds, SMT DEF AppTakes, ConnInv, Control, InCalls, Called, Uploading, ConnType
  <2> DEFINE r == IF Kind(c).chunked THEN c.remaining ELSE c.remaining - p
             k == [c EXCEPT !.rbuf = Drop(@, p), !.got = @ + p, !.some = p > 0, !.remaining = r]
  <2>a. BodyTaken(p)
    BY <1>5 DEF AppTakes
  <2>2. UNCHANGED kinds /\ (c' = k \/ c' = [k EXCEPT !.state = "BODY_RECEIVED"])
    BY <2>a DEF BodyTaken, BodyDone, Continue, Break, Rest
  <2>b. /\ k.calls = "upload" /\ k.got = c.got + p /\ k.rq = c.rq /\ k.discard = c.discard
        /\ [k EXCEPT !.state = "BODY_RECEIVED"].calls = "upload"
        /\ [k EXCEPT !.state = "BODY_RECEIVED"].got = c.got + p
        /\ [k EXCEPT !.state = "BODY_RECEIVED"].rq = c.rq
        /\ [k EXCEPT !.state = "BODY_RECEIVED"].discard = c.discard
    <3> HIDE DEF r
    <3> QED BY <2>1, ConnTyped, SMT DEF ConnType
  <2> HIDE DEF k
  <2>3. c'.calls = "upload" /\ c'.got = c.got + p /\ c'.rq = c.rq /\ c'.discard = c.discard
    BY <2>2, <2>b
  <2>4. Kind(c)' = Kind(c)
    BY <2>2, <2>3, SameKind
  <2>5. Kind(c).upload \in Nat /\ c'.got <= Kind(c).upload
    BY <2>4, KindTyped, Bounds DEF ConnInv, Control, Counted
  <2>6. Handler!Upload
    BY <2>1, <2>3, <2>4, <2>5 DEF Handler!Upload
  <2> QED BY <2>6 DEF HandlerStep, Handler!Next
<1> QED BY <1>1, <1>2, <1>3, <1>4, <1>5 DEF AppSteps

LEMMA HandlerEnd == ConnInv /\ (IdleTimeout \/ IdleEnd) => HandlerStep
<1> SUFFICES ASSUME ConnInv, IdleTimeout \/ IdleEnd PROVE HandlerStep
  OBVIOUS
<1>1. CASE IdleTimeout
  BY <1>1, ConnTyped, ClosingTyped, FailedStep DEF IdleTimeout, Rest
<1>2. CASE IdleEnd
  <2>1. /\ UNCHANGED kinds
        /\ \/ c' = c \/ c' = SetInfo(c) \/ c' = [c EXCEPT !.info = "PROCESS", !.stale = FALSE]
           \/ \E e \in handle_recv_no_space(c) : c' = SetInfo(e)
    BY <1>2 DEF IdleEnd, MHD_connection_update_event_loop_info, Rest
  <2>2. CASE c' = SetInfo(c) \/ c' = [c EXCEPT !.info = "PROCESS", !.stale = FALSE]
    <3>1. SameRequest(c, c')
      BY <2>2, ConnTyped, InfoTyped, SmallChanges DEF Small, Infos
    <3> QED BY <2>1, <3>1, SameStep, SMTT(40)
  <2>3. ASSUME NEW e \in handle_recv_no_space(c), c' = SetInfo(e) PROVE HandlerStep
    <3>1. Failed(c, e)
      BY ConnTyped, ClosingTyped, ErrorTyped DEF handle_recv_no_space
    <3>2. Small(e, c') /\ c'.state = e.state
      BY <2>3, <3>1, InfoTyped DEF Failed
    <3>3. Failed(c, c')
      BY <3>1, <3>2, Zenon DEF Failed, Closed, Small, SameRequest
    <3> QED BY <2>1, <3>3, FailedStep
  <2> QED BY <2>1, <2>2, <2>3, SameStep
<1> QED BY <1>1, <1>2

LEMMA HandlerSteps == ConnInv /\ AfterTyped /\ [Next]_vars => HandlerStep
<1> SUFFICES ASSUME ConnInv, AfterTyped, [Next]_vars PROVE HandlerStep
  OBVIOUS
<1>1. ConnInv'
  BY StepKept
<1>2. CASE UNCHANGED vars \/ Done
  BY <1>2, SameStep DEF Done, vars
<1>3. CASE IdleSteps
  BY <1>3, HandlerReceiving, HandlerCalls, HandlerAfterCalls, HandlerReply, HandlerEnd DEF IdleSteps
<1>4. CASE AppSteps
  BY <1>1, <1>4, HandlerApp
<1> QED BY <1>2, <1>3, <1>4, HandlerClient, HandlerDaemon DEF Next

\* The calls a connection makes are those AccessHandler allows: one first call
\* per request and again only after a suspension or a 102 reply, the parts of
\* the body in order and without a gap, a final call only for a request that
\* has been received or is discarded, and a completion for every request the
\* application knows of.  Code: call_connection_handler(),
\* process_request_body(), MHD_connection_close_(), connection_reset().
THEOREM HandlerRefined == Spec => Handler!Spec
<1>1. Init => Handler!Init
  BY SMT DEF Init, NewConnection, Handler!Init
<1>2. StepInv /\ [Next]_vars => [Handler!Next]_(Handler!hvars)
  BY HandlerSteps DEF StepInv, HandlerStep
<1> QED BY <1>1, <1>2, ControlKept, PTL DEF Spec, Handler!Spec

\* With the allocation of error responses succeeding, a connection is freed
\* only when every request the application knows of has been reported
\* complete.  When it fails the code closes the connection without a report,
\* see transmit_error_response.  Code: MHD_connection_close_().
THEOREM HandlerContractKept == MemoryFails = FALSE => (Spec => HandlerContract)
<1> SUFFICES ASSUME MemoryFails = FALSE PROVE Spec => HandlerContract
  OBVIOUS
<1>1. StepInv => CompletionReported
  BY DEF StepInv, ConnInv, Control, InCalls, CompletionReported
<1> QED BY <1>1, ControlKept, HandlerRefined, PTL DEF HandlerContract
=============================================================================
