------------------------------ MODULE MCSockets ------------------------------
(***************************************************************************)
(* The epoll loop with two sockets, and the websocket decoder for the data *)
(* of an upgraded connection.  A behaviour is about one of them; its first *)
(* state chooses which.                                                    *)
(***************************************************************************)
EXTENDS Epoll, TLC

CONSTANTS NULL, c1, c2

Two == {c1, c2}
Symmetry == Permutations(Two)

\* Everything with one connection at a time, and two connections at once whose
\* clients send and read.
EpollInstances == {[limit |-> 1, calm |-> FALSE], [limit |-> 2, calm |-> TRUE]}

-----------------------------------------------------------------------------
(* Websocket frames.  The first stream is that of a server, with Len7 = 2  *)
(* and Base = 2, so that lengths of all three forms occur; the second one  *)
(* that of a client that wants fragments; in both the peer waits for each  *)
(* frame to be decoded.  In the third one it does not.                     *)

MaskBytes == <<1, 2, 4, 8>>
\* The bytes of a character, one by one.
FewTexts == {<<195>>, <<169>>}
FewBinaries == {<<200, 0, 9>>, <<1, 2, 3, 4>>}
FewPings == {<<255>>}
FewCloses == {[code |-> 0, text |-> <<>>], [code |-> 1000, text |-> <<>>]}

Frame(fin, rsv, op, masked, form, size, payload) ==
  [fin |-> fin, rsv |-> rsv, op |-> op, masked |-> masked, form |-> form, size |-> size, payload |-> payload]
Zeros(n) == [k \in 1..n |-> 0]

\* Frames that no encoder makes: a reserved bit and opcode, control frames that are cut,
\* too long or too short, lengths in a longer form than needed or too large, no mask, a
\* broken character.
BadFrames ==
  {Frame(TRUE, 4, 1, TRUE, 0, 0, <<>>), Frame(TRUE, 0, 3, TRUE, 0, 0, <<>>),
   Frame(FALSE, 0, 9, TRUE, 0, 0, <<>>), Frame(TRUE, 0, 10, TRUE, 2, 3, Zeros(3)),
   Frame(TRUE, 0, 8, TRUE, 0, 1, <<3>>), Frame(TRUE, 0, 2, TRUE, 8, 5, <<>>),
   Frame(TRUE, 0, 2, TRUE, 2, 1, <<7>>), Frame(TRUE, 0, 2, TRUE, 8, 3, Zeros(3)),
   Frame(TRUE, 0, 2, TRUE, 8, 128, <<>>), Frame(TRUE, 0, 1, FALSE, 0, 1, <<97>>),
   Frame(TRUE, 0, 1, TRUE, 0, 2, <<195, 97>>)}
\* Bytes at the ends of the ranges of the UTF-8 check, one in a frame, from a peer
\* that does not check what it sends; and such a close frame.
EdgeFrames ==
  {Frame(FALSE, 0, 1, FALSE, 0, 1, <<b>>) : b \in {128, 194, 224, 237, 240, 244, 245}}
  \cup {Frame(f, 0, 0, FALSE, 0, 1, <<b>>) : f \in BOOLEAN, b \in {128, 143, 144, 159, 160, 191, 194}}
  \cup {Frame(FALSE, 0, 0, FALSE, 0, 0, <<>>), Frame(TRUE, 0, 8, FALSE, 0, 4, <<3, 232, 195, 97>>)}

VARIABLES
  part,  \* the component this behaviour is about
  wire, cut, utf8_step, ws, call, avail, ret, failures, ref, due, wrong, halved

Ws == INSTANCE WebSocket WITH
  Len7 <- 2, Base <- 2, MaxPayload <- 4, Client <- FALSE, WANT_FRAGMENTS <- FALSE,
  GENERATE_CLOSE <- TRUE, Texts <- FewTexts, Binaries <- FewBinaries, Pings <- FewPings,
  Closes <- FewCloses, RawFrames <- BadFrames, Mask <- MaskBytes, WholeTexts <- TRUE,
  WholeCloses <- TRUE, MaxWire <- 1, MaxFailures <- 1

Fr == INSTANCE WebSocket WITH
  Len7 <- 4, Base <- 3, MaxPayload <- 0, Client <- TRUE, WANT_FRAGMENTS <- TRUE,
  GENERATE_CLOSE <- FALSE, Texts <- {}, Binaries <- {}, Pings <- {<<7>>}, Closes <- {[code |->
  1001, text |-> <<195, 169>>]}, RawFrames <- EdgeFrames, Mask <- MaskBytes, WholeTexts <-
  TRUE, WholeCloses <- TRUE, MaxWire <- 1, MaxFailures <- 1

\* Frames of a few bytes, of which a buffer holds two or three.
Pairs == INSTANCE WebSocket WITH
  Len7 <- 4, Base <- 3, MaxPayload <- 3, Client <- TRUE, WANT_FRAGMENTS <- FALSE,
  GENERATE_CLOSE <- FALSE, Texts <- {<<>>, <<195, 169>>}, Binaries <- {}, Pings <-
  {<<255>>}, Closes <- {[code |-> 0, text |-> <<>>]}, RawFrames <- {}, Mask <- MaskBytes,
  WholeTexts <- TRUE, WholeCloses <- TRUE, MaxWire <- 4, MaxFailures <- 1

allvars == <<vars, part, wire, cut, utf8_step, ws, call, avail, ret, failures, ref, due,
  wrong, halved>>

AnyInit ==
  \/ /\ part = "epoll" /\ Init
     /\ wire = NULL /\ cut = NULL /\ utf8_step = NULL /\ ws = NULL /\ call = NULL
     /\ avail = NULL /\ ret = NULL /\ failures = NULL /\ ref = NULL /\ due = NULL
     /\ wrong = NULL /\ halved = NULL
  \/ /\ part = "websocket" /\ Ws!Init /\ Init /\ turbo /\ opt.calm
  \/ /\ part = "fragments" /\ Fr!Init /\ Init /\ turbo /\ opt.calm
  \/ /\ part = "pairs" /\ Pairs!Init /\ Init /\ turbo /\ opt.calm

AnyNext ==
  \/ /\ part = "epoll" /\ Next
     /\ UNCHANGED <<part, wire, cut, utf8_step, ws, call, avail, ret, failures, ref, due, wrong,
        halved>>
  \/ /\ part = "websocket" /\ Ws!Next
     /\ UNCHANGED <<part, vars>>
  \/ /\ part = "fragments" /\ Fr!Next
     /\ UNCHANGED <<part, vars>>
  \/ /\ part = "pairs" /\ Pairs!Next
     /\ UNCHANGED <<part, vars>>

AnySpec == AnyInit /\ [][AnyNext]_allvars

-----------------------------------------------------------------------------
(* Properties of the components. *)

\* MHD_websocket_decode() returns what the standard makes of the frames that
\* were sent, in their order and with their payload, however the stream is cut
\* into pieces, also with the bytes of several frames in one piece, and whenever
\* an allocation fails; nothing follows an error.  Set apart are a close frame
\* whose payload is cut (WholeCloses: bytes_to_take - utf8_start, line 1236) and a
\* text whose last character is unfinished (WholeTexts: no check in
\* MHD_websocket_decode_payload_complete(), line 1442).
\* A result is returned as soon as its last byte has been passed, also for a frame
\* without payload at the end of a buffer.
\* The payload of a frame is copied into a buffer that has room for it, behind what
\* the message had before.
WebSocketExact ==
  /\ part \in {"websocket", "fragments", "pairs"} => Ws!EventsExact /\ Ws!InBounds
  /\ part \in {"websocket", "pairs"} => Ws!NothingHeldBack

ASSUME Ws!SizeAssumption /\ Ws!MaskAssumption /\ Fr!SizeAssumption
=============================================================================
