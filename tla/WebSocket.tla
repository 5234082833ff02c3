----------------------------- MODULE WebSocket -----------------------------
(***************************************************************************)
(* The frames of mhd_websocket.c.  A peer encodes messages, or sends       *)
(* frames of its own making; the receiver hands what it gets, in pieces    *)
(* cut anywhere, to MHD_websocket_decode().  An iteration of the loop of   *)
(* MHD_websocket_decode() is a step.                                       *)
(*                                                                         *)
(* Bytes are numbers.  The three forms of a length are scaled down: a      *)
(* length up to Len7 is in the second byte, one below Base * Base in two   *)
(* digits, any other one in eight.                                         *)
(***************************************************************************)
EXTENDS Integers, FiniteSetsExt, SequencesExt, Bitwise

CONSTANTS
  Len7,            \* 125, the largest length in the second byte
  Base,            \* 256, of the digits of longer lengths
  MaxPayload,      \* ws->max_payload_size, 0: no limit
  Client,          \* MHD_WEBSOCKET_FLAG_CLIENT, of the receiver
  WANT_FRAGMENTS,  \* MHD_WEBSOCKET_FLAG_WANT_FRAGMENTS
  GENERATE_CLOSE,  \* MHD_WEBSOCKET_FLAG_GENERATE_CLOSE_FRAMES_ON_ERROR
  Mask,            \* the four bytes of the mask of a client
  Texts, Binaries, \* what the peer sends: payloads of text and binary frames,
  Pings,           \* of pings and pongs,
  Closes,          \* records of a code and a text,
  RawFrames,       \* frames the peer puts together by itself
  WholeTexts,      \* does the peer end a text with a whole character?
  WholeCloses,     \* is a close frame received in one piece?
  MaxWire,         \* bound: the peer waits while so many bytes are under way
  MaxFailures      \* bound: how often malloc() fails

OpContinuation == 0
OpText == 1
OpBinary == 2
OpClose == 8
OpPing == 9
OpPong == 10
Control == {OpClose, OpPing, OpPong}
Data == {OpContinuation, OpText, OpBinary}

SizeAssumption ==
  /\ Len7 \in 2..125 /\ Base \in 2..256 /\ Base * Base > Len7 + 1
  /\ MaxPayload \in Nat /\ MaxFailures \in Nat
MaskAssumption == Mask \in Seq(0..255) /\ Len(Mask) = 4

VARIABLES
  wire,       \* the bytes that the receiver has not decoded yet
  cut,        \* for each of them: may a piece end with it?
  utf8_step,  \* of the peer, for MHD_websocket_encode_text()
  ws,         \* struct MHD_WebSocketStream, of the receiver
  call,       \* is MHD_websocket_decode() running?
  avail,      \* how many bytes of its buffer are left
  ret,        \* the status it returned last
  failures,   \* how often malloc() has failed
  \* what the receiver has to get
  ref,        \* the message under way
  due,        \* the results that follow from the frames sent so far
  wrong,      \* has it got anything else?
  halved      \* has it got a text with an unfinished character?

peer == <<utf8_step, ref>>
vars == <<wire, cut, peer, ws, call, avail, ret, failures, due, wrong, halved>>

\* A result: the status, which part of a message it is about, the payload.
Result(status, part, payload) == [status |-> status, part |-> part, payload |-> payload]
OK == Result("OK", "", <<>>)

NoMessage == [open |-> 0, held |-> <<>>, closed |-> FALSE, failed |-> FALSE]

\* MHD_websocket_stream_init2()
Init ==
  /\ wire = <<>> /\ cut = <<>> /\ utf8_step = "NORMAL"
  /\ ws = [step |-> "Start", validity |-> "VALID", data_utf8_step |-> "NORMAL",
           data_type |-> 0, data |-> <<>>, start |-> 0, control |-> <<>>,
           payload_size |-> 0, payload_index |-> 0, header |-> <<>>, mask_key |-> <<>>]
  /\ call = FALSE /\ avail = 0 /\ ret = "OK" /\ failures = 0
  /\ ref = NoMessage
  /\ due = <<>> /\ wrong = FALSE /\ halved = FALSE

-----------------------------------------------------------------------------
(* MHD_websocket_check_utf8() *)

\* In a step, a byte of a range leads to the next step.
Utf8Steps ==
  {<<"NORMAL", 0, 127, "NORMAL">>,
   <<"NORMAL", 194, 223, "UTF2TAIL_1OF1">>,
   <<"NORMAL", 224, 224, "UTF3TAIL1_1OF2">>,
   <<"NORMAL", 237, 237, "UTF3TAIL2_1OF2">>,
   <<"NORMAL", 225, 236, "UTF3TAIL_1OF2">>,
   <<"NORMAL", 238, 239, "UTF3TAIL_1OF2">>,
   <<"NORMAL", 240, 240, "UTF4TAIL1_1OF3">>,
   <<"NORMAL", 244, 244, "UTF4TAIL2_1OF3">>,
   <<"NORMAL", 241, 243, "UTF4TAIL_1OF3">>,
   <<"UTF3TAIL1_1OF2", 160, 191, "UTF3TAIL_2OF2">>,
   <<"UTF3TAIL2_1OF2", 128, 159, "UTF3TAIL_2OF2">>,
   <<"UTF3TAIL_1OF2", 128, 191, "UTF3TAIL_2OF2">>,
   <<"UTF4TAIL1_1OF3", 144, 191, "UTF4TAIL_2OF3">>,
   <<"UTF4TAIL2_1OF3", 128, 143, "UTF4TAIL_2OF3">>,
   <<"UTF4TAIL_1OF3", 128, 191, "UTF4TAIL_2OF3">>,
   <<"UTF4TAIL_2OF3", 128, 191, "UTF4TAIL_3OF3">>,
   <<"UTF2TAIL_1OF1", 128, 191, "NORMAL">>,
   <<"UTF3TAIL_2OF2", 128, 191, "NORMAL">>,
   <<"UTF4TAIL_3OF3", 128, 191, "NORMAL">>}

\* The step after a byte sequence, or "INVALID".
check_utf8(step, bytes) ==
  LET Next1(s, b) ==
        LET moves == {m \in Utf8Steps : m[1] = s /\ b \in m[2]..m[3]}
        IN IF moves = {} THEN "INVALID" ELSE (CHOOSE m \in moves : TRUE)[4]
  IN FoldLeft(Next1, step, bytes)

\* A slip: the third byte of four is forgotten.
MutantGiven(step) ==
  CASE step \in {"UTF3TAIL_2OF2", "UTF4TAIL_2OF3", "UTF4TAIL_3OF3"} -> 2
    [] step = "NORMAL" -> 0
    [] OTHER -> 1

\* How many bytes of an unfinished character have been received.
Given(step) ==
  CASE step \in {"UTF2TAIL_1OF1", "UTF3TAIL1_1OF2", "UTF3TAIL2_1OF2", "UTF3TAIL_1OF2",
                 "UTF4TAIL1_1OF3", "UTF4TAIL2_1OF3", "UTF4TAIL_1OF3"} -> 1
    [] step \in {"UTF3TAIL_2OF2", "UTF4TAIL_2OF3"} -> 2
    [] step = "UTF4TAIL_3OF3" -> 3
    [] OTHER -> 0

-----------------------------------------------------------------------------
(* What a receiver has to get, from the standards *)

\* RFC 3629: the shortest form of a scalar value.
IsChar(s) ==
  LET lead == CASE Len(s) = 1 -> 0 [] Len(s) = 2 -> 192 [] Len(s) = 3 -> 224 [] OTHER -> 240
      value == FoldLeft(LAMBDA v, b : v * 64 + (b - 128), s[1] - lead, Tail(s))
  IN /\ s[1] >= lead /\ \A i \in 2..Len(s) : s[i] \in 128..191
     /\ value \in CASE Len(s) = 1 -> 0..127
                    [] Len(s) = 2 -> 128..2047
                    [] Len(s) = 3 -> (2048..65535) \ (55296..57343)
                    [] OTHER -> 65536..1114111

IsText(s) ==
  LET whole[n \in 0..Len(s)] ==
        n = 0 \/ \E k \in 1..4 : k <= n /\ IsChar(SubSeq(s, n - k + 1, n)) /\ whole[n - k]
  IN whole[Len(s)]

\* The end of a text that may become a character: with the least or with the
\* greatest bytes after it, it is one.
Unfinished(s) ==
  \E n \in 2..4, b \in {128, 191} :
    /\ Len(s) \in 1..n - 1
    /\ IsChar(s \o [i \in 1..n - Len(s) |-> b])

\* How much of a text is whole, if the rest is unfinished.
WholeParts(s) ==
  {n \in 0..Len(s) :
     /\ Len(s) - n < 4 /\ IsText(SubSeq(s, 1, n))
     /\ n = Len(s) \/ Unfinished(SubSeq(s, n + 1, Len(s)))}

Failure(status, code) ==
  Result(status, "", IF GENERATE_CLOSE THEN <<code>> ELSE <<>>)

\* RFC 6455: what the receiver may not accept of a frame.
BadFrame(f) ==
  \/ f.rsv # 0 \/ f.op \notin Control \cup Data
  \/ f.op = OpContinuation /\ ref.open = 0
  \/ f.op \in {OpText, OpBinary} /\ ref.open # 0
  \/ f.op \in Data /\ ref.closed
  \/ f.op \in Control /\ (~ f.fin \/ f.form # 0)
  \/ f.op = OpClose /\ f.size = 1
  \/ f.masked = Client
  \/ f.form = 2 /\ f.size <= Len7
  \/ f.form = 8 /\ (f.size < Base * Base \/ f.size >= (Base ^ 8) \div 2)

TooLarge(f) ==
  MaxPayload # 0 /\ f.size + (IF f.op = OpContinuation THEN Len(ref.held) ELSE 0) > MaxPayload

Kind(op) == CASE op = OpText -> "TEXT" [] op = OpBinary -> "BINARY" [] op = OpClose -> "CLOSE"
              [] op = OpPing -> "PING" [] op = OpPong -> "PONG"

\* The payload of a close frame as MHD_websocket_split_close_reason() gives it.
split_close_reason(p) ==
  IF Len(p) < 2 THEN <<>> ELSE <<p[1] * 256 + p[2]>> \o SubSeq(p, 3, Len(p))

\* The result of a frame in the middle of a conversation: what becomes of the
\* message under way, and what the receiver is told.
Meaning(f) ==
  LET type == IF f.op = OpContinuation THEN ref.open ELSE f.op
      text == ref.held \o f.payload
      whole == IF type = OpText THEN WholeParts(text) ELSE {Len(text)}
      fail(status, code) ==
        [ref |-> [NoMessage EXCEPT !.failed = TRUE], told |-> <<Failure(status, code)>>]
      after(n) == [ref EXCEPT !.open = IF f.fin THEN 0 ELSE type,
                              !.held = SubSeq(text, n + 1, Len(text))]
      told(part, n) == <<Result(Kind(type), part, SubSeq(text, 1, n))>>
  IN CASE BadFrame(f) -> fail("PROTOCOL_ERROR", 1002)
       [] ~ BadFrame(f) /\ TooLarge(f) -> fail("MAXIMUM_SIZE_EXCEEDED", 1009)
       [] OTHER ->
          CASE f.op \in {OpPing, OpPong} ->
                 [ref |-> ref,
                  told |-> <<Result(Kind(f.op), "", f.payload)>>]
            [] f.op = OpClose ->
                 IF IsText(SubSeq(f.payload, 3, Len(f.payload)))
                   THEN [ref |-> [ref EXCEPT !.closed = TRUE],
                         told |-> <<Result("CLOSE", "", split_close_reason(f.payload))>>]
                   ELSE fail("UTF8_ENCODING_ERROR", 1007)
            [] f.op \in Data ->
                 IF whole = {} \/ (f.fin /\ Max(whole) < Len(text))
                   THEN fail("UTF8_ENCODING_ERROR", 1007)
                 ELSE IF f.fin
                   THEN [ref |-> after(Len(text)),
                         told |-> told(IF WANT_FRAGMENTS /\ f.op = OpContinuation
                                         THEN "LAST" ELSE "", Len(text))]
                 ELSE IF WANT_FRAGMENTS
                   THEN [ref |-> after(Max(whole)),
                         told |-> told(IF f.op = OpContinuation THEN "NEXT" ELSE "FIRST",
                                       Max(whole))]
                   ELSE [ref |-> after(0), told |-> <<>>]

-----------------------------------------------------------------------------
(* The peer: MHD_websocket_encode_...() *)

\* A slip: every piece of a payload begins with the first byte of the mask.
MutantOffsetIgnored(src, mask, offset) ==
  IF mask = <<>> THEN src
  ELSE [i \in 1..Len(src) |-> src[i] ^^ mask[((i - 1) % 4) + 1]]

\* MHD_websocket_copy_payload()
copy_payload(src, mask, offset) ==
  IF mask = <<>> THEN src
  ELSE [i \in 1..Len(src) |-> src[i] ^^ mask[((i - 1 + offset) % 4) + 1]]

\* MHD_websocket_encode_is_masked(): the peer is the other side.
encode_is_masked == ~ Client

\* MHD_htons(), MHD_htonll()
LengthDigits(n, form) == [i \in 1..form |-> (n \div (Base ^ (form - i))) % Base]

LengthForm(n) == IF n <= Len7 THEN 0 ELSE IF n < Base * Base THEN 2 ELSE 8

LengthByte(f) ==
  (IF f.masked THEN 128 ELSE 0)
  + CASE f.form = 0 -> f.size [] f.form = 2 -> Len7 + 1 [] f.form = 8 -> Len7 + 2

FrameBytes(f) ==
  LET mask == IF f.masked THEN Mask ELSE <<>>
  IN <<(IF f.fin THEN 128 ELSE 0) + 16 * f.rsv + f.op, LengthByte(f)>>
     \o LengthDigits(f.size, f.form) \o mask
     \o IF f.op = OpClose
          THEN copy_payload(SubSeq(f.payload, 1, Min({2, f.size})), mask, 0)
               \o copy_payload(SubSeq(f.payload, 3, Len(f.payload)), mask, 2)
          ELSE copy_payload(f.payload, mask, 0)

Frame(fin, op, payload) ==
  [fin |-> fin, rsv |-> 0, op |-> op, masked |-> encode_is_masked,
   form |-> LengthForm(Len(payload)), size |-> Len(payload), payload |-> payload]

\* Does a text that ends with this frame end with a whole character?
EndsWhole(f) ==
  f.fin /\ (f.op = OpText \/ (f.op = OpContinuation /\ ref.open = OpText)) =>
    LET text == ref.held \o f.payload IN WholeParts(text) \subseteq {Len(text)}

Send(f) ==
  /\ Len(wire) < MaxWire /\ ~ ref.failed
  /\ WholeTexts => EndsWhole(f)
  /\ LET bytes == FrameBytes(f)
         inside == Len(bytes) - Len(f.payload) + 1..Len(bytes) - 1
     IN /\ wire' = wire \o bytes
        /\ cut' = cut \o [i \in 1..Len(bytes) |->
                            ~ (WholeCloses /\ f.op = OpClose /\ i \in inside)]
  /\ LET m == Meaning(f)
     IN ref' = m.ref /\ due' = due \o m.told
  /\ UNCHANGED <<ws, call, avail, ret, failures, wrong, halved>>

\* MHD_websocket_encode_data(): the first byte.
DataFrame(fragmentation, op, payload) ==
  Frame(fragmentation \in {"NONE", "LAST"},
        IF fragmentation \in {"NONE", "FIRST"} THEN op ELSE OpContinuation, payload)

encode_text(fragmentation, text) ==
  LET old == IF fragmentation \in {"NONE", "FIRST"} THEN "NORMAL" ELSE utf8_step
      new == check_utf8(old, text)
  IN /\ IF new = "INVALID" \/ (new # "NORMAL" /\ fragmentation = "NONE")
          THEN UNCHANGED <<wire, cut, ref, due, ws, call, avail, ret, failures, wrong, halved>>
          ELSE Send(DataFrame(fragmentation, OpText, text))
     /\ utf8_step' = IF new = "INVALID" THEN old ELSE new

encode_binary(fragmentation, payload) ==
  Send(DataFrame(fragmentation, OpBinary, payload)) /\ UNCHANGED utf8_step

encode_ping_pong(op, payload) ==
  /\ Len(payload) <= Len7
  /\ Send(Frame(TRUE, op, payload))
  /\ UNCHANGED utf8_step

\* Without a code there is no text; codes begin with 1000.
encode_close(code, text) ==
  /\ code >= 1000 \/ (code = 0 /\ text = <<>>)
  /\ Len(text) <= Len7 - 2
  /\ check_utf8("NORMAL", text) = "NORMAL"
  /\ Send(Frame(TRUE, OpClose,
                IF code = 0 THEN <<>> ELSE <<code \div 256, code % 256>> \o text))
  /\ UNCHANGED utf8_step

SendRaw(f) == Send(f) /\ UNCHANGED utf8_step

-----------------------------------------------------------------------------
(* The receiver: MHD_websocket_decode() *)

Opcode(header) == header[1] % 16
IsFin(header) == header[1] >= 128

\* The call returns; the bytes it has not taken are passed to the next one.
Return(w, r) ==
  /\ ws' = w
  /\ call' = FALSE /\ avail' = 0 /\ ret' = r.status
  /\ halved' = (halved \/ (r.status = "TEXT" /\ ~ IsText(r.payload)))
  /\ IF r.status \in {"OK", "MEMORY_ERROR"}
       THEN UNCHANGED <<due, wrong>>
     ELSE IF due # <<>> /\ Head(due) = r
       THEN due' = Tail(due) /\ UNCHANGED wrong
     ELSE wrong' = TRUE /\ UNCHANGED due
  /\ UNCHANGED peer

Fail(w, status, code) == Return([w EXCEPT !.validity = "INVALID"], Failure(status, code))

GoOn(w) ==
  ws' = w /\ UNCHANGED <<call, ret, due, wrong, halved, peer>>

\* The first bytes of the buffer are dealt with.
Drop(n) == wire' = SubSeq(wire, n + 1, Len(wire)) /\ cut' = SubSeq(cut, n + 1, Len(cut))
Taken(n) == Drop(n) /\ avail' = avail - n
DropNone == UNCHANGED <<wire, cut>>

decode(n) ==
  /\ ~ call /\ n \in {0} \cup {i \in 1..Len(wire) : cut[i]}
  /\ IF ws.validity = "INVALID"
       THEN ret' = "STREAM_BROKEN"
            /\ UNCHANGED <<call, avail>>
       ELSE call' = TRUE /\ avail' = n /\ ret' = "OK"
  /\ UNCHANGED <<wire, cut, peer, ws, failures, due, wrong, halved>>

At(steps) == call /\ avail > 0 /\ ws.step \in steps

\* The opcode, FIN and three reserved bits.
BadStart(b) ==
  LET op == b % 16
  IN \/ (b \div 16) % 8 # 0 \/ op \notin Control \cup Data
     \/ op = OpContinuation /\ (ws.data_type = 0 \/ ws.validity = "ONLY_CONTROL")
     \/ op \in {OpText, OpBinary} /\ (ws.data_type # 0 \/ ws.validity = "ONLY_CONTROL")
     \/ op \in Control /\ b < 128

Start ==
  /\ At({"Start"})
  /\ LET b == Head(wire)
     IN IF BadStart(b)
          THEN Fail(ws, "PROTOCOL_ERROR", 1002) /\ DropNone
          ELSE /\ GoOn([ws EXCEPT
                          !.validity = IF b % 16 = OpClose THEN "ONLY_CONTROL" ELSE @,
                          !.header = Append(@, b), !.step = "Length1ofX"])
               /\ Taken(1)
  /\ UNCHANGED failures

\* After the length: with or without a mask.
SizeKnown(w, size) ==
  IF w.header[2] >= 128
    THEN [w EXCEPT !.payload_size = size, !.step = "Mask1Of4"]
    ELSE [w EXCEPT !.payload_size = size, !.mask_key = <<>>, !.step = "HeaderCompleted"]

Exceeds(size) == MaxPayload # 0 /\ MaxPayload < size

Length1ofX ==
  /\ At({"Length1ofX"})
  /\ LET b == Head(wire)
         n == b % 128
         w == [ws EXCEPT !.header = Append(@, b)]
     IN IF \/ (b >= 128) = Client
           \/ n > Len7 /\ (ws.header[1] \div 8) % 2 = 1
           \/ n = 1 /\ Opcode(ws.header) = OpClose
          THEN Fail(ws, "PROTOCOL_ERROR", 1002) /\ DropNone
        ELSE IF n > Len7
          THEN GoOn([w EXCEPT !.step = IF n = Len7 + 1 THEN "Length1of2" ELSE "Length1of8"])
               /\ Taken(1)
        ELSE IF Exceeds(n)
          THEN Fail(w, "MAXIMUM_SIZE_EXCEEDED", 1009) /\ Drop(1)
        ELSE GoOn(SizeKnown(w, n)) /\ Taken(1)
  /\ UNCHANGED failures

\* The bytes of a length or of a mask but the last one.
Following ==
  [s \in {"Length1of2", "Length1of8", "Length2of8", "Length3of8", "Length4of8", "Length5of8",
          "Length6of8", "Length7of8", "Mask1Of4", "Mask2Of4", "Mask3Of4"} |->
   CASE s = "Length1of2" -> "Length2of2"
     [] s = "Length1of8" -> "Length2of8" [] s = "Length2of8" -> "Length3of8"
     [] s = "Length3of8" -> "Length4of8" [] s = "Length4of8" -> "Length5of8"
     [] s = "Length5of8" -> "Length6of8" [] s = "Length6of8" -> "Length7of8"
     [] s = "Length7of8" -> "Length8of8"
     [] s = "Mask1Of4" -> "Mask2Of4" [] s = "Mask2Of4" -> "Mask3Of4"
     [] s = "Mask3Of4" -> "Mask4Of4"]

HeaderByte ==
  /\ At(DOMAIN Following)
  /\ GoOn([ws EXCEPT !.header = Append(@, Head(wire)), !.step = Following[@]])
  /\ Taken(1)
  /\ UNCHANGED failures

\* The last byte of a length of two or eight digits.
Number(digits) == FoldLeft(LAMBDA v, d : v * Base + d, 0, digits)

LengthEnd ==
  /\ At({"Length2of2", "Length8of8"})
  /\ LET w == [ws EXCEPT !.header = Append(@, Head(wire))]
         size == Number(SubSeq(w.header, 3, Len(w.header)))
         long == ws.step = "Length8of8"
     IN CASE long /\ size >= (Base ^ 8) \div 2 ->
               Fail([w EXCEPT !.step = "BrokenStream"], "PROTOCOL_ERROR", 1002)
               /\ Drop(1)
          [] size < (IF long THEN Base * Base ELSE Len7 + 1) ->
               Fail(w, "PROTOCOL_ERROR", 1002) /\ Drop(1)
          [] OTHER ->
               IF Exceeds(size)
                 THEN Fail(w, "MAXIMUM_SIZE_EXCEEDED", 1009) /\ Drop(1)
                 ELSE GoOn(SizeKnown(w, size)) /\ Taken(1)
  /\ UNCHANGED failures

\* A slip: the byte before the mask is taken for a part of it.
MutantFiveBytes ==
  /\ At({"Mask4Of4"})
  /\ LET header == Append(ws.header, Head(wire))
     IN GoOn([ws EXCEPT !.header = header, !.step = "HeaderCompleted",
                        !.mask_key = SubSeq(header, Len(header) - 4, Len(header))])
  /\ Taken(1)
  /\ UNCHANGED failures

Mask4Of4 ==
  /\ At({"Mask4Of4"})
  /\ LET header == Append(ws.header, Head(wire))
     IN GoOn([ws EXCEPT !.header = header, !.step = "HeaderCompleted",
                        !.mask_key = SubSeq(header, Len(header) - 3, Len(header))])
  /\ Taken(1)
  /\ UNCHANGED failures

\* MHD_websocket_decode_header_complete(): the buffer for the payload.
Garbage(n) == [i \in 1..n |-> 0]

\* A slip: the buffer of a continuation has room for the larger of its parts only.
MutantNotEnlarged(w) ==
  LET op == Opcode(w.header)
  IN CASE op = OpContinuation -> [w EXCEPT !.start = Len(w.data),
                                           !.data = SubSeq(@ \o Garbage(w.payload_size), 1, Max({Len(@), w.payload_size})),
                                           !.step = "PayloadOfDataFrame"]
       [] op \in {OpText, OpBinary} -> [w EXCEPT !.start = 0, !.data_type = op,
                                                 !.data = Garbage(w.payload_size),
                                                 !.step = "PayloadOfDataFrame"]
       [] op \in Control -> [w EXCEPT !.control = Garbage(w.payload_size),
                                      !.step = "PayloadOfControlFrame"]

decode_header_complete(w) ==
  LET op == Opcode(w.header)
  IN CASE op = OpContinuation -> [w EXCEPT !.start = Len(w.data),
                                           !.data = @ \o Garbage(w.payload_size),
                                           !.step = "PayloadOfDataFrame"]
       [] op \in {OpText, OpBinary} -> [w EXCEPT !.start = 0, !.data_type = op,
                                                 !.data = Garbage(w.payload_size),
                                                 !.step = "PayloadOfDataFrame"]
       [] op \in Control -> [w EXCEPT !.control = Garbage(w.payload_size),
                                      !.step = "PayloadOfControlFrame"]

\* A continuation may exceed the limit together with what is there already.
HeaderExceeds(w) ==
  Opcode(w.header) = OpContinuation /\ Exceeds(w.payload_size + Len(w.data))

HeaderAllocates(w) ==
  w.payload_size + (IF Opcode(w.header) = OpContinuation THEN Len(w.data) ELSE 0) # 0

MallocFails == failures < MaxFailures /\ failures' = failures + 1
MEMORY_ERROR == Result("MEMORY_ERROR", "", <<>>)

\* MHD_websocket_decode_payload_complete(): the next state and the result.
NextFrame(w) == [w EXCEPT !.step = "Start", !.payload_index = 0, !.header = <<>>]

decode_payload_complete(w) ==
  LET continue == Opcode(w.header) = OpContinuation
      kind == Kind(w.data_type)
      empty == [NextFrame(w) EXCEPT !.data = <<>>, !.start = 0]
      given == Given(w.data_utf8_step)
      part == IF continue THEN "NEXT" ELSE "FIRST"
  IN IF IsFin(w.header) /\ w.step = "PayloadOfDataFrame"
       THEN [ws |-> [empty EXCEPT !.data_type = 0],
             ret |-> Result(kind, IF WANT_FRAGMENTS /\ continue THEN "LAST" ELSE "", w.data)]
     ELSE IF IsFin(w.header)
       THEN [ws |-> [NextFrame(w) EXCEPT !.control = <<>>],
             ret |-> Result(Kind(Opcode(w.header)), "",
                            IF Opcode(w.header) = OpClose THEN split_close_reason(w.control)
                                                          ELSE w.control)]
     ELSE IF ~ WANT_FRAGMENTS
       THEN [ws |-> NextFrame(w), ret |-> OK]
     ELSE IF w.data_type = OpText /\ given # 0
       THEN [ws |-> [NextFrame(w) EXCEPT
                       !.data = SubSeq(w.data, w.start + w.payload_index - given + 1,
                                       w.start + w.payload_index)],
             ret |-> Result(kind, part, SubSeq(w.data, 1, Len(w.data) - given))]
     ELSE [ws |-> empty, ret |-> Result(kind, part, w.data)]

\* It allocates a buffer for the beginning of a character.
CompleteAllocates(w) ==
  /\ ~ IsFin(w.header) /\ WANT_FRAGMENTS /\ w.data_type = OpText
  /\ w.data_utf8_step # "NORMAL" /\ Len(w.data) > Given(w.data_utf8_step)

HeaderCompleted ==
  /\ At({"HeaderCompleted"})
  /\ \/ /\ HeaderExceeds(ws)
        /\ Fail([ws EXCEPT !.step = "BrokenStream"], "MAXIMUM_SIZE_EXCEEDED", 1009)
        /\ DropNone /\ UNCHANGED failures
     \/ /\ ~ HeaderExceeds(ws)
        /\ GoOn(decode_header_complete(ws)) /\ UNCHANGED <<wire, cut, avail, failures>>
     \/ /\ ~ HeaderExceeds(ws) /\ HeaderAllocates(ws) /\ MallocFails
        /\ Return(ws, MEMORY_ERROR) /\ DropNone

\* All payload of the frame is there: the result of the loop's iteration.
Complete(w) ==
  \/ LET c == decode_payload_complete(w)
     IN /\ IF c.ret.status = "OK"
             THEN GoOn(c.ws) /\ avail' = avail - (w.payload_index - ws.payload_index)
             ELSE Return(c.ws, c.ret)
        /\ UNCHANGED failures
  \/ CompleteAllocates(w) /\ MallocFails /\ Return(w, MEMORY_ERROR)

\* The check of the text of a close frame counts its bytes from the beginning of
\* the frame.  With too few bytes in this piece it goes on behind the payload.
CloseStep(w, take) ==
  LET from == IF ws.payload_index < 2 THEN 2 ELSE ws.payload_index
  IN IF take >= from
       THEN {check_utf8("NORMAL", SubSeq(w.control, from + 1, take))}
       ELSE {"NORMAL", "INVALID"}

\* The step of the UTF-8 check after the bytes of this piece.
Utf8After(w, take) ==
  CASE w.step = "PayloadOfDataFrame" /\ w.data_type = OpText /\ take > 0 ->
         {check_utf8(w.data_utf8_step,
                     SubSeq(w.data, w.start + ws.payload_index + 1, w.start + w.payload_index))}
    [] /\ w.step = "PayloadOfControlFrame" /\ Opcode(w.header) = OpClose
       /\ take > 0 /\ w.payload_index > 2 -> CloseStep(w, take)
    [] OTHER -> {w.data_utf8_step}

Payload ==
  /\ At({"PayloadOfDataFrame", "PayloadOfControlFrame"})
  /\ LET take == Min({ws.payload_size - ws.payload_index, avail})
         bytes == copy_payload(SubSeq(wire, 1, take), ws.mask_key, ws.payload_index % 4)
         Put(buffer, at) ==
           [i \in 1..Len(buffer) |->
              IF i \in at + 1..at + take THEN bytes[i - at] ELSE buffer[i]]
         w == IF ws.step = "PayloadOfDataFrame"
                THEN [ws EXCEPT !.data = Put(@, ws.start + ws.payload_index),
                                !.payload_index = @ + take]
                ELSE [ws EXCEPT !.control = Put(@, ws.payload_index),
                                !.payload_index = @ + take]
     IN /\ Drop(take)
        /\ \E step \in Utf8After(w, take) :
             IF step = "INVALID"
               THEN Fail(w, "UTF8_ENCODING_ERROR", 1007) /\ UNCHANGED failures
             ELSE LET w2 == [w EXCEPT !.data_utf8_step = step]
                  IN IF w2.payload_index = w2.payload_size
                       THEN Complete(w2)
                       ELSE GoOn(w2) /\ avail' = avail - take /\ UNCHANGED failures

\* A slip: no special treatment for a header at the end of the buffer.
MutantHeaderWaits ==
  /\ call /\ avail = 0
  /\ Return(ws, OK) /\ UNCHANGED failures
  /\ DropNone

\* "Special treatment for zero payload length messages", at the end of the buffer.
EndOfBuffer ==
  /\ call /\ avail = 0
  /\ IF ws.step = "HeaderCompleted" /\ HeaderExceeds(ws)
       THEN Fail([ws EXCEPT !.step = "BrokenStream"], "MAXIMUM_SIZE_EXCEEDED", 1009)
            /\ UNCHANGED failures
       ELSE \/ LET w == IF ws.step = "HeaderCompleted" THEN decode_header_complete(ws) ELSE ws
               IN IF /\ w.step \in {"PayloadOfDataFrame", "PayloadOfControlFrame"}
                     /\ w.payload_size = w.payload_index
                    THEN \/ LET c == decode_payload_complete(w)
                            IN Return(c.ws, c.ret) /\ UNCHANGED failures
                         \/ CompleteAllocates(w) /\ MallocFails /\ Return(w, MEMORY_ERROR)
                    ELSE Return(w, OK) /\ UNCHANGED failures
            \/ /\ ws.step = "HeaderCompleted" /\ HeaderAllocates(ws) /\ MallocFails
               /\ Return(ws, MEMORY_ERROR)
  /\ DropNone

\* MHD_websocket_stream_invalidate(): nothing more is to be told.
stream_invalidate ==
  /\ ~ call /\ ws.validity # "INVALID"
  /\ ws' = [ws EXCEPT !.validity = "INVALID"]
  /\ ref' = [NoMessage EXCEPT !.failed = TRUE] /\ due' = <<>>
  /\ UNCHANGED <<wire, cut, utf8_step, call, avail, ret, failures, wrong, halved>>

-----------------------------------------------------------------------------
Fragmentation == {"NONE", "FIRST", "FOLLOWING", "LAST"}

Peer ==
  \/ \E f \in Fragmentation : \/ \E t \in Texts : encode_text(f, t)
                              \/ \E b \in Binaries : encode_binary(f, b)
  \/ \E p \in Pings, op \in {OpPing, OpPong} : encode_ping_pong(op, p)
  \/ \E c \in Closes : encode_close(c.code, c.text)
  \/ \E f \in RawFrames : SendRaw(f)

DecodeStep ==
  \/ Start \/ Length1ofX \/ HeaderByte \/ LengthEnd \/ Mask4Of4 \/ HeaderCompleted
  \/ Payload \/ EndOfBuffer

Next ==
  \/ Peer \/ DecodeStep \/ stream_invalidate
  \/ \E n \in 0..Len(wire) : decode(n)

Spec == Init /\ [][Next]_vars
-----------------------------------------------------------------------------
(* Properties *)

\* The types of the variables; the header fits into frame_header[32].
TypeOK ==
  /\ wire \in Seq(0..255) /\ Len(cut) = Len(wire) /\ avail \in 0..Len(wire)
  /\ ws.validity \in {"VALID", "ONLY_CONTROL", "INVALID"} /\ ws.data_type \in {0, OpText, OpBinary}
  /\ Len(ws.header) <= 32 /\ (ws.mask_key = <<>> \/ Len(ws.mask_key) = 4)

\* MHD_websocket_decode() returns what the standard makes of the frames that
\* were sent, in their order and with their payload, however the stream is cut
\* into pieces, also with the bytes of several frames in one piece, and whenever
\* an allocation fails; nothing follows an error.  Set apart are a close frame
\* whose payload is cut (WholeCloses: bytes_to_take - utf8_start, line 1236) and a
\* text whose last character is unfinished (WholeTexts: no check in
\* MHD_websocket_decode_payload_complete(), line 1442).
EventsExact == ~ wrong

\* A result is returned as soon as its last byte has been passed, also for a frame
\* without payload at the end of a buffer.
NothingHeldBack ==
  ~ call /\ (wire = <<>> \/ ws.validity = "INVALID") /\ ret # "MEMORY_ERROR"
    => due = <<>>

\* The payload of a frame is copied into a buffer that has room for it, behind what
\* the message had before.
InBounds ==
  /\ ws.step = "PayloadOfDataFrame" => ws.start + ws.payload_size = Len(ws.data)
  /\ ws.step = "PayloadOfControlFrame" => ws.payload_size = Len(ws.control)
  /\ ws.step \in {"PayloadOfDataFrame", "PayloadOfControlFrame"} =>
       ws.payload_index <= ws.payload_size

\* "you will never get an unfinished UTF-8 sequence": every text is whole.
OnlyCompleteText == ~ halved
============================================================================
