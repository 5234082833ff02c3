----------------------------- MODULE RequestBody -----------------------------
(***************************************************************************)
(* The decoder of request bodies, process_request_body() of connection.c,  *)
(* byte by byte.  The bytes of the body arrive in pieces cut anywhere; the *)
(* decoder is called whenever there is something in the read buffer, keeps *)
(* its position in the chunked encoding in four fields of the connection,  *)
(* and hands the payload to the application, which may take any part of    *)
(* what it is offered.                                                     *)
(*                                                                         *)
(* Bytes are symbols: digits, "CR", "LF", ";", "SP" and "x", any other.    *)
(* The buffer is the part of the input from pos to arrived.                *)
(***************************************************************************)
EXTENDS Integers, Sequences, FiniteSetsExt

CONSTANTS
  Inputs,     \* what clients send: sequences of symbols
  Lengths,    \* the values of Content-Length for bodies that are not chunked
  Base,       \* the base of the chunk size: 16 in the code
  MaxSize     \* the largest number a chunk size may be: UINT64_MAX in the code

Digits == {"0", "1", "2", "3"}
DigitValue(d) == CASE d = "0" -> 0 [] d = "1" -> 1 [] d = "2" -> 2 [] d = "3" -> 3
Symbols == Digits \cup {"CR", "LF", ";", "SP", "x"}

MHD_SIZE_UNKNOWN == MaxSize + 1

SizeAssumption ==
  /\ Base \in Nat /\ Base > 3 /\ MaxSize \in Nat /\ MaxSize >= Base
  /\ Lengths \subseteq 1..MaxSize
InputAssumption == \A s \in Inputs : \A i \in DOMAIN s : s[i] \in Symbols

VARIABLES
  input,      \* what this client sends
  discp,      \* daemon->client_discipline
  arrived,    \* how many bytes of it have been received
  pos,        \* how many of these the decoder has removed from the buffer
  have_chunked_upload,
  remaining,  \* rq.remaining_upload_size
  size,       \* rq.current_chunk_size
  off,        \* rq.current_chunk_offset
  taken,      \* the places in the input of the bytes the application has taken
  status,     \* "recv", "done", or how the connection has failed
  pc          \* "wait" for an event, in the "loop", or in the "upload" callback

fixed == <<input, discp, have_chunked_upload>>
vars == <<fixed, arrived, pos, remaining, size, off, taken, status, pc>>

Buffer == SubSeq(input, pos + 1, arrived)

\* The daemon's strictness: -3 to 3.
bare_lf_as_crlf == discp <= 0
allow_bws == discp > 2

Init ==
  /\ input \in Inputs
  /\ discp \in {0, 1, 3}
  /\ remaining \in Lengths \cup {MHD_SIZE_UNKNOWN}
  /\ have_chunked_upload = (remaining = MHD_SIZE_UNKNOWN)
  /\ arrived = 0 /\ pos = 0 /\ size = 0 /\ off = 0 /\ taken = <<>>
  /\ status = "recv" /\ pc = "wait"

-----------------------------------------------------------------------------
(***************************************************************************)
(* The chunk size line at the head of the buffer s.                        *)
(***************************************************************************)

\* The first place in s from i on that holds none of the symbols, or the place
\* after the end.
FirstNot(s, i, symbols) ==
  Min({j \in i..Len(s) : s[j] \notin symbols} \cup {Len(s) + 1})

\* MHD_strx_to_uint64_n_(): the number, -1 when it is too large to be stored
\* (the code then reports that it has found no digit).
MHD_strx_to_uint64_n_(s, n) ==
  LET number[i \in 0..n] ==
        IF i = 0 THEN 0
        ELSE LET r == number[i - 1]
                 d == DigitValue(s[i])
             IN IF \/ r < 0 \/ r > MaxSize \div Base
                   \/ (r = MaxSize \div Base /\ d > MaxSize % Base)
                THEN -1 ELSE r * Base + d
  IN number[n]

\* What a line is found to be: incomplete, broken, or so many bytes of a size.
More == [kind |-> "more", len |-> 0, size |-> 0]
Broken(kind) == [kind |-> kind, len |-> 0, size |-> 0]
Line(len, sz) == [kind |-> "line", len |-> len, size |-> sz]

\* The line goes on after its n digits with an extension or white space.  The
\* line feed that ends it is not counted.
ChunkExtension(s, n, sz) ==
  LET i == FirstNot(s, n + 1, {"SP"})
      lf == FirstNot(s, i + 1, Symbols \ {"LF"})
  IN IF i > Len(s) THEN More
     ELSE IF s[i] # ";" THEN Broken("malformed")
     ELSE IF lf > Len(s) THEN More
     ELSE IF bare_lf_as_crlf \/ s[lf - 1] = "CR" THEN Line(lf - 1, sz)
     ELSE Broken("malformed")

\* The line ends after its n digits.
ChunkLineEnd(s, n, sz) ==
  IF Len(s) - n >= 2 /\ s[n + 1] = "CR" /\ s[n + 2] = "LF" THEN Line(n + 2, sz)
  ELSE IF bare_lf_as_crlf /\ s[n + 1] = "LF" THEN Line(n + 1, sz)
  ELSE IF Len(s) - n < 2 THEN More
  ELSE Broken("malformed")

ChunkSizeLine(s) ==
  LET n == FirstNot(s, 1, Digits) - 1
      sz == MHD_strx_to_uint64_n_(s, n)
  IN IF sz < 0 THEN Broken("too_large")
     ELSE IF n = Len(s) THEN More
     ELSE IF n = 0 THEN Broken("malformed")
     ELSE IF s[n + 1] = ";" \/ (allow_bws /\ s[n + 1] = "SP")
     THEN ChunkExtension(s, n, sz)
     ELSE ChunkLineEnd(s, n, sz)

-----------------------------------------------------------------------------
(***************************************************************************)
(* The loop of process_request_body().                                     *)
(***************************************************************************)

\* handle_read() followed by handle_idle().
Receive ==
  /\ pc = "wait" /\ status = "recv"
  /\ arrived' \in (arrived + 1)..Len(input)
  /\ pc' = "loop"
  /\ UNCHANGED <<fixed, pos, remaining, size, off, taken, status>>

\* handle_idle() for an event without new data: the application, which has left
\* some, is offered it again.
Again ==
  /\ pc = "wait" /\ status = "recv" /\ pos < arrived
  /\ pc' = "loop"
  /\ UNCHANGED <<fixed, arrived, pos, remaining, size, off, taken, status>>

Fail(why) ==
  /\ status' = why /\ pc' = "wait"
  /\ UNCHANGED <<fixed, arrived, pos, remaining, size, off, taken>>

Leave ==
  /\ pc' = "wait"
  /\ UNCHANGED <<fixed, arrived, pos, remaining, size, off, taken, status>>

AtChunkEnd == have_chunked_upload /\ off = size /\ size # 0

\* The end of line after the payload of a chunk: its length, 0 if there is none.
EndLen(s) ==
  IF Len(s) >= 2 /\ s[1] = "CR" /\ s[2] = "LF" THEN 2
  ELSE IF bare_lf_as_crlf /\ s[1] = "LF" THEN 1 ELSE 0

MutantSplitEndRefused ==
  /\ pc = "loop" /\ AtChunkEnd
  /\ \/ EndLen(Buffer) = 0 /\ Fail("malformed")
     \/ /\ EndLen(Buffer) # 0
        /\ pos' = pos + EndLen(Buffer) /\ size' = 0 /\ off' = 0
        /\ pc' = IF pos' = arrived THEN "wait" ELSE "loop"
        /\ UNCHANGED <<fixed, arrived, remaining, taken, status>>

ChunkEnd ==
  /\ pc = "loop" /\ AtChunkEnd
  /\ \/ EndLen(Buffer) = 0 /\ Len(Buffer) < 2 /\ Leave
     \/ EndLen(Buffer) = 0 /\ Len(Buffer) >= 2 /\ Fail("malformed")
     \/ /\ EndLen(Buffer) # 0
        /\ pos' = pos + EndLen(Buffer) /\ size' = 0 /\ off' = 0
        /\ pc' = IF pos' = arrived THEN "wait" ELSE "loop"
        /\ UNCHANGED <<fixed, arrived, remaining, taken, status>>

ChunkSize ==
  /\ pc = "loop" /\ have_chunked_upload /\ size = 0
  /\ LET line == ChunkSizeLine(Buffer)
     IN \/ line.kind = "more" /\ Leave
        \/ line.kind \in {"malformed", "too_large"} /\ Fail(line.kind)
        \/ /\ line.kind = "line"
           /\ pos' = pos + line.len /\ size' = line.size /\ off' = 0
           /\ status' = IF line.size = 0 THEN "done" ELSE status
           /\ remaining' = IF line.size = 0 THEN 0 ELSE remaining
           /\ pc' = IF line.size = 0 \/ pos' = arrived THEN "wait" ELSE "loop"
           /\ UNCHANGED <<fixed, arrived, taken>>

\* to_be_processed
Offered ==
  IF have_chunked_upload THEN Min({size - off, arrived - pos})
  ELSE Min({remaining, arrived - pos})

Offer ==
  /\ pc = "loop"
  /\ have_chunked_upload => (size # 0 /\ off < size)
  /\ pc' = "upload"
  /\ UNCHANGED <<fixed, arrived, pos, remaining, size, off, taken, status>>

MutantOffsetForgotten(n) ==
  /\ pc = "upload" /\ n <= Offered
  /\ taken' = taken \o [i \in 1..n |-> pos + i]
  /\ pos' = pos + n
  /\ IF have_chunked_upload
     THEN /\ off' = IF n = Offered THEN off + n ELSE off
          /\ UNCHANGED <<remaining, status>>
     ELSE off' = off /\ remaining' = remaining - n
          /\ status' = IF remaining' = 0 THEN "done" ELSE status
  /\ pc' = IF have_chunked_upload /\ off' = size /\ pos' < arrived
           THEN "loop" ELSE "wait"
  /\ UNCHANGED <<fixed, arrived, size>>

\* The application takes n of the bytes.  The loop goes on if the chunk is
\* complete and something follows it; a body with a Content-Length is complete
\* when nothing remains.
Takes(n) ==
  /\ pc = "upload" /\ n <= Offered
  /\ taken' = taken \o [i \in 1..n |-> pos + i]
  /\ pos' = pos + n
  /\ IF have_chunked_upload
     THEN off' = off + n /\ UNCHANGED <<remaining, status>>
     ELSE off' = off /\ remaining' = remaining - n
          /\ status' = IF remaining' = 0 THEN "done" ELSE status
  /\ pc' = IF have_chunked_upload /\ off' = size /\ pos' < arrived
           THEN "loop" ELSE "wait"
  /\ UNCHANGED <<fixed, arrived, size>>

\* MHD_NO: the connection is closed.
Refuses == pc = "upload" /\ Fail("closed")

Next ==
  \/ Receive \/ Again \/ ChunkEnd \/ ChunkSize \/ Offer \/ Refuses
  \/ \E n \in 0..MaxSize : Takes(n)

Spec == Init /\ [][Next]_vars

-----------------------------------------------------------------------------
(***************************************************************************)
(* What a body means, for all the bytes of it at once: RFC 9112, section   *)
(* 7.1, with the leniency the daemon's strictness allows.  Ref(s).body is  *)
(* the list of the places of the payload, Ref(s).end is "done", an error   *)
(* or "more" when s is the beginning of a body, and Ref(s).pos how much of *)
(* s has been understood.                                                  *)
(***************************************************************************)

\* Does an end of line start at place i, and where does it end?
Eol(s, i) == {j \in {i, i + 1} \cap 1..Len(s) :
                /\ s[j] = "LF"
                /\ j = i => bare_lf_as_crlf
                /\ j = i + 1 => s[i] = "CR"}

\* It takes two bytes to see that there is none.
Undecided(s, i) == i >= Len(s) /\ Eol(s, i) = {}

\* Does an extension start at place i?
ExtensionAt(s, i) ==
  \E j \in i..Len(s) : /\ s[j] = ";"
                       /\ \A k \in i..(j - 1) : s[k] = "SP" /\ allow_bws

\* The line feed that ends it.
ExtensionEnd(s, i) ==
  LET lfs == {j \in i..Len(s) : s[j] = "LF"}
  IN IF lfs = {} THEN {} ELSE {Min(lfs)}

Number(s, i, j) ==
  MapThenSumSet(LAMBDA k : DigitValue(s[k]) * Base ^ (j - k), i..j)

RefStop(end, pos_) == [body |-> <<>>, end |-> end, pos |-> pos_]

Ref(s) ==
  LET \* from the place p, the start of a chunk size line
      chunk[p \in 1..(Len(s) + 1)] ==
        LET e == Min({j \in p..(Len(s) + 1) : j = Len(s) + 1 \/ s[j] \notin Digits})
            n == Number(s, p, e - 1)
            spaces == \A j \in e..Len(s) : s[j] = "SP"
            eols == IF ExtensionAt(s, e) THEN ExtensionEnd(s, e) ELSE Eol(s, e)
            start == Min(eols) + 1
            payload == [i \in 1..Min({n, Len(s) + 1 - start}) |-> start + i - 1]
            close == Eol(s, start + n)
        IN IF e > p /\ n > MaxSize THEN RefStop("too_large", p)
           ELSE IF e = Len(s) + 1 THEN RefStop("more", p)
           ELSE IF e = p THEN RefStop("malformed", p)
           ELSE IF eols = {}
           THEN IF \/ ExtensionAt(s, e)
                   \/ Undecided(s, e) /\ ~(allow_bws /\ s[e] = "SP")
                   \/ allow_bws /\ spaces
                THEN RefStop("more", p) ELSE RefStop("malformed", p)
           ELSE IF ExtensionAt(s, e) /\ ~bare_lf_as_crlf /\ s[start - 2] # "CR"
           THEN RefStop("malformed", p)
           ELSE IF n = 0 THEN RefStop("done", start - 1)
           ELSE IF Undecided(s, start + n)
           THEN [RefStop("more", p) EXCEPT !.body = payload]
           ELSE IF close = {}
           THEN [RefStop("malformed", p) EXCEPT !.body = payload]
           ELSE [chunk[Min(close) + 1] EXCEPT !.body = payload \o @]
  IN chunk[1]

\* The same for a body of n bytes.
RefPlain(s, n) ==
  [body |-> [i \in 1..Min({n, Len(s)}) |-> i],
   end |-> IF Len(s) >= n THEN "done" ELSE "more", pos |-> n]

\* What the bytes received so far mean; the Content-Length is what remains and
\* what has been taken.
Meaning ==
  LET s == SubSeq(input, 1, arrived)
  IN IF have_chunked_upload THEN Ref(s) ELSE RefPlain(s, remaining + Len(taken))

-----------------------------------------------------------------------------
(***************************************************************************)
(* Properties.                                                             *)
(***************************************************************************)

\* The fields keep their ranges; inside a chunk the offset is within it.
TypeOK ==
  /\ arrived \in 0..Len(input) /\ pos \in 0..arrived
  /\ size \in 0..MaxSize /\ off \in 0..size
  /\ remaining \in 0..MHD_SIZE_UNKNOWN
  /\ status \in {"recv", "done", "malformed", "too_large", "closed"}
  /\ pc \in {"wait", "loop", "upload"}
  /\ pc # "wait" => status = "recv" /\ pos < arrived
  /\ have_chunked_upload => remaining \in {0, MHD_SIZE_UNKNOWN}

\* However the body is cut into pieces and however little of it the application
\* takes at a time, it gets a beginning of the payload, nothing else; and when
\* the body is complete, all of it, with the buffer at the first byte after it.
\* Code: buffer_head, current_chunk_size and current_chunk_offset of
\* process_request_body().
PayloadExact ==
  /\ Len(taken) <= Len(Meaning.body)
  /\ taken = SubSeq(Meaning.body, 1, Len(taken))
  /\ status = "done" =>
       /\ Meaning.end = "done" /\ Meaning.pos = pos
       /\ taken = Meaning.body

\* A body is refused only if it is broken, for the right reason, and only after
\* what precedes the broken part has been taken.  Code: the calls of
\* transmit_error_response_static() in process_request_body().
RefusedIfBroken ==
  status \in {"malformed", "too_large"} =>
    Meaning.end = status /\ taken = Meaning.body

\* The decoder does not wait for more bytes when those it has complete the body
\* or show that it is broken, unless the application has left some.  Code: the
\* "need more data" breaks, and instant_retry, of process_request_body().
WaitsOnlyIfIncomplete ==
  (status = "recv" /\ pc = "wait" /\ arrived > 0 /\ taken = Meaning.body) =>
    Meaning.end = "more"

\* The decoder comes to the outcome the bytes call for, and to no other.  Code:
\* the ways out of the loop of process_request_body().
OutcomeExact == TypeOK /\ RefusedIfBroken /\ WaitsOnlyIfIncomplete

=============================================================================
