----------------------------- MODULE RequestLine -----------------------------
(***************************************************************************)
(* get_request_line() of connection.c: the parser of the request line, one *)
(* character at a time, at every level of strictness.  The bytes arrive in *)
(* pieces cut anywhere; between two calls the parser keeps its position    *)
(* and half a dozen marks in rq.hdrs.rq_line.                              *)
(*                                                                         *)
(* Characters are symbols: "SP", "TAB", "VT" (also for form feed), "CR",   *)
(* "LF", "NUL", "?" and letters.  A version is HTTP_VER_LEN symbols, the   *)
(* last of which tells the major version.                                  *)
(***************************************************************************)
EXTENDS Integers, SequencesExt, FiniteSetsExt

CONSTANTS
  Streams,                   \* what clients send
  Levels,                    \* values of daemon->client_discipline
  StdMethods,                \* the methods from GET to DELETE
  HTTP_VER_LEN,
  MHD_MAX_EMPTY_LINES_SKIP

Symbols == {"SP", "TAB", "VT", "CR", "LF", "NUL", "?", "g", "x", "H", "0", "1", "2"}
Null == -1

StreamsAssumption == \A s \in Streams : \A k \in DOMAIN s : s[k] \in Symbols
BoundsAssumption ==
  Levels \subseteq -3..3 /\ HTTP_VER_LEN \in Nat \ {0} /\ MHD_MAX_EMPTY_LINES_SKIP \in Nat

VARIABLES
  stream,   \* what this client sends
  discp,    \* daemon->client_discipline
  fed,      \* how many symbols of it have been received
  base,     \* how many of these precede c->read_buffer
  buf,      \* the memory: the parser overwrites symbols
  c,        \* what is kept in c->rq
  state     \* "wait" for data, "line": in the loop, or the outcome

vars == <<stream, discp, fed, base, buf, c, state>>

skip_empty_lines == discp <= 1
skip_several_empty_lines == discp <= 0
skip_unlimited_empty_lines == discp <= -3
bare_lf_as_crlf == discp <= 0
wsp_blocks == discp <= -1
wsp_in_uri == discp <= 0
wsp_in_uri_keep == discp <= -2
bare_cr_keep == discp <= -3
bare_cr_as_sp == ~ bare_cr_keep /\ discp <= -1
IsWsp(s) == \/ s = "SP"
            \/ s = "TAB" /\ discp <= 0
            \/ s = "VT" /\ discp <= -1

Fresh == [proc_pos |-> 0, method |-> 0, http_mthd |-> "none", rq_tgt |-> Null, qmark |-> Null,
          req_target_len |-> 0, version |-> Null, last_ws_start |-> 0, last_ws_end |-> 0,
          num_ws_in_uri |-> 0, skipped_empty_lines |-> 0]

Init ==
  /\ stream \in Streams /\ discp \in Levels
  /\ fed = 0 /\ base = 0 /\ buf = stream /\ c = Fresh /\ state = "wait"

read_buffer_offset == fed - base
At(pos) == buf[base + pos + 1]
p == c.proc_pos
Here == At(p)
InLine == state = "line" /\ p < read_buffer_offset
fixed == <<stream, discp, fed, base>>

\* More data; the parser is called.
Receive ==
  /\ state = "wait"
  /\ \E n \in fed + 1..Len(stream) : fed' = n
  /\ state' = IF p = 0 /\ skip_empty_lines THEN "skip" ELSE "line"
  /\ UNCHANGED <<stream, discp, base, buf, c>>

-----------------------------------------------------------------------------
(* Empty lines before the request line *)

\* A slip: a bare LF is skipped like CR LF.
MutantEmptyLineLen == IF (At(0) = "CR" /\ At(1) = "LF") \/ At(0) = "LF" THEN 2 ELSE 0

EmptyLineLen ==
  CASE At(0) = "CR" /\ At(1) = "LF" -> 2
    [] At(0) = "LF" /\ bare_lf_as_crlf -> 1
    [] OTHER -> 0

TooManyEmptyLines(n) ==
  ~ skip_unlimited_empty_lines
  /\ n > (IF skip_several_empty_lines THEN MHD_MAX_EMPTY_LINES_SKIP ELSE 1)

SkipWaits ==
  /\ state = "skip"
  /\ read_buffer_offset = 0 \/ (read_buffer_offset = 1 /\ At(0) = "CR")
  /\ state' = "wait" /\ UNCHANGED <<fixed, buf, c>>

SkipEmptyLine ==
  /\ state = "skip" /\ read_buffer_offset > 0
  /\ ~ (read_buffer_offset = 1 /\ At(0) = "CR")
  /\ EmptyLineLen > 0
  /\ base' = base + EmptyLineLen
  /\ c' = [c EXCEPT !.skipped_empty_lines = @ + 1]
  /\ state' = IF TooManyEmptyLines(c.skipped_empty_lines + 1) THEN "close" ELSE "skip"
  /\ UNCHANGED <<stream, discp, fed, buf>>

SkipDone ==
  /\ state = "skip" /\ read_buffer_offset > 0
  /\ ~ (read_buffer_offset = 1 /\ At(0) = "CR")
  /\ EmptyLineLen = 0
  /\ state' = "line" /\ UNCHANGED <<fixed, buf, c>>

-----------------------------------------------------------------------------
(* The end of the line *)

\* "A quick simple check whether this line looks like an HTTP request"
Reject == IF c.http_mthd = "common" THEN "400" ELSE "close"

\* A slip: what follows the line is awaited, as for a header that may be folded.
MutantMustWait ==
  p = read_buffer_offset \/ (Here \in {"CR", "LF"} /\ p + 1 = read_buffer_offset)

\* All data is used, or it must be seen what follows a CR.
MustWait == p = read_buffer_offset \/ (Here = "CR" /\ p + 1 = read_buffer_offset)

NeedMore ==
  /\ state = "line" /\ MustWait
  /\ state' = IF c.version # Null /\ p - c.version > HTTP_VER_LEN THEN "400" ELSE "wait"
  /\ UNCHANGED <<fixed, buf, c>>

FollowedByLf == p + 1 < read_buffer_offset /\ At(p + 1) = "LF"
IsEol == \/ Here = "CR" /\ FollowedByLf
         \/ Here = "LF" /\ bare_lf_as_crlf
IsBareCr == Here = "CR" /\ p + 1 < read_buffer_offset /\ At(p + 1) # "LF"

ReplaceBareCr ==
  /\ InLine /\ IsBareCr /\ bare_cr_as_sp
  /\ buf' = [buf EXCEPT ![base + p + 1] = "SP"]
  /\ UNCHANGED <<fixed, c, state>>

RejectBareEnd ==
  /\ InLine
  /\ \/ IsBareCr /\ ~ bare_cr_as_sp /\ ~ bare_cr_keep
     \/ Here = "LF" /\ ~ bare_lf_as_crlf
  /\ state' = Reject /\ UNCHANGED <<fixed, buf, c>>

\* Where the target ends and the version starts, when whitespace in the target is parsed.
SplitAtLastWsp ==
  IF c.method = 0 \/ c.last_ws_end = 0 THEN c
  ELSE IF c.rq_tgt # Null
    THEN [c EXCEPT !.req_target_len = c.last_ws_start - c.rq_tgt, !.version = c.last_ws_end]
  ELSE IF c.last_ws_start + 1 < c.last_ws_end /\ p - c.last_ws_end = HTTP_VER_LEN
    THEN [c EXCEPT !.last_ws_start = @ + 1, !.rq_tgt = c.last_ws_start + 1, !.num_ws_in_uri = 0,
                   !.qmark = Null, !.version = c.last_ws_end]
  ELSE c

\* ... and when it is not: only an empty target may be left to be found.
SplitKnown ==
  IF /\ c.method # 0 /\ c.version = Null /\ c.rq_tgt # Null
     /\ p - c.rq_tgt = HTTP_VER_LEN /\ At(c.rq_tgt - 1) # "0-terminator"
    THEN [c EXCEPT !.version = c.rq_tgt, !.rq_tgt = @ - 1, !.num_ws_in_uri = 0, !.qmark = Null]
    ELSE c

parse_http_version(s) ==
  IF Len(s) # HTTP_VER_LEN \/ s[Len(s)] \notin {"0", "1", "2"}
     \/ \E k \in 1..Len(s) - 1 : s[k] # "H"
    THEN "400"
  ELSE IF s[Len(s)] = "1" THEN "ok" ELSE "505"

\* The target with its whitespace replaced, and the memory set aside for it.
FixedTarget(e) ==
  FlattenSeq([k \in 1..e.req_target_len |->
                LET s == At(e.rq_tgt + k - 1)
                IN IF s \in {"SP", "TAB", "VT"} THEN <<"%", "0", s>> ELSE <<s>>])
FixedTargetLen(e) == e.req_target_len + 2 * e.num_ws_in_uri

\* The redirect, unless it is too large or there is no memory.
send_redirect_fixed_rq_target(e) == {"301", "close_uri"}

\* The arguments may not fit into the pool.
process_request_target(e) == {"received"} \cup (IF e.qmark = Null THEN {} ELSE {"431"})

\* The rest of get_request_line().
Outcomes(e) ==
  IF e.num_ws_in_uri # 0 /\ ~ wsp_in_uri_keep
    THEN IF wsp_in_uri THEN send_redirect_fixed_rq_target(e) ELSE {"400"}
    ELSE process_request_target(e)

\* The marks stay relative to the start of the line; proc_pos becomes the position where
\* c->read_buffer starts when the line has been consumed.
EndOfLine ==
  /\ InLine /\ IsEol
  /\ LET e == IF wsp_in_uri THEN SplitAtLastWsp ELSE SplitKnown
         v == parse_http_version(SubSeq(buf, base + e.version + 1, base + p))
         found == e.version # Null /\ e.method # 0
         zeros == (IF found /\ wsp_in_uri THEN {e.last_ws_start} ELSE {})
                  \cup (IF found /\ v = "ok" THEN {p} ELSE {})
     IN /\ c' = IF found /\ v = "ok"
                  THEN [e EXCEPT !.proc_pos = p + (IF Here = "CR" THEN 2 ELSE 1)] ELSE e
        /\ buf' = [k \in DOMAIN buf |-> IF k - base - 1 \in zeros THEN "0-terminator" ELSE buf[k]]
        /\ state' \in IF ~ found THEN {Reject} ELSE IF v # "ok" THEN {v} ELSE Outcomes(e)
  /\ UNCHANGED fixed

-----------------------------------------------------------------------------
(* Characters within the line *)

AfterWsp(r) == r.last_ws_end # 0 /\ p = r.last_ws_end

\* The character after whitespace starts the target or the version.
EndDelimiter(r) ==
  IF r.rq_tgt = Null
    THEN [r EXCEPT !.rq_tgt = p, !.last_ws_start = 0, !.last_ws_end = 0]
  ELSE IF ~ wsp_in_uri
    THEN [r EXCEPT !.version = p, !.last_ws_start = 0, !.last_ws_end = 0]
  ELSE r

\* A slip: the start of the target is seen at its first visible character only.
MutantStarted == c

\* Without blocks this comes before the character, also before another whitespace.
Started == IF ~ wsp_blocks /\ AfterWsp(c) THEN EndDelimiter(c) ELSE c

parse_http_std_method(m) == IF m \in StdMethods THEN "common" ELSE "other"

Marked(r) == [r EXCEPT !.last_ws_start = p, !.last_ws_end = p + 1, !.proc_pos = p + 1]

Terminate == buf' = [buf EXCEPT ![base + p + 1] = "0-terminator"]

IsChar == InLine /\ (Here \notin {"CR", "LF"} \/ (IsBareCr /\ bare_cr_keep))
IsWspChar == InLine /\ IsWsp(Here)

WspInBlock ==
  /\ IsWspChar /\ wsp_blocks /\ AfterWsp(c)
  /\ c' = [c EXCEPT !.last_ws_end = p + 1, !.proc_pos = p + 1]
  /\ UNCHANGED <<fixed, buf, state>>

FirstWsp == IsWspChar /\ ~ (wsp_blocks /\ AfterWsp(c))

WspAfterMethod ==
  /\ FirstWsp /\ c.method = 0 /\ UNCHANGED fixed
  /\ IF p = 0
       THEN state' = "close" /\ UNCHANGED <<buf, c>>
       ELSE /\ Terminate /\ UNCHANGED state
            /\ c' = Marked([c EXCEPT !.method = p,
                                     !.http_mthd = parse_http_std_method(SubSeq(buf, base + 1, base + p))])

\* A slip: a block of whitespace is counted as one.
MutantWspBefore(r) == IF r.last_ws_end = 0 THEN 0 ELSE 1

\* The whitespace that turns out to be within the target.
WspBefore(r) == IF r.last_ws_end = 0 THEN 0 ELSE r.last_ws_end - r.last_ws_start

\* With whitespace in the target: only the last one ends it.
WspInTarget ==
  /\ FirstWsp /\ c.method # 0 /\ wsp_in_uri
  /\ c' = Marked([Started EXCEPT !.num_ws_in_uri = @ + WspBefore(Started)])
  /\ UNCHANGED <<fixed, buf, state>>

WspAfterTarget ==
  /\ FirstWsp /\ c.method # 0 /\ ~ wsp_in_uri /\ UNCHANGED fixed
  /\ IF Started.version = Null
       THEN /\ Terminate /\ UNCHANGED state
            /\ c' = Marked([Started EXCEPT !.req_target_len = p - Started.rq_tgt])
       ELSE state' = Reject /\ c' = Started /\ UNCHANGED buf

\* A slip: the last question mark counts.
MutantQMark(r) == IF r.rq_tgt # Null THEN p ELSE r.qmark

QMark(r) == IF r.qmark = Null /\ r.rq_tgt # Null THEN p ELSE r.qmark

Character ==
  /\ IsChar /\ ~ IsWsp(Here) /\ UNCHANGED <<fixed, buf>>
  /\ LET r == IF AfterWsp(c) THEN EndDelimiter(c) ELSE c
         next == [r EXCEPT !.proc_pos = p + 1]
     IN CASE Here = "?" ->
               c' = [next EXCEPT !.qmark = QMark(r)] /\ UNCHANGED state
          [] Here = "VT" ->
               IF r.rq_tgt # Null /\ r.version = Null /\ wsp_in_uri
                 THEN c' = [next EXCEPT !.num_ws_in_uri = @ + 1] /\ UNCHANGED state
                 ELSE c' = r /\ state' = "close"
          [] Here = "NUL" -> c' = r /\ state' = "close"
          [] OTHER -> c' = next /\ UNCHANGED state

Next ==
  \/ Receive \/ SkipWaits \/ SkipEmptyLine \/ SkipDone
  \/ NeedMore \/ ReplaceBareCr \/ RejectBareEnd \/ EndOfLine
  \/ WspInBlock \/ WspAfterMethod \/ WspInTarget \/ WspAfterTarget \/ Character

Spec == Init /\ [][Next]_vars

-----------------------------------------------------------------------------
(* The reference: what a line means, stated of the whole of it *)

\* Bare CRs become spaces where the level says so.
Cleaned ==
  [k \in DOMAIN stream |->
     IF stream[k] = "CR" /\ bare_cr_as_sp /\ k < Len(stream) /\ stream[k + 1] # "LF"
       THEN "SP" ELSE stream[k]]

IsLineEnd(s, k) == s[k] = "LF" /\ ((k > 1 /\ s[k - 1] = "CR") \/ bare_lf_as_crlf)
LineEnds(s) == {k \in DOMAIN s : IsLineEnd(s, k)}
TextEnd(s, k) == IF k > 1 /\ s[k - 1] = "CR" THEN k - 2 ELSE k - 1

\* The last of the empty lines that may precede the request.
Empties(s) == {k \in LineEnds(s) : \A j \in 1..k : s[j] \in {"CR", "LF"}}
EmptiesAllowed ==
  CASE discp >= 2 -> 0 [] discp = 1 -> 1 [] discp <= -3 -> Len(stream)
    [] OTHER -> MHD_MAX_EMPTY_LINES_SKIP
\* (a CR that is not followed by LF belongs to the next line)
EmptyOnes(s) ==
  {k \in Empties(s) : \A j \in 1..k : s[j] = "CR" => j < k /\ s[j + 1] = "LF"}

Line ==
  LET s == Cleaned
      e == EmptyOnes(s)
      from == IF e = {} \/ discp >= 2 THEN 0 ELSE Max(e)
      ends == {k \in LineEnds(s) : k > from}
  IN IF (Cardinality(e) > EmptiesAllowed /\ discp < 2) \/ ends = {} THEN <<>>
     ELSE SubSeq(s, from + 1, TextEnd(s, Min(ends)))

Invalid(l) == \E k \in DOMAIN l : l[k] \in {"NUL", "LF"} \/ (l[k] = "CR" /\ ~ bare_cr_keep)

\* The target and the version of line l, or none.
NoParts == [method |-> 0, from |-> 0, len |-> 0, wsp |-> 0]
Parts(l) ==
  LET ws == {k \in DOMAIN l : IsWsp(l[k])}
      i == Min(ws)
      j == Max(ws)
      from == IF wsp_blocks THEN Min({k \in i..Len(l) + 1 : k \notin ws}) ELSE i + 1
      to == IF wsp_blocks THEN Max({k \in 0..j : k \notin ws}) ELSE j - 1
      bad == IF wsp_in_uri THEN {k \in DOMAIN l : l[k] = "VT"} \ (from..to \cup ws)
                           ELSE {k \in DOMAIN l : l[k] = "VT"}
  IN IF \/ Cardinality(ws) < 2 \/ Invalid(l) \/ bad # {}
     THEN NoParts
     ELSE IF \/ i = 1 \/ (wsp_blocks /\ to < from) \/ j <= i
             \/ (~ wsp_in_uri /\ Cardinality(ws) # 2)
             \/ parse_http_version(SubSeq(l, j + 1, Len(l))) # "ok"
       THEN NoParts
       ELSE [method |-> i - 1, from |-> from, len |-> to - from + 1,
             wsp |-> Cardinality({k \in from..to : l[k] \in {"SP", "TAB", "VT"}})]

-----------------------------------------------------------------------------
(* Properties *)

Final == {"received", "301", "close_uri", "431", "400", "505", "close"}

TypeOK ==
  /\ fed \in 0..Len(stream) /\ base \in 0..fed /\ p <= read_buffer_offset
  /\ state \in Final \cup {"wait", "skip", "line"}

\* However the bytes are cut and whatever the level: a request is handed on exactly if
\* the whole line has a method, a target and a supported version, these are the parts the
\* reference finds, and what follows the line is not consumed.
AsReference ==
  state \in Final =>
    IF state \in {"received", "301", "close_uri", "431"}
      THEN /\ Parts(Line) # NoParts
           /\ c.method = Parts(Line).method /\ c.rq_tgt = Parts(Line).from - 1
           /\ c.req_target_len = Parts(Line).len
           /\ base + p = Min({k \in LineEnds(Cleaned) : k > base})
      ELSE Parts(Line) = NoParts

\* "mhd_assert (fixed_uri_len == o)": the redirect fills exactly the memory that was set
\* aside from the whitespace counted while parsing, and it is sent exactly when the target
\* contains whitespace that is not kept.
WhitespaceCounted ==
  /\ state = "301" => Len(FixedTarget(c)) = FixedTargetLen(c)
  /\ state \in {"received", "301", "431"} /\ wsp_in_uri /\ ~ wsp_in_uri_keep =>
       (state = "301" <=> Parts(Line).wsp > 0)
  /\ state \in {"received", "431"} => c.num_ws_in_uri <= c.req_target_len

\* The start of the arguments is the first "?" of the target, if it has one.
QueryInTarget ==
  state \in {"received", "431"} =>
    LET q == {k \in c.rq_tgt..c.rq_tgt + c.req_target_len - 1 : At(k) = "?"}
    IN c.qmark = IF q = {} THEN Null ELSE Min(q)

\* A line that is complete has been decided on.
Decided == state = "wait" /\ fed = Len(stream) => ~ \E k \in LineEnds(Cleaned) : k > base

\* "Found only HTTP method and HTTP version and more than one whitespace between them.
\* Assume zero-length URI."
EmptyTargetAssumed ==
  state \in Final /\ wsp_blocks =>
    ~ \E k \in 1..Len(Line) :
        /\ k > 1 /\ \A j \in DOMAIN Line : IsWsp(Line[j]) <=> j \in {k, k + 1}
        /\ parse_http_version(SubSeq(Line, k + 2, Len(Line))) = "ok"
        /\ state = "400"
=============================================================================
