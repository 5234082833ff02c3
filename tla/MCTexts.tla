------------------------------- MODULE MCTexts -------------------------------
(***************************************************************************)
(* The texts of a request and of a reply: the parsers of the request line, *)
(* the header lines, the body, the arguments and cookies, and the headers  *)
(* of a response.  A behaviour is about one of them; its first state       *)
(* chooses which.                                                          *)
(***************************************************************************)
EXTENDS Integers, SequencesExt

CONSTANTS NULL, QueryLen, CookieLen, MaxEntries

Concat(A, B) == {a \o b : a \in A, b \in B}
CRLF == <<"CR", "LF">>
LF == <<"LF">>
Eol == {CRLF, LF}

-----------------------------------------------------------------------------
(* Request lines put together from parts, some of them wrong. *)

Lead == {<<>>, CRLF, <<"CR", "LF", "LF">>, <<"LF", "LF", "LF">>, <<"SP">>, <<"CR">>}
Method == {<<>>, <<"g">>, <<"x">>}
Blank == {<<>>, <<"SP">>, <<"TAB">>, <<"SP", "SP">>, <<"SP", "VT">>}
Target == {<<>>, <<"x">>, <<"?">>, <<"x", "?">>, <<"x", "SP", "?">>, <<"?", "x", "?">>, <<"x", "VT", "x">>, <<"x", "CR", "x">>,
           <<"NUL">>, <<"x", "TAB", "SP", "x">>}
Version == {<<"H", "1">>, <<"H", "2">>, <<"H">>, <<"H", "1", "SP">>}

\* Everything after an ordinary start, ...
TargetLines == Concat({<<"g">>}, Concat(Blank, Concat(Target, Concat({<<"SP">>, <<"TAB">>, <<"SP", "VT">>}, Concat({<<"H", "1">>}, Eol)))))
\* ... everything before and after an ordinary target.
OuterLines ==
  Concat(Lead, Concat(Method, Concat({<<"SP">>, <<"SP", "SP">>}, Concat({<<"x">>, <<>>},
    Concat({<<"SP">>, <<>>}, Concat(Version, {CRLF}))))))
LineStreams == TargetLines \cup OuterLines

-----------------------------------------------------------------------------
(* Header sections of one line of many forms, and of three lines. *)

Sp == {<<>>, <<"SP">>, <<"TAB", "SP">>}
FieldName == {<<>>, <<"n">>, <<"n", "SP", "n">>, <<"n", "NUL">>}
FieldValue == {<<>>, <<"v">>, <<"SP">>, <<"SP", "v", "SP">>, <<"v", "SP", "v">>, <<"v", "CR", "v">>, <<"NUL">>,
               <<"SP", "v", "CR", "LF", "SP", "v", "SP">>, <<"LF", "TAB">>, <<"v", ":">>}
OneField ==
  Concat({<<>>, <<"SP">>}, Concat(FieldName, Concat(Sp, Concat({<<":">>, <<>>}, Concat(FieldValue, Eol)))))
Ordinary == {<<"n", ":", "v", "CR", "LF">>, <<"n", ":", "LF">>, <<"v", "LF">>, <<":", "v", "LF">>, <<"SP", "n", "LF">>}
FieldStreams ==
  Concat(OneField, {<<"CR", "LF", "n">>})
  \cup Concat(Concat(Ordinary, Ordinary), Concat(Ordinary, {<<"CR", "LF", "LF">>}))
  \cup {LF, CRLF, <<"CR", "n", "LF", "LF">>, <<"LF", "SP">>}

-----------------------------------------------------------------------------
(* Chunked bodies. *)

\* Well-formed sizes, one too large, none at all.
ChunkSizes == {<<"1">>, <<"0", "2">>, <<"2", "3", "1">>, <<"x">>}
\* Ends of the line, right and wrong.
ChunkEols == {CRLF, LF, <<"CR">>, <<"SP", "CR", "LF">>}
\* Payloads with bytes that look like the encoding; the third is too long for
\* the sizes above.
ChunkData == {LF, CRLF, <<"1", "CR", "x">>}
BodyTails == {<<"0">> \o CRLF \o CRLF, <<"0">> \o LF, <<"1">> \o CRLF \o <<"x">> \o CRLF}
\* Chunk extensions only where the line they are in has no end: what the code makes
\* of a line with an extension and an end is not what was meant (see the README).
BodyInputs ==
  {s \o e \o d \o f \o t : s \in ChunkSizes, e \in ChunkEols, d \in ChunkData, f \in Eol, t \in BodyTails}
  \cup {<<"1", ";", "x">>, <<"1", "SP", "SP", ";", "CR">>}

-----------------------------------------------------------------------------
(* Every short query and every short Cookie header over the characters the *)
(* parsers tell apart, at every level of strictness, with room for all the *)
(* records or for a few.                                                   *)

A == 97
B == 98
Ht == 9
Sp_ == 32
Dq == 34
Pct == 37
Amp == 38
Plus == 43
Comma == 44
Four == 52
Semi == 59
Eq == 61
Backslash == 92
Strings(chars, n) == UNION {[1..m -> chars] : m \in 0..n}
Item(kind, key, value) == [kind |-> kind, key |-> key, value |-> value]
Field(name, value) == Item("header", name, <<value>>)
CookieName == <<99, 75>>
Cookies ==
  Strings({A, Eq, Semi, Sp_, Ht, Dq, Comma}, CookieLen)
  \cup {p \o q : p \in {<<A, Eq, B, Semi, Sp_>>, <<A, Eq, Dq, B, Dq>>, <<A, Eq, B>>, <<A, Eq, Dq, B>>},
                 q \in Strings({B, Eq, Semi, Sp_, Dq, Backslash}, CookieLen)}
CookieLevels == {-3, -2, 0, 1, 2}
ValueRequests ==
  [query : Strings({A, Eq, Amp, Plus, Pct, Four}, QueryLen)
             \cup {<<A, Plus, Eq, Pct, 50, 66, Plus>>, <<Pct, 50, 54, Eq, Pct, 51, 68>>},
   fields : {<<>>}, level : {-1, 0}]
  \cup [query : {<<A>>}, fields : {<<Field(CookieName, c)>> : c \in Cookies}, level : CookieLevels]
  \cup [query : {<<>>},
        fields : {<<Field(<<B>>, <<A>>), Field(CookieName, c), Field(<<67, 75>>, <<B, Eq, B>>)>> :
                    c \in {<<A, Eq, Semi, Sp_, B, Eq>>, <<>>, <<0>>}}, level : CookieLevels]
ValuesByApp ==
  {Item("argument", <<0>>, <<>>), Item("header", <<B>>, <<<<A, 0>>>>), Item("cookie", <<A>>, <<<<B>>>>)}

-----------------------------------------------------------------------------
(* The edits of a response and the requests it answers. *)
ConnectionTokens == {<<"close">>, <<"foo">>, <<"foo", "close">>, <<"closer">>}
ContentTokens == {<<"valid">>, <<"invalid">>}
ResponseFlags ==
  {{}, {"INSANITY"}, {"HEAD_ONLY"}, {"HTTP_1_0_COMPATIBLE_STRICT"}, {"HTTP_1_0_SERVER"}, {"SEND_KEEP_ALIVE_HEADER"}}
Answered ==
  [version : {"1.0", "1.1"}, head : BOOLEAN, wants : {"close", "keep-alive", "nothing"}, code : {101, 200, 204}]

VARIABLES
  part,  \* the component this behaviour is about
  stream, discp, fed, base, buf, c, state, hdr, fields, input, arrived, pos,
  have_chunked_upload, remaining, size, off, taken, status, pc, request, room, headers, phase,
  cookie_status, asserted,
  entries, flags_auto, flags, total_size, upgrade, reply, headers_failed

Line == INSTANCE RequestLine WITH
  Streams <- LineStreams, Levels <- -3..2, StdMethods <- {<<"g">>}, HTTP_VER_LEN <- 2,
  MHD_MAX_EMPTY_LINES_SKIP <- 2

Fields == INSTANCE FieldLines WITH
  Streams <- FieldStreams, Levels <- -3..1

Body == INSTANCE RequestBody WITH
  Inputs <- BodyInputs, Lengths <- {3}, Base <- 4, MaxSize <- 15

Values == INSTANCE RequestValues WITH
  UINT32_MAX <- 255, UINT64_MAX <- 4095, Divisor64 <- 1000, Requests <- ValueRequests, Rooms
  <- {2, 9}, AppValues <- ValuesByApp

Headers == INSTANCE ResponseHeaders WITH
  ConnectionValues <- ConnectionTokens, Contents <- ContentTokens, FlagSets <- ResponseFlags,
  Totals <- {"zero", "some", "unknown"}, Queries <- Answered, MaxTokens <- 3, failed <-
  headers_failed

rvars == <<entries, flags_auto, flags, total_size, upgrade, reply, headers_failed>>
vars == <<part, stream, discp, fed, base, buf, c, state, hdr, fields, input, arrived, pos,
  have_chunked_upload, remaining, size, off, taken, status, pc, request, room, headers, phase,
  cookie_status, asserted, rvars>>

\* The headers of a response in a behaviour about a request.
RequestOnly ==
  /\ entries = NULL /\ flags_auto = NULL /\ flags = NULL /\ total_size = NULL /\ upgrade = NULL
  /\ reply = NULL /\ headers_failed = NULL

Init ==
  \/ /\ part = "line" /\ Line!Init /\ RequestOnly
     /\ hdr = NULL /\ fields = NULL /\ input = NULL /\ arrived = NULL /\ pos = NULL
     /\ have_chunked_upload = NULL /\ remaining = NULL /\ size = NULL /\ off = NULL
     /\ taken = NULL /\ status = NULL /\ pc = NULL /\ request = NULL /\ room = NULL
     /\ headers = NULL /\ phase = NULL /\ cookie_status = NULL /\ asserted = NULL
  \/ /\ part = "fields" /\ Fields!Init /\ RequestOnly
     /\ c = NULL /\ input = NULL /\ arrived = NULL /\ pos = NULL
     /\ have_chunked_upload = NULL /\ remaining = NULL /\ size = NULL /\ off = NULL
     /\ taken = NULL /\ status = NULL /\ pc = NULL /\ request = NULL /\ room = NULL
     /\ headers = NULL /\ phase = NULL /\ cookie_status = NULL /\ asserted = NULL
  \/ /\ part = "body" /\ Body!Init /\ RequestOnly
     /\ stream = NULL /\ fed = NULL /\ base = NULL /\ buf = NULL /\ c = NULL /\ state = NULL
     /\ hdr = NULL /\ fields = NULL /\ request = NULL /\ room = NULL /\ headers = NULL
     /\ phase = NULL /\ cookie_status = NULL /\ asserted = NULL
  \/ /\ part = "values" /\ Values!Init /\ RequestOnly
     /\ stream = NULL /\ discp = NULL /\ fed = NULL /\ base = NULL /\ buf = NULL /\ c = NULL
     /\ state = NULL /\ hdr = NULL /\ fields = NULL /\ input = NULL /\ arrived = NULL
     /\ pos = NULL /\ have_chunked_upload = NULL /\ remaining = NULL /\ size = NULL
     /\ off = NULL /\ taken = NULL /\ status = NULL /\ pc = NULL
  \/ /\ part = "headers" /\ Headers!Init
     /\ stream = NULL /\ discp = NULL /\ fed = NULL /\ base = NULL /\ buf = NULL
     /\ c = NULL /\ state = NULL /\ hdr = NULL /\ fields = NULL /\ input = NULL
     /\ arrived = NULL /\ pos = NULL /\ have_chunked_upload = NULL /\ remaining = NULL
     /\ size = NULL /\ off = NULL /\ taken = NULL /\ status = NULL /\ pc = NULL
     /\ request = NULL /\ room = NULL /\ headers = NULL /\ phase = NULL
     /\ cookie_status = NULL /\ asserted = NULL

Next ==
  \/ /\ part = "line" /\ Line!Next
     /\ UNCHANGED <<part, rvars, hdr, fields, input, arrived, pos, have_chunked_upload, remaining,
        size, off, taken, status, pc, request, room, headers, phase, cookie_status,
        asserted>>
  \/ /\ part = "fields" /\ Fields!Next
     /\ UNCHANGED <<part, rvars, c, input, arrived, pos, have_chunked_upload, remaining, size, off,
        taken, status, pc, request, room, headers, phase, cookie_status, asserted>>
  \/ /\ part = "body" /\ Body!Next
     /\ UNCHANGED <<part, rvars, stream, fed, base, buf, c, state, hdr, fields, request, room, headers,
        phase, cookie_status, asserted>>
  \/ /\ part = "values" /\ Values!Next
     /\ UNCHANGED <<part, rvars, stream, discp, fed, base, buf, c, state, hdr, fields, input, arrived,
        pos, have_chunked_upload, remaining, size, off, taken, status, pc>>
  \/ /\ part = "headers" /\ Headers!Next
     /\ UNCHANGED <<part, stream, discp, fed, base, buf, c, state, hdr, fields, input, arrived,
        pos, have_chunked_upload, remaining, size, off, taken, status, pc, request, room,
        headers, phase, cookie_status, asserted>>

Spec == Init /\ [][Next]_vars

-----------------------------------------------------------------------------
(* Properties of the components. *)

\* However the bytes are cut and whatever the level: a request is handed on exactly if
\* the whole line has a method, a target and a supported version, these are the parts the
\* reference finds, and what follows the line is not consumed.
\* "mhd_assert (fixed_uri_len == o)": the redirect fills exactly the memory that was set
\* aside from the whitespace counted while parsing, and it is sent exactly when the target
\* contains whitespace that is not kept.
\* The start of the arguments is the first "?" of the target, if it has one.
\* A line that is complete has been decided on.
LineExact ==
  part = "line" =>
    /\ Line!AsReference
    /\ Line!WhitespaceCounted
    /\ Line!QueryInTarget
    /\ Line!Decided

\* However the bytes are cut: the fields handed on are those of the section, with names
\* and values free of the whitespace around them, and it is refused exactly if a line of
\* it is wrong at this level.
\* The section ends where its first empty line ends: nothing of what follows is consumed.
\* A section that is complete has been decided on.
\* The assertions at the top of the loop, of a line that is not to be skipped and has a
\* name.
FieldsExact ==
  part = "fields" =>
    /\ Fields!AsReference
    /\ Fields!EndsAtEmptyLine
    /\ Fields!Decided
    /\ Fields!Consistent

\* However the body is cut into pieces and however little of it the application
\* takes at a time, it gets a beginning of the payload, nothing else; and when
\* the body is complete, all of it, with the buffer at the first byte after it.
\* Code: buffer_head, current_chunk_size and current_chunk_offset of
\* process_request_body().
\* The decoder comes to the outcome the bytes call for, and to no other.  Code:
\* the ways out of the loop of process_request_body().
BodyExact ==
  part = "body" =>
    /\ Body!PayloadExact
    /\ Body!OutcomeExact

\* The application is given the cookies of the first Cookie header that the strictness
\* level admits, up to the first that is malformed (none at all at level 2), and the
\* parser knows whether the header was by the standard.
\* The assertions of parse_cookies_string() about the character after a cookie hold,
\* though the parser has written terminators into the string it reads.
\* The arguments of the URL are the parts between ampersands, with plus signs and escapes
\* decoded in this order, each on its own side of the first equals sign.
\* Only arguments hold binary zeros, whoever sets the values, so that every other value
\* reads the same by its length and by its terminator.
ValuesExact ==
  part = "values" =>
    /\ Values!CookiesExact
    /\ Values!CookieAssertions
    /\ Values!ArgumentsExact
    /\ Values!BinaryZerosOnlyInArguments

\* There is one Connection header at most and it is the first entry: MHD_queue_response()
\* and add_user_headers() rely on its place.  The two flags about it are always right.
\* A response for an upgrade is never told to close the connection.
\* The flags about the other headers go wrong in three ways only: the first Connection
\* header is added after them, a footer of the same name is deleted, or a new Date is
\* refused after the old one was removed.
\* As long as the flags are right, every reply is framed.
HeadersRight ==
  /\ [](part = "headers" => Headers!ConnectionFirst /\ Headers!UpgradeNeverCloses)
  /\ [][part = "headers" => Headers!FlagStep /\ Headers!ReplyStep]_vars

ASSUME Line!StreamsAssumption /\ Line!BoundsAssumption /\ Fields!StreamsAssumption /\ Fields!LevelsAssumption
ASSUME Body!SizeAssumption /\ Body!InputAssumption /\ Values!WidthAssumption /\ Headers!EntriesAssumption
=============================================================================
