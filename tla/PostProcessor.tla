---------------------------- MODULE PostProcessor ----------------------------
(***************************************************************************)
(* The incremental parser of POST data, postprocessor.c.  The application  *)
(* hands over the body of a request in pieces cut anywhere; the parser     *)
(* reports keys and parts of values through a callback.                    *)
(*                                                                         *)
(* Bytes are symbols.  A pointer into post_data is the position of the     *)
(* byte in the whole body, so that only what a call keeps in the           *)
(* MHD_PostProcessor is known to the next call.  A header line of a part   *)
(* of a multipart body is one symbol, whose meaning Headers gives.  An     *)
(* iteration of a loop of the code is a step.  The transfer encoding of a  *)
(* part is treated like its type and left out.                             *)
(***************************************************************************)
EXTENDS Integers, FiniteSetsExt, SequencesExt

CONSTANTS
  Docs,        \* the bodies: records of an encoding, the bytes, the boundary that
               \* the type "multipart/mixed" tells, if any, the entries that are
               \* meant and whether the body is whole
  Headers,     \* header lines: a function from symbols to attributes
  BufferSize,  \* pp->buffer_size
  XBUF_SIZE,   \* the size of the buffer for unescaping values
  Boundary     \* pp->boundary

Null == 0                 \* of pointers; strings that are not there are <<>>
Newlines == {"CR", "LF"}
DecimalDigits == {"4"}           \* hexadecimal digits that are digits,
HexLetters == {"A"}       \* and that are letters
Attributes == {"name", "filename", "type"}
Mixed == <<"mixed">>      \* the type "multipart/mixed"
NoAttributes == [a \in Attributes |-> <<>>]

SizeAssumption ==
  /\ XBUF_SIZE \in Nat /\ XBUF_SIZE > 2 /\ Len(Boundary) > 0
  /\ BufferSize >= 2 * Len(Boundary) + 2 + 4
HeaderAssumption == \A h \in DOMAIN Headers : DOMAIN Headers[h] = Attributes

VARIABLES
  doc,      \* the body of this request
  pc,       \* what the code is doing
  pp,       \* struct MHD_PostProcessor
  loc,      \* the local variables of the functions
  got,      \* the entries as the application has put them together
  refused,  \* has the callback returned MHD_NO?
  broken,   \* was it called after that, or with data that does not continue?
  ret       \* the result of MHD_destroy_post_processor()

app == <<got, refused, broken>>
vars == <<doc, pc, pp, loc, app, ret>>

\* No call is active; the next one starts at the given position.
Between(pos) ==
  [base |-> pos, pos |-> pos, end |-> pos, start_key |-> Null, end_key |-> Null,
   start_value |-> Null, end_value |-> Null, last_escape |-> Null,
   x |-> <<>>, then |-> "none", changed |-> FALSE]

\* MHD_create_post_processor().
Init ==
  /\ doc \in Docs
  /\ pc = "idle" /\ loc = Between(1)
  /\ pp = [state |-> "PP_Init", buf |-> <<>>, xbuf |-> <<>>, value_offset |-> 0,
           must_ikvi |-> FALSE, must_unescape_key |-> FALSE,
           skip_rn |-> "RN_Inactive", dash_state |-> "PP_Error",
           attr |-> NoAttributes, have |-> {}, nested |-> <<>>]
  /\ got = <<>> /\ refused = FALSE /\ broken = FALSE /\ ret = "none"

\* post_data[i]; beyond the body is what MHD_destroy_post_processor() adds.
Byte(i) == IF i > Len(doc.bytes) THEN "LF" ELSE doc.bytes[i]
Bytes(i, j) == [k \in 1..(j - i) |-> Byte(i + k - 1)]

\* MHD_post_process() with the next n bytes.
MHD_post_process(n) ==
  /\ pc = "idle" /\ ret = "none" /\ loc.pos + n - 1 <= Len(doc.bytes)
  /\ loc' = [loc EXCEPT !.base = loc.pos, !.end = loc.pos + n, !.changed = TRUE]
  /\ pc' = IF doc.encoding = "urlencoded" THEN "urlencoded" ELSE "fill"
  /\ UNCHANGED <<doc, pp, app, ret>>

\* A slip: a value that is still open is left open.
MutantOpenValueLeft ==
  /\ pc = "idle" /\ loc.pos > Len(doc.bytes) /\ ret = "none"
  /\ ret' = "closing"
  /\ UNCHANGED <<doc, pc, loc, pp, app>>

\* MHD_destroy_post_processor(): a value that is still open is ended by a
\* newline.
MHD_destroy_post_processor ==
  /\ pc = "idle" /\ loc.pos > Len(doc.bytes) /\ ret = "none"
  /\ ret' = "closing"
  /\ IF pp.state = "PP_ProcessValue"
     THEN /\ loc' = [loc EXCEPT !.base = loc.pos, !.end = loc.pos + 1]
          /\ pc' = "urlencoded"
     ELSE UNCHANGED <<loc, pc>>
  /\ UNCHANGED <<doc, pp, app>>

Destroyed ==
  /\ pc = "idle" /\ ret = "closing"
  /\ pc' = "ended"
  /\ ret' = IF pp.xbuf # <<>> \/ pp.state \notin {"PP_Done", "PP_Init"}
            THEN "MHD_NO" ELSE "MHD_YES"
  /\ UNCHANGED <<doc, pp, loc, app>>

\* A function returns to the application.  The bytes given were used up, or
\* are lost.
Return == pc' = "idle" /\ loc' = Between(loc.end)

-----------------------------------------------------------------------------
(***************************************************************************)
(* The callback.                                                           *)
(***************************************************************************)

\* The application adds data to the last entry if the attributes are the same
\* and the offset is its length, and else begins an entry at offset 0.
ikvi(attributes, off, data) ==
  LET last == Len(got)
      Continues == last > 0 /\ got[last].attr = attributes
                   /\ off = Len(got[last].value)
  IN /\ got' = IF Continues
               THEN [got EXCEPT ![last].value = @ \o data]
               ELSE Append(got, [attr |-> attributes, value |-> data])
     /\ broken' = (broken \/ refused \/ (~Continues /\ off # 0))
     /\ refused' \in {refused, TRUE}

-----------------------------------------------------------------------------
(***************************************************************************)
(* Bodies in URL encoding.                                                 *)
(***************************************************************************)

IsHex(b) == b \in DecimalDigits \cup HexLetters

\* The byte an escape sequence stands for.
HexByte(h, l) ==
  CASE <<h, l>> = <<"4", "4">> -> "D"
    [] <<h, l>> = <<"4", "A">> -> "J"
    [] <<h, l>> = <<"A", "4">> -> "A4"
    [] <<h, l>> = <<"A", "A">> -> "AA"

\* MHD_unescape_plus() and MHD_http_unescape(), which leaves as it is what is
\* no escape sequence.
Unescaped(s) ==
  LET from[i \in 1..Len(s) + 1] ==
        IF i > Len(s) THEN <<>>
        ELSE IF s[i] = "%" /\ i + 2 <= Len(s) /\ IsHex(s[i + 1]) /\ IsHex(s[i + 2])
        THEN <<HexByte(s[i + 1], s[i + 2])>> \o from[i + 3]
        ELSE <<IF s[i] = "+" THEN "SP" ELSE s[i]>> \o from[i + 1]
  IN from[1]

\* The loop goes on.
MoreToDo ==
  /\ pc = "urlencoded" /\ pp.state # "PP_Error"
  /\ loc.pos < loc.end \/ pp.state = "PP_Callback"

UrlInit ==
  LET b == Byte(loc.pos) IN
  /\ MoreToDo /\ pp.state = "PP_Init"
  /\ \/ /\ b = "="
        /\ pp' = [pp EXCEPT !.state = "PP_Error"]
        /\ UNCHANGED loc
     \/ /\ b = "&"
        /\ loc' = [loc EXCEPT !.pos = @ + 1]
        /\ UNCHANGED pp
     \/ /\ b \in Newlines
        /\ pp' = [pp EXCEPT !.state = "PP_Done"]
        /\ loc' = [loc EXCEPT !.pos = @ + 1]
     \/ /\ b \notin {"=", "&"} \cup Newlines
        /\ pp' = [pp EXCEPT !.state = "PP_ProcessKey", !.must_ikvi = TRUE]
        /\ loc' = [loc EXCEPT !.start_key = loc.pos, !.pos = @ + 1]
  /\ UNCHANGED <<doc, pc, app, ret>>

\* At the first byte of a call the key that was begun is in the buffer, with
\* nothing to add.
EndKey == IF loc.pos = loc.base THEN loc.end_key ELSE loc.pos

UrlKey ==
  LET b == Byte(loc.pos) IN
  /\ MoreToDo /\ pp.state = "PP_ProcessKey"
  /\ \/ /\ b = "="
        /\ pp' = [pp EXCEPT !.state = "PP_ProcessValue"]
        /\ loc' = [loc EXCEPT !.end_key = EndKey, !.pos = @ + 1]
     \/ /\ b = "&"
        /\ pp' = [pp EXCEPT !.state = "PP_Callback"]
        /\ loc' = [loc EXCEPT !.end_key = EndKey, !.pos = @ + 1]
     \/ /\ b \in Newlines
        /\ pp' = [pp EXCEPT !.state = "PP_Callback"]
        /\ loc' = [loc EXCEPT !.end_key = EndKey]
     \/ /\ b \notin {"=", "&"} \cup Newlines
        /\ loc' = [loc EXCEPT !.start_key = IF loc.pos = loc.base THEN loc.pos ELSE @,
                              !.pos = @ + 1]
        /\ UNCHANGED pp
  /\ UNCHANGED <<doc, pc, app, ret>>

UrlValue ==
  LET b     == Byte(loc.pos)
      start == IF loc.start_value = Null THEN loc.pos ELSE loc.start_value
      Report == pp.must_ikvi \/ start # loc.pos
  IN
  /\ MoreToDo /\ pp.state = "PP_ProcessValue"
  /\ \/ /\ b = "="
        /\ pp' = [pp EXCEPT !.state = "PP_Error"]
        /\ UNCHANGED loc
     \/ /\ b = "&" /\ Report
        /\ pp' = [pp EXCEPT !.state = "PP_Callback"]
        /\ loc' = [loc EXCEPT !.start_value = start, !.end_value = loc.pos, !.pos = @ + 1]
     \/ /\ b = "&" /\ ~Report
        /\ pp' = [pp EXCEPT !.state = "PP_Init", !.buf = <<>>, !.value_offset = 0]
        /\ loc' = [loc EXCEPT !.start_value = Null, !.end_value = Null, !.pos = @ + 1]
     \/ /\ b \in Newlines /\ Report
        /\ pp' = [pp EXCEPT !.state = "PP_Callback"]
        /\ loc' = [loc EXCEPT !.start_value = start, !.end_value = loc.pos]
     \/ /\ b \in Newlines /\ ~Report
        /\ pp' = [pp EXCEPT !.state = "PP_Done"]
        /\ loc' = [loc EXCEPT !.start_value = start, !.end_value = loc.pos, !.pos = @ + 1]
     \/ /\ b \notin {"=", "&"} \cup Newlines
        /\ loc' = [loc EXCEPT !.start_value = start, !.pos = @ + 1,
                              !.last_escape = CASE b = "%"        -> loc.pos
                                                [] b \in DecimalDigits   -> @
                                                [] OTHER          -> Null]
        /\ UNCHANGED pp
  /\ UNCHANGED <<doc, pc, app, ret>>

UrlDone ==
  /\ MoreToDo /\ pp.state = "PP_Done"
  /\ IF Byte(loc.pos) \in Newlines
     THEN loc' = [loc EXCEPT !.pos = @ + 1] /\ UNCHANGED pp
     ELSE pp' = [pp EXCEPT !.state = "PP_Error"] /\ UNCHANGED loc
  /\ UNCHANGED <<doc, pc, app, ret>>

-----------------------------------------------------------------------------
\* The beginning of process_value(): what was left over comes first, and what
\* may be the beginning of an escape sequence is left over.
StartValue(p, l, start, end, escape, then) ==
  LET keep == escape # Null /\ end - escape < 2 IN
  /\ pp' = [p EXCEPT !.xbuf = IF keep THEN Bytes(escape, end) ELSE <<>>]
  /\ loc' = [l EXCEPT !.x = p.xbuf, !.then = then, !.start_value = start,
                      !.end_value = IF keep THEN escape ELSE end]
  /\ pc' = "value"

UnescapeKey(p) ==
  IF p.must_unescape_key
  THEN [p EXCEPT !.buf = Unescaped(@), !.must_unescape_key = FALSE] ELSE p

\* A slip: what is in the buffer already is not counted.
MutantPieceFits(start, end) == end - start < BufferSize

\* The key is moved to the buffer, if there is room for it.
KeyFits(start, end) == Len(pp.buf) + (end - start) < BufferSize

WithKey(start, end) ==
  IF start = end THEN pp
  ELSE [pp EXCEPT !.buf = @ \o Bytes(start, end), !.must_unescape_key = TRUE]

UrlCallback ==
  /\ MoreToDo /\ pp.state = "PP_Callback"
  /\ IF loc.start_key # loc.end_key /\ ~KeyFits(loc.start_key, loc.end_key)
     THEN /\ pp' = [pp EXCEPT !.state = "PP_Error"]
          /\ UNCHANGED <<loc, pc>>
     ELSE StartValue(UnescapeKey(WithKey(loc.start_key, loc.end_key)),
                     [loc EXCEPT !.start_key = Null, !.end_key = Null],
                     loc.start_value, loc.end_value, Null, "callback")
  /\ UNCHANGED <<doc, app, ret>>

\* How many of the last bytes may begin an escape sequence.
OpenEscape(x) ==
  CASE Len(x) > 0 /\ x[Len(x)] = "%"     -> 1
    [] Len(x) > 1 /\ x[Len(x) - 1] = "%" /\ x[Len(x)] # "%" -> 2
    [] OTHER -> 0

\* An iteration of the loop of process_value(): a piece of the value goes
\* through the buffer; an escape sequence cut off by its end waits for the next
\* iteration if the buffer was full, and else for the next call.
process_value ==
  LET free  == XBUF_SIZE - Len(loc.x)
      delta == Min({free, loc.end_value - loc.start_value})
      x     == loc.x \o Bytes(loc.start_value, loc.start_value + delta)
      open  == OpenEscape(x)
      cut   == open > 0 /\ Len(x) # XBUF_SIZE
      tail  == SubSeq(x, Len(x) - open + 1, Len(x))
      data  == Unescaped(SubSeq(x, 1, Len(x) - open))
      Call  == pp.must_ikvi \/ data # <<>>
  IN
  /\ pc = "value" /\ loc.then \in {"callback", "save"}
  /\ loc.start_value # loc.end_value \/ pp.must_ikvi \/ loc.x # <<>>
  /\ IF Call THEN ikvi([NoAttributes EXCEPT !["name"] = pp.buf], pp.value_offset, data)
             ELSE UNCHANGED app
  /\ pp' = [pp EXCEPT !.xbuf = IF cut THEN tail ELSE @, !.must_ikvi = FALSE,
                      !.state = IF Call /\ refused' THEN "PP_Error" ELSE @,
                      !.value_offset = IF Call /\ refused' THEN @ ELSE @ + Len(data)]
  /\ loc' = [loc EXCEPT
               !.start_value = IF cut \/ (Call /\ refused') THEN loc.end_value
                               ELSE @ + delta,
               !.x = IF cut \/ (Call /\ refused') THEN <<>> ELSE tail]
  /\ UNCHANGED <<doc, pc, ret>>

\* process_value() returns to the loop, or to the end of the function.
ValueDone ==
  /\ pc = "value"
  /\ loc.start_value = loc.end_value /\ ~pp.must_ikvi /\ loc.x = <<>>
  /\ \/ /\ loc.then = "callback" /\ pp.state = "PP_Error"
        /\ pc' = "urlencoded"
        /\ UNCHANGED <<pp, loc>>
     \/ /\ loc.then = "callback" /\ pp.state # "PP_Error"
        /\ pp' = [pp EXCEPT !.state = "PP_Init", !.value_offset = 0, !.buf = <<>>]
        /\ loc' = [loc EXCEPT !.start_value = Null, !.end_value = Null]
        /\ pc' = "urlencoded"
     \/ /\ loc.then = "save"
        /\ Return
        /\ UNCHANGED pp
  /\ UNCHANGED <<doc, app, ret>>

\* The end of post_process_urlencoded(): the rest is saved for the next call,
\* and what there is of a value is reported.
UrlSave ==
  LET endk == IF loc.end_key = Null THEN loc.pos ELSE loc.end_key
      p    == WithKey(loc.start_key, IF loc.start_key = Null THEN Null ELSE endk)
  IN
  /\ pc = "urlencoded" /\ ~MoreToDo
  /\ \/ /\ pp.state = "PP_Error"
        /\ Return /\ UNCHANGED pp
     \/ /\ pp.state # "PP_Error"
        /\ loc.start_key # Null /\ ~KeyFits(loc.start_key, endk)
        /\ pp' = [pp EXCEPT !.state = "PP_Error"]
        /\ Return
     \/ /\ pp.state # "PP_Error"
        /\ loc.start_key # Null => KeyFits(loc.start_key, endk)
        /\ IF loc.start_value # Null /\ pp.state = "PP_ProcessValue"
           THEN StartValue(UnescapeKey(p), loc, loc.start_value, loc.pos,
                           IF loc.pos - loc.last_escape > 2 THEN Null
                           ELSE loc.last_escape, "save")
           ELSE pp' = p /\ Return
  /\ UNCHANGED <<doc, app, ret>>

-----------------------------------------------------------------------------
(***************************************************************************)
(* Multipart bodies.                                                       *)
(***************************************************************************)

HasPrefix(s, prefix) == Len(s) >= Len(prefix) /\ SubSeq(s, 1, Len(prefix)) = prefix
After(s, n) == SubSeq(s, n + 1, Len(s))

\* A slip: every iteration counts as progress.
MutantAlwaysProgress(p, n, changed) ==
  /\ pp' = [p EXCEPT !.buf = After(@, n)]
  /\ loc' = [loc EXCEPT !.changed = TRUE]
  /\ pc' = "fill"

\* The next iteration, with n bytes of the buffer used up.
Again(p, n, changed) ==
  /\ pp' = [p EXCEPT !.buf = After(@, n)]
  /\ loc' = [loc EXCEPT !.changed = changed \/ n > 0]
  /\ pc' = "fill"

\* The input cannot be understood.
Fail(p) == pp' = [p EXCEPT !.state = "PP_Error"] /\ Return

\* The end of the function: more input is needed.
WaitForMore(p) ==
  /\ pp' = [p EXCEPT !.state = IF loc.pos < loc.end THEN "PP_Error" ELSE @]
  /\ Return

\* The head of the loop of post_process_multipart(): input is moved to the
\* buffer.
MultiFill ==
  LET max == Min({BufferSize - Len(pp.buf), loc.end - loc.pos}) IN
  /\ pc = "fill"
  /\ \/ /\ ~(loc.pos < loc.end \/ (pp.buf # <<>> /\ loc.changed))
        /\ WaitForMore(pp)
     \/ /\ loc.pos < loc.end \/ (pp.buf # <<>> /\ loc.changed)
        /\ IF max = 0 /\ ~loc.changed /\ loc.pos < loc.end THEN Fail(pp)
           ELSE /\ pp' = [pp EXCEPT !.buf = @ \o Bytes(loc.pos, loc.pos + max)]
                /\ loc' = [loc EXCEPT !.pos = @ + max, !.changed = FALSE]
                /\ pc' = "skip"
  /\ UNCHANGED <<doc, app, ret>>

\* RN_Full: the end of a line is expected.
EndOfLine ==
  IF HasPrefix(pp.buf, <<"CR", "LF">>) THEN [skip_rn |-> "RN_Inactive", n |-> 2]
  ELSE IF HasPrefix(pp.buf, <<"CR">>) THEN [skip_rn |-> "RN_OptN", n |-> 1]
  ELSE IF HasPrefix(pp.buf, <<"LF">>) THEN [skip_rn |-> "RN_Inactive", n |-> 1]
  ELSE [skip_rn |-> "error", n |-> 0]

\* The first state machine, for the ends of lines and the two dashes after a
\* boundary.
MultiSkip ==
  LET b == pp.buf[1]
      Skipped(rn, n) == Again([pp EXCEPT !.skip_rn = rn], n, FALSE)
  IN
  /\ pc = "skip"
  /\ \/ /\ pp.skip_rn = "RN_Inactive"
        /\ pc' = "main" /\ UNCHANGED <<pp, loc>>
     \/ /\ pp.skip_rn = "RN_OptN" /\ b = "LF"
        /\ Skipped("RN_Inactive", 1)
     \/ /\ pp.skip_rn \in {"RN_OptN", "RN_Dash"} /\ b = "-"
        /\ Skipped("RN_Dash2", 1)
     \/ /\ \/ pp.skip_rn = "RN_OptN" /\ b \notin {"LF", "-"}
           \/ pp.skip_rn = "RN_Dash" /\ b # "-"
           \/ pp.skip_rn = "RN_Full"
        /\ IF EndOfLine.n > 0 THEN Skipped(EndOfLine.skip_rn, EndOfLine.n)
           ELSE Fail([pp EXCEPT !.skip_rn = "RN_Inactive"])
     \/ /\ pp.skip_rn = "RN_Dash2" /\ b = "-"
        /\ Again([pp EXCEPT !.skip_rn = "RN_Full", !.state = pp.dash_state], 1, FALSE)
     \/ /\ pp.skip_rn = "RN_Dash2" /\ b # "-"
        /\ Fail(pp)
  /\ UNCHANGED <<doc, app, ret>>

\* What the main state machine does in the given state.
In(state) == pc = "main" /\ pp.state = state

\* find_boundary(): how much of what comes before the first boundary can be
\* left out.
Garbage(buf) ==
  LET dashes == {i \in DOMAIN buf : buf[i] = "-"} IN
  IF dashes = {} THEN Len(buf) ELSE Max({1, Min(dashes) - 1})

AtBoundary(b) == HasPrefix(pp.buf, <<"-", "-">> \o b)

\* The state after a boundary, with the lines of the next part or the end.
BoundaryFound(p, next, dash) ==
  [p EXCEPT !.skip_rn = "RN_Dash", !.state = next, !.dash_state = dash]

MultiInit ==
  /\ In("PP_Init")
  /\ \/ /\ Len(pp.buf) < 2 + Len(Boundary)
        /\ Again([pp EXCEPT !.state = IF Len(pp.buf) = BufferSize THEN "PP_Error" ELSE @],
                 0, FALSE)
     \/ /\ Len(pp.buf) >= 2 + Len(Boundary) /\ ~AtBoundary(Boundary)
        /\ Again(pp, Garbage(pp.buf), FALSE)
     \/ /\ AtBoundary(Boundary)
        /\ Again(BoundaryFound(pp, "PP_ProcessEntryHeaders", "PP_Done"),
                 2 + Len(Boundary), FALSE)
  /\ UNCHANGED <<doc, app, ret>>

\* A boundary must come next.
find_boundary(b, next, dash) ==
  \/ /\ Len(pp.buf) < 2 + Len(b)
     /\ IF Len(pp.buf) = BufferSize THEN Fail(pp) ELSE WaitForMore(pp)
  \/ /\ Len(pp.buf) >= 2 + Len(b) /\ ~AtBoundary(b)
     /\ Fail(pp)
  \/ /\ AtBoundary(b)
     /\ Again(BoundaryFound(pp, next, dash), 2 + Len(b), FALSE)

MultiNextBoundary ==
  /\ In("PP_NextBoundary")
  /\ find_boundary(Boundary, "PP_ProcessEntryHeaders", "PP_Done")
  /\ UNCHANGED <<doc, app, ret>>

MultiNestedInit ==
  /\ In("PP_Nested_Init")
  /\ find_boundary(pp.nested, "PP_Nested_PerformMarking", "PP_NextBoundary")
  /\ UNCHANGED <<doc, app, ret>>

\* try_get_value() and try_match_header(): the first one counts.
WithHeader(attr, line) ==
  IF line \notin DOMAIN Headers THEN attr
  ELSE [a \in Attributes |-> IF attr[a] = <<>> THEN Headers[line][a] ELSE attr[a]]

\* process_multipart_headers(): a line, or the empty line that ends the header.
process_multipart_headers(p, next) ==
  LET ends == {i \in DOMAIN pp.buf : pp.buf[i] \in Newlines} IN
  \/ /\ ends = {}
     /\ IF Len(pp.buf) = BufferSize THEN Fail(p) ELSE WaitForMore(p)
  \/ /\ ends # {} /\ Min(ends) = 1
     /\ Again([p EXCEPT !.skip_rn = "RN_Full", !.state = next], 0, TRUE)
  \/ /\ ends # {} /\ Min(ends) > 1
     /\ Again([p EXCEPT !.skip_rn = IF pp.buf[Min(ends)] = "CR" THEN "RN_OptN" ELSE @,
                        !.attr = WithHeader(@, pp.buf[1])], Min(ends), TRUE)

MultiHeaders ==
  /\ In("PP_ProcessEntryHeaders")
  /\ process_multipart_headers([pp EXCEPT !.must_ikvi = TRUE], "PP_PerformCheckMultipart")
  /\ UNCHANGED <<doc, app, ret>>

MultiNestedHeaders ==
  /\ In("PP_Nested_ProcessEntryHeaders")
  /\ process_multipart_headers([pp EXCEPT !.value_offset = 0],
                               "PP_Nested_ProcessValueToBoundary")
  /\ UNCHANGED <<doc, app, ret>>

MultiCheck ==
  /\ In("PP_PerformCheckMultipart")
  /\ \/ /\ pp.attr["type"] = Mixed /\ doc.nested = <<>>
        /\ Fail(pp)
     \/ /\ pp.attr["type"] = Mixed /\ doc.nested # <<>>
        /\ Again([pp EXCEPT !.nested = doc.nested, !.attr["type"] = <<>>,
                            !.state = "PP_Nested_Init"], 0, TRUE)
     \/ /\ pp.attr["type"] # Mixed
        /\ Again([pp EXCEPT !.state = "PP_ProcessValueToBoundary",
                            !.value_offset = 0], 0, TRUE)
  /\ UNCHANGED <<doc, app, ret>>

\* The attributes a part has of its own are dropped.
free_unmarked(p) == [a \in Attributes |-> IF a \in p.have THEN p.attr[a] ELSE <<>>]

MultiCleanup ==
  /\ In("PP_PerformCleanup")
  /\ Again([pp EXCEPT !.have = {}, !.attr = NoAttributes, !.nested = <<>>,
                      !.state = "PP_ProcessEntryHeaders"], 0, TRUE)
  /\ UNCHANGED <<doc, app, ret>>

MultiMarking ==
  /\ In("PP_Nested_PerformMarking")
  /\ Again([pp EXCEPT !.have = {a \in Attributes : pp.attr[a] # <<>>},
                      !.state = "PP_Nested_ProcessEntryHeaders"], 0, TRUE)
  /\ UNCHANGED <<doc, app, ret>>

MultiNestedCleanup ==
  /\ In("PP_Nested_PerformCleanup")
  /\ Again([pp EXCEPT !.attr = free_unmarked(pp),
                      !.state = "PP_Nested_ProcessEntryHeaders"], 0, TRUE)
  /\ UNCHANGED <<doc, app, ret>>

\* A slip: a boundary that is not complete yet is taken for a part of the value.
MutantValueEnd(buf, b) ==
  LET ends == {i \in 0..Len(buf) - 5 :
                 HasPrefix(After(buf, i), <<"CR", "LF", "-", "-">> \o b)} IN
  IF ends # {} THEN Min(ends) ELSE Max({0, Len(buf) - 4})

\* Where the value ends, as far as the buffer tells: before the first "\r\n--"
\* that is followed by the boundary or comes too late to tell, and else four
\* bytes before the end.
ValueEnd(buf, b) ==
  LET marks == {i \in 0..Len(buf) - 5 :
                  HasPrefix(After(buf, i), <<"CR", "LF", "-", "-">>)}
      ends  == {i \in marks : \/ i + 4 + Len(b) > Len(buf)
                              \/ HasPrefix(After(buf, i + 4), b)}
  IN IF ends # {} THEN Min(ends) ELSE Max({0, Len(buf) - 4} \cup {i + 4 : i \in marks})

process_value_to_boundary(b, next, dash) ==
  LET newline == ValueEnd(pp.buf, b)
      Found   == /\ newline + 4 + Len(b) <= Len(pp.buf)
                 /\ HasPrefix(After(pp.buf, newline), <<"CR", "LF", "-", "-">> \o b)
      p       == IF Found THEN BoundaryFound(pp, next, dash) ELSE pp
      Call    == pp.must_ikvi \/ newline # 0
  IN
  \/ /\ ~Found /\ newline = 0 /\ Len(pp.buf) = BufferSize
     /\ Fail(pp)
     /\ UNCHANGED app
  \/ /\ Found \/ newline # 0 \/ Len(pp.buf) # BufferSize
     /\ IF Call THEN ikvi(pp.attr, pp.value_offset, SubSeq(pp.buf, 1, newline))
                ELSE UNCHANGED app
     /\ IF Call /\ refused'
        THEN Fail(p)
        ELSE Again([p EXCEPT !.must_ikvi = FALSE, !.value_offset = @ + newline],
                   newline + (IF Found THEN 4 + Len(b) ELSE 0), FALSE)

MultiValue ==
  /\ In("PP_ProcessValueToBoundary")
  /\ process_value_to_boundary(Boundary, "PP_PerformCleanup", "PP_Done")
  /\ UNCHANGED <<doc, ret>>

MultiNestedValue ==
  /\ In("PP_Nested_ProcessValueToBoundary")
  /\ process_value_to_boundary(pp.nested, "PP_Nested_PerformCleanup", "PP_NextBoundary")
  /\ UNCHANGED <<doc, ret>>

\* Nothing more is expected, or nothing can be understood any more.
MultiOver ==
  /\ In("PP_Done") \/ In("PP_Error")
  /\ Fail(pp)
  /\ UNCHANGED <<doc, app, ret>>

-----------------------------------------------------------------------------
Url == UrlInit \/ UrlKey \/ UrlValue \/ UrlDone \/ UrlCallback \/ UrlSave
       \/ process_value \/ ValueDone

Multi == \/ MultiFill \/ MultiSkip \/ MultiInit \/ MultiNextBoundary
         \/ MultiNestedInit \/ MultiHeaders \/ MultiNestedHeaders \/ MultiCheck
         \/ MultiCleanup \/ MultiMarking \/ MultiNestedCleanup \/ MultiValue
         \/ MultiNestedValue \/ MultiOver

Next ==
  \/ \E n \in 1..Len(doc.bytes) : MHD_post_process(n)
  \/ MHD_destroy_post_processor \/ Destroyed
  \/ Url \/ Multi

Spec == Init /\ [][Next]_vars

\* A function that was called goes on.
FairSpec == Spec /\ WF_vars(Url \/ Multi)

-----------------------------------------------------------------------------
States == {"PP_Error", "PP_Done", "PP_Init", "PP_NextBoundary", "PP_ProcessKey",
           "PP_ProcessValue", "PP_Callback", "PP_ProcessEntryHeaders",
           "PP_PerformCheckMultipart", "PP_ProcessValueToBoundary",
           "PP_PerformCleanup", "PP_Nested_Init", "PP_Nested_PerformMarking",
           "PP_Nested_ProcessEntryHeaders", "PP_Nested_ProcessValueToBoundary",
           "PP_Nested_PerformCleanup"}

\* The type invariant; no buffer is overrun: neither the one behind the
\* MHD_PostProcessor nor the two for escape sequences.
TypeOK ==
  /\ doc \in Docs
  /\ pc \in {"idle", "urlencoded", "value", "fill", "skip", "main", "ended"}
  /\ pp.state \in States /\ pp.dash_state \in States
  /\ pp.skip_rn \in {"RN_Inactive", "RN_OptN", "RN_Full", "RN_Dash", "RN_Dash2"}
  /\ Len(pp.buf) <= BufferSize /\ pp.value_offset \in Nat
  /\ Len(pp.xbuf) <= 2 /\ Len(loc.x) <= XBUF_SIZE
  /\ pp.must_ikvi \in BOOLEAN /\ pp.must_unescape_key \in BOOLEAN
  /\ loc.base <= loc.pos /\ loc.pos <= loc.end
  /\ refused \in BOOLEAN /\ broken \in BOOLEAN
  /\ ret \in {"none", "closing", "MHD_YES", "MHD_NO"}

\* However the body is cut into pieces, the application is told the entries of
\* the form in order, each with its own name, file name and type, every part of
\* a value at its offset; and it is not called again after it has refused.
EntriesExact ==
  /\ ~broken
  /\ Len(got) <= Len(doc.entries)
  /\ \A i \in DOMAIN got :
       /\ got[i].attr = doc.entries[i].attr
       /\ IF i < Len(got) THEN got[i].value = doc.entries[i].value
          ELSE HasPrefix(doc.entries[i].value, got[i].value)

\* A form that was given to the end is reported to the end, without an error.
FormComplete ==
  pc = "ended" /\ doc.whole /\ ~refused => ret = "MHD_YES" /\ got = doc.entries

\* A multipart form that breaks off after its first boundary, and a refusal of
\* the callback, are seen in the result of MHD_destroy_post_processor().
FailureSeen ==
  pc = "ended" /\ (refused \/ (got # <<>> /\ ~doc.whole /\ doc.encoding = "multipart"))
    => ret = "MHD_NO"

\* The result of MHD_destroy_post_processor() tells whether the application has
\* got the whole form.
ResultTells == FormComplete /\ FailureSeen

\* The assertions of post_process_urlencoded(), and no buffer is overrun.
AssertionsHold ==
  /\ TypeOK
  /\ pc = "urlencoded" =>
       /\ loc.end_key # Null => loc.start_key # Null
       /\ loc.end_value # Null => loc.start_value # Null
       /\ MoreToDo /\ pp.state = "PP_Init" =>
            loc.start_key = Null /\ loc.start_value = Null
       /\ MoreToDo /\ pp.state = "PP_ProcessKey" =>
            /\ loc.start_value = Null /\ loc.end_key = Null
            /\ (loc.start_key = Null) = (loc.pos = loc.base)
       /\ MoreToDo /\ pp.state = "PP_Callback" =>
            /\ loc.start_key # Null => loc.end_key # Null
            /\ loc.start_key <= loc.end_key
       /\ ~MoreToDo /\ pp.state # "PP_Error" /\ loc.start_key # Null =>
            /\ pp.state = "PP_ProcessKey" \/ loc.end_key # Null
            /\ loc.start_key # (IF loc.end_key = Null THEN loc.pos ELSE loc.end_key)

\* Every call returns: neither the loops over the input nor the one over the
\* value run for ever.
CallsReturn == pc \notin {"idle", "ended"} ~> pc = "idle"
=============================================================================
