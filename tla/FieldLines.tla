----------------------------- MODULE FieldLines -----------------------------
(***************************************************************************)
(* get_req_headers() of connection.c: the parser of header and footer      *)
(* lines, one character at a time, at every level of strictness: folded    *)
(* lines, whitespace in and around names and values, lines to be skipped.  *)
(* The bytes arrive in pieces cut anywhere.                                *)
(*                                                                         *)
(* Symbols: "SP", "TAB", "CR", "LF", "NUL", ":" and letters.               *)
(***************************************************************************)
EXTENDS Integers, SequencesExt, FiniteSetsExt

CONSTANTS
  Streams,  \* header sections, each with the empty line that ends it
  Levels    \* values of daemon->client_discipline

Symbols == {"SP", "TAB", "CR", "LF", "NUL", ":", "n", "v"}
Wsp == {"SP", "TAB"}
StreamsAssumption == \A s \in Streams : \A k \in DOMAIN s : s[k] \in Symbols
LevelsAssumption == Levels \subseteq -3..3

VARIABLES
  stream,   \* what this client sends
  discp,    \* daemon->client_discipline
  fed,      \* how many symbols of it have been received
  base,     \* how many of these precede c->read_buffer
  buf,      \* the memory: the parser overwrites symbols
  hdr,      \* rq.hdrs.hdr
  fields,   \* the fields stored so far, with name and value
  state     \* "wait" for data, "line": in the loop, or the outcome

vars == <<stream, discp, fed, base, buf, hdr, fields, state>>
fixed == <<stream, discp, fed>>

bare_lf_as_crlf == discp <= 0
bare_cr_keep == discp <= -3
bare_cr_as_sp == ~ bare_cr_keep /\ discp <= -1
nul_as_sp == discp <= -1
allow_folded == discp <= 0
allow_wsp_at_start == discp <= -1
allow_wsp_in_name == discp <= -2
allow_empty_name == discp <= -2
allow_wsp_before_colon == discp <= -3
allow_line_without_colon == discp <= -2

Fresh == [proc_pos |-> 0, name_len |-> 0, ws_start |-> 0, value_start |-> 0,
          name_end_found |-> FALSE, starts_with_ws |-> FALSE]

Init ==
  /\ stream \in Streams /\ discp \in Levels
  /\ fed = 0 /\ base = 0 /\ buf = stream /\ hdr = Fresh /\ fields = <<>> /\ state = "wait"

read_buffer_offset == fed - base
At(pos) == buf[base + pos + 1]
p == hdr.proc_pos
Here == At(p)
Set(pos, s) == [buf EXCEPT ![base + pos + 1] = s]

Receive ==
  /\ state = "wait"
  /\ \E n \in fed + 1..Len(stream) : fed' = n
  /\ state' = "line" /\ UNCHANGED <<stream, discp, base, buf, hdr, fields>>

Error == state' = "error" /\ UNCHANGED <<fixed, base, buf, hdr, fields>>

-----------------------------------------------------------------------------
(* The end of a line *)

\* A slip: a line that continues is awaited after the empty line, too.
MutantMustWait ==
  \/ p = read_buffer_offset
  \/ Here = "CR" /\ p + 2 >= read_buffer_offset
  \/ Here = "LF" /\ bare_lf_as_crlf /\ p + 1 >= read_buffer_offset

\* The end of the data, or what follows must be seen first.
MustWait ==
  \/ p = read_buffer_offset
  \/ Here = "CR" /\ p + 2 + (IF p = 0 THEN 0 ELSE 1) > read_buffer_offset
  \/ Here = "LF" /\ bare_lf_as_crlf /\ p # 0 /\ p + 1 >= read_buffer_offset

NeedMore ==
  /\ state = "line" /\ MustWait
  /\ state' = "wait" /\ UNCHANGED <<fixed, base, buf, hdr, fields>>

InLine == state = "line" /\ ~ MustWait
IsEol == \/ Here = "CR" /\ At(p + 1) = "LF"
         \/ Here = "LF" /\ bare_lf_as_crlf
IsBareCr == Here = "CR" /\ At(p + 1) # "LF"
\* A slip: every line ends with CR LF.
MutantLineLen == p + 2

line_len == p + (IF Here = "CR" THEN 2 ELSE 1)

\* A bare CR or a NUL is replaced by a space and looked at again.
ReplaceBySpace ==
  /\ InLine
  /\ (IsBareCr /\ bare_cr_as_sp) \/ (Here = "NUL" /\ nul_as_sp)
  /\ buf' = Set(p, "SP") /\ UNCHANGED <<fixed, base, hdr, fields, state>>

RejectCharacter ==
  /\ InLine
  /\ \/ IsBareCr /\ ~ bare_cr_as_sp /\ ~ bare_cr_keep
     \/ Here = "LF" /\ ~ bare_lf_as_crlf
     \/ Here = "NUL" /\ ~ nul_as_sp
  /\ Error

\* A slip: only one character is removed.
MutantEndOfHeaders ==
  /\ InLine /\ IsEol /\ p = 0
  /\ base' = base + 1 /\ state' = "received"
  /\ UNCHANGED <<fixed, buf, hdr, fields>>

EndOfHeaders ==
  /\ InLine /\ IsEol /\ p = 0
  /\ base' = base + line_len /\ state' = "received"
  /\ UNCHANGED <<fixed, buf, hdr, fields>>

Folded == p # 0 /\ At(line_len) \in Wsp

FoldedLine ==
  /\ InLine /\ IsEol /\ Folded
  /\ IF allow_folded
       THEN /\ buf' = [k \in DOMAIN buf |->
                         IF k \in base + p + 1..base + line_len THEN "SP" ELSE buf[k]]
            /\ UNCHANGED <<fixed, base, hdr, fields, state>>
       ELSE Error

EndOfField == InLine /\ IsEol /\ p # 0 /\ ~ Folded

SkipLine ==
  /\ EndOfField /\ (hdr.starts_with_ws \/ ~ hdr.name_end_found)
  /\ IF hdr.starts_with_ws \/ allow_line_without_colon
       THEN /\ base' = base + line_len /\ hdr' = Fresh
            /\ UNCHANGED <<fixed, buf, fields, state>>
       ELSE Error

\* A slip: whitespace at the end of the line stays in the value.
MutantValueEnd == p

\* Where the value ends: at the whitespace before the end of the line, if any.
ValueEnd == IF hdr.ws_start # 0 THEN hdr.ws_start ELSE p

Value == IF hdr.value_start = 0 THEN <<>>
         ELSE SubSeq(buf, base + hdr.value_start + 1, base + ValueEnd)

\* The field is stored, if there is room in the pool.
StoreField ==
  /\ EndOfField /\ ~ hdr.starts_with_ws /\ hdr.name_end_found
  /\ \/ /\ fields' = Append(fields, <<SubSeq(buf, base + 1, base + hdr.name_len), Value>>)
        /\ base' = base + line_len /\ hdr' = Fresh
        /\ buf' = Set(IF hdr.value_start = 0 THEN p ELSE ValueEnd, "0-terminator")
        /\ UNCHANGED <<fixed, state>>
     \/ state' = "no_space" /\ UNCHANGED <<fixed, base, buf, hdr, fields>>

-----------------------------------------------------------------------------
(* Characters within a line *)

Advance(h) ==
  hdr' = [h EXCEPT !.proc_pos = p + 1] /\ UNCHANGED <<fixed, base, buf, fields, state>>

MarkWsp == [hdr EXCEPT !.ws_start = IF @ = 0 THEN p ELSE @]
InName == ~ hdr.name_end_found /\ ~ hdr.starts_with_ws

Whitespace ==
  /\ InLine /\ Here \in Wsp
  /\ CASE p = 0 -> IF allow_wsp_at_start THEN Advance([hdr EXCEPT !.starts_with_ws = TRUE]) ELSE Error
       [] p # 0 /\ InName ->
            IF allow_wsp_in_name \/ allow_wsp_before_colon THEN Advance(MarkWsp) ELSE Error
       [] OTHER -> Advance(MarkWsp)

Visible == InLine /\ Here \notin Wsp \cup {"NUL", "LF"} /\ (Here = "CR" => IsBareCr /\ bare_cr_keep)

\* A slip: the whitespace before the colon is still marked.
MutantNamed(len) ==
  [hdr EXCEPT !.name_len = len, !.name_end_found = TRUE, !.proc_pos = p + 1]

Named(len) ==
  [hdr EXCEPT !.name_len = len, !.ws_start = 0, !.name_end_found = TRUE, !.proc_pos = p + 1]

Colon ==
  /\ Visible /\ InName /\ Here = ":"
  /\ LET len == IF hdr.ws_start = 0 THEN p ELSE hdr.ws_start
     IN IF (hdr.ws_start # 0 /\ ~ allow_wsp_before_colon) \/ (len = 0 /\ ~ allow_empty_name)
          THEN Error
          ELSE /\ hdr' = Named(len)
               /\ buf' = Set(len, "0-terminator")
               /\ UNCHANGED <<fixed, base, fields, state>>

NameChar ==
  /\ Visible /\ InName /\ Here # ":"
  /\ IF hdr.ws_start # 0 /\ ~ allow_wsp_in_name THEN Error
     ELSE Advance([hdr EXCEPT !.ws_start = 0])

ValueChar ==
  /\ Visible /\ ~ InName
  /\ Advance([hdr EXCEPT !.value_start = IF @ = 0 THEN p ELSE @, !.ws_start = 0])

Next ==
  \/ Receive \/ NeedMore \/ ReplaceBySpace \/ RejectCharacter
  \/ EndOfHeaders \/ FoldedLine \/ SkipLine \/ StoreField
  \/ Whitespace \/ Colon \/ NameChar \/ ValueChar

Spec == Init /\ [][Next]_vars

-----------------------------------------------------------------------------
(* The reference: what a header section means, stated of whole lines *)

Cleaned ==
  [k \in DOMAIN stream |->
     IF \/ stream[k] = "NUL" /\ nul_as_sp
        \/ stream[k] = "CR" /\ bare_cr_as_sp /\ k < Len(stream) /\ stream[k + 1] # "LF"
       THEN "SP" ELSE stream[k]]

LineEnds(s) == {k \in DOMAIN s : s[k] = "LF" /\ ((k > 1 /\ s[k - 1] = "CR") \/ bare_lf_as_crlf)}
TextEnd(s, k) == IF k > 1 /\ s[k - 1] = "CR" THEN k - 2 ELSE k - 1
RealEnds(s) == {k \in LineEnds(s) : k = Len(s) \/ s[k + 1] \notin Wsp}
Unfolded(l) == [k \in DOMAIN l |-> IF l[k] = "LF" \/ (l[k] = "CR" /\ k < Len(l) /\ l[k + 1] = "LF")
                                     THEN "SP" ELSE l[k]]

Trim(l) ==
  LET v == {k \in DOMAIN l : l[k] \notin Wsp}
  IN IF v = {} THEN <<>> ELSE SubSeq(l, Min(v), Max(v))

\* The meaning of one line: a field, nothing, or an error.
Field(text) ==
  LET l == Unfolded(text)
      colons == {k \in DOMAIN l : l[k] = ":"}
      name == SubSeq(l, 1, Min(colons) - 1)
      bare == Trim(name)
      named == {k \in DOMAIN name : name[k] \in Wsp}
  IN CASE \/ \E k \in DOMAIN l : l[k] = "NUL" \/ (l[k] = "CR" /\ ~ bare_cr_keep)
          \/ l # text /\ ~ allow_folded
          \/ \E k \in DOMAIN text : text[k] = "LF" /\ k \notin LineEnds(text) -> <<"error">>
       [] l[1] \in Wsp -> IF allow_wsp_at_start THEN <<"none">> ELSE <<"error">>
       [] colons = {} ->
            IF allow_line_without_colon THEN <<"none">> ELSE <<"error">>
       [] OTHER ->
            IF \/ bare # name /\ ~ allow_wsp_before_colon
               \/ \E k \in DOMAIN bare : bare[k] \in Wsp /\ ~ allow_wsp_in_name
               \/ name = <<>> /\ ~ allow_empty_name
              THEN <<"error">>
              ELSE <<"field", <<bare, Trim(SubSeq(l, Min(colons) + 1, Len(l)))>>>>

\* The fields of a section.
RECURSIVE Meaning(_)
Meaning(s) ==
  IF 1 \in LineEnds(s) \/ (2 \in LineEnds(s) /\ s[1] = "CR") THEN <<>>
  ELSE IF RealEnds(s) = {} THEN <<<<"error">>>>
  ELSE LET e == Min(RealEnds(s))
           f == Field(SubSeq(s, 1, TextEnd(s, e)))
       IN CASE f[1] = "error" -> <<f>>
            [] f[1] = "none" -> Meaning(SubSeq(s, e + 1, Len(s)))
            [] OTHER -> <<f>> \o Meaning(SubSeq(s, e + 1, Len(s)))

Reference == Meaning(Cleaned)
ReferenceFails == Reference # <<>> /\ Last(Reference) = <<"error">>

-----------------------------------------------------------------------------
(* Properties *)

Final == {"received", "error", "no_space"}

TypeOK ==
  /\ fed \in 0..Len(stream) /\ base \in 0..fed /\ p <= read_buffer_offset
  /\ state \in Final \cup {"wait", "line"}

\* However the bytes are cut: the fields handed on are those of the section, with names
\* and values free of the whitespace around them, and it is refused exactly if a line of
\* it is wrong at this level.
AsReference ==
  /\ state = "received" =>
       /\ ~ ReferenceFails
       /\ fields = [k \in DOMAIN Reference |-> Reference[k][2]]
  /\ state = "error" => ReferenceFails
  /\ state = "no_space" => \A k \in DOMAIN fields : fields[k] = Reference[k][2]

\* The section ends where its first empty line ends: nothing of what follows is consumed.
EndsAtEmptyLine ==
  state = "received" =>
    LET empty == {k \in LineEnds(Cleaned) :
                    /\ TextEnd(Cleaned, k) = 0 \/ TextEnd(Cleaned, k) \in LineEnds(Cleaned)}
    IN base = Min(empty)

\* A section that is complete has been decided on.
Decided == state = "wait" => fed < Len(stream)

\* The assertions at the top of the loop, of a line that is not to be skipped and has a
\* name.
Consistent ==
  /\ hdr.name_len = 0 \/ (hdr.name_len < p /\ hdr.name_end_found)
  /\ hdr.value_start = 0 \/ hdr.name_len < hdr.value_start
  /\ hdr.ws_start = 0 \/ hdr.name_len = 0 \/ hdr.ws_start > hdr.name_len
  /\ hdr.ws_start = 0 \/ hdr.value_start = 0 \/ hdr.ws_start > hdr.value_start

\* "mhd_assert ((0 == c->rq.hdrs.hdr.value_start) || (0 != c->rq.hdrs.hdr.name_len))"
ValueHasName == InLine => hdr.value_start = 0 \/ hdr.name_len # 0

\* "mhd_assert ('\r' != chr)" after the end of the line was checked.
NoCrInField == ~ (Visible /\ Here = "CR")
=============================================================================
