---------------------------- MODULE RequestValues ----------------------------
(***************************************************************************)
(* The values of a request: the arguments of the URL, the header fields    *)
(* and the cookies in one list, in which the application looks values up   *)
(* and to which it may add its own.  The arguments are parsed with the     *)
(* request line, the cookies from the first Cookie header when the header  *)
(* is complete; both may run out of pool memory in between.                *)
(***************************************************************************)
EXTENDS MhdStr

CONSTANTS
  Requests,     \* records query, fields and level (client_discipline)
  Rooms,        \* how many records the pool has room for
  AppValues     \* what the application may add

VARIABLES
  request, room,
  headers,      \* headers_received: records kind, key and value (none or one string)
  phase,        \* "line", "headers", "app" or "refused"
  cookie_status,
  asserted      \* the assertions of the cookie parser have held so far
vars == <<request, room, headers, phase, cookie_status, asserted>>

EQ == 61
AMP == 38
SEMI == 59
COOKIE == <<67, 75>>        \* stands for the name of the Cookie header

Record(kind, key, value) == [kind |-> kind, key |-> key, value |-> value]

IsBinary(string) == \E k \in DOMAIN string : string[k] = 0

\* Whether a record fits, and the list with it.
MHD_set_connection_value_n_nocheck_(list, free, rec) ==
  IF free > 0 THEN [done |-> TRUE, list |-> Append(list, rec), free |-> free - 1]
  ELSE [done |-> FALSE, list |-> list, free |-> free]

\* A slip: binary zeros are let into headers.
MutantMHD_set_connection_value_n(list, free, rec) == MHD_set_connection_value_n_nocheck_(list, free, rec)

MHD_set_connection_value_n(list, free, rec) ==
  IF rec.kind # "argument" /\ (IsBinary(rec.key) \/ \E k \in DOMAIN rec.value : IsBinary(rec.value[k]))
    THEN [done |-> FALSE, list |-> list, free |-> free]
    ELSE MHD_set_connection_value_n_nocheck_(list, free, rec)

\* The records of a kind up to the one the iterator stops at.
MHD_get_connection_values_n(list, kinds, limit) ==
  LET seen == SelectSeq(list, LAMBDA r : r.kind \in kinds)
  IN SubSeq(seen, 1, IF limit < Len(seen) THEN limit ELSE Len(seen))

\* The first record of a kind with this name, or zero.
MHD_lookup_connection_value_n(list, kind, key) ==
  LET found == {k \in DOMAIN list : list[k].kind = kind /\ MHD_str_equal_caseless_(list[k].key, key)}
  IN IF found = {} THEN 0 ELSE Min(found)

\* All records with this name are looked at.
MHD_lookup_header_token_ci(list, header, token) ==
  \E k \in DOMAIN list :
    /\ list[k].kind = "header" /\ MHD_str_equal_caseless_(list[k].key, header)
    /\ MHD_str_has_token_caseless_(list[k].value[1], token)

-----------------------------------------------------------------------------
(* Arguments *)

MHD_unescape_plus(arg) == [k \in DOMAIN arg |-> IF arg[k] = PLUS THEN SP ELSE arg[k]]

\* What is left of the string, as long as the callback says.
unescape_wrapper(level, val) ==
  LET r == IF level >= 0 THEN MHD_str_pct_decode_in_place_strict_(val)
           ELSE MHD_str_pct_decode_in_place_lenient_(val)
  IN SubSeq(r.str, 1, r.len)

\* A slip: what an escape stands for is taken for a plus sign.
MutantUnescaped(level, arg) == MHD_unescape_plus(unescape_wrapper(level, arg))

Unescaped(level, arg) == unescape_wrapper(level, MHD_unescape_plus(arg))

FirstOf(s, i, set) == Min({k \in i..Len(s) : s[k] \in set} \cup {Len(s) + 1})

RECURSIVE ArgumentsFrom(_, _, _, _)
ArgumentsFrom(level, args, list, free) ==
  LET n == Len(args)
      amper == FirstOf(args, 1, {AMP})
      equals == FirstOf(args, 1, {EQ})
      rec == IF equals < amper
               THEN Record("argument", Unescaped(level, SubSeq(args, 1, equals - 1)),
                           <<Unescaped(level, SubSeq(args, equals + 1, amper - 1))>>)
               ELSE Record("argument", Unescaped(level, SubSeq(args, 1, amper - 1)), <<>>)
      set == MHD_set_connection_value_n(list, free, rec)
  IN CASE args = <<>> -> [done |-> TRUE, list |-> list, free |-> free]
       [] args # <<>> /\ (~ set.done \/ amper > n) -> set
       [] OTHER -> ArgumentsFrom(level, SubSeq(args, amper + 1, n), set.list, set.free)

MHD_parse_arguments_(level, args, list, free) == ArgumentsFrom(level, args, list, free)

-----------------------------------------------------------------------------
(* Cookies *)

allow_wsp_empty(level) == level <= 0
wsp_around_eq(level) == level <= -3
wsp_in_quoted(level) == level <= -2
tab_as_sp(level) == level <= 0
allow_no_space(level) == level <= 0

NameStops == {EQ, SP, HT, DQUOTE, COMMA, SEMI, 0}

ValueStops == {SEMI, DQUOTE, COMMA, BACKSLASH, 0}

\* A slip: whitespace before a semicolon goes unnoticed.
MutantWspAtEnd(s, after, end) == FALSE

WspAtEnd(s, after, end) == end # after /\ end <= Len(s)

HasWsp(s, from, to) == \E k \in from..to : s[k] \in Wsp

Parsed(status, list, free, ok) == [status |-> status, list |-> list, free |-> free, ok |-> ok]

\* One cookie from position i on, and then the next: where its parts begin and end, what
\* makes it malformed, and what the parser overlooks at this level.
RECURSIVE CookiesFrom(_, _, _, _, _, _, _)
CookiesFrom(s, i, level, list, free, non_strict, ok) ==
  LET n == Len(s)
      name_start == Skip(s, i, Wsp \cup {SEMI})
      name_end == FirstOf(s, name_start, NameStops)
      equals == Skip(s, name_end, Wsp)
      first == Skip(s, equals + 1, Wsp)
      val_quoted == first <= n /\ s[first] = DQUOTE
      value_start == IF val_quoted THEN first + 1 ELSE first
      value_end == FirstOf(s, value_start, ValueStops \cup (IF val_quoted THEN {} ELSE Wsp))
      after == IF val_quoted THEN value_end + 1 ELSE value_end
      end == Skip(s, after, Wsp)
      wsp_inside == val_quoted /\ HasWsp(s, value_start, value_end - 1)
      malformed ==
        \/ (equals # name_end \/ first # equals + 1) /\ ~ wsp_around_eq(level)
        \/ equals > n \/ s[equals] # EQ \/ name_end = name_start
        \/ wsp_inside /\ ~ wsp_in_quoted(level)
        \/ val_quoted /\ (value_end > n \/ s[value_end] # DQUOTE)
        \/ WspAtEnd(s, after, end) /\ ~ allow_wsp_empty(level)
        \/ end <= n /\ s[end] # SEMI
      lax == \/ non_strict \/ name_start > i \/ equals # name_end \/ first # equals + 1
             \/ wsp_inside \/ WspAtEnd(s, after, end)
      set == MHD_set_connection_value_n_nocheck_(list, free,
               Record("cookie", SubSeq(s, name_start, name_end - 1), <<SubSeq(s, value_start, value_end - 1)>>))
      terminated == value_end > value_start /\ end = value_end
      held == /\ ok
              /\ terminated => ~ val_quoted
              /\ ~ terminated => (val_quoted \/ lax \/ value_end = value_start)
      next == IF end + 1 <= n /\ (s[end + 1] = SP \/ (s[end + 1] = HT /\ tab_as_sp(level)))
                THEN end + 2 ELSE end + 1
      spaced == end + 1 <= n /\ s[end + 1] = SP /\ end + 1 # n
      broken_off == ~ spaced /\ ~ (IF end + 1 < n \/ (end + 1 = n /\ s[n] # SP)
                                     THEN allow_no_space(level) \/ (s[end + 1] = HT /\ tab_as_sp(level))
                                     ELSE allow_wsp_empty(level))
  IN IF i > n THEN Parsed(IF non_strict THEN "lax" ELSE "ok", list, free, ok)
     ELSE IF name_start > i /\ ~ allow_wsp_empty(level) THEN Parsed("malformed", list, free, ok)
     ELSE IF name_start > n THEN Parsed("lax", list, free, ok)
     ELSE IF malformed THEN Parsed("malformed", list, free, ok)
     ELSE IF ~ set.done THEN Parsed("no_memory", list, free, ok)
     ELSE IF end > n THEN Parsed(IF lax THEN "lax" ELSE "ok", set.list, set.free, ok)
     ELSE IF broken_off THEN Parsed("malformed", set.list, set.free, held)
     ELSE CookiesFrom(s, next, level, set.list, set.free, lax \/ ~ spaced, held)

parse_cookies_string(s, level, list, free) == CookiesFrom(s, 1, level, list, free, FALSE, TRUE)

allow_partially_correct_cookie(level) == level <= 1

\* A slip: the cookies parsed before the error stay.
MutantKept(r, level, saved) == r.list

\* A broken header takes back the cookies it has brought.
Kept(r, level, saved) ==
  IF r.status = "malformed" /\ ~ allow_partially_correct_cookie(level) THEN saved ELSE r.list

parse_cookie_header(level, list, free) ==
  LET at == MHD_lookup_connection_value_n(list, "header", COOKIE)
      hdr == list[at].value[1]
      r == parse_cookies_string(SubSeq(hdr, Skip(hdr, 1, Wsp), Len(hdr)), level, list, free - 1)
  IN IF at = 0 THEN Parsed("ok", list, free, TRUE)
     ELSE IF hdr = <<>> THEN Parsed("ok", list, free, TRUE)
     ELSE IF free = 0 THEN Parsed("no_memory", list, free, TRUE)   \* no room for the copy
     ELSE [r EXCEPT !.list = Kept(r, level, list)]

-----------------------------------------------------------------------------

Init ==
  /\ request \in Requests /\ room \in Rooms
  /\ headers = <<>> /\ phase = "line" /\ cookie_status = "none" /\ asserted = TRUE

\* process_request_target() with connection_add_header() as the callback.
RequestLineDone ==
  LET r == MHD_parse_arguments_(request.level, request.query, headers, room)
  IN /\ phase = "line"
     /\ headers' = r.list /\ room' = r.free
     /\ phase' = IF r.done THEN "headers" ELSE "refused"
     /\ UNCHANGED <<request, cookie_status, asserted>>

\* One header field after the other.
connection_add_header ==
  /\ phase = "headers" /\ request.fields # <<>>
  /\ LET r == MHD_set_connection_value_n(headers, room, Head(request.fields))
     IN /\ headers' = r.list /\ room' = r.free
        /\ phase' = IF r.done THEN phase ELSE "refused"
  /\ request' = [request EXCEPT !.fields = Tail(@)]
  /\ UNCHANGED <<cookie_status, asserted>>

HeadersDone ==
  /\ phase = "headers" /\ request.fields = <<>>
  /\ LET r == parse_cookie_header(request.level, headers, room)
     IN /\ headers' = r.list /\ room' = r.free /\ cookie_status' = r.status /\ asserted' = r.ok
        /\ phase' = IF r.status = "no_memory" THEN "refused" ELSE "app"
  /\ UNCHANGED request

\* MHD_set_connection_value_n() by the application.
AppSetsValue ==
  /\ phase = "app"
  /\ \E rec \in AppValues :
       /\ rec \notin ToSet(headers)
       /\ LET r == MHD_set_connection_value_n(headers, room, rec)
          IN headers' = r.list /\ room' = r.free
  /\ UNCHANGED <<request, phase, cookie_status, asserted>>

Next == RequestLineDone \/ connection_add_header \/ HeadersDone \/ AppSetsValue
Spec == Init /\ [][Next]_vars

-----------------------------------------------------------------------------
(* References *)

\* The parts of s between the separators.
Cuts(s, sep) == SetToSortSeq({k \in DOMAIN s : s[k] = sep} \cup {0, Len(s) + 1}, <)
Split(s, sep) == [k \in 1..Len(Cuts(s, sep)) - 1 |-> SubSeq(s, Cuts(s, sep)[k] + 1, Cuts(s, sep)[k + 1] - 1)]
Trimmed(l) ==
  LET v == {k \in DOMAIN l : l[k] \notin Wsp}
  IN IF v = {} THEN <<>> ELSE SubSeq(l, Min(v), Max(v))

Plused(s) == [k \in DOMAIN s |-> IF s[k] = PLUS THEN SP ELSE s[k]]
Broken(s) ==
  \E k \in DOMAIN s : s[k] = PERCENT /\ ~ (k + 2 <= Len(s) /\ IsHex(s[k + 1]) /\ IsHex(s[k + 2]))
RECURSIVE Decoded(_)
Decoded(s) ==
  IF s = <<>> THEN <<>>
  ELSE IF s[1] = PERCENT THEN <<Byte(s[2], s[3])>> \o Decoded(SubSeq(s, 4, Len(s)))
  ELSE <<s[1]>> \o Decoded(Tail(s))
Argument(p) ==
  LET eq == FirstOf(p, 1, {EQ})
  IN Record("argument", Decoded(Plused(SubSeq(p, 1, eq - 1))),
            IF eq > Len(p) THEN <<>> ELSE <<Decoded(Plused(SubSeq(p, eq + 1, Len(p))))>>)
Arguments(q) ==
  LET parts == Split(q, AMP)
      n == IF parts[Len(parts)] = <<>> THEN Len(parts) - 1 ELSE Len(parts)
  IN [k \in 1..n |-> Argument(parts[k])]

\* A cookie pair as RFC 6265 has it, with what a level overlooks.
NameOf(p) == SubSeq(p, 1, FirstOf(p, 1, {EQ}) - 1)
ValueOf(p) == SubSeq(p, FirstOf(p, 1, {EQ}) + 1, Len(p))
Quoted(v) == Len(v) >= 2 /\ v[1] = DQUOTE /\ v[Len(v)] = DQUOTE
Unquoted(v) == IF Quoted(v) THEN SubSeq(v, 2, Len(v) - 1) ELSE v
Around(level, s) == IF level <= -3 THEN Trimmed(s) ELSE s
PairOK(level, p) ==
  LET name == Around(level, NameOf(p))
      v == Around(level, ValueOf(p))
  IN /\ \E k \in DOMAIN p : p[k] = EQ
     /\ name # <<>> /\ \A k \in DOMAIN name : name[k] \notin {SP, HT, DQUOTE, COMMA, SEMI, 0}
     /\ \A k \in DOMAIN Unquoted(v) :
          /\ Unquoted(v)[k] \notin {DQUOTE, COMMA, BACKSLASH, 0}
          /\ Unquoted(v)[k] \in Wsp => Quoted(v) /\ level <= -2
PairOf(level, p) ==
  Record("cookie", Around(level, NameOf(p)), <<Unquoted(Around(level, ValueOf(p)))>>)

\* The last pair may be followed by whitespace, unless it has no value.
TrimmedEnd(p) ==
  LET v == {k \in DOMAIN p : p[k] \notin Wsp}
      t == IF v = {} THEN <<>> ELSE SubSeq(p, 1, Max(v))
  IN IF t # <<>> /\ t[Len(t)] = EQ /\ FirstOf(t, 1, {EQ}) = Len(t) THEN p ELSE t

\* What the strict reading makes of the parts; a part that is none is <<>>.
StrictParts(s) ==
  LET parts == Split(s, SEMI)
      spaced(k) == IF k = 1 THEN parts[1]
                   ELSE IF parts[k] # <<>> /\ parts[k][1] = SP THEN Tail(parts[k]) ELSE <<>>
  IN [k \in DOMAIN parts |-> IF k = Len(parts) THEN TrimmedEnd(spaced(k)) ELSE spaced(k)]

\* What the lax reading makes of them: whitespace is overlooked except after the equals
\* sign of an empty value, and so are empty parts.
LaxParts(s) ==
  LET parts == Split(s, SEMI)
      lead(p) == SubSeq(p, Skip(p, 1, Wsp), Len(p))
  IN SelectSeq([k \in DOMAIN parts |-> TrimmedEnd(lead(parts[k]))], LAMBDA p : p # <<>>)

GoodPrefix(level, parts) ==
  Max({n \in 0..Len(parts) : \A k \in 1..n : PairOK(level, parts[k])})

StrictOK(s) == \A k \in DOMAIN StrictParts(s) : PairOK(1, StrictParts(s)[k])

\* The status and the cookies of a header with value s.
Reference(level, s) ==
  LET parts == IF level >= 1 THEN StrictParts(s) ELSE LaxParts(s)
      n == GoodPrefix(level, parts)
  IN [status |-> IF s = <<>> \/ (n = Len(parts) /\ StrictOK(s)) THEN "ok" ELSE IF n = Len(parts) THEN "lax" ELSE "malformed",
      cookies |-> IF level >= 2 /\ n < Len(parts) THEN <<>> ELSE [k \in 1..n |-> PairOf(level, parts[k])]]

CookieField ==
  LET at == MHD_lookup_connection_value_n(headers, "header", COOKIE)
  IN IF at = 0 THEN <<>> ELSE headers[at].value[1]
Initially(hdr) == SubSeq(hdr, Skip(hdr, 1, Wsp), Len(hdr))
CookiesSeen == MHD_get_connection_values_n(headers, {"cookie"}, 9)
ArgumentsSeen == MHD_get_connection_values_n(headers, {"argument"}, 9)

-----------------------------------------------------------------------------
(* Properties *)

\* The application is given the cookies of the first Cookie header that the strictness
\* level admits, up to the first that is malformed (none at all at level 2), and the
\* parser knows whether the header was by the standard.
CookiesExact ==
  phase = "app" /\ (\A r \in ToSet(headers) : r \notin AppValues) =>
    LET ref == Reference(request.level, Initially(CookieField))
    IN CookiesSeen = ref.cookies /\ cookie_status = ref.status

\* The assertions of parse_cookies_string() about the character after a cookie hold,
\* though the parser has written terminators into the string it reads.
CookieAssertions == asserted

\* The arguments of the URL are the parts between ampersands, with plus signs and escapes
\* decoded in this order, each on its own side of the first equals sign.
ArgumentsExact ==
  phase = "headers" /\ ~ Broken(request.query) /\ Len(headers) > 0 => ArgumentsSeen = Arguments(request.query)

\* Only arguments hold binary zeros, whoever sets the values, so that every other value
\* reads the same by its length and by its terminator.
BinaryZerosOnlyInArguments ==
  \A r \in ToSet(headers) :
    r.kind # "argument" => ~ IsBinary(r.key) /\ \A k \in DOMAIN r.value : ~ IsBinary(r.value[k])
=============================================================================
