----------------------------- MODULE AuthParams -----------------------------
(***************************************************************************)
(* gen_auth.c and basicauth.c: the Authorization header of a request is    *)
(* found, parsed once and kept.  A header value is a sequence of atoms:    *)
(* the names of parameters, the values the code knows, and the characters  *)
(* it tells apart ("SP" stands for a space or a tab).                      *)
(***************************************************************************)
EXTENDS Integers, FiniteSetsExt, SequencesExt

CONSTANTS
  NULL,
  Requests,   \* the sequences of header fields [kind, name, scheme, value]
  Schemes,    \* those the application asks for, of {"Basic", "Digest"}
  MaxCalls    \* bound: calls for one request

\* tk_names[]: the atoms each parameter's name is made of.
Names ==
  [nonce |-> <<"nonce">>, username |-> <<"username">>, username_ext |-> <<"username", "*">>,
   algorithm |-> <<"algorithm">>, userhash |-> <<"userhash">>, qop |-> <<"qop">>]

NoParam == [value |-> NULL, quoted |-> FALSE]

VARIABLES
  request,   \* c->rq.headers_received
  scheme,    \* what the application asks for
  tried,     \* rq.dauth_tried or rq.bauth_tried
  kept,      \* rq.dauth or rq.bauth, or NULL
  allocs,    \* allocations in the pool of the connection
  pc,        \* "idle", "parse" or "post"
  i,         \* the position in the value
  params,    \* what has been parsed
  calls,     \* how often the application has asked
  answers,   \* the results, but for those of calls without memory
  over       \* has a character behind the terminator been read?

vars == <<request, scheme, tried, kept, allocs, pc, i, params, calls, answers, over>>

Init ==
  /\ request \in Requests /\ scheme \in Schemes
  /\ tried = FALSE /\ kept = NULL /\ allocs = 0 /\ pc = "idle" /\ i = 1
  /\ params = [p \in DOMAIN Names |-> NoParam] /\ calls = 0 /\ answers = {} /\ over = FALSE

-----------------------------------------------------------------------------
(* Finding the header *)

\* find_auth_rq_header_(): the first Authorization header of the scheme, whose name is all
\* of the value or followed by whitespace, of which one character is skipped.
Matches(h, s) ==
  /\ h.kind = "HEADER" /\ h.name = "Authorization" /\ h.scheme = s
  /\ h.value = <<>> \/ h.value[1] = "SP"

find_auth_rq_header_(s) ==
  LET m == {k \in DOMAIN request : Matches(request[k], s)}
  IN IF m = {} THEN NULL
     ELSE LET v == request[Min(m)].value IN IF v = <<>> THEN v ELSE Tail(v)

Str == find_auth_rq_header_(scheme)
Size == Len(Str)
\* str[k]: the value is followed by a terminator.
At(k) == IF k <= Size THEN Str[k] ELSE IF k = Size + 1 THEN "NUL" ELSE "OUTSIDE"

-----------------------------------------------------------------------------
(* Parsing *)

\* The first position from k on that is not whitespace, or the end.
SkipWs(k) == Min({j \in k..Size + 1 : j = Size + 1 \/ Str[j] # "SP"} \cup {Max({k, Size + 1})})

FirstOf(k, chars) == Min({j \in k..Size : Str[j] \in chars} \cup {Size + 1})
HasNul(a, b) == \E j \in a..b : At(j) = "NUL"

\* Does the name p stand at k, with a character after it that can follow a name?
NameAt(p, k) ==
  /\ IsPrefix(Names[p], SubSeq(Str, k, Size))
  /\ \/ k + Len(Names[p]) = Size + 1
     \/ Str[k + Len(Names[p])] \in {"=", "SP", ",", ";"}

Refused == 0
Overrun == -1

\* A slip: the end of the value is not looked for.
MutantQuoteEnd(k, known) ==
  LET scan[j \in k..Size + 3] ==
        CASE At(j) = "DQ" -> j
          [] At(j) = "NUL" -> Refused
          [] At(j) = "OUTSIDE" -> Overrun
          [] At(j) = "BS" -> IF known /\ At(j + 1) = "NUL" THEN Refused ELSE scan[j + 2]
          [] OTHER -> scan[j + 1]
  IN scan[k]

\* Where the scan for the closing quote stops, from behind the opening one.  A binary zero
\* is refused; an escaped one, or the terminator behind a backslash, only in the value of a
\* parameter the code knows.
QuoteEnd(k, known) ==
  LET scan[j \in k..Size + 3] ==
        CASE j > Size -> Refused
          [] j <= Size /\ At(j) = "DQ" -> j
          [] j <= Size /\ At(j) = "NUL" -> Refused
          [] j <= Size /\ At(j) = "BS" -> IF known /\ At(j + 1) = "NUL" THEN Refused ELSE scan[j + 2]
          [] OTHER -> scan[j + 1]
  IN scan[k]

Bad == [ok |-> FALSE, next |-> Size + 1, name |-> NULL, param |-> NoParam, over |-> FALSE]
Good(k, p, v, q) ==
  [ok |-> TRUE, next |-> k, name |-> p, param |-> [value |-> v, quoted |-> q], over |-> FALSE]

\* A value in quotation marks; it is marked as quoted if a backslash is used.
QuotedValue(p, k) ==
  LET e == QuoteEnd(k, TRUE)
      after == SkipWs(e + 1)
  IN IF e <= 0 THEN [Bad EXCEPT !.over = e = Overrun]
     ELSE IF after <= Size /\ At(after) # "," THEN Bad
     ELSE Good(after, p, SubSeq(Str, k, e - 1), \E j \in k..e - 1 : Str[j] = "BS")

\* A slip: a value may be followed by anything.
MutantPlainValue(p, k) ==
  LET e == FirstOf(k, {",", "SP", ";"})
  IN IF HasNul(k, e - 1) \/ At(e) = ";" THEN Bad
     ELSE Good(FirstOf(e, {","}), p, SubSeq(Str, k, e - 1), FALSE)

PlainValue(p, k) ==
  LET e == FirstOf(k, {",", "SP", ";"})
      after == SkipWs(e)
  IN IF HasNul(k, e - 1) \/ At(e) = ";" \/ (after <= Size /\ At(after) # ",") THEN Bad
     ELSE Good(after, p, SubSeq(Str, k, e - 1), FALSE)

\* A parameter the code knows, with its name at k.
Known(p, k) ==
  LET eq == SkipWs(k + Len(Names[p]))
      v == SkipWs(eq + 1)
  IN IF eq > Size \/ At(eq) # "=" THEN Bad
     ELSE IF v <= Size /\ At(v) = "DQ" THEN QuotedValue(p, v + 1) ELSE PlainValue(p, v)

\* Anything else, up to the next comma outside of quotation marks.
Unknown(k) ==
  LET skip[j \in k..Size + 1] ==
        CASE j > Size -> j
          [] j <= Size /\ At(j) = "," -> j
          [] j <= Size /\ At(j) \in {"NUL", ";"} -> Refused
          [] j <= Size /\ At(j) = "DQ" ->
               LET e == QuoteEnd(j + 1, FALSE) IN IF e <= 0 THEN e ELSE skip[e + 1]
          [] OTHER -> skip[j + 1]
  IN IF skip[k] <= 0 THEN [Bad EXCEPT !.over = skip[k] = Overrun]
     ELSE Good(skip[k], NULL, <<>>, FALSE)

\* One pass of the loop of parse_dauth_params(): the element at k.
Element(k) ==
  LET names == {p \in DOMAIN Names : NameAt(p, k)}
  IN IF At(k) = "=" THEN Bad
     ELSE IF names = {} THEN Unknown(k)
     ELSE Known(CHOOSE p \in names : TRUE, k)

\* MHD_str_equal_caseless_quoted_s_bin_n(): escapes removed.
Unquoted(v) == SelectSeq(v, LAMBDA a : a # "BS")
Text(param) == IF param.quoted THEN Unquoted(param.value) ELSE param.value

\* A slip: the default of the standard is not applied.
Mutantget_rq_dauth_algo(a) ==
  IF a.value = <<"MD5">> THEN "MD5" ELSE "INVALID"

\* get_rq_dauth_algo(): three names are exchanged if there is an escape in the value.
get_rq_dauth_algo(a) ==
  LET t == IF a.value = NULL THEN NULL ELSE Text(a)
  IN CASE a.value = NULL -> "MD5"
       [] t = <<"MD5">> -> "MD5"
       [] t = <<"SHA-512-256">> -> IF a.quoted THEN "SHA512_256_SESSION" ELSE "SHA512_256"
       [] t = <<"MD5", "-sess">> -> IF a.quoted THEN "SHA512_256" ELSE "MD5_SESSION"
       [] t = <<"SHA-512-256", "-sess">> -> IF a.quoted THEN "MD5_SESSION" ELSE "SHA512_256_SESSION"
       [] OTHER -> "INVALID"

get_rq_dauth_qop(q) ==
  CASE q.value = NULL -> "NONE"
    [] q.value # NULL /\ Text(q) = <<"auth">> -> "AUTH"
    [] q.value # NULL /\ Text(q) = <<"auth", "-int">> -> "AUTH_INT"
    [] OTHER -> "INVALID"

\* What parse_dauth_params() leaves in struct MHD_RqDAuth.
Postprocessed ==
  [nonce |-> params.nonce, username |-> params.username, username_ext |-> params.username_ext,
   userhash |-> params.userhash.value # NULL /\ Text(params.userhash) = <<"true">>,
   algo |-> get_rq_dauth_algo(params.algorithm), qop |-> get_rq_dauth_qop(params.qop)]

\* A slip: what follows the token is not looked at.
Mutantparse_bauth_params ==
  LET a == SkipWs(1)
      e == FirstOf(a, {"SP"})
  IN IF a > Size THEN [ok |-> TRUE, token |-> NULL]
     ELSE [ok |-> \A j \in a..e - 1 : At(j) \notin {"NUL", ",", ";"}, token |-> SubSeq(Str, a, e - 1)]

\* parse_bauth_params(): one token between whitespace, or nothing.
parse_bauth_params ==
  LET a == SkipWs(1)
      e == FirstOf(a, {"SP"})
  IN IF a > Size THEN [ok |-> TRUE, token |-> NULL]
     ELSE IF \/ \E j \in a..e - 1 : At(j) \in {"NUL", ",", ";"}
             \/ SkipWs(e) <= Size
       THEN [ok |-> FALSE, token |-> NULL]
     ELSE [ok |-> TRUE, token |-> SubSeq(Str, a, e - 1)]

-----------------------------------------------------------------------------
(* The calls of the application *)

Answer(r) == answers' = answers \cup {r}
Return(r) == kept' = r /\ tried' = TRUE /\ pc' = "idle" /\ Answer(r)

\* MHD_get_rq_dauth_params_() and MHD_get_rq_bauth_params_() up to the allocation.
Ask ==
  /\ pc = "idle" /\ calls < MaxCalls /\ calls' = calls + 1
  /\ UNCHANGED <<request, scheme, over>>
  /\ \/ tried /\ Answer(kept) /\ UNCHANGED <<tried, kept, allocs, pc, i, params>>
     \/ ~ tried /\ Str = NULL /\ Return(NULL) /\ UNCHANGED <<allocs, i, params>>
     \/ /\ ~ tried /\ Str # NULL  \* no memory: the next call may have more luck
        /\ UNCHANGED <<tried, kept, allocs, pc, i, params, answers>>
     \/ /\ ~ tried /\ Str # NULL
        /\ allocs' = allocs + 1 /\ pc' = "parse" /\ i' = SkipWs(1)
        /\ params' = [p \in DOMAIN Names |-> NoParam]
        /\ UNCHANGED <<tried, kept, answers>>

\* A slip: a header that cannot be parsed is parsed again by the next call.
MutantParseElement ==
  /\ pc = "parse" /\ scheme = "Digest" /\ i <= Size
  /\ LET e == Element(i)
     IN /\ over' = (over \/ e.over)
        /\ IF ~ e.ok
             THEN pc' = "idle" /\ Answer(NULL) /\ UNCHANGED <<i, params, tried, kept>>
             ELSE /\ i' = SkipWs(e.next + 1)
                  /\ params' = IF e.name = NULL THEN params ELSE [params EXCEPT ![e.name] = e.param]
                  /\ UNCHANGED <<tried, kept, pc, answers>>
  /\ UNCHANGED <<request, scheme, allocs, calls>>

\* One parameter; a name given again takes the place of the one before.
ParseElement ==
  /\ pc = "parse" /\ scheme = "Digest" /\ i <= Size
  /\ LET e == Element(i)
     IN /\ over' = (over \/ e.over)
        /\ IF ~ e.ok
             THEN Return(NULL) /\ UNCHANGED <<i, params>>
             ELSE /\ i' = SkipWs(e.next + 1)
                  /\ params' = IF e.name = NULL THEN params ELSE [params EXCEPT ![e.name] = e.param]
                  /\ UNCHANGED <<tried, kept, pc, answers>>
  /\ UNCHANGED <<request, scheme, allocs, calls>>

ParseEnd ==
  /\ pc = "parse" /\ scheme = "Digest" /\ i > Size
  /\ Return(Postprocessed)
  /\ UNCHANGED <<request, scheme, allocs, i, params, calls, over>>

ParseBasic ==
  /\ pc = "parse" /\ scheme = "Basic"
  /\ Return(IF parse_bauth_params.ok THEN [token |-> parse_bauth_params.token] ELSE NULL)
  /\ UNCHANGED <<request, scheme, allocs, i, params, calls, over>>

Next == Ask \/ ParseElement \/ ParseEnd \/ ParseBasic
Spec == Init /\ [][Next]_vars

-----------------------------------------------------------------------------
(* Reference: what a value means, as a list of elements. *)

Trimmed(s) ==
  LET v == {k \in DOMAIN s : s[k] # "SP"}
  IN IF v = {} THEN <<>> ELSE SubSeq(s, Min(v), Max(v))

\* Is the character at k escaped: behind an odd number of backslashes?
Escaped(s, k) ==
  (k - 1 - Max({j \in 0..k - 1 : j = 0 \/ s[j] # "BS"})) % 2 = 1

IsQuoted(s) ==
  /\ Len(s) >= 2 /\ s[1] = "DQ" /\ s[Len(s)] = "DQ" /\ ~ Escaped(s, Len(s))
  /\ \A k \in 2..Len(s) - 1 : s[k] = "DQ" => Escaped(s, k)
IsToken(s) == \A k \in DOMAIN s : s[k] \notin {",", ";", "SP", "NUL"}

\* The values that the text s gives parameter p: none, or one as it is written.
Given(p, s) ==
  {[value |-> IF IsQuoted(t) THEN SubSeq(t, 2, Len(t) - 1) ELSE t,
    quoted |-> IsQuoted(t) /\ \E k \in DOMAIN t : t[k] = "BS"] :
     t \in {Trimmed(SubSeq(s, k + 1, Len(s))) : k \in
              {k \in DOMAIN s : /\ s[k] = "=" /\ Trimmed(SubSeq(s, 1, k - 1)) = Names[p]
                                /\ LET t == Trimmed(SubSeq(s, k + 1, Len(s)))
                                   IN \/ IsQuoted(t) /\ \A x \in DOMAIN t : t[x] # "NUL"
                                      \/ IsToken(t) /\ (t = <<>> \/ t[1] # "DQ")}}}

Begins(p, s) ==
  /\ IsPrefix(Names[p], s)
  /\ \/ Len(s) = Len(Names[p])
     \/ s[Len(Names[p]) + 1] \in {"=", "SP", ",", ";"}

\* Text that begins with no name the code knows: quoted parts and other characters.
IsOther(s) ==
  /\ s # <<>> => s[1] # "="
  /\ \A p \in DOMAIN Names : ~ Begins(p, s)
  /\ \E q \in SUBSET {<<a, b>> \in (DOMAIN s) \X (DOMAIN s) : a < b /\ IsQuoted(SubSeq(s, a, b))} :
       /\ \A x, y \in q : x = y \/ x[2] < y[1] \/ y[2] < x[1]
       /\ \A k \in DOMAIN s :
            IF \E x \in q : x[1] <= k /\ k <= x[2]
              THEN s[k] = "NUL" => Escaped(s, k)
              ELSE s[k] \notin {"DQ", ",", ";", "NUL"}

\* The lists of elements that make up s; no two of them differ.
RECURSIVE Lists(_)
Lists(s) ==
  IF Trimmed(s) = <<>> THEN {<<>>}
  ELSE UNION {{<<Trimmed(SubSeq(s, 1, k - 1))>> \o l : l \in Lists(SubSeq(s, k + 1, Len(s)))} :
                k \in {k \in 1..Len(s) + 1 :
                         /\ k = Len(s) + 1 \/ s[k] = ","
                         /\ LET e == Trimmed(SubSeq(s, 1, k - 1))
                            IN IsOther(e) \/ \E p \in DOMAIN Names : Given(p, e) # {}}}

\* The last value given to p, if there is one.
ValueOf(p, l) ==
  LET k == {x \in DOMAIN l : Given(p, l[x]) # {}}
  IN IF k = {} THEN NoParam ELSE CHOOSE v \in Given(p, l[Max(k)]) : TRUE

-----------------------------------------------------------------------------
(* Properties *)

\* A Digest header is accepted exactly if it is a list of parameters, and the parameters the
\* application's checks work with are the ones it names, the last of each name.
ParamsExact ==
  scheme = "Digest" => \A a \in answers :
    LET l == IF Str = NULL THEN {} ELSE Lists(Str)
    IN IF a = NULL THEN l = {}
       ELSE /\ Cardinality(l) = 1
            /\ \A x \in l : \A p \in {"nonce", "username", "username_ext"} : a[p] = ValueOf(p, x)

\* The algorithm is the one named, MD5 without a name, unless the name is written with an escape.
AlgorithmAsNamed ==
  scheme = "Digest" => \A a \in answers \ {NULL} : \A l \in Lists(Str) :
    LET v == ValueOf("algorithm", l)
    IN ~ v.quoted =>
         a.algo = CASE v.value = NULL -> "MD5"
                    [] v.value = <<"MD5">> -> "MD5"
                    [] v.value = <<"MD5", "-sess">> -> "MD5_SESSION"
                    [] v.value = <<"SHA-512-256">> -> "SHA512_256"
                    [] v.value = <<"SHA-512-256", "-sess">> -> "SHA512_256_SESSION"
                    [] OTHER -> "INVALID"

\* A Basic header is accepted exactly if there is one token or nothing in it.
BasicExact ==
  scheme = "Basic" => \A a \in answers :
    IF a = NULL THEN \/ Str = NULL
                     \/ \E k \in DOMAIN Trimmed(Str) : Trimmed(Str)[k] \in {",", ";", "NUL", "SP"}
    ELSE IF a.token = NULL THEN Trimmed(Str) = <<>>
    ELSE a.token = Trimmed(Str) /\ IsToken(a.token)

\* However often the application asks, and whether or not there was memory at first, it
\* gets one answer and the pool of the connection is used once.
ParsedOnce == Cardinality(answers) <= 1 /\ allocs <= 1

\* No character behind the terminator of the value is read, whatever is not closed in it.
ReadsInBounds == ~ over
=============================================================================
