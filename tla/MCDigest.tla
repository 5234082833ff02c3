------------------------------- MODULE MCDigest -------------------------------
(***************************************************************************)
(* Authentication: the table of nonces, shared by two clients, the parser  *)
(* of the Authorization header, the check of a header, the calls around    *)
(* it, and what these rest on: the hashes and the functions on strings.  A *)
(* behaviour is about one of them; its first state chooses which.          *)
(***************************************************************************)
EXTENDS DigestNonce, HeaderCheck, TLC, SequencesExt, FiniteSetsExt

CONSTANTS c1, c2

TwoClients == {c1, c2}
OneSlot == {1}

\* All nonces share the only slot.
SameSlot == [n \in Nonces |-> 1]

Symmetry == Permutations(TwoClients)

-----------------------------------------------------------------------------
(* Authorization headers: every short value over the characters that       *)
(* matter, and lists of elements that are well or badly formed.            *)

Atoms == {"nonce", "x", "=", ",", ";", "SP", "DQ", "BS", "NUL"}
Elements ==
  {<<"nonce", "=", "x">>, <<"nonce", "=", "DQ", "BS", "DQ", "DQ">>, <<"nonce", "SP", "=", "SP", "x">>,
   <<"username", "=", "DQ", "x", ",", "DQ">>, <<"username", "*", "=", "x">>, <<"username", "x", "=", "x">>,
   <<"algorithm", "=", "MD5", "-sess">>, <<"algorithm", "=", "DQ", "MD5", "DQ">>,
   <<"algorithm", "=", "SHA-512-256">>, <<"algorithm", "=", "DQ", "BS", "SHA-512-256", "DQ">>,
   <<"userhash", "=", "true">>, <<"qop", "=", "auth", "-int">>, <<"qop", "=">>,
   <<"x", "=", "DQ", "nonce", "=", "x", ",", "BS", "DQ", "DQ">>, <<"x", "DQ", "NUL">>,
   <<"nonce", "=", "x", "DQ", "SP", "DQ">>, <<"nonce">>, <<>>}
Field(s, v) == [kind |-> "HEADER", name |-> "Authorization", scheme |-> s, value |-> v]
AuthRequests ==
  {<<Field("Digest", <<"SP">> \o v)>> :
     v \in SeqOf(Atoms, 4)
           \cup {<<"nonce", "=">> \o v : v \in SeqOf(Atoms, 4)}
           \cup {<<"x", "DQ">> \o v : v \in SeqOf(Atoms \ {"nonce", "="}, 4)}
           \cup {a \o <<",">> \o ws \o b : a \in Elements, b \in Elements, ws \in {<<>>, <<"SP">>}}}
  \cup {<<Field("Basic", v)>> : v \in SeqOf({"x", ",", ";", "SP", "NUL"}, 4)}
  \cup {<<Field("Other", <<>>), [Field("Digest", <<>>) EXCEPT !.kind = "COOKIE"],
          Field("Digest", <<"x">>), f, Field(f.scheme, <<"SP", "nonce">>)>> :
          f \in {Field(s, v) : s \in {"Digest", "Basic"}, v \in {<<>>, <<"SP", "x">>}}}

-----------------------------------------------------------------------------
(* Headers to check: the right one and what one or two changes make of it. *)
(* The sizes keep the order of those of the code: 128 on the stack, 65535  *)
(* at most, a digest of 32 bytes and a nonce of 76 characters.             *)

Value(n, q) == [len |-> n, quoted |-> q]
RightHeader ==
  [algo |-> "BASE", qop |-> "AUTH", userhash |-> FALSE, nonce |-> 1, count |-> 1, wrong |-> {}, args |-> <<"a">>,
   params |-> [username |-> Value(2, FALSE), username_ext |-> NULL, realm |-> Value(2, FALSE),
               nc |-> Value(2, FALSE), cnonce |-> Value(2, FALSE), uri |-> Value(3, FALSE),
               nonce |-> Value(5, FALSE), response |-> Value(4, FALSE), qop |-> Value(2, FALSE)]]
LongHeader == [RightHeader EXCEPT !.count = 2, !.params.nonce = Value(10, TRUE), !.params.uri = Value(11, TRUE)]
Wrongs ==
  {"realm", "username", "ext_notation", "nc", "nonce_form", "nonce_age", "nonce", "uri", "response_hex",
   "response", "conditions"}
Sizes ==
  [username |-> {Value(0, FALSE), Value(3, TRUE)}, username_ext |-> {}, realm |-> {Value(0, FALSE), Value(13, TRUE)},
   nc |-> {Value(0, FALSE), Value(8, TRUE), Value(9, FALSE)}, cnonce |-> {Value(0, FALSE), Value(12, TRUE), Value(13, FALSE)},
   uri |-> {Value(0, FALSE), Value(7, FALSE), Value(8, TRUE), Value(11, FALSE), Value(12, FALSE), Value(13, FALSE)},
   nonce |-> {Value(0, FALSE), Value(6, TRUE), Value(10, TRUE), Value(11, TRUE)},
   response |-> {Value(0, FALSE), Value(8, TRUE), Value(9, TRUE)}, qop |-> {Value(0, FALSE), Value(4, TRUE), Value(13, TRUE)}]
Changed(x) ==
  {[x EXCEPT !.wrong = @ \cup {w}] : w \in Wrongs}
  \cup {[x EXCEPT !.algo = a] : a \in {"SESSION", "INVALID"}}
  \cup {[x EXCEPT !.qop = "NONE", !.params.qop = NULL]} \cup {[x EXCEPT !.qop = q] : q \in {"AUTH_INT", "INVALID"}}
  \cup {[x EXCEPT !.count = 2], [x EXCEPT !.nonce = 2], [x EXCEPT !.args = <<>>], [x EXCEPT !.args = <<"a", "b">>]}
  \cup {[x EXCEPT !.userhash = TRUE, !.params.username = Value(n, n > 4)] : n \in {3, 4, 8, 9}}
  \cup {[x EXCEPT !.params.username = NULL, !.params.username_ext = Value(n, FALSE)] : n \in {2, 3, 12, 15}}
  \cup UNION {{[x EXCEPT !.params[p] = v] : v \in Sizes[p] \cup {NULL}} : p \in DOMAIN Sizes}
\* The parser finds no qop exactly if there is none, and knows none that is empty or so long.
CheckedHeaders ==
  {NULL} \cup {x \in Changed(RightHeader) \cup UNION {Changed(x) : x \in Changed(RightHeader)} :
               /\ (x.qop = "NONE") = (x.params.qop = NULL)
               /\ x.params.qop # NULL /\ x.params.qop.len \notin 1..12 => x.qop = "INVALID"}
\* Pieces of a message: around the size of a block, and some that make the counters wrap.
HashPieces == {0, 1, 4, 5, 6, 11, 395}
-----------------------------------------------------------------------------
(* Names in all notations, with digits, an escape or an encoding that is   *)
(* well or badly formed; numbers around their limit; and challenges with   *)
(* realms around the largest size, before and after they are quoted.       *)

Raw(v) == [value |-> v, quoted |-> FALSE]
Esc(v) == [value |-> v, quoted |-> TRUE]
\* What the parser marks as quoted has an escape, and no character missing behind the last one.
Escapes(v) == \E k \in DOMAIN v : v[k] = 92
Complete(v) == \A k \in DOMAIN v : Max({n \in 0..Len(v) : \A j \in Len(v) - n + 1..Len(v) : v[j] = 92}) % 2 = 0
Texts(chars, n) == {Raw(v) : v \in SeqOf(chars, n)} \cup {Esc(v) : v \in {w \in SeqOf(chars, n) : Escapes(w) /\ Complete(w)}}
NoOne == [username |-> NULL, username_ext |-> NULL, userhash |-> FALSE, opaque |-> NULL, realm |-> NULL, nc |-> NULL]
Extended == {p \o v : p \in {<<85, 39>>, <<117, 39>>, <<120, 39>>, <<85>>}, v \in SeqOf({39, 32, 37, 52}, 4)} \cup {<<85, 39, 39, 37, 52, 102, 37, 102, 52>>}
Named ==
  {[NoOne EXCEPT !.username = v, !.userhash = u] : v \in Texts({48, 102, 120, 92}, 4), u \in BOOLEAN}
  \cup {[NoOne EXCEPT !.username_ext = Raw(v)] : v \in Extended}
  \cup {[NoOne EXCEPT !.username_ext = v, !.userhash = u] : v \in {Raw(<<85, 39, 39, 52>>), Esc(<<85, 92, 39, 39>>)}, u \in BOOLEAN}
  \cup {[NoOne EXCEPT !.username = Raw(<<48>>), !.username_ext = Raw(<<85, 39, 39>>)], NoOne}
NamedRequests ==
  {NULL} \cup {[x EXCEPT !.opaque = o, !.realm = r] :
                 x \in {y \in Named : y.username = NULL \/ Len(y.username.value) < 4}, o \in {NULL, Esc(<<92, 120>>)}, r \in {NULL, Raw(<<120, 120>>)}} \cup Named
  \cup {[NoOne EXCEPT !.nc = v] : v \in Texts({48, 49, 120, 92}, 4)}
Tokens == {NULL} \cup [text : SeqOf({97, 58, 0}, 4) \ {<<>>}, good : {TRUE}] \cup {[text |-> <<97>>, good |-> FALSE]}
Realms == SeqOf({120, 34}, 4) \cup {<<92>>, <<120, 13>>, <<10>>}
OneArgs ==
  [realm |-> <<120>>, opaque |-> NULL, domain |-> NULL, stale |-> FALSE, qop |-> {"AUTH"}, algos |-> {"MD5", "SHA256"},
   nonsession |-> TRUE, session |-> FALSE, utf8 |-> FALSE, userhash |-> FALSE, table |-> 1]
ChallengeArgs ==
  {[OneArgs EXCEPT !.realm = r, !.opaque = o, !.domain = d, !.stale = s] :
     r \in Realms, o \in {NULL, <<>>, <<34, 92>>, <<13>>}, d \in {NULL, <<120, 34>>, <<10>>}, s \in BOOLEAN}
  \cup {[OneArgs EXCEPT !.stale = s, !.qop = q, !.algos = a, !.utf8 = u, !.userhash = h_, !.opaque = o] :
          s \in BOOLEAN, q \in {{"NONE"}, {"AUTH"}, {"NONE", "AUTH"}, {"AUTH", "AUTH_INT"}},
          a \in {{"MD5"}, {"SHA256"}, {"SHA512_256"}, {"SHA256", "SHA512_256"}}, u \in BOOLEAN, h_ \in BOOLEAN,
          o \in {NULL, <<34>>}}
  \cup {[OneArgs EXCEPT !.nonsession = FALSE], [OneArgs EXCEPT !.session = TRUE], [OneArgs EXCEPT !.table = 0]}
BasicChallenges == [realm : Realms, utf8 : BOOLEAN]
Application ==
  [algos |-> {"BASE"}, qops |-> {"NONE", "AUTH"}, userdigest |-> FALSE, max_nc |-> 0, bind |-> TRUE,
   has_finish |-> TRUE, ext_error |-> FALSE, args |-> <<"a">>]
Applications ==
  {Application, [Application EXCEPT !.userdigest = TRUE, !.has_finish = FALSE, !.max_nc = 1],
   [Application EXCEPT !.ext_error = TRUE, !.has_finish = FALSE],
   [Application EXCEPT !.algos = {"BASE", "SESSION"}, !.qops = {"AUTH", "AUTH_INT"}, !.bind = FALSE]}

\* A first request, and any that may follow it.
TwoHeaders == <<{RightHeader, LongHeader}, CheckedHeaders>>

VARIABLES
  request, scheme, tried, kept, allocs, auth_pc, i, params, calls, answers, over, ctx, message, digest, pieces, rounds, asked, answer, mem, blocks, calls_pc, buf,
  response, queued, call, done

Auth == INSTANCE AuthParams WITH
  Requests <- AuthRequests, Schemes <- {"Digest", "Basic"}, MaxCalls <- 2, pc <- auth_pc

Hash == INSTANCE HashStream WITH
  Hashes <- {"MD5", "SHA1", "SHA256", "SHA512_256", "WS_SHA1", "MD5Context"}, Block <- 5, Base
  <- 20, Width <- 2, Sizes <- HashPieces, MaxPieces <- 4

Calls == INSTANCE AuthCalls WITH
  DigestRequests <- NamedRequests, BasicRequests <- Tokens, DigestArgs <- <<ChallengeArgs,
  {OneArgs}>>, BasicArgs <- <<BasicChallenges, {[realm |-> <<34>>, utf8 |-> TRUE]}>>, Prefix
  <- <<85, 39>>, UnqSize <- 3, MaxParam <- 3, NonceText <- <<<<110, 49>>, <<110, 50>>>>,
  UINT32_MAX <- 255, UINT64_MAX <- 4095, Divisor64 <- 1000, pc <- calls_pc

Str == INSTANCE StringCalls WITH
  UINT32_MAX <- 255, UINT64_MAX <- 4095, Divisor64 <- 1000, Functions <- {"has_token",
  "remove_token", "remove_tokens", "number", "print", "hex", "bin", "pct", "in_place",
  "quote", "quoted", "base64", "encoded"}

allvars == <<vars, part, request, scheme, tried, kept, allocs, auth_pc, i, params, calls,
  answers, over, app, h, check_pc, tmp1, tmp2, heap, ref, da, hash, used, result, luck, spent,
  failed, outside, requests, ctx, message, digest, pieces, rounds, asked, answer, mem, blocks,
  calls_pc, buf, response, queued, call, done>>

AnyInit ==
  \/ /\ part = "nonces" /\ Init
     /\ request = NULL /\ scheme = NULL /\ tried = NULL /\ kept = NULL /\ allocs = NULL
     /\ auth_pc = NULL /\ i = NULL /\ params = NULL /\ calls = NULL /\ answers = NULL
     /\ over = NULL /\ app = NULL /\ h = NULL /\ check_pc = NULL /\ tmp1 = NULL
     /\ tmp2 = NULL /\ heap = NULL /\ ref = NULL /\ da = NULL /\ hash = NULL /\ used = NULL
     /\ result = NULL /\ luck = NULL /\ spent = NULL /\ failed = NULL /\ outside = NULL
     /\ requests = NULL /\ ctx = NULL /\ message = NULL /\ digest = NULL /\ pieces = NULL
     /\ rounds = NULL /\ asked = NULL /\ answer = NULL /\ mem = NULL /\ blocks = NULL
     /\ calls_pc = NULL /\ buf = NULL /\ response = NULL /\ queued = NULL /\ call = NULL
     /\ done = NULL
  \/ /\ part = "params" /\ Auth!Init /\ Init
     /\ app = NULL /\ h = NULL /\ check_pc = NULL /\ tmp1 = NULL /\ tmp2 = NULL
     /\ heap = NULL /\ ref = NULL /\ da = NULL /\ hash = NULL /\ used = NULL
     /\ result = NULL /\ luck = NULL /\ spent = NULL /\ failed = NULL /\ outside = NULL
     /\ requests = NULL /\ ctx = NULL /\ message = NULL /\ digest = NULL /\ pieces = NULL
     /\ rounds = NULL /\ asked = NULL /\ answer = NULL /\ mem = NULL /\ blocks = NULL
     /\ calls_pc = NULL /\ buf = NULL /\ response = NULL /\ queued = NULL /\ call = NULL
     /\ done = NULL
  \/ /\ part = "check" /\ Check!Init /\ Init
     /\ request = NULL /\ scheme = NULL /\ tried = NULL /\ kept = NULL /\ allocs = NULL
     /\ auth_pc = NULL /\ i = NULL /\ params = NULL /\ calls = NULL /\ answers = NULL
     /\ over = NULL /\ ctx = NULL /\ message = NULL /\ digest = NULL /\ pieces = NULL
     /\ rounds = NULL /\ asked = NULL /\ answer = NULL /\ mem = NULL /\ blocks = NULL
     /\ calls_pc = NULL /\ buf = NULL /\ response = NULL /\ queued = NULL /\ call = NULL
     /\ done = NULL
  \/ /\ part = "hash" /\ Hash!Init /\ Init
     /\ request = NULL /\ scheme = NULL /\ tried = NULL /\ kept = NULL /\ allocs = NULL
     /\ auth_pc = NULL /\ i = NULL /\ params = NULL /\ calls = NULL /\ answers = NULL
     /\ over = NULL /\ app = NULL /\ h = NULL /\ check_pc = NULL /\ tmp1 = NULL
     /\ tmp2 = NULL /\ heap = NULL /\ ref = NULL /\ da = NULL /\ used = NULL
     /\ result = NULL /\ luck = NULL /\ spent = NULL /\ failed = NULL /\ outside = NULL
     /\ requests = NULL /\ asked = NULL /\ answer = NULL /\ mem = NULL /\ blocks = NULL
     /\ calls_pc = NULL /\ buf = NULL /\ response = NULL /\ queued = NULL /\ call = NULL
     /\ done = NULL
  \/ /\ part = "calls" /\ Calls!Init /\ Init
     /\ request = NULL /\ scheme = NULL /\ tried = NULL /\ kept = NULL /\ allocs = NULL
     /\ auth_pc = NULL /\ i = NULL /\ params = NULL /\ answers = NULL /\ over = NULL
     /\ app = NULL /\ h = NULL /\ check_pc = NULL /\ tmp1 = NULL /\ tmp2 = NULL
     /\ heap = NULL /\ ref = NULL /\ da = NULL /\ hash = NULL /\ used = NULL
     /\ result = NULL /\ spent = NULL /\ outside = NULL /\ requests = NULL /\ ctx = NULL
     /\ message = NULL /\ digest = NULL /\ pieces = NULL /\ rounds = NULL /\ call = NULL
     /\ done = NULL
  \/ /\ part = "strings" /\ Str!Init /\ Init
     /\ request = NULL /\ scheme = NULL /\ tried = NULL /\ kept = NULL /\ allocs = NULL
     /\ auth_pc = NULL /\ i = NULL /\ params = NULL /\ calls = NULL /\ answers = NULL
     /\ over = NULL /\ app = NULL /\ h = NULL /\ check_pc = NULL /\ tmp1 = NULL
     /\ tmp2 = NULL /\ heap = NULL /\ ref = NULL /\ da = NULL /\ hash = NULL /\ used = NULL
     /\ luck = NULL /\ spent = NULL /\ failed = NULL /\ outside = NULL /\ requests = NULL
     /\ ctx = NULL /\ message = NULL /\ digest = NULL /\ pieces = NULL /\ rounds = NULL
     /\ asked = NULL /\ answer = NULL /\ mem = NULL /\ blocks = NULL /\ calls_pc = NULL
     /\ buf = NULL /\ response = NULL /\ queued = NULL

AnyNext ==
  \/ /\ part = "nonces" /\ Next
     /\ UNCHANGED <<part, request, scheme, tried, kept, allocs, auth_pc, i, params, calls,
        answers, over, app, h, check_pc, tmp1, tmp2, heap, ref, da, hash, used, result,
        luck, spent, failed, outside, requests, ctx, message, digest, pieces, rounds,
        asked, answer, mem, blocks, calls_pc, buf, response, queued, call, done>>
  \/ /\ part = "params" /\ Auth!Next
     /\ UNCHANGED <<part, vars, app, h, check_pc, tmp1, tmp2, heap, ref, da, hash, used, result,
        luck, spent, failed, outside, requests, ctx, message, digest, pieces, rounds,
        asked, answer, mem, blocks, calls_pc, buf, response, queued, call, done>>
  \/ /\ part = "check" /\ Check!Next
     /\ UNCHANGED <<part, vars, request, scheme, tried, kept, allocs, auth_pc, i, params, calls,
        answers, over, ctx, message, digest, pieces, rounds, asked, answer, mem, blocks,
        calls_pc, buf, response, queued, call, done>>
  \/ /\ part = "hash" /\ Hash!Next
     /\ UNCHANGED <<part, vars, request, scheme, tried, kept, allocs, auth_pc, i, params, calls,
        answers, over, app, h, check_pc, tmp1, tmp2, heap, ref, da, used, result, luck,
        spent, failed, outside, requests, asked, answer, mem, blocks, calls_pc, buf,
        response, queued, call, done>>
  \/ /\ part = "calls" /\ Calls!Next
     /\ UNCHANGED <<part, vars, request, scheme, tried, kept, allocs, auth_pc, i, params,
        answers, over, app, h, check_pc, tmp1, tmp2, heap, ref, da, hash, used, result,
        spent, outside, requests, ctx, message, digest, pieces, rounds, call, done>>
  \/ /\ part = "strings" /\ Str!Next
     /\ UNCHANGED <<part, vars, request, scheme, tried, kept, allocs, auth_pc, i, params, calls,
        answers, over, app, h, check_pc, tmp1, tmp2, heap, ref, da, hash, used, luck,
        spent, failed, outside, requests, ctx, message, digest, pieces, rounds, asked,
        answer, mem, blocks, calls_pc, buf, response, queued>>

AnySpec == AnyInit /\ [][AnyNext]_allvars

-----------------------------------------------------------------------------
(* Properties of the components. *)

\* A Digest header is accepted exactly if it is a list of parameters, and the parameters the
\* application's checks work with are the ones it names, the last of each name.
\* The algorithm is the one named, MD5 without a name, unless the name is written with an escape.
\* A Basic header is accepted exactly if there is one token or nothing in it.
\* However often the application asks, and whether or not there was memory at first, it
\* gets one answer and the pool of the connection is used once.
\* No character behind the terminator of the value is read, whatever is not closed in it.
HeaderParsed ==
  part = "params" =>
    /\ Auth!ParamsExact
    /\ Auth!AlgorithmAsNamed
    /\ Auth!BasicExact
    /\ Auth!ParsedOnce
    /\ Auth!ReadsInBounds

\* However a message is cut into pieces, and whatever the buffer held before, what is hashed
\* is the message with its padding and its length, also when the counters wrap.
HashedExactly == part = "hash" => Hash!HashedExactly

\* What is reported of a client is what its header says: the name in whatever notation, its
\* hash as text and as bytes, and the strings behind it in the same memory, each whole and
\* terminated; a name that is not well formed is never reported as one; nothing is written
\* outside of what was allocated, and nothing is allocated but what is returned.
NamesReported == part = "calls" => Calls!NamesReported

\* A challenge says what the application asked for, in full or not at all, whichever of its
\* allocations fails: the response has one header more, with every parameter quoted and
\* terminated, or none; what is allocated belongs to the response; and no break of a line
\* gets into it.
ChallengeExact == part = "calls" => Calls!ChallengeExact

\* MHD_str_has_token_caseless_() finds a token exactly if it is an item of the list,
\* unless an earlier item is the beginning of the token.
\* MHD_str_remove_token_caseless_() keeps the other items in their order, says whether it
\* removed one, writes no more than one and a half times its input, and fails exactly if
\* that does not fit.
\* MHD_str_remove_tokens_caseless_() moves the text within the string it reads: what is
\* left are the items that are none of the tokens, still normalised.
\* A number is converted exactly if its digits stand for a value that fits, up to the
\* first character that is none.
\* A printed number stands for the value, has no leading zero but those asked for, and
\* is printed exactly if the buffer has room for it.
\* Hexadecimal text stands for its bytes both ways, the first of which may have one digit.
\* Percent-encoded text is decoded if the result fits, refused or copied where it is
\* broken, whatever ends the parameter in memory.
\* In place, text that is not broken is decoded; broken text is noticed, and keeps every
\* character that belongs to no escape.
\* Quoting is undone by unquoting and fails exactly if the result does not fit; a quoted
\* string is equal to exactly the text it stands for.
\* Base64 text is decoded exactly if it is the encoding of some bytes and these fit.
StringsExact ==
  part = "strings" =>
    /\ Str!TokenFound
    /\ Str!TokenRemoved
    /\ Str!TokensRemovedInPlace
    /\ Str!NumbersExact
    /\ Str!NumbersPrinted
    /\ Str!HexExact
    /\ Str!PctDecoded
    /\ Str!PctInPlace
    /\ Str!QuotedExact
    /\ Str!Base64Exact

ASSUME Check!SizeAssumption /\ Check!HeadersAssumption /\ Check!AppsAssumption /\ Check!NullAssumption
ASSUME Hash!SizesAssumption /\ Calls!WidthAssumption /\ Str!WidthAssumption
=============================================================================
