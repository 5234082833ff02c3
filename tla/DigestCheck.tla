---------------------------- MODULE DigestCheck ----------------------------
(***************************************************************************)
(* digest_auth_check_all() of digestauth.c: the steps that decide whether  *)
(* a request with an Authorization header is authenticated, with the two   *)
(* buffers they share, the digest they feed and the nonce they consume.    *)
(*                                                                         *)
(* A parameter of the header is its length and whether it is written with  *)
(* escapes; what it says is told by the set h.wrong.  Text in a buffer is  *)
(* the name of the parameter it stands for.                                *)
(***************************************************************************)
EXTENDS Integers, SequencesExt, FiniteSets

CONSTANTS
  NULL,
  Headers,      \* for every request the headers it may have, NULL among them for one that is not valid
  Apps,         \* what the application asks for and how the library is built
  StaticSize,   \* _MHD_STATIC_UNQ_BUFFER_SIZE
  MaxParam,     \* _MHD_AUTH_DIGEST_MAX_PARAM_SIZE
  DigestSize,   \* digest_get_size()
  StdLen,       \* NONCE_STD_LEN(DigestSize)
  NcLen,        \* 8, the digits of a nonce count
  ExtMin        \* MHD_DAUTH_EXT_PARAM_MIN_LEN

SizeAssumption ==
  /\ {StaticSize, MaxParam, DigestSize, StdLen, NcLen, ExtMin} \subseteq Nat
  /\ 4 * NcLen <= StaticSize /\ StaticSize < MaxParam /\ 4 * DigestSize <= StaticSize
  /\ StdLen < StaticSize /\ 2 * DigestSize < StdLen /\ 2 * StdLen <= MaxParam
  /\ ExtMin > 0

\* What can be wrong with a header.
Wrongs ==
  {"realm", "username", "ext_notation", "nc", "nonce_form", "nonce_age", "nonce", "uri",
   "response_hex", "response", "conditions"}

\* What the parser gives: it finds no qop exactly if there is none, and a value that is marked
\* as quoted has an escape in it.
Parsed(x) ==
  /\ x.algo \in {"BASE", "SESSION", "INVALID"} /\ (x.qop = "NONE") = (x.params["qop"] = NULL)
  /\ x.userhash \in BOOLEAN /\ x.count \in Nat /\ x.wrong \subseteq Wrongs /\ x.args \in Seq(STRING)
  /\ \A p \in {"username", "username_ext", "realm", "nc", "cnonce", "uri", "nonce", "response", "qop"} :
       x.params[p] # NULL => /\ x.params[p].len \in Nat /\ x.params[p].quoted \in BOOLEAN
                             /\ x.params[p].quoted => x.params[p].len >= 2
HeadersAssumption ==
  Len(Headers) \in Nat /\ \A k \in 1..Len(Headers) : \A x \in Headers[k] : x # NULL => Parsed(x)

AppsAssumption ==
  \A a \in Apps :
    /\ {a.userdigest, a.bind, a.has_finish, a.ext_error} \subseteq BOOLEAN
    /\ a.max_nc \in Nat /\ a.args \in Seq(STRING)

\* The results of the call, and the texts that are hashed or in a buffer.
Results ==
  {"OK", "ERROR", "PANIC", "WRONG_HEADER", "WRONG_USERNAME", "WRONG_REALM", "WRONG_URI", "WRONG_QOP",
   "WRONG_ALGO", "TOO_LARGE", "NONCE_STALE", "NONCE_WRONG", "NONCE_OTHER_COND", "RESPONSE_WRONG"}
Texts ==
  {"none", "username", "nonce", "nc", "cnonce", "qop", "response", "uri cut", "uri", "method", "A1", "H(A1)", "H(A2)"}
NullAssumption ==
  NULL \notin Results \cup {"tmp1", "tmp2"} \cup [size : 0..MaxParam, text : Texts]

VARIABLES
  app,      \* the arguments of the call, the same for all requests
  h,        \* the header of the request
  pc,       \* the next step
  tmp1,     \* the text in the buffer on the stack
  tmp2,     \* the buffer from malloc(), or NULL
  heap,     \* how many buffers are allocated
  ref,      \* where the local variable unquoted points to
  da,       \* struct DigestAlgorithm: its debug flags and what was hashed
  hash,     \* hash1_bin and hash2_bin
  used,     \* the counts of nonces that check_nonce_nc() has accepted
  result,   \* of the last call
  luck,     \* no allocation and no external hash calculation has failed
  spent,    \* has this request used up its count?
  failed,   \* assertions that did not hold
  outside,  \* has a buffer been written behind its end?
  requests

vars == <<app, h, pc, tmp1, tmp2, heap, ref, da, hash, used, result, luck, spent, failed, outside, requests>>
call == <<app, h, requests>>

NoDigest == [ready |-> FALSE, hashing |-> FALSE, input |-> <<>>]

Init ==
  /\ app \in Apps /\ h = NULL /\ pc = "idle" /\ tmp1 = "none" /\ tmp2 = NULL /\ heap = 0
  /\ ref = NULL /\ da = NoDigest /\ hash = [one |-> <<>>, two |-> <<>>] /\ used = {} /\ result = NULL
  /\ luck = TRUE /\ spent = FALSE /\ failed = {} /\ outside = FALSE /\ requests = 0

-----------------------------------------------------------------------------
(* The digest *)

Updated(d, texts) == [d EXCEPT !.hashing = TRUE, !.input = @ \o texts]
\* digest_calc_hash(): some implementations are ready again at once, some are reset.
Finished(d) == [d EXCEPT !.ready = ~ app.has_finish, !.hashing = FALSE, !.input = <<>>]
Reset(d) == [d EXCEPT !.ready = TRUE]

\* The assertions of digest_update() and digest_reset().
UpdateAsserts(d) == IF d.ready THEN {} ELSE {"update"}
ResetAsserts(d) == IF ~ d.hashing /\ d.ready = ~ app.has_finish THEN {} ELSE {"reset"}

-----------------------------------------------------------------------------
(* Buffers *)

\* A slip: the buffer that is too small is forgotten.
Mutantget_buffer_for_size(size) ==
  IF size <= StaticSize THEN {[at |-> "tmp1", tmp2 |-> tmp2, heap |-> heap]}
  ELSE IF tmp2 # NULL /\ size <= tmp2.size THEN {[at |-> "tmp2", tmp2 |-> tmp2, heap |-> heap]}
  ELSE IF size > MaxParam THEN {[at |-> NULL, tmp2 |-> tmp2, heap |-> heap]}
  ELSE {[at |-> NULL, tmp2 |-> NULL, heap |-> heap],
        [at |-> "tmp2", tmp2 |-> [size |-> size, text |-> "none"], heap |-> heap + 1]}

\* get_buffer_for_size(): the one on the stack, the one there is, or a new one; what may
\* come out of it.
get_buffer_for_size(size) ==
  LET rest == IF tmp2 = NULL THEN heap ELSE heap - 1
  IN IF size <= StaticSize THEN {[at |-> "tmp1", tmp2 |-> tmp2, heap |-> heap]}
     ELSE IF tmp2 # NULL /\ size <= tmp2.size THEN {[at |-> "tmp2", tmp2 |-> tmp2, heap |-> heap]}
     ELSE IF size > MaxParam THEN {[at |-> NULL, tmp2 |-> tmp2, heap |-> heap]}
     ELSE {[at |-> NULL, tmp2 |-> NULL, heap |-> rest],
           [at |-> "tmp2", tmp2 |-> [size |-> size, text |-> "none"], heap |-> rest + 1]}

SizeOf(b) == IF b.at = "tmp1" THEN StaticSize ELSE b.tmp2.size

\* text is written to buffer b, size characters of it.
Write(b, text, size) ==
  /\ tmp1' = IF b.at = "tmp1" THEN text ELSE tmp1
  /\ tmp2' = IF b.at = "tmp2" THEN [b.tmp2 EXCEPT !.text = text] ELSE b.tmp2
  /\ heap' = b.heap /\ ref' = b.at
  /\ outside' = (outside \/ size > SizeOf(b))

ReadAt(at, text) == CASE at = "header" -> text [] at = "tmp1" -> tmp1' [] at = "tmp2" -> tmp2'.text

P(p) == h.params[p]
Has(p) == P(p) # NULL
Wrong(what) == what \in h.wrong

\* get_unquoted_param(): a value without escapes stays where it is.
get_unquoted_param(p, b) ==
  IF ~ P(p).quoted
    THEN b.at = "tmp1" /\ ref' = "header" /\ UNCHANGED <<tmp1, tmp2, heap, outside>>
    ELSE Write(b, p, P(p).len - 1)
UnquoteBuffers(p) ==
  IF ~ P(p).quoted THEN {[at |-> "tmp1", tmp2 |-> tmp2, heap |-> heap]} ELSE get_buffer_for_size(P(p).len)

\* Both assert that there is a value.
UnquoteAsserts(p) == IF P(p).len # 0 THEN {} ELSE {<<"empty", p>>}

-----------------------------------------------------------------------------
(* The call *)

\* digest_auth_check_all() after the inner function: the buffer is freed.
ReturnWith(b, r) ==
  /\ pc' = "idle" /\ result' = r /\ da' = NoDigest
  /\ tmp2' = NULL /\ heap' = IF b.tmp2 = NULL THEN b.heap ELSE b.heap - 1

Buffers == [at |-> NULL, tmp2 |-> tmp2, heap |-> heap]
Return(r) == ReturnWith(Buffers, r)

Refuse(r) == Return(r) /\ UNCHANGED <<tmp1, ref, hash, used, luck, spent, failed, outside>> /\ UNCHANGED call

\* There is no buffer of this size: too large, or no memory.
NoBuffer(b, size, r) ==
  /\ b.at = NULL /\ ReturnWith(b, r) /\ luck' = (luck /\ size > MaxParam)
  /\ UNCHANGED <<tmp1, ref, hash, outside>>

Request ==
  /\ pc = "idle" /\ requests < Len(Headers) /\ result # "PANIC"
  /\ \E x \in Headers[requests + 1] : h' = x
  /\ pc' = "setup" /\ requests' = requests + 1 /\ luck' = TRUE /\ spent' = FALSE /\ result' = NULL
  /\ UNCHANGED <<app, tmp1, tmp2, heap, ref, da, hash, used, failed, outside>>

\* The header, the algorithm and the quality of protection.  Those the parser does not know
\* have the value zero, in which no bit is set that the application has not allowed.
Refusal1 ==
  CASE h = NULL -> "WRONG_HEADER"
    [] h # NULL /\ h.algo # "INVALID" /\ h.algo \notin app.algos -> "WRONG_ALGO"
    [] h # NULL /\ h.algo = "SESSION" /\ h.algo \in app.algos -> "WRONG_ALGO"
    [] h # NULL /\ h.algo = "INVALID" -> "PANIC"
    [] h # NULL /\ h.algo = "BASE" /\ "BASE" \in app.algos /\ h.qop # "INVALID" /\ h.qop \notin app.qops -> "WRONG_QOP"
    [] h # NULL /\ h.algo = "BASE" /\ "BASE" \in app.algos /\ h.qop = "AUTH_INT" /\ h.qop \in app.qops -> "WRONG_QOP"
    [] OTHER -> NULL

CheckSetup ==
  /\ pc = "setup"
  /\ \/ Refusal1 # NULL /\ Refuse(Refusal1)
     \/ /\ Refusal1 = NULL /\ pc' = "presence" /\ da' = [NoDigest EXCEPT !.ready = TRUE]
        /\ UNCHANGED <<tmp1, tmp2, heap, ref, hash, used, result, luck, spent, failed, outside>> /\ UNCHANGED call

\* The quick check for the presence and the size of parameters, in the order of the code.
Checks ==
  LET nc == h.qop # "NONE"
  IN <<<<~ Has("username") /\ ~ Has("username_ext"), "WRONG_USERNAME">>,
       <<Has("username") /\ Has("username_ext"), "WRONG_USERNAME">>,
       <<Has("username_ext") /\ P("username_ext").len < ExtMin, "WRONG_USERNAME">>,
       <<h.userhash /\ ~ Has("username"), "WRONG_USERNAME">>,
       <<h.userhash /\ Has("username") /\ P("username").len \notin 2 * DigestSize..4 * DigestSize, "WRONG_USERNAME">>,
       <<~ Has("realm"), "WRONG_REALM">>,
       <<(~ app.userdigest \/ h.userhash) /\ Has("realm") /\ P("realm").len > MaxParam, "TOO_LARGE">>,
       <<nc /\ (~ Has("nc") \/ P("nc").len \notin 1..4 * NcLen), "WRONG_HEADER">>,
       <<nc /\ (~ Has("cnonce") \/ P("cnonce").len = 0), "WRONG_HEADER">>,
       <<nc /\ Has("cnonce") /\ P("cnonce").len > MaxParam, "TOO_LARGE">>,
       <<~ Has("uri") \/ P("uri").len = 0, "WRONG_URI">>,
       <<Has("uri") /\ P("uri").len > MaxParam, "TOO_LARGE">>,
       <<~ Has("nonce") \/ P("nonce").len \notin 1..2 * StdLen, "NONCE_WRONG">>,
       <<~ Has("response") \/ P("response").len \notin 1..4 * DigestSize, "RESPONSE_WRONG">>,
       \* is_param_equal()
       <<Has("realm") /\ (Wrong("realm") \/ P("realm").len = 0), "WRONG_REALM">>,
       <<Has("username") /\ ~ h.userhash /\ (Wrong("username") \/ P("username").len = 0), "WRONG_USERNAME">>>>

FirstFailing(cs) ==
  LET k == {x \in DOMAIN cs : cs[x][1]}
  IN IF k = {} THEN NULL ELSE cs[CHOOSE x \in k : \A y \in k : x <= y][2]

\* is_param_equal() is called with an empty value.
EmptyCompared ==
  {<<"empty", p>> : p \in {p \in {"realm", "username"} :
     /\ Has(p) /\ P(p).len = 0 /\ FirstFailing(SubSeq(Checks, 1, 14)) = NULL
     /\ p = "username" => ~ h.userhash /\ ~ Wrong("realm") /\ P("realm").len > 0}}

CheckPresence ==
  /\ pc = "presence"
  /\ failed' = failed \cup EmptyCompared
  /\ LET r == FirstFailing(Checks)
     IN \/ r # NULL /\ Return(r)
        \/ r = NULL /\ pc' = "username" /\ UNCHANGED <<result, tmp2, heap, da>>
  /\ UNCHANGED <<tmp1, ref, hash, used, luck, spent, outside>> /\ UNCHANGED call

\* A user name in extended notation is decoded into a buffer.
CheckExtended ==
  /\ pc = "username" /\ ~ h.userhash /\ Has("username_ext")
  /\ LET size == P("username_ext").len + 1 - ExtMin
         refusal == IF Wrong("ext_notation") THEN "WRONG_HEADER"
                    ELSE IF Wrong("username") THEN "WRONG_USERNAME" ELSE NULL
     IN \E b \in get_buffer_for_size(size) :
          \/ NoBuffer(b, size, IF size > MaxParam THEN "TOO_LARGE" ELSE "ERROR")
          \/ /\ b.at # NULL /\ refusal # NULL /\ ReturnWith(b, refusal)
             /\ UNCHANGED <<tmp1, ref, hash, luck, outside>>
          \/ /\ b.at # NULL /\ refusal = NULL
             /\ Write(b, "username", size) /\ pc' = "count" /\ UNCHANGED <<da, result, luck, hash>>
  /\ UNCHANGED <<used, spent, failed>> /\ UNCHANGED call

\* The hash of the user name is calculated and compared.
CheckUserhash ==
  /\ pc = "username" /\ h.userhash
  /\ LET d == Finished(Updated(da, <<"username", "realm">>))
     IN \/ app.ext_error /\ luck' = FALSE /\ Return("ERROR") /\ UNCHANGED <<tmp1, failed>>
        \/ Wrong("username") /\ Return("WRONG_USERNAME") /\ UNCHANGED <<tmp1, luck, failed>>
        \/ /\ ~ Wrong("username") /\ pc' = "count" /\ da' = Reset(d) /\ tmp1' = "hex"
           /\ failed' = failed \cup UpdateAsserts(da) \cup ResetAsserts(d)
           /\ UNCHANGED <<result, luck, tmp2, heap>>
  /\ UNCHANGED <<ref, hash, used, spent, outside>> /\ UNCHANGED call

CheckPlainName ==
  /\ pc = "username" /\ ~ h.userhash /\ Has("username") /\ pc' = "count"
  /\ UNCHANGED <<tmp1, tmp2, heap, ref, da, hash, used, result, luck, spent, failed, outside>> /\ UNCHANGED call

-----------------------------------------------------------------------------
(* Nonce and count *)

Count == IF h.qop = "NONE" THEN 1 ELSE h.count

CountRefusal ==
  IF h.qop = "NONE" THEN NULL
  ELSE IF Wrong("nc") THEN "WRONG_HEADER"
  ELSE IF app.max_nc # 0 /\ app.max_nc < h.count THEN "NONCE_STALE"
  ELSE NULL

\* The count as a number; its text always fits the buffer on the stack.
CheckCount ==
  /\ pc = "count"
  /\ tmp1' = IF h.qop # "NONE" /\ P("nc").quoted THEN "nc" ELSE tmp1
  /\ failed' = failed \cup (IF h.qop # "NONE" THEN UnquoteAsserts("nc") ELSE {})
  /\ \/ CountRefusal # NULL /\ Return(CountRefusal)
     \/ CountRefusal = NULL /\ pc' = "nonce" /\ UNCHANGED <<da, result, tmp2, heap>>
  /\ UNCHANGED <<ref, hash, used, luck, spent, outside>> /\ UNCHANGED call

\* The length, the form and the age of the nonce; then check_nonce_nc().
NonceRefusal ==
  IF Wrong("nonce_form") THEN "NONCE_WRONG"
  ELSE IF Wrong("nonce_age") THEN "NONCE_STALE"
  ELSE IF Wrong("nonce") THEN "NONCE_WRONG"
  ELSE IF <<h.nonce, Count>> \in used THEN "NONCE_STALE"
  ELSE NULL

\* A slip: the count is taken before the age is looked at.
MutantTakesCount == ~ Wrong("nonce_form") /\ ~ Wrong("nonce")

\* check_nonce_nc() takes the count when nothing is wrong with the nonce.
TakesCount == NonceRefusal = NULL

CheckNonce ==
  /\ pc = "nonce"
  /\ \E b \in UnquoteBuffers("nonce") :
       \/ NoBuffer(b, P("nonce").len, "ERROR") /\ UNCHANGED <<used, spent>>
       \/ /\ b.at # NULL
          /\ used' = IF TakesCount THEN used \cup {<<h.nonce, Count>>} ELSE used
          /\ spent' = TakesCount
          /\ \/ /\ NonceRefusal # NULL /\ ReturnWith(b, NonceRefusal)
                /\ UNCHANGED <<tmp1, ref, hash, luck, outside>>
             \/ /\ NonceRefusal = NULL /\ get_unquoted_param("nonce", b)
                /\ pc' = "uri" /\ UNCHANGED <<da, result, luck, hash>>
  /\ failed' = failed \cup UnquoteAsserts("nonce") /\ UNCHANGED call

-----------------------------------------------------------------------------
(* H(A2) and the URI *)

\* test_header() and check_argument_match(): the arguments of the header's URI are those
\* of the request, one by one, and as many.
ArgumentsMatch == (\A k \in DOMAIN h.args : k <= Len(app.args) /\ h.args[k] = app.args[k]) /\ Len(h.args) = Len(app.args)

\* check_uri_match()
UriMatches == ~ Wrong("uri") /\ ArgumentsMatch

\* A slip: no room for the terminator that is written behind the copy.
MutantCopySize(p) == P(p).len

\* get_unquoted_param_copy(): one character more than the value.
CopySize(p) == P(p).len + 1

\* A slip: the URI is checked, and cut at its arguments, before it is hashed.
MutantUriText == "uri cut"

\* The copy is hashed before check_uri_match() modifies it.
UriText == "uri"

CheckUri ==
  /\ pc = "uri"
  /\ \E b \in get_buffer_for_size(CopySize("uri")) :
       \/ NoBuffer(b, CopySize("uri"), "ERROR") /\ failed' = failed \cup UnquoteAsserts("uri")
       \/ /\ b.at # NULL
          /\ failed' = failed \cup UnquoteAsserts("uri") \cup UpdateAsserts(da)
                         \cup (IF da.hashing THEN {"hashing"} ELSE {})
          /\ LET written == P("uri").len + (IF P("uri").quoted THEN 0 ELSE 1)
             IN \/ /\ ~ UriMatches /\ ReturnWith(b, "WRONG_URI")
                   /\ outside' = (outside \/ written > SizeOf(b))
                   /\ UNCHANGED <<tmp1, ref, hash, luck>>
                \/ /\ UriMatches /\ Write(b, "uri cut", written)
                   /\ hash' = [hash EXCEPT !.two = <<"method", UriText>>]
                   /\ da' = Finished(Updated(da, <<"method", UriText>>))
                   /\ pc' = "a1" /\ UNCHANGED <<result, luck>>
  /\ UNCHANGED <<used, spent>> /\ UNCHANGED call

-----------------------------------------------------------------------------
(* H(A1) and the response *)

\* H(A1) from the password, or given as userdigest; its digits are hashed from tmp1.
HashA1 ==
  /\ pc = "a1"
  /\ LET d1 == IF app.userdigest THEN da ELSE Finished(Updated(Reset(da), <<"user", "realm", "password">>))
     IN \/ app.ext_error /\ luck' = FALSE /\ Return("ERROR") /\ UNCHANGED <<hash, tmp1, failed>>
        \/ /\ hash' = [hash EXCEPT !.one = <<"A1">>] /\ tmp1' = "H(A1)"
           /\ da' = Updated(Reset(d1), <<"H(A1)">>) /\ pc' = "response"
           /\ failed' = failed \cup ResetAsserts(d1)
                          \cup (IF app.userdigest THEN {} ELSE ResetAsserts(da) \cup UpdateAsserts(Reset(da)))
                          \cup (IF d1.hashing THEN {"hashing"} ELSE {})
           /\ UNCHANGED <<result, luck, tmp2, heap>>
  /\ UNCHANGED <<ref, used, spent, outside>> /\ UNCHANGED call

\* The client's response takes the place of H(A1).
TakeResponse ==
  /\ pc = "response"
  /\ \E b \in UnquoteBuffers("response") :
       \/ NoBuffer(b, P("response").len, "ERROR")
       \/ /\ b.at # NULL /\ Wrong("response_hex") /\ ReturnWith(b, "RESPONSE_WRONG")
          /\ UNCHANGED <<tmp1, ref, hash, luck, outside>>
       \/ /\ b.at # NULL /\ ~ Wrong("response_hex") /\ get_unquoted_param("response", b)
          /\ hash' = [hash EXCEPT !.one = <<ReadAt(ref', "response")>>]
          /\ pc' = "hash_nonce" /\ UNCHANGED <<da, result, luck>>
  /\ failed' = failed \cup UnquoteAsserts("response") /\ UNCHANGED <<used, spent>> /\ UNCHANGED call

Following(step) ==
  CASE step = "hash_nonce" -> IF h.qop # "NONE" THEN "hash_nc" ELSE "compare"
    [] step = "hash_nc" -> "hash_cnonce"
    [] step = "hash_cnonce" -> "hash_qop"
    [] step = "hash_qop" -> "compare"
Hashed(step) ==
  CASE step = "hash_nonce" -> "nonce" [] step = "hash_nc" -> "nc"
    [] step = "hash_cnonce" -> "cnonce" [] step = "hash_qop" -> "qop"

\* The texts of nonce, count, client nonce and qop are hashed one after the other, each from
\* the header or from the buffer it has been written to.
HashParam ==
  /\ pc \in {"hash_nonce", "hash_nc", "hash_cnonce", "hash_qop"}
  /\ LET p == Hashed(pc)
     IN \E b \in UnquoteBuffers(p) :
          \/ NoBuffer(b, P(p).len, "ERROR") /\ failed' = failed \cup UnquoteAsserts(p)
          \/ /\ b.at # NULL /\ get_unquoted_param(p, b)
             /\ da' = Updated(da, <<ReadAt(ref', p)>>)
             /\ failed' = failed \cup UnquoteAsserts(p) \cup UpdateAsserts(da)
             /\ pc' = Following(pc) /\ UNCHANGED <<result, luck, hash>>
  /\ UNCHANGED <<used, spent>> /\ UNCHANGED call

Expected ==
  <<"H(A1)", "nonce">> \o (IF h.qop = "NONE" THEN <<>> ELSE <<"nc", "cnonce", "qop">>) \o <<"H(A2)">>

\* H(A2) is added, and the result compared with the client's.
Compare ==
  /\ pc = "compare"
  /\ LET d == Updated(da, <<"H(A2)">>)
     IN \/ app.ext_error /\ luck' = FALSE /\ Return("ERROR") /\ UNCHANGED <<tmp1, hash, failed>>
        \/ /\ hash' = [hash EXCEPT !.two = IF @ = <<"method", "uri">> THEN d.input ELSE <<>>]
           /\ tmp1' = "H(A2)" /\ failed' = failed \cup UpdateAsserts(da) /\ UNCHANGED luck
           /\ IF hash.one = <<"response">> /\ ~ Wrong("response") /\ hash'.two = Expected
                THEN pc' = "bind" /\ da' = Finished(d) /\ UNCHANGED <<result, tmp2, heap>>
                ELSE Return("RESPONSE_WRONG")
  /\ UNCHANGED <<ref, used, spent, outside>> /\ UNCHANGED call

\* A slip: a nonce is accepted in any condition.
MutantOtherConditions == FALSE

OtherConditions == app.bind /\ Wrong("conditions")

\* The nonce is calculated again from this request if it is bound to its conditions.
CheckBinding ==
  /\ pc = "bind"
  /\ failed' = failed \cup (IF app.bind THEN ResetAsserts(da) ELSE {})
  /\ tmp1' = IF app.bind THEN "nonce" ELSE tmp1
  /\ \/ app.bind /\ app.ext_error /\ luck' = FALSE /\ Return("ERROR")
     \/ UNCHANGED luck /\ Return(IF OtherConditions THEN "NONCE_OTHER_COND" ELSE "OK")
  /\ UNCHANGED <<ref, hash, used, spent, outside>> /\ UNCHANGED call

Next ==
  \/ Request \/ CheckSetup \/ CheckPresence \/ CheckPlainName \/ CheckExtended \/ CheckUserhash
  \/ CheckCount \/ CheckNonce \/ CheckUri \/ HashA1 \/ TakeResponse \/ HashParam \/ Compare \/ CheckBinding

Spec == Init /\ [][Next]_vars

-----------------------------------------------------------------------------
(* Properties *)

Answered == pc = "idle" /\ result # NULL

\* All that a header must say, and no more: how it is written does not matter.
RightHeader ==
  /\ h # NULL /\ h.algo = "BASE" /\ "BASE" \in app.algos
  /\ h.qop = "INVALID" \/ (h.qop \in app.qops /\ h.qop # "AUTH_INT")
  /\ h.wrong \subseteq (IF app.bind THEN {} ELSE {"conditions"}) \cup (IF h.qop = "NONE" THEN {"nc"} ELSE {})
                      \cup (IF Has("username_ext") THEN {} ELSE {"ext_notation"})
  /\ h.args = app.args
  /\ Has("username") # Has("username_ext") /\ (h.userhash => Has("username"))
  /\ IF h.userhash THEN P("username").len \in 2 * DigestSize..4 * DigestSize
     ELSE IF Has("username") THEN P("username").len > 0 ELSE P("username_ext").len >= ExtMin
  /\ \A p \in {"realm", "uri", "nonce", "response"} : Has(p) /\ P(p).len > 0
  /\ P("nonce").len <= 2 * StdLen /\ P("response").len <= 4 * DigestSize
  /\ h.qop # "NONE" => Has("nc") /\ Has("cnonce") /\ P("nc").len \in 1..4 * NcLen /\ P("cnonce").len > 0
  /\ app.max_nc = 0 \/ h.qop = "NONE" \/ h.count <= app.max_nc

\* What a right header may be refused for with the counts of u: its count has been used, a
\* value is too large, or its text does not fit into a buffer with its terminator (the uri)
\* or at all (a qop that is not known and written with escapes).
Excused(r, u) ==
  \/ r = "NONCE_STALE" /\ <<h.nonce, Count>> \in u
  \/ r = "TOO_LARGE" /\ \E p \in {"realm", "cnonce", "uri", "username_ext"} : Has(p) /\ P(p).len > MaxParam
  \/ r = "ERROR" /\ (P("uri").len = MaxParam \/ (Has("qop") /\ P("qop").len > MaxParam))

\* A request is authenticated only if its header is right and its count has been taken by no
\* other; and a right header is authenticated, unless its count was used, memory failed or a
\* value is too large for the buffers, in any mixture of escaped, long and short values.
\* Code: digest_auth_check_all_inner().
Authentic ==
  Answered =>
    /\ result = "OK" => RightHeader /\ spent
    /\ RightHeader /\ luck /\ result # "OK" => Excused(result, used)

\* A count is used up only by a request with the right user name and realm and a nonce of
\* this server; a request refused before that can be sent again with the same count.
CountSpentLate ==
  Answered /\ spent => result \in {"OK", "WRONG_URI", "RESPONSE_WRONG", "NONCE_OTHER_COND", "ERROR"}

\* No text is written behind the end of the buffer it is put in, and the buffer from
\* malloc() is freed whichever way the call ends.
BuffersRight == ~ outside /\ (pc = "idle" => heap = 0) /\ heap = (IF tmp2 = NULL THEN 0 ELSE 1)

\* The assertions that a request can make fail: an empty realm or user name is compared, and
\* an empty qop, which is of no kind that is known and therefore not refused, is hashed.
KnownFailures == {<<"empty", "realm">>, <<"empty", "username">>, <<"empty", "qop">>}

\* What is hashed are the values of the header, although they pass through two buffers that
\* are overwritten again and again; and no assertion about the digest or about a value that is
\* unquoted fails but the three of KnownFailures.
HashedAsSent ==
  /\ pc = "compare" => hash.two = <<"method", "uri">> /\ da.input \o <<"H(A2)">> = Expected
  /\ failed \subseteq KnownFailures

\* What digest_auth_check_all() promises: the right answers, counts that are not wasted, and
\* buffers and digest used as they must be.
CheckedRightly == Authentic /\ CountSpentLate /\ BuffersRight /\ HashedAsSent
=============================================================================
