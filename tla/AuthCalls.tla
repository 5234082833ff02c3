----------------------------- MODULE AuthCalls -----------------------------
(***************************************************************************)
(* The calls of digestauth.c and basicauth.c an application makes around   *)
(* the check of a request: those that report who the client says it is,    *)
(* and those that challenge it.  Both lay out several strings in one       *)
(* allocation whose size they work out beforehand.                         *)
(*                                                                         *)
(* Text is sequences of character codes, as in mhd_str.c.  The fixed words *)
(* of a challenge are single codes below zero; the parameters of a header  *)
(* are as MHD_get_rq_dauth_params_() leaves them.                          *)
(***************************************************************************)
EXTENDS MhdStr

CONSTANTS
  NULL,
  DigestRequests,  \* headers with the scheme Digest, NULL for none that is valid
  BasicRequests,   \* likewise with the scheme Basic: what the token decodes to
  DigestArgs,      \* for every challenge arguments of MHD_queue_auth_required_response3()
  BasicArgs,       \* likewise of MHD_queue_basic_auth_required_response3()
  Prefix,          \* MHD_DAUTH_EXT_PARAM_PREFIX
  UnqSize,         \* 16, the size of a buffer on the stack
  MaxParam,        \* _MHD_AUTH_DIGEST_MAX_PARAM_SIZE
  NonceText        \* the nonces that are generated

VARIABLES
  asked,     \* the header a call is about, or the arguments of the call
  answer,    \* what the call returned
  mem,       \* the memory it returned, or NULL
  blocks,    \* allocations that are live
  pc,        \* the next step of a challenge
  buf,       \* its buffer, or NULL
  response,  \* the values of the WWW-Authenticate headers of the response
  queued,    \* has the response been queued?
  luck,      \* no allocation has failed in this call
  calls,     \* challenges so far
  failed     \* assertions that did not hold, and writes outside of a buffer

vars == <<asked, answer, mem, blocks, pc, buf, response, queued, luck, calls, failed>>

Init ==
  /\ asked = NULL /\ answer = NULL /\ mem = NULL /\ blocks = 0 /\ pc = "idle" /\ buf = NULL
  /\ response = <<>> /\ queued = FALSE /\ luck = TRUE /\ calls = 0 /\ failed = {}

-----------------------------------------------------------------------------
(* Memory *)

NUL == 0
QUOTE == 39
CR == 13
LF == 10
Garbage == 255

Fresh(n) == [k \in 1..n |-> NUL]
Put(m, at, bytes) == [k \in DOMAIN m |-> IF k \in at + 1..at + Len(bytes) THEN bytes[k - at] ELSE m[k]]
Outside(m, at, n) == IF at + n > Len(m) THEN {"outside"} ELSE {}

\* A string in the memory: where it starts and its length.
At(k, n) == [at |-> k, len |-> n]
Bytes(m, r) == SubSeq(m, r.at + 1, r.at + r.len)
Ended(m, r) == m[r.at + r.len + 1] = NUL

-----------------------------------------------------------------------------
(* Names *)

ShortestExt == Len(Prefix) + 1

get_rq_uname_type(p) ==
  CASE p.username # NULL /\ p.username_ext # NULL -> "INVALID"
    [] p.username # NULL /\ p.username_ext = NULL -> IF p.userhash THEN "USERHASH" ELSE "STANDARD"
    [] p.username = NULL /\ p.username_ext # NULL ->
         IF ~ p.username_ext.quoted /\ ~ p.userhash /\ ShortestExt <= Len(p.username_ext.value) THEN "EXTENDED" ELSE "INVALID"
    [] p.username = NULL /\ p.username_ext = NULL -> "MISSING"

\* A slip: the bytes of a hash of an odd number of digits are not rounded up.
Mutantget_rq_unames_size(p, type) ==
  CASE type = "STANDARD" -> Len(p.username.value) + 1
    [] type = "USERHASH" -> Len(p.username.value) + 1 + Len(p.username.value) \div 2
    [] type = "EXTENDED" -> Len(p.username_ext.value) - ShortestExt + 1
    [] OTHER -> 0

get_rq_unames_size(p, type) ==
  CASE type = "STANDARD" -> Len(p.username.value) + 1
    [] type = "USERHASH" -> Len(p.username.value) + 1 + (Len(p.username.value) + 1) \div 2
    [] type = "EXTENDED" -> Len(p.username_ext.value) - ShortestExt + 1
    [] OTHER -> 0

\* The text without escapes; a terminator follows it.
get_rq_param_unquoted_copy_z(v) == IF v.quoted THEN MHD_str_unquote(v.value) ELSE v.value
CopyAsserts(v) ==
  LET n == Len(get_rq_param_unquoted_copy_z(v))
  IN IF v.quoted /\ ~ (0 # n /\ n < Len(v.value)) THEN {"unquoted"} ELSE {}

\* The name behind the prefix and a language tag, or NULL.
get_rq_extended_uname_copy_z(ext, size) ==
  LET tagged == {k \in Len(Prefix) + 1..Len(ext) : ext[k] = QUOTE}
      r == Min(tagged)
      bad == {SP, HT, DQUOTE, COMMA, 59}
      enc == SubSeq(ext, r + 1, Len(ext))
      \* What follows the value in the header is not a digit.
      dec == MHD_str_pct_decode_strict_n_(enc \o <<NUL>>, Len(enc), size)
  IN IF \/ ~ MHD_str_equal_caseless_bin_n_(ext, Prefix, Len(Prefix))
        \/ tagged = {} \/ \E k \in Len(Prefix) + 1..r - 1 : ext[k] \in bad
        \/ (dec.len = 0 /\ enc # <<>>)
     THEN NULL ELSE dec.out

NoNames == [type |-> "INVALID", username |-> NULL, hex |-> NULL, bin |-> NULL]

\* The name, or a hash of it as text and as bytes, is written to the beginning of m.
get_rq_uname(p, type, m) ==
  IF type = "EXTENDED" THEN
    LET name == get_rq_extended_uname_copy_z(p.username_ext.value, Len(m))
    IN IF name = NULL THEN [info |-> NoNames, m |-> m, used |-> 0, failed |-> {}]
       ELSE [info |-> [NoNames EXCEPT !.type = type, !.username = At(0, Len(name))],
             m |-> Put(m, 0, name \o <<NUL>>), used |-> Len(name) + 1, failed |-> Outside(m, 0, Len(name) + 1)]
  ELSE
    LET text == get_rq_param_unquoted_copy_z(p.username)
        n == Len(text)
        one == Put(m, 0, text \o <<NUL>>)
        bin == MHD_hex_to_bin(text)
        good == Len(bin) = n \div 2
        raw == IF bin = Zero THEN [k \in 1..(n + 1) \div 2 |-> Garbage] ELSE bin
        asserts == CopyAsserts(p.username) \cup Outside(m, 0, n + 1)
    IN IF type = "STANDARD"
       THEN [info |-> [NoNames EXCEPT !.type = type, !.username = At(0, n)], m |-> one, used |-> n + 1, failed |-> asserts]
       ELSE [info |-> [NoNames EXCEPT !.type = IF good THEN type ELSE "INVALID", !.hex = At(0, n),
                                      !.bin = IF good /\ bin # Zero THEN At(n + 1, Len(bin)) ELSE NULL],
             m |-> Put(one, n + 1, raw), used |-> n + 1 + (IF good THEN Len(bin) ELSE 0),
             failed |-> asserts \cup Outside(m, n + 1, Len(raw))]

\* get_rq_nc(): a number of 32 bits in hexadecimal digits.
get_rq_nc(v) ==
  LET text == IF v.quoted THEN MHD_str_unquote(v.value) ELSE v.value
      num == MHD_strx_to_uint64_n_(text, Len(text))
      Res(r) == [res |-> r, nc |-> IF r = "VALID" THEN num.val ELSE 0]
  IN IF v = NULL THEN [res |-> "NONE", nc |-> 0]
     ELSE IF v.value = <<>> THEN [res |-> "BROKEN", nc |-> 0]
     ELSE IF v.quoted /\ UnqSize < Len(v.value) THEN [res |-> "TOO_LONG", nc |-> 0]
     ELSE IF text = <<>> THEN [res |-> "BROKEN", nc |-> 0]
     ELSE IF num.len = 0 THEN Res(IF IsHex(text[1]) THEN "TOO_LARGE" ELSE "BROKEN")
     ELSE IF num.len # Len(text) THEN Res("BROKEN")
     ELSE IF UINT32_MAX < num.val THEN Res("TOO_LARGE")
     ELSE Res("VALID")

\* One string more behind what is used of the memory.
Added(r, name, v) ==
  IF v = NULL THEN r
  ELSE LET text == get_rq_param_unquoted_copy_z(v)
       IN [r EXCEPT !.m = Put(@, r.used, text \o <<NUL>>), !.used = @ + Len(text) + 1,
                    !.info[name] = At(r.used, Len(text)),
                    !.failed = @ \cup CopyAsserts(v) \cup Outside(r.m, r.used, Len(text) + 1)]
SizeOf(v) == IF v = NULL THEN 0 ELSE Len(v.value) + 1

Returned(a, m, n, bad) ==
  /\ answer' = a /\ mem' = m /\ blocks' = blocks + n /\ failed' = failed \cup bad
  /\ UNCHANGED <<buf, response, queued, calls>>

MHD_digest_auth_get_request_info3(p) ==
  LET type == get_rq_uname_type(p)
      size == get_rq_unames_size(p, type) + SizeOf(p.opaque) + SizeOf(p.realm)
      none == [info |-> [NoNames EXCEPT !.type = type], m |-> Fresh(size), used |-> 0, failed |-> {}]
      named == IF type \in {"MISSING", "INVALID"} THEN none
               ELSE get_rq_uname(p, type, Fresh(size))
      full == [named EXCEPT !.info = [type |-> @.type, username |-> @.username, hex |-> @.hex, bin |-> @.bin,
                                      opaque |-> NULL, realm |-> NULL, nc |-> get_rq_nc(p.nc).nc]]
      all == Added(Added(full, "opaque", p.opaque), "realm", p.realm)
  IN Returned(all.info, all.m, 1, all.failed \cup IF size < all.used THEN {"size"} ELSE {})

MHD_digest_auth_get_username3(p) ==
  LET type == get_rq_uname_type(p)
      size == get_rq_unames_size(p, type)
      u == get_rq_uname(p, type, Fresh(size))
  IN IF type \in {"MISSING", "INVALID"} THEN Returned(NULL, NULL, 0, {})
     ELSE IF u.info.type = "INVALID" THEN Returned(NULL, NULL, 0, u.failed)
     ELSE Returned(u.info, u.m, 1, u.failed \cup IF size < u.used THEN {"size"} ELSE {})

\* Without the hash; an allocation that fails is noticed here only.
MHD_digest_auth_get_username(p) ==
  LET type == get_rq_uname_type(p)
      size == get_rq_unames_size(p, type)
      u == get_rq_uname(p, type, Fresh(size))
  IN IF type \notin {"STANDARD", "EXTENDED"} \/ ~ luck' THEN Returned(NULL, NULL, 0, {})
     ELSE IF u.info.type # type THEN Returned(NULL, NULL, 0, u.failed)
     ELSE Returned(u.info, u.m, 1, u.failed \cup IF size < u.used THEN {"size"} ELSE {})

AskDigestName ==
  /\ asked = NULL /\ pc' = "returned"
  /\ \E p \in DigestRequests, call \in {"info3", "username3", "username"}, l \in BOOLEAN :
       /\ asked' = [call |-> call, p |-> p] /\ luck' = l
       /\ l \/ call = "username"
       /\ CASE p = NULL -> Returned(NULL, NULL, 0, {})
            [] p # NULL /\ call = "info3" -> MHD_digest_auth_get_request_info3(p)
            [] p # NULL /\ call = "username3" -> MHD_digest_auth_get_username3(p)
            [] p # NULL /\ call = "username" -> MHD_digest_auth_get_username(p)

\* The token is decoded behind the structure; the colon becomes the terminator of the name.
MHD_basic_auth_get_username_password3(t) ==
  LET max == 3 * ((Len(t.text) + 2) \div 3)
      n == Len(t.text)
      colons == {k \in 1..n : t.text[k] = 58}
      user == IF colons = {} THEN n ELSE Min(colons) - 1
      m == Put(Fresh(max + 1), 0, t.text)
      ended == IF colons = {} THEN m ELSE Put(m, n, <<NUL>>)
  IN [info |-> [username |-> At(0, user), password |-> IF colons = {} THEN NULL ELSE At(user + 1, n - user - 1)],
      m |-> Put(ended, user, <<NUL>>), failed |-> Outside(m, n, 1)]

\* The old call copies the name, and the password if wanted, and fails if there is none.
AskBasicName ==
  /\ asked = NULL /\ pc' = "returned"
  /\ \E t \in BasicRequests, old \in BOOLEAN, want \in BOOLEAN, l \in [{"info", "name", "password"} -> BOOLEAN] :
       LET r == MHD_basic_auth_get_username_password3(t)
           copied == l["name"] /\ (want => l["password"])
       IN /\ asked' = [call |-> IF old THEN "old basic" ELSE "basic", p |-> t]
          /\ luck' = (l["info"] /\ (old => copied))
          /\ old \/ (copied /\ ~ want)
          /\ IF t = NULL \/ ~ l["info"] THEN Returned(NULL, NULL, 0, {})
             ELSE IF ~ t.good THEN Returned(NULL, NULL, 0, {})
             ELSE IF ~ old THEN Returned(r.info, r.m, 1, r.failed)
             ELSE IF r.info.password = NULL \/ ~ copied THEN Returned(NULL, NULL, 0, r.failed)
             ELSE Returned(r.info, r.m, IF want THEN 2 ELSE 1, r.failed)

-----------------------------------------------------------------------------
(* Challenges *)

\* The fixed words.
DigestWord == <<-1, SP>>
Word(name) ==
  <<CASE name = "realm" -> -2 [] name = "qop" -> -3 [] name = "algorithm" -> -4 [] name = "nonce" -> -5
      [] name = "opaque" -> -6 [] name = "domain" -> -7 [] name = "charset" -> -8 [] name = "userhash" -> -9
      [] name = "stale" -> -10 [] name = "auth" -> -11 [] name = "MD5" -> -12 [] name = "SHA256" -> -13
      [] name = "SHA512_256" -> -14 [] name = "Basic" -> -15>>
Close == <<DQUOTE, COMMA, SP>>
Comma == <<COMMA, SP>>

HasBreak(s) == \E k \in DOMAIN s : s[k] \in {CR, LF}
QuotedRoom(s) == IF s = NULL THEN 0 ELSE 1 + 3 + Len(s) * 2

\* MD5 is preferred, then SHA-256.
Selected(algos) ==
  CASE "MD5" \in algos -> "MD5" [] "MD5" \notin algos /\ "SHA256" \in algos -> "SHA256" [] OTHER -> "SHA512_256"
\* Only RFC 2069 is left: no qop, and MD5 goes without saying.
Plain(a) == a.qop \ {"AUTH_INT"} = {"NONE"}
Named(a) == ~ Plain(a) \/ Selected(a.algos) # "MD5"

\* The calculated size.
BufSize(a) ==
  Len(DigestWord) + QuotedRoom(a.realm)
  + (IF Plain(a) THEN 0 ELSE 1 + 3 + 1) + (IF Named(a) THEN 1 + 2 + 1 ELSE 0)
  + 1 + 3 + Len(NonceText[1]) + QuotedRoom(a.opaque) + QuotedRoom(a.domain)
  + (IF a.utf8 /\ ~ Plain(a) THEN 3 ELSE 0) + (IF a.userhash /\ ~ Plain(a) THEN 3 ELSE 0) + (IF a.stale THEN 3 ELSE 0)

\* The inner function returns: the buffer is freed unless the response has it.
GiveUp(r) ==
  /\ pc' = "idle" /\ answer' = r /\ buf' = NULL /\ blocks' = IF buf = NULL THEN blocks ELSE blocks - 1

\* The checks of the arguments and the size.
AskDigest ==
  /\ pc = "idle" /\ calls < Len(DigestArgs) /\ calls' = calls + 1
  /\ \E a \in DigestArgs[calls + 1] :
       /\ asked' = [call |-> "digest", p |-> a] /\ luck' = TRUE /\ queued' = FALSE
       /\ IF \/ ~ a.nonsession \/ a.session \/ a.table = 0
             \/ MaxParam < Len(a.realm) \/ HasBreak(a.realm)
             \/ (a.opaque # NULL /\ HasBreak(a.opaque))
             \/ (a.domain # NULL /\ HasBreak(a.domain))
          THEN pc' = "idle" /\ answer' = "NO"
          ELSE pc' = "realm" /\ answer' = NULL
  /\ UNCHANGED <<mem, blocks, buf, response, failed>>

Append2(b, s) == [b EXCEPT !.text = @ \o s]
Behind(b) == b.size - Len(b.text)
QuotedInto(b, name, s) ==
  IF s = NULL THEN b ELSE LET c == Append2(b, Word(name)) IN Append2(c, MHD_str_quote(s, Behind(c)) \o Close)
RoomAssert(b, s) == IF s # NULL /\ Behind(b) - 1 < 2 * Len(s) THEN {"room"} ELSE {}

\* A slip: the size of the quoted realm is compared with the size of the realm.
MutantBuildRealm ==
  /\ pc = "realm"
  /\ \E l \in BOOLEAN :
       LET a == asked.p
           b == [size |-> BufSize(a), text |-> DigestWord]
           quoted == MHD_str_quote(a.realm, Behind(b) - 1)
           rest == (IF Plain(a) THEN <<>> ELSE Word("qop") \o Word("auth") \o Close)
                   \o (IF Named(a) THEN Word("algorithm") \o Word(Selected(a.algos)) \o Comma ELSE <<>>)
       IN /\ luck' = l
          /\ IF ~ l THEN GiveUp("NO") /\ UNCHANGED failed
             ELSE /\ failed' = failed \cup RoomAssert(b, a.realm)
                  /\ IF MaxParam < Len(quoted) THEN pc' = "idle" /\ answer' = "NO" /\ blocks' = blocks + 1 /\ UNCHANGED buf
                     ELSE /\ pc' = "nonce" /\ blocks' = blocks + 1 /\ UNCHANGED answer
                          /\ buf' = Append2(QuotedInto(b, "realm", a.realm), rest)
  /\ UNCHANGED <<asked, mem, response, queued, calls>>

\* The buffer; the realm, the qop and the algorithm.
BuildRealm ==
  /\ pc = "realm"
  /\ \E l \in BOOLEAN :
       LET a == asked.p
           b == [size |-> BufSize(a), text |-> DigestWord]
           quoted == MHD_str_quote(a.realm, Behind(b) - 1)
           rest == (IF Plain(a) THEN <<>> ELSE Word("qop") \o Word("auth") \o Close)
                   \o (IF Named(a) THEN Word("algorithm") \o Word(Selected(a.algos)) \o Comma ELSE <<>>)
       IN /\ luck' = l
          /\ IF ~ l THEN GiveUp("NO") /\ UNCHANGED failed
             ELSE /\ failed' = failed \cup RoomAssert(b, a.realm)
                  /\ IF MaxParam < Len(quoted) THEN GiveUp("NO")
                     ELSE /\ pc' = "nonce" /\ blocks' = blocks + 1 /\ UNCHANGED answer
                          /\ buf' = Append2(QuotedInto(b, "realm", a.realm), rest)
  /\ UNCHANGED <<asked, mem, response, queued, calls>>

\* calculate_add_nonce_with_retry() writes a nonce also if there is no place for it in the
\* table; only an error of an external hash calculation ends the call.
BuildNonce ==
  /\ pc = "nonce"
  /\ \/ \E k \in DOMAIN NonceText :
          /\ buf' = Append2(buf, Word("nonce") \o NonceText[k] \o Close)
          /\ pc' = "rest" /\ UNCHANGED <<blocks, answer, luck>>
     \/ GiveUp("NO") /\ luck' = FALSE
  /\ failed' = failed \cup IF Behind(buf) - 1 < Len(NonceText[1]) THEN {"room"} ELSE {}
  /\ UNCHANGED <<asked, mem, response, queued, calls>>

\* The rest; the last comma becomes the terminator.
BuildRest ==
  LET a == asked.p
      one == QuotedInto(buf, "opaque", a.opaque)
      two == QuotedInto(one, "domain", a.domain)
      flags == (IF a.utf8 /\ ~ Plain(a) THEN Word("charset") \o Comma ELSE <<>>)
               \o (IF a.userhash /\ ~ Plain(a) THEN Word("userhash") \o Comma ELSE <<>>)
               \o (IF a.stale THEN Word("stale") \o Comma ELSE <<>>)
      all == Append2(two, flags)
  IN /\ pc = "rest" /\ pc' = "header"
     /\ failed' = failed \cup RoomAssert(buf, a.opaque) \cup RoomAssert(one, a.domain)
                         \cup IF all.size < Len(all.text) THEN {"size"} ELSE {}
     /\ buf' = [all EXCEPT !.text = SubSeq(@, 1, Len(@) - 2)]
     /\ UNCHANGED <<asked, answer, mem, blocks, response, queued, luck, calls>>

\* The header is put in the response, which owns its strings from then on, and the
\* response is queued, which the state of the connection may not allow.
AddHeader ==
  /\ pc = "header"
  /\ \/ GiveUp("NO") /\ luck' = FALSE /\ UNCHANGED <<response, queued>>
     \/ /\ response' = Append(response, buf.text) /\ buf' = NULL /\ blocks' = blocks + 2 /\ pc' = "idle"
        /\ \E q \in BOOLEAN : queued' = q /\ answer' = IF q THEN "YES" ELSE "NO"
        /\ UNCHANGED luck
  /\ UNCHANGED <<asked, mem, calls, failed>>

\* The challenge of Basic; the response gets copies.
MHD_queue_basic_auth_required_response3 ==
  /\ pc = "idle" /\ calls < Len(BasicArgs) /\ calls' = calls + 1 /\ pc' = "idle" /\ buf' = NULL
  /\ \E a \in BasicArgs[calls + 1], l \in [{"buffer", "header"} -> BOOLEAN], q \in BOOLEAN :
       LET suffix == IF a.utf8 THEN Close \o Word("charset") ELSE <<DQUOTE>>
           max == 1 + Len(a.realm) * 2 + Len(suffix)
           text == Word("Basic") \o MHD_str_quote(a.realm, max - 1 - Len(suffix)) \o suffix
           adds == l["buffer"] /\ l["header"] /\ ~ HasBreak(text)
       IN /\ asked' = [call |-> "basic challenge", p |-> a] /\ luck' = (l["buffer"] /\ l["header"])
          /\ failed' = failed \cup IF Len(text) > max THEN {"size"} ELSE {}
          /\ IF adds THEN response' = Append(response, text) /\ blocks' = blocks + 3
                     ELSE UNCHANGED <<response, blocks>>
          /\ queued' = (adds /\ q) /\ answer' = IF adds /\ q THEN "YES" ELSE "NO"
  /\ UNCHANGED mem

Next ==
  \/ AskDigestName \/ AskBasicName
  \/ AskDigest \/ BuildRealm \/ BuildNonce \/ BuildRest \/ AddHeader
  \/ MHD_queue_basic_auth_required_response3
Spec == Init /\ [][Next]_vars

-----------------------------------------------------------------------------
(* Properties *)

\* A character is written with an escape if the backslashes before it are odd in number.
IsEscape(s, k) ==
  s[k] = BACKSLASH /\ Max({n \in 0..k - 1 : \A j \in k - n..k - 1 : s[j] = BACKSLASH}) % 2 = 0
Meant(v) ==
  IF ~ v.quoted THEN v.value
  ELSE LET kept == SetToSortSeq({k \in DOMAIN v.value : ~ IsEscape(v.value, k)}, <)
       IN [k \in DOMAIN kept |-> v.value[kept[k]]]

\* In extended notation every percent sign begins a character.
WellEncoded(s) == \A k \in DOMAIN s : s[k] = PERCENT => k + 2 <= Len(s) /\ IsHex(s[k + 1]) /\ IsHex(s[k + 2])
DecodedName(s) ==
  LET starts == SetToSortSeq({k \in DOMAIN s : \A j \in {k - 1, k - 2} \cap DOMAIN s : s[j] # PERCENT}, <)
  IN [n \in DOMAIN starts |-> IF s[starts[n]] = PERCENT THEN Byte(s[starts[n] + 1], s[starts[n] + 2]) ELSE s[starts[n]]]
ExtendedName(v) ==
  LET cuts == {k \in Len(Prefix) + 1..Len(v) :
                 /\ v[k] = QUOTE
                 /\ \A j \in Len(Prefix) + 1..k - 1 : v[j] \notin {QUOTE, SP, HT, DQUOTE, COMMA, 59}
                 /\ WellEncoded(SubSeq(v, k + 1, Len(v)))}
  IN IF cuts = {} \/ \E k \in DOMAIN Prefix : toasciilower(v[k]) # toasciilower(Prefix[k]) THEN NULL
     ELSE LET k == CHOOSE c \in cuts : TRUE IN DecodedName(SubSeq(v, k + 1, Len(v)))

\* A hash is an even number of hexadecimal digits.  The code also takes a single character
\* that is none: half of its length and the number of bytes it gives are both zero.
HashText(t) ==
  \/ Len(t) % 2 = 0 /\ \A k \in DOMAIN t : IsHex(t[k])
  \/ Len(t) = 1 /\ ~ IsHex(t[1])

\* What kind of name a header has, and the name.
Kind(p) ==
  CASE p.username # NULL /\ p.username_ext # NULL -> "INVALID"
    [] p.username # NULL /\ p.username_ext = NULL ->
         IF ~ p.userhash THEN "STANDARD"
         ELSE IF HashText(Meant(p.username)) THEN "USERHASH" ELSE "INVALID"
    [] p.username = NULL /\ p.username_ext # NULL ->
         IF p.username_ext.quoted \/ p.userhash \/ Len(p.username_ext.value) <= Len(Prefix) THEN "INVALID"
         ELSE IF ExtendedName(p.username_ext.value) = NULL THEN "INVALID" ELSE "EXTENDED"
    [] p.username = NULL /\ p.username_ext = NULL -> "MISSING"

\* An application reads this at the pointers it was given.
Reads(r, text) == r # NULL /\ Bytes(mem, r) = text /\ Ended(mem, r)

\* A number in hexadecimal digits that fits, or zero.
NumberOf(v) ==
  IF v = NULL THEN 0
  ELSE LET s == Meant(v)
           digits == s # <<>> /\ \A k \in DOMAIN s : IsHex(s[k])
           n == FoldLeft(LAMBDA a, c : IF a > UINT32_MAX THEN a ELSE 16 * a + toxdigitvalue(c), 0, s)
       IN IF ~ digits \/ (v.quoted /\ Len(v.value) > UnqSize) \/ n > UINT32_MAX THEN 0 ELSE n

\* What is reported of a client is what its header says: the name in whatever notation, its
\* hash as text and as bytes, and the strings behind it in the same memory, each whole and
\* terminated; a name that is not well formed is never reported as one; nothing is written
\* outside of what was allocated, and nothing is allocated but what is returned.
NamesReported ==
  /\ failed = {}
  /\ pc = "returned" /\ asked.call \in {"info3", "username3", "username"} =>
       LET p == asked.p
       IN /\ answer = NULL <=>
               p = NULL \/ ~ luck \/ CASE asked.call = "info3" -> FALSE
                                       [] asked.call = "username3" -> Kind(p) \in {"MISSING", "INVALID"}
                                       [] asked.call = "username" -> Kind(p) \notin {"STANDARD", "EXTENDED"}
          /\ blocks = (IF answer = NULL THEN 0 ELSE 1)
          /\ answer # NULL =>
               /\ answer.type = Kind(p)
               /\ answer.type = "STANDARD" => Reads(answer.username, Meant(p.username))
               /\ answer.type = "EXTENDED" => Reads(answer.username, ExtendedName(p.username_ext.value))
               /\ answer.type = "USERHASH" =>
                    LET t == Meant(p.username)
                    IN /\ Reads(answer.hex, t)
                       /\ Len(t) > 1 => Bytes(mem, answer.bin) = [k \in 1..Len(t) \div 2 |-> Byte(t[2 * k - 1], t[2 * k])]
               /\ asked.call = "info3" =>
                    /\ p.opaque # NULL => Reads(answer.opaque, Meant(p.opaque))
                    /\ p.realm # NULL => Reads(answer.realm, Meant(p.realm))
                    /\ answer.nc = NumberOf(p.nc)
  /\ pc = "returned" /\ asked.call \in {"basic", "old basic"} =>
       /\ answer = NULL <=> blocks = 0
       /\ answer # NULL =>
            LET t == asked.p.text
                cut == SelectInSeq(t, LAMBDA c : c = 58)
            IN /\ Reads(answer.username, IF cut = 0 THEN t ELSE SubSeq(t, 1, cut - 1))
               /\ answer.password = NULL <=> cut = 0
               /\ cut # 0 => Reads(answer.password, SubSeq(t, cut + 1, Len(t)))
       /\ answer = NULL <=> \/ asked.p = NULL \/ ~ luck \/ ~ asked.p.good
                            \/ (asked.call = "old basic" /\ 58 \notin ToSet(asked.p.text))

\* The challenge in full: the parameters that apply, separated by commas.
Quoted(name, s) == Word(name) \o FlattenSeq([k \in DOMAIN s |-> Escaped(s[k])]) \o <<DQUOTE>>
Challenge(a, nonce) ==
  LET rfc2069 == a.qop = {"NONE"}
      params ==
        <<Quoted("realm", a.realm)>>
        \o (IF rfc2069 THEN <<>> ELSE <<Word("qop") \o Word("auth") \o <<DQUOTE>>>>)
        \o (IF rfc2069 /\ "MD5" \in a.algos THEN <<>> ELSE <<Word("algorithm") \o Word(Selected(a.algos))>>)
        \o <<Word("nonce") \o nonce \o <<DQUOTE>>>>
        \o (IF a.opaque = NULL THEN <<>> ELSE <<Quoted("opaque", a.opaque)>>)
        \o (IF a.domain = NULL THEN <<>> ELSE <<Quoted("domain", a.domain)>>)
        \o (IF a.utf8 /\ ~ rfc2069 THEN <<Word("charset")>> ELSE <<>>)
        \o (IF a.userhash /\ ~ rfc2069 THEN <<Word("userhash")>> ELSE <<>>)
        \o (IF a.stale THEN <<Word("stale")>> ELSE <<>>)
  IN DigestWord \o FlattenSeq([k \in DOMAIN params |-> params[k] \o IF k < Len(params) THEN Comma ELSE <<>>])

\* A challenge says what the application asked for, in full or not at all, whichever of its
\* allocations fails: the response has one header more, with every parameter quoted and
\* terminated, or none; what is allocated belongs to the response; and no break of a line
\* gets into it.
ChallengeExact ==
  /\ failed = {}
  /\ pc = "idle" => buf = NULL /\ blocks = 3 * Len(response)
  /\ \A k \in DOMAIN response : ~ HasBreak(response[k])
  /\ pc = "idle" /\ answer = "YES" => queued
  /\ pc = "idle" /\ answer = "YES" /\ asked.call = "digest" =>
       \E k \in DOMAIN NonceText : Last(response) = Challenge(asked.p, NonceText[k])
  /\ pc = "idle" /\ answer = "YES" /\ asked.call = "basic challenge" =>
       Last(response) = Quoted("Basic", asked.p.realm) \o IF asked.p.utf8 THEN Comma \o Word("charset") ELSE <<>>
=============================================================================
