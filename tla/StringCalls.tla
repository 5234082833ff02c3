----------------------------- MODULE StringCalls -----------------------------
(***************************************************************************)
(* Each behaviour is one call of a function of mhd_str.c, with every       *)
(* argument from small alphabets that hold the characters the function     *)
(* tells apart.                                                            *)
(***************************************************************************)
EXTENDS MhdStr

CONSTANT Functions

VARIABLES call, done, result
vars == <<call, done, result>>

A == 97
B == 98
UpperB == 66

ListChars == {A, B, UpperB, SP, COMMA}
TokenArgs == {<<>>, <<A>>, <<A, B>>}
Lists == SeqOf(ListChars, 4)
NormalItems == {<<A>>, <<B>>, <<A, UpperB>>, <<A, SP, B>>}
Join(items) ==
  FlattenSeq([k \in DOMAIN items |-> IF k = 1 THEN items[k] ELSE <<COMMA, SP>> \o items[k]])
TokenLists == {<<A>>, <<B>>, <<A, B, COMMA, B>>, <<SP, B, SP, COMMA, COMMA, HT, A>>, <<A, SP, B>>}
Numerals == SeqOf({48, 49, 52, 53, 54, 57, 102, 120}, 4)
Values == {0, 1, 9, 10, 15, 16, 99, 100, 101, 255, 256, 999, 1000, 4095}
Values16 == Values \cup {9999, 10000, 10001, 65535}
PctStrings == SeqOf({PERCENT, 52, 49, 120}, 5)
Bins == SeqOf({0, 1, 64, 255}, 4)

\* The characters that end a parameter of a header follow it in memory.
Following == {0, DQUOTE, COMMA}

Calls ==
  [f : {"has_token"}, s : Lists, t : TokenArgs]
  \cup [f : {"remove_token"}, s : Lists, t : TokenArgs, size : {0, 3, 8}]
  \cup [f : {"remove_tokens"}, s : {Join(i) : i \in SeqOf(NormalItems, 3)}, t : TokenLists]
  \cup [f : {"number"}, s : Numerals, maxlen : {0, 2, 4}]
  \cup [f : {"print"}, val : Values16, size : 0..5]
  \cup [f : {"hex"}, s : SeqOf({48, 70, 97, 103}, 4), bin : {<<>>}]
  \cup [f : {"bin"}, bin : Bins]
  \cup [f : {"pct"}, s : PctStrings, next : Following, size : {0, 1, 2, 4, 6}]
  \cup [f : {"in_place"}, s : PctStrings]
  \cup [f : {"quote"}, s : SeqOf({DQUOTE, BACKSLASH, A}, 4), size : 0..8]
  \cup [f : {"quoted"}, s : SeqOf({DQUOTE, BACKSLASH, B, UpperB}, 4), u : SeqOf({BACKSLASH, B, UpperB}, 3)]
  \cup [f : {"base64"}, s : {p \o q : p \in {<<>>, <<65, 65, 66, 47>>, <<65, 61, 65, 65>>},
                                     q \in SeqOf({65, 81, 66, 47, 61, 33}, 4)}, size : {0, 1, 2, 3, 6}]
  \cup [f : {"encoded"}, bin : Bins, size : {4}]

-----------------------------------------------------------------------------
(* References *)

\* The comma-separated pieces of s without the whitespace around them.
Commas(s) == {k \in DOMAIN s : s[k] = COMMA}
Cuts(s) == SetToSortSeq(Commas(s) \cup {0, Len(s) + 1}, <)
Trim(l) ==
  LET v == {k \in DOMAIN l : l[k] \notin Wsp}
  IN IF v = {} THEN <<>> ELSE SubSeq(l, Min(v), Max(v))
Pieces(s) == [k \in 1..Len(Cuts(s)) - 1 |-> Trim(SubSeq(s, Cuts(s)[k] + 1, Cuts(s)[k + 1] - 1))]
Items(s) == SelectSeq(Pieces(s), LAMBDA x : x # <<>>)
Others(s, t) == SelectSeq(Items(s), LAMBDA x : ~ MHD_str_equal_caseless_(x, t))
IsItem(s, t) == \E k \in DOMAIN Items(s) : MHD_str_equal_caseless_(Items(s)[k], t)
Normal(s, t) == Join([k \in DOMAIN Others(s, t) |-> Collapse(Others(s, t)[k])])

\* The number the first digits of s stand for.
DigitRun(s, base, n) ==
  Max({k \in 0..(IF n < Len(s) THEN n ELSE Len(s)) :
         \A j \in 1..k : IF base = 16 THEN IsHex(s[j]) ELSE isasciidigit(s[j])})
ValueOf(s, base, n) == FoldLeft(LAMBDA r, c : r * base + toxdigitvalue(c), 0, SubSeq(s, 1, n))
Number(s, base, n, max) ==
  LET k == DigitRun(s, base, n)
  IN IF k = 0 \/ ValueOf(s, base, k) > max THEN 0 ELSE k

\* Percent decoding: the escapes from the left, the rest as it is.
RECURSIVE Decoded(_)
Decoded(s) ==
  IF s = <<>> THEN <<>>
  ELSE IF Len(s) >= 3 /\ s[1] = PERCENT /\ IsHex(s[2]) /\ IsHex(s[3])
    THEN <<Byte(s[2], s[3])>> \o Decoded(SubSeq(s, 4, Len(s)))
    ELSE <<s[1]>> \o Decoded(Tail(s))
RECURSIVE IsBroken(_)
IsBroken(s) ==
  IF s = <<>> THEN FALSE
  ELSE IF s[1] # PERCENT THEN IsBroken(Tail(s))
  ELSE IF Len(s) >= 3 /\ IsHex(s[2]) /\ IsHex(s[3]) THEN IsBroken(SubSeq(s, 4, Len(s)))
  ELSE TRUE

\* Base64 of RFC 4648.
Char64(v) == CHOOSE c \in 0..127 : base64_char_to_value_(c) = v
Encoded3(b) ==
  LET at(k) == IF k <= Len(b) THEN b[k] ELSE 0
      w == <<at(1) \div 4, (at(1) % 4) * 16 + at(2) \div 16, (at(2) % 16) * 4 + at(3) \div 64, at(3) % 64>>
  IN [k \in 1..4 |-> IF k <= Len(b) + 1 THEN Char64(w[k]) ELSE 61]
RECURSIVE Encoded(_)
Encoded(b) ==
  IF b = <<>> THEN <<>>
  ELSE IF Len(b) <= 3 THEN Encoded3(b) ELSE Encoded3(SubSeq(b, 1, 3)) \o Encoded(SubSeq(b, 4, Len(b)))

-----------------------------------------------------------------------------

Compute(c) ==
  CASE c.f = "has_token" -> MHD_str_has_token_caseless_(c.s, c.t)
    [] c.f = "remove_token" -> MHD_str_remove_token_caseless_(c.s, c.t, c.size)
    [] c.f = "remove_tokens" -> MHD_str_remove_tokens_caseless_(c.s, c.t)
    [] c.f = "number" ->
         [dec |-> MHD_str_to_uint64_n_(c.s, c.maxlen), hex32 |-> MHD_strx_to_uint32_n_(c.s, c.maxlen),
          hex64 |-> MHD_strx_to_uint64_n_(c.s, c.maxlen), decz |-> MHD_str_to_uint64_(c.s),
          hex32z |-> MHD_strx_to_uint32_(c.s), hex64z |-> MHD_strx_to_uint64_(c.s)]
    [] c.f = "print" ->
         [u16 |-> MHD_uint16_to_str(c.val, c.size),
          u64 |-> MHD_uint64_to_str(c.val % (UINT64_MAX + 1), c.size),
          x32 |-> MHD_uint32_to_strx(c.val % (UINT32_MAX + 1), c.size),
          u8 |-> [n \in 0..3 |-> MHD_uint8_to_str_pad(c.val % 256, n, c.size)]]
    [] c.f = "hex" -> MHD_hex_to_bin(c.s)
    [] c.f = "bin" -> MHD_bin_to_hex(c.bin)
    [] c.f = "pct" ->
         [strict |-> MHD_str_pct_decode_strict_n_(c.s \o <<c.next>>, Len(c.s), c.size),
          lenient |-> MHD_str_pct_decode_lenient_n_(c.s \o <<c.next>>, Len(c.s), c.size)]
    [] c.f = "in_place" ->
         [strict |-> MHD_str_pct_decode_in_place_strict_(c.s), lenient |-> MHD_str_pct_decode_in_place_lenient_(c.s)]
    [] c.f = "quote" -> [q |-> MHD_str_quote(c.s, c.size), u |-> MHD_str_unquote(MHD_str_quote(c.s, c.size))]
    [] c.f = "quoted" ->
         [exact |-> MHD_str_equal_quoted_bin_n(c.s, c.u), caseless |-> MHD_str_equal_caseless_quoted_bin_n(c.s, c.u)]
    [] c.f = "base64" -> MHD_base64_to_bin_n(c.s, c.size)
    [] c.f = "encoded" -> MHD_base64_to_bin_n(Encoded(c.bin), c.size)

Init == call \in {c \in Calls : c.f \in Functions} /\ done = FALSE /\ result = <<>>
Next == ~ done /\ done' = TRUE /\ result' = Compute(call) /\ UNCHANGED call
Spec == Init /\ [][Next]_vars

Returned(f) == done /\ call.f = f

-----------------------------------------------------------------------------
(* Properties *)

\* MHD_str_has_token_caseless_() finds a token exactly if it is an item of the list,
\* unless an earlier item is the beginning of the token.
TokenFound ==
  Returned("has_token") =>
    /\ result => IsItem(call.s, call.t)
    /\ IsItem(call.s, call.t) =>
         \/ result
         \/ \E k \in DOMAIN Items(call.s) :
              /\ Len(Items(call.s)[k]) < Len(call.t)
              /\ Matched(Items(call.s)[k], 1, call.t) = Len(Items(call.s)[k])

\* "Match succeed if substring between start, end (of string) or comma contains only
\* case-insensitive token and optional spaces and tabs."
TokenAlwaysFound == Returned("has_token") => result = IsItem(call.s, call.t)

\* MHD_str_remove_token_caseless_() keeps the other items in their order, says whether it
\* removed one, writes no more than one and a half times its input, and fails exactly if
\* that does not fit.
TokenRemoved ==
  Returned("remove_token") =>
    LET unlimited == MHD_str_remove_token_caseless_(call.s, call.t, 2 * Len(call.s))
    IN IF result.size < 0 THEN unlimited.size > call.size
       ELSE /\ Len(result.out) <= call.size /\ result = unlimited
            /\ 2 * Len(result.out) <= 3 * Len(call.s)
            /\ result.removed <=> IsItem(call.s, call.t)
            /\ Normal(result.out, <<>>) = Normal(call.s, call.t)

\* "The output string is normalised: empty tokens and repeated whitespaces are removed,
\* no whitespaces before commas, exactly one space is used after each comma."
RemovedNormalised ==
  Returned("remove_token") /\ result.size >= 0 => result.out = Normal(call.s, call.t)

\* MHD_str_remove_tokens_caseless_() moves the text within the string it reads: what is
\* left are the items that are none of the tokens, still normalised.
TokensRemovedInPlace ==
  Returned("remove_tokens") =>
    LET kept == SelectSeq(Items(call.s), LAMBDA x : ~ IsItem(call.t, x))
    IN result.str = Join(kept) /\ (result.removed <=> kept # Items(call.s))

\* A number is converted exactly if its digits stand for a value that fits, up to the
\* first character that is none.
NumbersExact ==
  Returned("number") =>
    \A r \in {<<result.dec, 10, call.maxlen, UINT64_MAX>>, <<result.decz, 10, 9, UINT64_MAX>>,
              <<result.hex32, 16, call.maxlen, UINT32_MAX>>, <<result.hex32z, 16, 9, UINT32_MAX>>,
              <<result.hex64, 16, call.maxlen, UINT64_MAX>>, <<result.hex64z, 16, 9, UINT64_MAX>>} :
      /\ r[1].len = Number(call.s, r[2], r[3], r[4])
      /\ r[1].len > 0 => r[1].val = ValueOf(call.s, r[2], r[1].len)

\* A printed number stands for the value, has no leading zero but those asked for, and
\* is printed exactly if the buffer has room for it.
NumbersPrinted ==
  Returned("print") =>
    /\ \A r \in {<<result.u16, 10, call.val, 1>>, <<result.u64, 10, call.val % (UINT64_MAX + 1), 1>>,
                 <<result.x32, 16, call.val % (UINT32_MAX + 1), 1>>}
                \cup {<<result.u8[n], 10, call.val % 256, n>> : n \in 0..3} :
         IF r[1] = Zero
           THEN \A n \in 0..call.size : r[3] >= r[2] ^ n \/ n < r[4] \/ (n = 0)
           ELSE /\ Len(r[1]) <= call.size /\ ValueOf(r[1], r[2], Len(r[1])) = r[3]
                /\ (Len(r[1]) > 1 /\ Len(r[1]) > r[4]) => r[1][1] # 48
                /\ Len(r[1]) >= r[4]

\* Hexadecimal text stands for its bytes both ways, the first of which may have one digit.
HexExact ==
  /\ Returned("bin") => MHD_hex_to_bin(result) = call.bin
  /\ Returned("hex") =>
       IF call.s = <<>> \/ \E k \in DOMAIN call.s : ~ IsHex(call.s[k]) THEN result = Zero
       ELSE /\ Len(result) = (Len(call.s) + 1) \div 2
            /\ \A k \in DOMAIN result :
                 LET p == Len(call.s) - 2 * (Len(result) - k)
                 IN result[k] = 16 * (IF p = 1 THEN 0 ELSE toxdigitvalue(call.s[p - 1])) + toxdigitvalue(call.s[p])

\* Percent-encoded text is decoded if the result fits, refused or copied where it is
\* broken, whatever ends the parameter in memory.
PctDecoded ==
  Returned("pct") =>
    LET fits == Len(Decoded(call.s)) <= call.size
    IN /\ result.strict.out = IF fits /\ ~ IsBroken(call.s) THEN Decoded(call.s) ELSE <<>>
       /\ result.lenient.out = IF fits THEN Decoded(call.s) ELSE <<>>
       /\ fits => result.lenient.broken = IsBroken(call.s)

\* In place, text that is not broken is decoded; broken text is noticed, and keeps every
\* character that belongs to no escape.
PctInPlace ==
  Returned("in_place") =>
    /\ result.lenient.broken <=> IsBroken(call.s)
    /\ ~ IsBroken(call.s) => result.strict.str = Decoded(call.s) /\ result.lenient.str = Decoded(call.s)
    /\ IsBroken(call.s) => result.strict.len = 0 /\ result.lenient.len >= Len(Decoded(call.s))

\* "the string is truncated to zero length if broken encoding is found"
TruncatedIfBroken == Returned("in_place") /\ IsBroken(call.s) => result.strict.str = <<>>

\* "decode string by converting percent-encoded characters to their decoded versions and
\* copying back all other characters without extra processing"
LenientInPlaceDecodes == Returned("in_place") => result.lenient.str = Decoded(call.s)

\* Quoting is undone by unquoting and fails exactly if the result does not fit; a quoted
\* string is equal to exactly the text it stands for.
QuotedExact ==
  /\ Returned("quote") =>
       LET n == Len(call.s) + Cardinality({k \in DOMAIN call.s : call.s[k] \in {DQUOTE, BACKSLASH}})
       IN IF n <= call.size THEN Len(result.q) = n /\ result.u = call.s ELSE result.q = Zero
  /\ Returned("quoted") =>
       LET u == MHD_str_unquote(call.s)
           valid == call.s = <<>> \/ u # Zero
       IN /\ result.exact <=> valid /\ u = call.u
          /\ result.caseless <=> valid /\ MHD_str_equal_caseless_(u, call.u)

\* Base64 text is decoded exactly if it is the encoding of some bytes and these fit.
Base64Exact ==
  /\ Returned("encoded") => result = IF Len(call.bin) <= call.size THEN call.bin ELSE Zero
  /\ Returned("base64") /\ result # Zero => Encoded(result) = call.s /\ Len(result) <= call.size
=============================================================================
