------------------------------- MODULE MhdStr -------------------------------
(***************************************************************************)
(* mhd_str.c: comma-separated token lists, numbers, hexadecimal and        *)
(* percent encoding, quoted strings and base64.  The functions work on     *)
(* character codes; a zero-terminated string is the sequence of the codes  *)
(* before its terminator.  A function that writes into a buffer returns    *)
(* what it wrote, or Zero where the code returns 0.                        *)
(*                                                                         *)
(* The loops over lists and escapes are recursive operators; their widths  *)
(* are parameters, so that the limits are within reach.                    *)
(***************************************************************************)
EXTENDS Integers, SequencesExt, FiniteSetsExt

CONSTANTS
  UINT32_MAX, UINT64_MAX,   \* scaled down
  Divisor64                 \* the largest power of ten up to UINT64_MAX

WidthAssumption ==
  /\ UINT32_MAX \in Nat /\ UINT64_MAX \in Nat /\ UINT32_MAX % 16 = 15
  /\ Divisor64 \in Nat \ {0} /\ Divisor64 <= UINT64_MAX /\ UINT64_MAX < 10 * Divisor64

HT == 9
SP == 32
DQUOTE == 34
PERCENT == 37
PLUS == 43
COMMA == 44
SLASH == 47
BACKSLASH == 92
Wsp == {SP, HT}
Zero == <<>>

\* The first position from i on whose character is not in set, or one past the end.
Skip(s, i, set) == Min({k \in i..Len(s) + 1 : k = Len(s) + 1 \/ s[k] \notin set} \cup {Len(s) + 1})
NextComma(s, i) == Min({k \in i..Len(s) : s[k] = COMMA} \cup {Len(s) + 1})

toasciilower(c) == IF c \in 65..90 THEN c + 32 ELSE c
charsequalcaseless(a, b) == toasciilower(a) = toasciilower(b)

isasciidigit(c) == c \in 48..57

toxdigitvalue(c) ==
  CASE c \in 48..57 -> c - 48
    [] c \in 65..70 -> c - 55
    [] c \in 97..102 -> c - 87
    [] OTHER -> -1

MHD_str_equal_caseless_(a, b) ==
  Len(a) = Len(b) /\ \A k \in DOMAIN a : charsequalcaseless(a[k], b[k])

\* Both may hold binary zeros; neither has a terminator.
MHD_str_equal_caseless_bin_n_(a, b, len) ==
  \A k \in 1..len : charsequalcaseless(a[k], b[k])

\* The strings end before maxlen, together, or do not differ up to there.
MHD_str_equal_caseless_n_(a, b, maxlen) ==
  \A k \in 1..maxlen :
    (\A j \in 1..k - 1 : j \in DOMAIN a /\ j \in DOMAIN b) =>
      IF k \in DOMAIN b THEN k \in DOMAIN a /\ charsequalcaseless(a[k], b[k])
                        ELSE k \notin DOMAIN a

\* How many characters of token t are found at position i.
Matched(s, i, t) ==
  Max({n \in 0..Len(t) : i + n - 1 <= Len(s) /\ \A k \in 1..n : charsequalcaseless(s[i + k - 1], t[k])})

-----------------------------------------------------------------------------
(* Token lists *)

\* A slip: what follows the token is not looked at.
RECURSIVE MutantHasTokenFrom(_, _, _)
MutantHasTokenFrom(s, i, t) ==
  IF i > Len(s) THEN FALSE
  ELSE LET k == Skip(s, i, Wsp \cup {COMMA})
           m == Matched(s, k, t)
       IN IF m = Len(t) THEN TRUE
          ELSE IF k + m > Len(s) THEN FALSE
          ELSE MutantHasTokenFrom(s, NextComma(s, k + m + 1), t)

\* One item after the other; the character that does not match is passed over.
RECURSIVE HasTokenFrom(_, _, _)
HasTokenFrom(s, i, t) ==
  IF i > Len(s) THEN FALSE
  ELSE LET k == Skip(s, i, Wsp \cup {COMMA})
           m == Matched(s, k, t)
           e == Skip(s, k + m, Wsp)
       IN IF m = Len(t)
            THEN IF NextComma(s, e) = e THEN TRUE ELSE HasTokenFrom(s, NextComma(s, e), t)
          ELSE IF k + m > Len(s) THEN FALSE
          ELSE HasTokenFrom(s, NextComma(s, k + m + 1), t)

MHD_str_has_token_caseless_(s, t) == t # <<>> /\ HasTokenFrom(s, 1, t)

\* Each run of whitespace becomes a space, except at the end.
RECURSIVE Collapse(_)
Collapse(u) ==
  LET w == Skip(u, 1, Wsp)
  IN CASE u = <<>> \/ w > Len(u) -> <<>>
       [] w > 1 -> <<SP>> \o Collapse(SubSeq(u, w, Len(u)))
       [] OTHER -> <<u[1]>> \o Collapse(Tail(u))

NoSpace == [size |-> -1, out |-> <<>>, removed |-> FALSE]

\* A slip: the separator is not counted.
MutantHeadFits(out, head, sep, size) == Len(out) + Len(head) - Len(sep) <= size

HeadFits(out, head, sep, size) == Len(out) + Len(head) <= size

RECURSIVE RemoveFrom(_, _, _, _, _, _)
RemoveFrom(s, i, t, size, out, removed) ==
  LET k == Skip(s, i, Wsp \cup {COMMA})
      m == Matched(s, k, t)
      full == m = Len(t) /\ t # <<>>
      e == IF full THEN Skip(s, k + m, Wsp) ELSE k + m
      sep == IF out = <<>> THEN <<>> ELSE <<COMMA, SP>>
      head == sep \o SubSeq(s, k, e - 1)
      end == NextComma(s, e)
      item == head \o Collapse(SubSeq(s, e, end - 1))
  IN IF k > Len(s) THEN [size |-> Len(out), out |-> out, removed |-> removed]
     ELSE IF full /\ end = e THEN RemoveFrom(s, e, t, size, out, TRUE)
     ELSE IF ~ HeadFits(out, head, sep, size) \/ (Len(item) > Len(head) /\ Len(out) + Len(item) > size) THEN NoSpace
     ELSE RemoveFrom(s, end, t, size, out \o item, removed)

MHD_str_remove_token_caseless_(s, t, size) == RemoveFrom(s, 1, t, size, <<>>, FALSE)

\* The items of a list, free of the whitespace around them.
RECURSIVE ItemsFrom(_, _)
ItemsFrom(s, i) ==
  LET k == Skip(s, i, Wsp \cup {COMMA})
      end == NextComma(s, k)
      last == Max({j \in k..end - 1 : s[j] \notin Wsp})
  IN IF k > Len(s) THEN <<>> ELSE <<SubSeq(s, k, last)>> \o ItemsFrom(s, end)

\* n characters of memory a are moved from pr to pw.
Move(a, pr, pw, n) == [k \in DOMAIN a |-> IF k \in pw + 1..pw + n THEN a[pr + k - pw] ELSE a[k]]
PutSeparator(a, pw) == [a EXCEPT ![pw + 1] = COMMA, ![pw + 2] = SP]

\* A slip: the separator is never skipped over.
MutantSeparated(a, pr, pw) ==
  IF pw = 0 THEN [a |-> a, pw |-> 0] ELSE [a |-> PutSeparator(a, pw), pw |-> pw + 1]

Separated(a, pr, pw) ==
  CASE pw = 0 -> [a |-> a, pw |-> 0]
    [] pw # 0 /\ pr # pw + 2 -> [a |-> PutSeparator(a, pw), pw |-> pw + 2]
    [] OTHER -> [a |-> a, pw |-> pw + 2]

\* One token is removed from the list in place: pr reads, pw writes.
RECURSIVE RemoveInPlace(_, _, _, _, _, _)
RemoveInPlace(a, len, tkn, pr, pw, removed) ==
  LET n == Len(tkn)
      equal == /\ len = pr + n \/ a[pr + n + 1] = COMMA
               /\ \A k \in 1..n : charsequalcaseless(a[pr + k], tkn[k])
      end == Min({k \in pr + 1..len - 1 : a[k + 1] = COMMA} \cup {len})
      put == Separated(a, pr, pw)
      b == IF equal THEN a ELSE Move(put.a, pr, put.pw, end - pr)
      r == IF equal THEN pr + n + 2 ELSE end + 2
      w == IF equal THEN pw ELSE put.pw + end - pr
      last == Separated(b, r, w)
  IN IF len >= r + n THEN RemoveInPlace(b, len, tkn, r, w, removed \/ equal)
     ELSE IF len > r
       THEN [str |-> SubSeq(Move(last.a, r, last.pw, len - r), 1, last.pw + len - r), removed |-> removed \/ equal]
       ELSE [str |-> SubSeq(b, 1, w), removed |-> removed \/ equal]

RemoveOne(acc, tkn) ==
  LET s == acc.str
      r == RemoveInPlace(s, Len(s), tkn, 0, 0, acc.removed)
  IN CASE Len(s) = Len(tkn) /\ MHD_str_equal_caseless_bin_n_(s, tkn, Len(s)) -> [str |-> <<>>, removed |-> TRUE]
       [] Len(s) > Len(tkn) + 2 -> r
       [] OTHER -> acc

MHD_str_remove_tokens_caseless_(s, tokens) ==
  FoldLeft(RemoveOne, [str |-> s, removed |-> FALSE], ItemsFrom(tokens, 1))

-----------------------------------------------------------------------------
(* Numbers *)

NoNumber == [len |-> 0, val |-> 0]

\* A slip: only the quotient is compared.
MutantOverflows(res, d, base, max) == res > max \div base

Overflows(res, d, base, max) ==
  res > max \div base \/ (res = max \div base /\ d > max % base)

RECURSIVE MHD_str_to_uvalue_n_(_, _, _, _, _, _)
MHD_str_to_uvalue_n_(s, maxlen, max, base, i, res) ==
  LET d == IF base = 16 THEN toxdigitvalue(s[i + 1]) ELSE IF isasciidigit(s[i + 1]) THEN s[i + 1] - 48 ELSE -1
  IN IF i >= maxlen \/ i >= Len(s) THEN [len |-> i, val |-> res]
     ELSE IF d < 0 THEN [len |-> i, val |-> res]
     ELSE IF Overflows(res, d, base, max) THEN NoNumber
     ELSE MHD_str_to_uvalue_n_(s, maxlen, max, base, i + 1, res * base + d)

MHD_str_to_uint64_(s) == MHD_str_to_uvalue_n_(s, Len(s), UINT64_MAX, 10, 0, 0)
MHD_str_to_uint64_n_(s, maxlen) == MHD_str_to_uvalue_n_(s, maxlen, UINT64_MAX, 10, 0, 0)
MHD_strx_to_uint32_(s) == MHD_str_to_uvalue_n_(s, Len(s), UINT32_MAX, 16, 0, 0)
MHD_strx_to_uint32_n_(s, maxlen) == MHD_str_to_uvalue_n_(s, maxlen, UINT32_MAX, 16, 0, 0)
MHD_strx_to_uint64_(s) == MHD_str_to_uvalue_n_(s, Len(s), UINT64_MAX, 16, 0, 0)
MHD_strx_to_uint64_n_(s, maxlen) == MHD_str_to_uvalue_n_(s, maxlen, UINT64_MAX, 16, 0, 0)

HexChar(d) == IF d <= 9 THEN 48 + d ELSE 55 + d

\* The digits of val in base b, without leading zeros, at most n of them.
RECURSIVE PrintedDigits(_, _, _)
PrintedDigits(val, divisor, base) ==
  IF divisor = 1 THEN <<val>>
  ELSE <<val \div divisor>> \o PrintedDigits(val % divisor, divisor \div base, base)

RECURSIVE LargestDivisor(_, _, _)
LargestDivisor(val, divisor, base) ==
  IF val \div divisor = 0 /\ divisor > 1 THEN LargestDivisor(val, divisor \div base, base) ELSE divisor

\* A slip: one leading zero is left.
MutantToStr(val, divisor, base) == PrintedDigits(val, divisor, base)

ToStr(val, divisor, base) == PrintedDigits(val, LargestDivisor(val, divisor, base), base)

\* The digits as characters, unless the buffer is too small.
IntoBuffer(digits, size) ==
  IF Len(digits) <= size THEN [k \in DOMAIN digits |-> HexChar(digits[k])] ELSE Zero

MHD_uint32_to_strx(val, size) == IntoBuffer(ToStr(val, (UINT32_MAX + 1) \div 16, 16), size)
MHD_uint16_to_str(val, size) == IntoBuffer(ToStr(val, 10000, 10), size)
MHD_uint64_to_str(val, size) == IntoBuffer(ToStr(val, Divisor64, 10), size)

MHD_uint8_to_str_pad(val, min_digits, size) ==
  LET d == ToStr(val, 100, 10)
      pad == [k \in 1..3 |-> 0]
  IN IntoBuffer(SubSeq(pad, 1, min_digits - Len(d)) \o d, size)

-----------------------------------------------------------------------------
(* Hexadecimal *)

HexLower(d) == IF d < 10 THEN 48 + d ELSE 87 + d
MHD_bin_to_hex(bin) ==
  FlattenSeq([k \in DOMAIN bin |-> <<HexLower(bin[k] \div 16), HexLower(bin[k] % 16)>>])
MHD_bin_to_hex_z(bin) == MHD_bin_to_hex(bin) \o <<0>>

\* A slip: an odd first digit is the high one.
MutantFirstDigit(l) == 16 * l

FirstDigit(l) == l

MHD_hex_to_bin(hex) ==
  LET v == [k \in DOMAIN hex |-> toxdigitvalue(hex[k])]
      odd == Len(hex) % 2
      pairs == [k \in 1..(Len(hex) - odd) \div 2 |-> 16 * v[odd + 2 * k - 1] + v[odd + 2 * k]]
  IN IF \E k \in DOMAIN hex : v[k] < 0 THEN Zero
     ELSE (IF odd = 1 THEN <<FirstDigit(v[1])>> ELSE <<>>) \o pairs

-----------------------------------------------------------------------------
(* Percent encoding *)

Byte(h, l) == 16 * toxdigitvalue(h) + toxdigitvalue(l)
IsHex(c) == toxdigitvalue(c) >= 0

NotDecoded == [len |-> 0, out |-> <<>>, broken |-> TRUE]

\* A slip: the limit is that of the input.
MutantFull(out, size, len) == Len(out) >= len

Full(out, size, len) == Len(out) >= size

\* mem[1..len] is decoded into a buffer of the given size; the digits of an escape are
\* read without a look at where the input ends.
RECURSIVE PctDecode(_, _, _, _, _, _, _)
PctDecode(mem, len, size, lenient, r, out, broken) ==
  LET escape == len - r + 1 >= 2 /\ IsHex(mem[r + 1]) /\ IsHex(mem[r + 2])
  IN IF r > len THEN [len |-> Len(out), out |-> out, broken |-> broken]
     ELSE IF Full(out, size, len) THEN NotDecoded
     ELSE IF mem[r] # PERCENT THEN PctDecode(mem, len, size, lenient, r + 1, Append(out, mem[r]), broken)
     ELSE IF escape
       THEN PctDecode(mem, len, size, lenient, r + 3, Append(out, Byte(mem[r + 1], mem[r + 2])), broken)
     ELSE IF lenient THEN PctDecode(mem, len, size, lenient, r + 1, Append(out, PERCENT), TRUE)
     ELSE NotDecoded

MHD_str_pct_decode_strict_n_(mem, len, size) == PctDecode(mem, len, size, FALSE, 1, <<>>, FALSE)
MHD_str_pct_decode_lenient_n_(mem, len, size) == PctDecode(mem, len, size, TRUE, 1, <<>>, FALSE)

\* In place: what is written replaces the beginning of the string.
Overwrite(s, out) == out \o SubSeq(s, Len(out) + 1, Len(s))

RECURSIVE StrictInPlace(_, _, _)
StrictInPlace(s, r, out) ==
  CASE r > Len(s) -> [len |-> Len(out), str |-> out]
    [] r <= Len(s) /\ s[r] # PERCENT -> StrictInPlace(s, r + 1, Append(out, s[r]))
    [] OTHER -> IF r + 2 <= Len(s) /\ IsHex(s[r + 1]) /\ IsHex(s[r + 2])
                  THEN StrictInPlace(s, r + 3, Append(out, Byte(s[r + 1], s[r + 2])))
                  ELSE [len |-> 0, str |-> Overwrite(s, out)]

MHD_str_pct_decode_in_place_strict_(s) == StrictInPlace(s, 1, <<>>)

\* A slip: a broken escape at the end is dropped.
MutantBrokenEscape(s, r) == IF r + 2 > Len(s) THEN <<>> ELSE SubSeq(s, r, r + 2)

\* All three characters of an escape that cannot be decoded are copied.
BrokenEscape(s, r) == SubSeq(s, r, IF r + 2 > Len(s) THEN Len(s) ELSE r + 2)

RECURSIVE LenientInPlace(_, _, _, _)
LenientInPlace(s, r, out, broken) ==
  CASE r > Len(s) -> [len |-> Len(out), str |-> out, broken |-> broken]
    [] r <= Len(s) /\ s[r] # PERCENT -> LenientInPlace(s, r + 1, Append(out, s[r]), broken)
    [] OTHER -> IF r + 2 <= Len(s) /\ IsHex(s[r + 1]) /\ IsHex(s[r + 2])
                  THEN LenientInPlace(s, r + 3, Append(out, Byte(s[r + 1], s[r + 2])), broken)
                  ELSE LenientInPlace(s, r + 3, out \o BrokenEscape(s, r), TRUE)

MHD_str_pct_decode_in_place_lenient_(s) == LenientInPlace(s, 1, <<>>, FALSE)

-----------------------------------------------------------------------------
(* Quoted strings *)

Escaped(c) == IF c \in {BACKSLASH, DQUOTE} THEN <<BACKSLASH, c>> ELSE <<c>>

\* With room for the worst case there are no checks; otherwise there is one before each
\* character.
MHD_str_quote(s, size) ==
  LET q == FlattenSeq([k \in DOMAIN s |-> Escaped(s[k])])
  IN IF Len(s) * 2 <= size THEN q
     ELSE IF Len(s) > size \/ Len(q) > size THEN Zero
     ELSE q

RECURSIVE UnquoteFrom(_, _, _)
UnquoteFrom(q, r, out) ==
  CASE r > Len(q) -> out
    [] r <= Len(q) /\ q[r] # BACKSLASH -> UnquoteFrom(q, r + 1, Append(out, q[r]))
    [] OTHER -> IF r = Len(q) THEN Zero ELSE UnquoteFrom(q, r + 2, Append(out, q[r + 1]))

MHD_str_unquote(q) == UnquoteFrom(q, 1, <<>>)

Same(a, b, caseless) == IF caseless THEN charsequalcaseless(a, b) ELSE a = b

\* A slip: the comparison ends with the shorter string.
RECURSIVE MutantQuotedFrom(_, _, _, _, _)
MutantQuotedFrom(q, u, i, j, caseless) ==
  IF i > Len(q) \/ j > Len(u) THEN TRUE
  ELSE LET k == IF q[i] = BACKSLASH THEN i + 1 ELSE i
       IN IF k > Len(q) THEN FALSE
          ELSE IF ~ Same(q[k], u[j], caseless) THEN FALSE
          ELSE MutantQuotedFrom(q, u, k + 1, j + 1, caseless)

RECURSIVE QuotedFrom(_, _, _, _, _)
QuotedFrom(q, u, i, j, caseless) ==
  IF i > Len(q) \/ j > Len(u) THEN i = Len(q) + 1 /\ j = Len(u) + 1
  ELSE LET k == IF q[i] = BACKSLASH THEN i + 1 ELSE i
       IN IF k > Len(q) THEN FALSE
          ELSE IF ~ Same(q[k], u[j], caseless) THEN FALSE
          ELSE QuotedFrom(q, u, k + 1, j + 1, caseless)

MHD_str_equal_quoted_bin_n(q, u) == Len(u) >= Len(q) \div 2 /\ QuotedFrom(q, u, 1, 1, FALSE)
MHD_str_equal_caseless_quoted_bin_n(q, u) == Len(u) >= Len(q) \div 2 /\ QuotedFrom(q, u, 1, 1, TRUE)

-----------------------------------------------------------------------------
(* Base64 *)

PAD == -2
base64_char_to_value_(c) ==
  CASE c \in 65..90 -> c - 65
    [] c \in 97..122 -> c - 71
    [] c \in 48..57 -> c + 4
    [] c = PLUS -> 62
    [] c = SLASH -> 63
    [] c = 61 -> PAD
    [] OTHER -> -1

First8(v1, v2) == 4 * v1 + v2 \div 16
Second8(v2, v3) == (v2 % 16) * 16 + v3 \div 4
Third8(v3, v4) == (v3 % 4) * 64 + v4

\* A slip: bits that belong to no byte are let through.
MutantLastBlock(v, room) ==
  CASE v[1] < 0 \/ v[2] < 0 -> Zero
    [] v[3] < 0 -> IF v[3] = PAD /\ v[4] = PAD THEN <<First8(v[1], v[2])>> ELSE Zero
    [] v[4] < 0 -> IF v[4] = PAD /\ room >= 2 THEN <<First8(v[1], v[2]), Second8(v[2], v[3])>> ELSE Zero
    [] OTHER -> IF room >= 3 THEN <<First8(v[1], v[2]), Second8(v[2], v[3]), Third8(v[3], v[4])>> ELSE Zero

\* The last four characters, which may hold padding; room is what is left of the buffer.
LastBlock(v, room) ==
  CASE v[1] < 0 \/ v[2] < 0 -> Zero
    [] v[1] >= 0 /\ v[2] >= 0 /\ v[3] < 0 ->
         IF v[3] = PAD /\ v[4] = PAD /\ v[2] % 16 = 0 THEN <<First8(v[1], v[2])>> ELSE Zero
    [] v[1] >= 0 /\ v[2] >= 0 /\ v[3] >= 0 /\ v[4] < 0 ->
         IF v[4] = PAD /\ v[3] % 4 = 0 /\ room >= 2
           THEN <<First8(v[1], v[2]), Second8(v[2], v[3])>> ELSE Zero
    [] OTHER -> IF room >= 3 THEN <<First8(v[1], v[2]), Second8(v[2], v[3]), Third8(v[3], v[4])>> ELSE Zero

MHD_base64_to_bin_n(s, bin_size) ==
  LET n == Len(s)
      v == [k \in DOMAIN s |-> base64_char_to_value_(s[k])]
      block(b) == <<First8(v[4*b-3], v[4*b-2]), Second8(v[4*b-2], v[4*b-1]), Third8(v[4*b-1], v[4*b])>>
      whole == n \div 4 - 1
      last == LastBlock(SubSeq(v, n - 3, n), bin_size - 3 * whole)
  IN IF n = 0 \/ n % 4 # 0 \/ (n \div 4) * 3 - 2 > bin_size THEN Zero
     ELSE IF (\E k \in 1..n - 4 : v[k] < 0) \/ last = Zero THEN Zero
     ELSE FlattenSeq([b \in 1..whole |-> block(b)]) \o last
=============================================================================
