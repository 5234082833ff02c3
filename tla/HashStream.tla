----------------------------- MODULE HashStream -----------------------------
(***************************************************************************)
(* The hash functions of the library and of its two relatives (md5.c,      *)
(* sha1.c, sha256.c, sha512_256.c, the websocket library's sha1.c and the  *)
(* second library's md5.c): how a message that comes in pieces is cut into *)
(* blocks, padded and counted.  What a block does to the hash is left      *)
(* open: the hash is the sequence of all that has been hashed.             *)
(***************************************************************************)
EXTENDS Integers, SequencesExt

CONSTANTS
  Hashes,    \* the functions, of {"MD5", "SHA1", "SHA256", "SHA512_256", "WS_SHA1", "MD5Context"}
  Block,     \* bytes in a block: 64, or 128 for SHA-512/256
  Base,      \* values of a byte: 256
  Width,     \* bytes of a counter: 8
  Sizes,     \* the sizes of pieces
  MaxPieces  \* bound: pieces of a message

\* Values of a uint64_t.
Word == Base ^ Width
SizesAssumption ==
  /\ Width < Block /\ 2 * Width < Block /\ Word % 8 = 0 /\ (Word \div 8) % Block = 0
  /\ \A n \in Sizes : n < Word

VARIABLES
  hash,     \* which function
  ctx,      \* its context
  message,  \* the length of what has been given to it so far
  digest,   \* the result, or <<>>
  pieces,   \* pieces of the message so far
  rounds    \* messages so far

vars == <<hash, ctx, message, digest, pieces, rounds>>

\* Bytes: those of the message, by their position; padding; old contents of a buffer; digits.
Given(a, n) == [i \in 1..n |-> <<"byte", a + i>>]
Pad == <<"pad", 0>>
Zero == <<"digit", 0>>
Old == <<"old", 0>>

-----------------------------------------------------------------------------
(* What all of them do *)

Started == [count |-> 0, hi |-> 0, H |-> <<>>, buffer |-> [i \in 1..Block |-> Old], ready |-> TRUE]
\* memset (ctx, 0, sizeof (*ctx)): nothing is left of the message.
Erased == [Started EXCEPT !.buffer = [i \in 1..Block |-> Zero], !.ready = FALSE]

\* The transform functions: a block is hashed.
Transformed(H, block) == H \o block

\* memcpy() or memset() into the buffer, behind its first at bytes.
Put(buffer, at, bytes) ==
  [i \in 1..Block |-> IF i \in at + 1..at + Len(bytes) THEN bytes[i - at] ELSE buffer[i]]

\* The buffer is completed and hashed, whole blocks are hashed where they are, and the rest
\* is put in the buffer.
Absorbed(c, have, data) ==
  LET left == Block - have
      joins == have # 0 /\ Len(data) >= left
      full == Put(c.buffer, have, SubSeq(data, 1, left))
      rest == IF joins THEN SubSeq(data, left + 1, Len(data)) ELSE data
      whole == Block * (Len(rest) \div Block)
  IN [c EXCEPT !.H = Transformed(IF joins THEN Transformed(@, full) ELSE @, SubSeq(rest, 1, whole)),
               !.buffer = Put(IF joins THEN full ELSE @, IF joins THEN 0 ELSE have,
                              SubSeq(rest, whole + 1, Len(rest)))]

Digits(n) == [i \in 1..Width |-> <<"digit", (n \div Base ^ (i - 1)) % Base>>]
LittleEndian(n) == Digits(n)
BigEndian(n) == Reverse(Digits(n))
Zeros(n) == [i \in 1..n |-> Zero]

\* A slip: a length that just fits is not put in the block.
MutantPadded(c, have, length) ==
  LET one == Put(c.buffer, have, <<Pad>>)
      over == Block - (have + 1) <= Len(length)
      first == Put(one, have + 1, Zeros(Block - (have + 1)))
      from == IF over THEN 0 ELSE have + 1
      last == Put(Put(IF over THEN first ELSE one, from, Zeros(Block - Len(length) - from)),
                  Block - Len(length), length)
  IN Transformed(IF over THEN Transformed(c.H, first) ELSE c.H, last)

\* The finish functions: the padding bit, zeros, and the length at the end of the block or, if
\* it does not fit any more, of another one.
Padded(c, have, length) ==
  LET one == Put(c.buffer, have, <<Pad>>)
      over == Block - (have + 1) < Len(length)
      first == Put(one, have + 1, Zeros(Block - (have + 1)))
      from == IF over THEN 0 ELSE have + 1
      last == Put(Put(IF over THEN first ELSE one, from, Zeros(Block - Len(length) - from)),
                  Block - Len(length), length)
  IN Transformed(IF over THEN Transformed(c.H, first) ELSE c.H, last)

Have(c) == c.count % Block
Counted(c, n) == [c EXCEPT !.count = (@ + n) % Word]
Bits(c) == (c.count * 8) % Word

-----------------------------------------------------------------------------
(* The functions *)

MHD_MD5_update(c, data) == Absorbed(Counted(c, Len(data)), Have(c), data)
MHD_MD5_finish(c) == Padded(c, Have(c), LittleEndian(Bits(c)))

MHD_SHA1_update(c, data) == Absorbed(Counted(c, Len(data)), Have(c), data)
MHD_SHA1_finish(c) == Padded(c, Have(c), BigEndian(Bits(c)))

MHD_SHA256_update(c, data) == Absorbed(Counted(c, Len(data)), Have(c), data)
MHD_SHA256_finish(c) == Padded(c, Have(c), BigEndian(Bits(c)))

\* The websocket library has a copy of its own.
ws_SHA1_update(c, data) == Absorbed(Counted(c, Len(data)), Have(c), data)
ws_SHA1_finish(c) == Padded(c, Have(c), BigEndian(Bits(c)))

\* SHA-512/256 counts the bits in two words: what does not fit the lower one, and a wrap of the
\* sum, are moved to the higher one.
CountedInTwo(c, n) ==
  LET sum == (c.count + n) % Word
      wrap == IF n > sum THEN 8 ELSE 0
      low == Word \div 8
  IN [c EXCEPT !.count = sum % low, !.hi = (@ + wrap + sum \div low) % Word]

MHD_SHA512_256_update(c, data) == Absorbed(CountedInTwo(c, Len(data)), Have(c), data)
MHD_SHA512_256_finish(c) == Padded(c, Have(c), BigEndian(c.hi) \o BigEndian(Bits(c)))

\* The second library counts bits and pads with its own update function.
MHD_MD5Update(c, data) ==
  Absorbed([c EXCEPT !.count = (@ + ((Len(data) * 8) % Word)) % Word], (c.count \div 8) % Block, data)

Padding == <<Pad>> \o Zeros(Block - 1)
MD5Pad(c) ==
  LET room == Block - ((c.count \div 8) % Block)
      padlen == IF room < 1 + Width THEN room + Block ELSE room
  IN MHD_MD5Update(MHD_MD5Update(c, SubSeq(Padding, 1, padlen - Width)), LittleEndian(c.count))
MHD_MD5Final(c) == MD5Pad(c).H

-----------------------------------------------------------------------------
(* A user of one of them *)

Init ==
  /\ hash \in Hashes /\ ctx = Started /\ message = 0 /\ digest = <<>> /\ pieces = 0 /\ rounds = 1

Update ==
  /\ ctx.ready /\ pieces < MaxPieces /\ pieces' = pieces + 1
  /\ \E n \in Sizes :
       /\ message' = message + n
       /\ LET data == Given(message, n)
          IN ctx' = CASE hash = "MD5" -> MHD_MD5_update(ctx, data)
                      [] hash = "SHA1" -> MHD_SHA1_update(ctx, data)
                      [] hash = "SHA256" -> MHD_SHA256_update(ctx, data)
                      [] hash = "SHA512_256" -> MHD_SHA512_256_update(ctx, data)
                      [] hash = "WS_SHA1" -> ws_SHA1_update(ctx, data)
                      [] hash = "MD5Context" -> MHD_MD5Update(ctx, data)
  /\ UNCHANGED <<hash, digest, rounds>>

Finish ==
  /\ ctx.ready
  /\ digest' = CASE hash = "MD5" -> MHD_MD5_finish(ctx)
                 [] hash = "SHA1" -> MHD_SHA1_finish(ctx)
                 [] hash = "SHA256" -> MHD_SHA256_finish(ctx)
                 [] hash = "SHA512_256" -> MHD_SHA512_256_finish(ctx)
                 [] hash = "WS_SHA1" -> ws_SHA1_finish(ctx)
                 [] hash = "MD5Context" -> MHD_MD5Final(ctx)
  /\ ctx' = Erased
  /\ UNCHANGED <<hash, message, pieces, rounds>>

\* The init functions set the counters and H, and leave the buffer as it is.
Start ==
  /\ ~ ctx.ready /\ rounds = 1 /\ rounds' = 2
  /\ ctx' = [ctx EXCEPT !.count = 0, !.hi = 0, !.H = <<>>, !.ready = TRUE]
  /\ message' = 0 /\ digest' = <<>> /\ pieces' = 0 /\ UNCHANGED hash

Next == Update \/ Finish \/ Start
Spec == Init /\ [][Next]_vars

-----------------------------------------------------------------------------
(* Properties *)

\* The length of the message as RFC 1321 and FIPS 180-4 want it: its bits, in one word with
\* the lowest byte first, in one with the highest first, or in two.
Length ==
  LET bits == message * 8
  IN CASE hash \in {"MD5", "MD5Context"} -> LittleEndian(bits % Word)
       [] hash \in {"SHA1", "SHA256", "WS_SHA1"} -> BigEndian(bits % Word)
       [] hash = "SHA512_256" -> BigEndian((bits \div Word) % Word) \o BigEndian(bits % Word)

\* The padded message: the least number of zeros that makes whole blocks of it.
Reference ==
  LET used == message + 1 + Len(Length)
      zeros == CHOOSE z \in 0..Block - 1 : (used + z) % Block = 0
  IN Given(0, message) \o <<Pad>> \o Zeros(zeros) \o Length

\* However a message is cut into pieces, and whatever the buffer held before, what is hashed
\* is the message with its padding and its length, also when the counters wrap.
HashedExactly ==
  /\ ~ ctx.ready => digest = Reference
  /\ ctx.ready => ctx.H \o SubSeq(ctx.buffer, 1, message % Block) = Given(0, message)
=============================================================================
