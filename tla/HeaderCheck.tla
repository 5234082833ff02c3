---------------------------- MODULE HeaderCheck ----------------------------
(***************************************************************************)
(* The check of an Authorization header as a part of authentication, next  *)
(* to the table of nonces.  A behaviour is about one of the parts, and     *)
(* "part" tells which.                                                     *)
(***************************************************************************)
CONSTANTS NULL, Headers, Apps, StaticSize, MaxParam, DigestSize, StdLen, NcLen, ExtMin

VARIABLES
  part,  \* the component this behaviour is about
  app, h, check_pc, tmp1, tmp2, heap, ref, da, hash, used, result, luck, spent, failed,
  outside, requests

Check == INSTANCE DigestCheck WITH pc <- check_pc

\* A request is authenticated only if its header is right and its count has been taken by no
\* other; and a right header is authenticated, unless its count was used, memory failed or a
\* value is too large for the buffers, in any mixture of escaped, long and short values.
\* A count is used up only by a request with the right user name and realm and a nonce of
\* this server; a request refused before that can be sent again with the same count.
\* No text is written behind the end of the buffer it is put in, and the buffer from
\* malloc() is freed whichever way the call ends.
\* What is hashed are the values of the header, although they pass through two buffers that
\* are overwritten again and again, and the flags of the digest are as asserted; the one
\* exception are empty values of realm and user name, which the code compares.
CheckedRightly ==
  part = "check" => Check!CheckedRightly
============================================================================
