--------------------------- MODULE ResponseHeaders ---------------------------
(***************************************************************************)
(* The headers of a response: the list the application builds and edits,   *)
(* the flags in which the library remembers what the list holds, and the   *)
(* header of a reply, made from both for a particular request.  A response *)
(* may be edited between two replies.                                      *)
(*                                                                         *)
(* Values of Connection headers are sequences of tokens (their text is the *)
(* subject of MhdStr); "closer" stands for a token that begins like        *)
(* "close".  Any allocation may fail.                                      *)
(***************************************************************************)
EXTENDS Integers, SequencesExt, FiniteSetsExt

CONSTANTS
  ConnectionValues,   \* token sequences an application gives
  Contents,           \* other values, of which <<"invalid">> has a line break
  FlagSets,           \* what MHD_set_response_options() is called with
  Totals,             \* sizes of the body: "zero", "some" or "unknown"
  Queries,            \* records version, head, wants and code of requests to reply to
  MaxEntries,         \* bounds the list
  MaxTokens           \* bounds the Connection header

EntriesAssumption == MaxEntries \in Nat /\ MaxTokens \in Nat

VARIABLES
  entries,      \* the list from first_header on: records kind, name, value
  flags_auto, flags, total_size, upgrade,
  reply,        \* the last reply, until the response is edited again
  failed        \* the assertion that has failed, if any
vars == <<entries, flags_auto, flags, total_size, upgrade, reply, failed>>

Names == {"Connection", "Transfer-Encoding", "Date", "Content-Length", "Other"}
Entry(kind, name, value) == [kind |-> kind, name |-> name, value |-> value]
NoReply == [sent |-> FALSE]

At(kind, name) == {k \in DOMAIN entries : entries[k].kind = kind /\ entries[k].name = name}
MHD_get_response_element_n_(kind, name) ==
  IF At(kind, name) = {} THEN 0 ELSE CHOOSE k \in At(kind, name) : \A j \in At(kind, name) : k <= j

Without(seq, set) == SelectSeq(seq, LAMBDA t : t \notin set)
HasClose(value) == value # <<>> /\ value[1] = "close"

\* MHD_create_response_...(): the list is empty but for the Connection header of a
\* response for an upgrade.
Init ==
  /\ upgrade \in BOOLEAN
  /\ total_size \in IF upgrade THEN {"zero"} ELSE Totals
  /\ entries = IF upgrade THEN <<Entry("header", "Connection", <<"Upgrade">>)>> ELSE <<>>
  /\ flags_auto = IF upgrade THEN {"HAS_CONNECTION_HDR"} ELSE {}
  /\ flags = {} /\ reply = NoReply /\ failed = "none"

Editing == failed = "none" /\ Len(entries) < MaxEntries
OnlyList == UNCHANGED <<flags, total_size, upgrade>> /\ reply' = NoReply

-----------------------------------------------------------------------------
(* Editing *)

\* A new entry comes last, unless its content is invalid or memory is short.
Added(list, allocated, kind, name, content) ==
  IF allocated /\ content # <<"invalid">> THEN Append(list, Entry(kind, name, content)) ELSE list

\* The first of the entries that begins like the close token is taken for it.
CloseAsserted(hdr) ==
  ("HAS_CONNECTION_CLOSE" \in flags_auto) = (entries[hdr].value[1] \in {"close", "closer"})

\* The tokens of an extended header: close comes first, and only once.
Joined(old, already, value) ==
  (IF "close" \in ToSet(value) /\ ~ already THEN <<"close">> ELSE <<>>)
    \o old \o Without(value, {"close", "keep-alive"})

\* The first Connection header sets the flags anew; a later one only adds to them.
ConnectionFlags(hdr, has_close) ==
  IF hdr = 0 THEN {"HAS_CONNECTION_HDR"} \cup (IF has_close THEN {"HAS_CONNECTION_CLOSE"} ELSE {})
  ELSE flags_auto \cup (IF has_close THEN {"HAS_CONNECTION_CLOSE"} ELSE {})

\* A slip: an upgrade response may close the connection.
MutantNotAllowed(value, already) ==
  LET rest == Without(value, {"close", "keep-alive"})
      has_close == "close" \in ToSet(value)
  IN rest = <<>> /\ (~ has_close \/ already)

\* Nothing is left to add, or an upgrade would have to close the connection.
NotAllowed(value, already) ==
  LET rest == Without(value, {"close", "keep-alive"})
      has_close == "close" \in ToSet(value)
  IN (upgrade /\ has_close) \/ (rest = <<>> /\ (~ has_close \/ already))

add_response_header_connection(value, allocated) ==
  LET hdr == IF "HAS_CONNECTION_HDR" \in flags_auto THEN MHD_get_response_element_n_("header", "Connection") ELSE 0
      already == "HAS_CONNECTION_CLOSE" \in flags_auto
      has_close == "close" \in ToSet(value)
      refused == ~ allocated \/ NotAllowed(value, already)
      joined == Joined(IF hdr = 0 THEN <<>> ELSE entries[hdr].value, already, value)
  IN /\ Editing
     /\ failed' = IF hdr # 0 /\ ~ CloseAsserted(hdr) THEN "close" ELSE failed
     /\ IF refused THEN UNCHANGED <<entries, flags_auto>>
        ELSE /\ Len(joined) <= MaxTokens
             /\ entries' = IF hdr = 0 THEN <<Entry("header", "Connection", joined)>> \o entries
                           ELSE [entries EXCEPT ![hdr].value = joined]
             /\ flags_auto' = ConnectionFlags(hdr, has_close)
     /\ OnlyList

AddConnection == \E value \in ConnectionValues, allocated \in BOOLEAN : add_response_header_connection(value, allocated)

\* Only the chunked encoding is taken, once, and not beside a Content-Length.
AddTransferEncoding ==
  \E allocated \in BOOLEAN :
    /\ Editing
    /\ "HAS_TRANS_ENC_CHUNKED" \notin flags_auto
    /\ "HAS_CONTENT_LENGTH" \in flags_auto => "INSANITY" \in flags
    /\ entries' = Added(entries, allocated, "header", "Transfer-Encoding", <<"chunked">>)
    /\ flags_auto' = IF allocated THEN flags_auto \cup {"HAS_TRANS_ENC_CHUNKED"} ELSE flags_auto
    /\ OnlyList /\ UNCHANGED failed

\* A Date takes the place of the one before; that one is removed first.
AddDate ==
  \E content \in Contents, allocated \in BOOLEAN :
    LET hdr == MHD_get_response_element_n_("header", "Date")
        has == "HAS_DATE_HDR" \in flags_auto
        list == IF has THEN RemoveAt(entries, hdr) ELSE entries
    IN /\ Editing
       /\ IF has /\ hdr = 0 THEN failed' = "date" /\ UNCHANGED <<entries, flags_auto>>
          ELSE /\ UNCHANGED failed
               /\ entries' = Added(list, allocated, "header", "Date", content)
               /\ flags_auto' = IF allocated /\ content # <<"invalid">> THEN flags_auto \cup {"HAS_DATE_HDR"} ELSE flags_auto
       /\ OnlyList

MayHaveContentLength ==
  \/ "INSANITY" \in flags
  \/ "HEAD_ONLY" \in flags /\ flags_auto \cap {"HAS_TRANS_ENC_CHUNKED", "HAS_CONTENT_LENGTH"} = {}

AddContentLength ==
  \E content \in Contents, allocated \in BOOLEAN :
    /\ Editing
    /\ MayHaveContentLength
    /\ entries' = Added(entries, allocated, "header", "Content-Length", content)
    /\ flags_auto' = IF allocated /\ content # <<"invalid">> THEN flags_auto \cup {"HAS_CONTENT_LENGTH"} ELSE flags_auto
    /\ OnlyList /\ UNCHANGED failed

AddOther ==
  \E content \in Contents, allocated \in BOOLEAN :
    /\ Editing
    /\ entries' = Added(entries, allocated, "header", "Other", content)
    /\ OnlyList /\ UNCHANGED <<flags_auto, failed>>

\* A footer may have any name.
MHD_add_response_footer ==
  \E name \in Names, content \in Contents, allocated \in BOOLEAN :
    /\ Editing
    /\ entries' = Added(entries, allocated, "footer", name, content)
    /\ OnlyList /\ UNCHANGED <<flags_auto, failed>>

\* A slip: only the header that has no tokens left takes its flags with it.
MutantCloseKept(value) == {}

\* The flag of a close token goes with it.
CloseKept(value) == IF HasClose(value) THEN {} ELSE {"HAS_CONNECTION_CLOSE"}

del_response_header_connection(value) ==
  LET hdr == MHD_get_response_element_n_("header", "Connection")
      left == Without(entries[hdr].value, ToSet(value))
  IN /\ hdr # 0 /\ left # entries[hdr].value
     /\ IF left = <<>>
          THEN /\ entries' = RemoveAt(entries, hdr)
               /\ flags_auto' = flags_auto \ {"HAS_CONNECTION_HDR", "HAS_CONNECTION_CLOSE"}
          ELSE /\ entries' = [entries EXCEPT ![hdr].value = left]
               /\ flags_auto' = flags_auto \ CloseKept(left)
     /\ OnlyList /\ UNCHANGED failed

DelConnection ==
  \E value \in ConnectionValues :
    failed = "none" /\ "HAS_CONNECTION_HDR" \in flags_auto /\ del_response_header_connection(value)

\* A slip: another Content-Length is not looked for.
MutantFlagOf(name, left) ==
  CASE name = "Transfer-Encoding" -> {"HAS_TRANS_ENC_CHUNKED"}
    [] name = "Date" -> {"HAS_DATE_HDR"}
    [] name = "Content-Length" -> {"HAS_CONTENT_LENGTH"}
    [] OTHER -> {}

\* The flag that an entry removed from the list stands for.
FlagOf(name, left) ==
  CASE name = "Transfer-Encoding" -> {"HAS_TRANS_ENC_CHUNKED"}
    [] name = "Date" -> {"HAS_DATE_HDR"}
    [] name = "Content-Length" /\ ~ (\E k \in DOMAIN left : left[k].kind = "header" /\ left[k].name = name) ->
         {"HAS_CONTENT_LENGTH"}
    [] OTHER -> {}

\* The first entry with this name and content, of whatever kind.
MHD_del_response_header ==
  \E k \in DOMAIN entries :
    /\ failed = "none"
    /\ entries[k].name = "Connection" => "HAS_CONNECTION_HDR" \notin flags_auto
    /\ \A j \in 1..k - 1 : entries[j].name = entries[k].name => entries[j].value # entries[k].value
    /\ entries' = RemoveAt(entries, k)
    /\ flags_auto' = flags_auto \ FlagOf(entries[k].name, RemoveAt(entries, k))
    /\ OnlyList /\ UNCHANGED failed

MHD_set_response_options ==
  \E new \in FlagSets :
    /\ failed = "none"
    /\ "HAS_CONTENT_LENGTH" \in flags_auto =>
         /\ "INSANITY" \in flags => "INSANITY" \in new
         /\ "HEAD_ONLY" \in flags /\ "HEAD_ONLY" \notin new => "INSANITY" \in new
    /\ "HEAD_ONLY" \in new => total_size = "zero"
    /\ flags' = new /\ reply' = NoReply
    /\ UNCHANGED <<entries, flags_auto, total_size, upgrade, failed>>

-----------------------------------------------------------------------------
(* The reply *)

\* What MHD_queue_response() asks of the response.
Suitable(q) ==
  /\ upgrade => /\ q.code = 101 /\ "HAS_CONNECTION_HDR" \in flags_auto
                /\ "Upgrade" \in ToSet(entries[1].value) /\ q.version = "1.1"
  /\ q.code = 101 => upgrade
  /\ q.code < 200 => q.version # "1.0" /\ flags \cap {"HTTP_1_0_COMPATIBLE_STRICT", "HTTP_1_0_SERVER"} = {}
  /\ "HEAD_ONLY" \in flags => (q.code < 200 \/ q.code \in {204, 304} \/ q.head)

\* RP_BODY_NONE, RP_BODY_HEADERS_ONLY, RP_BODY_SEND
is_reply_body_needed(q) ==
  CASE q.code < 200 \/ q.code = 204 -> 0
    [] q.code >= 200 /\ q.code # 204 /\ (q.head \/ q.code = 304) -> 1
    [] OTHER -> 2

keepalive_possible(q) ==
  CASE upgrade -> "upgrade"
    [] ~ upgrade /\ ("HTTP_1_0_COMPATIBLE_STRICT" \in flags \/ "HAS_CONNECTION_CLOSE" \in flags_auto
                      \/ q.wants = "close") -> "close"
    [] OTHER -> IF q.version = "1.0" \/ "HTTP_1_0_SERVER" \in flags
                  THEN IF q.wants = "keep-alive" THEN "keepalive" ELSE "close"
                  ELSE "keepalive"

\* A slip: an HTTP/1.0 client is sent chunks.
MutantUseChunked(q) ==
  /\ is_reply_body_needed(q) >= 1
  /\ total_size = "unknown" \/ "HAS_TRANS_ENC_CHUNKED" \in flags_auto

UseChunked(q) ==
  /\ is_reply_body_needed(q) >= 1
  /\ total_size = "unknown" \/ "HAS_TRANS_ENC_CHUNKED" \in flags_auto
  /\ q.version = "1.1" /\ flags \cap {"HTTP_1_0_COMPATIBLE_STRICT", "HTTP_1_0_SERVER"} = {}

KeepAlive(q) ==
  IF is_reply_body_needed(q) >= 1 /\ total_size = "unknown" /\ ~ UseChunked(q) THEN "close" ELSE keepalive_possible(q)

SayKeepAlive(q) ==
  /\ KeepAlive(q) = "keepalive"
  /\ q.version = "1.0" \/ flags \cap {"SEND_KEEP_ALIVE_HEADER", "HTTP_1_0_SERVER"} # {}

\* The token that the Connection header of the list is given.
AddToken(q) ==
  CASE "HAS_CONNECTION_HDR" \notin flags_auto -> <<>>
    [] "HAS_CONNECTION_HDR" \in flags_auto /\ KeepAlive(q) = "close" ->
         IF "HAS_CONNECTION_CLOSE" \in flags_auto THEN <<>> ELSE <<"close">>
    [] OTHER -> IF SayKeepAlive(q) THEN <<"Keep-Alive">> ELSE <<>>

\* One entry after the other: one Transfer-Encoding is left out if no chunks are sent, every
\* Content-Length if the reply has no body; the first header sent is given the token.
add_user_headers(q) ==
  LET chunked_flag == "HAS_TRANS_ENC_CHUNKED" \in flags_auto
      filter_content_len ==
        /\ is_reply_body_needed(q) = 0 /\ "INSANITY" \notin flags
        /\ "HAS_CONTENT_LENGTH" \in flags_auto
      Step(acc, e) ==
        CASE e.kind # "header" -> acc
          [] e.kind = "header" /\ e.name = "Transfer-Encoding" /\ acc.filter_transf_enc ->
               [acc EXCEPT !.filter_transf_enc = FALSE]
          [] e.kind = "header" /\ e.name = "Content-Length" /\ filter_content_len ->
               [acc EXCEPT !.filter_transf_enc = "INSANITY" \notin flags]
          [] OTHER ->
               [acc EXCEPT !.sent = Append(@, IF acc.add = <<>> THEN e ELSE [e EXCEPT !.value = acc.add \o @]),
                           !.add = <<>>]
  IN FoldLeft(Step, [sent |-> <<>>, filter_transf_enc |-> ~ UseChunked(q) /\ chunked_flag, add |-> AddToken(q)],
              entries).sent

AutoConnection(q) ==
  CASE "HAS_CONNECTION_HDR" \in flags_auto -> <<>>
    [] "HAS_CONNECTION_HDR" \notin flags_auto /\ KeepAlive(q) = "close" -> <<Entry("header", "Connection", <<"close">>)>>
    [] OTHER -> IF SayKeepAlive(q) THEN <<Entry("header", "Connection", <<"Keep-Alive">>)>> ELSE <<>>

AutoBody(q) ==
  IF is_reply_body_needed(q) = 0 \/ "HEAD_ONLY" \in flags THEN <<>>
  ELSE IF UseChunked(q)
    THEN IF "HAS_TRANS_ENC_CHUNKED" \in flags_auto THEN <<>> ELSE <<Entry("header", "Transfer-Encoding", <<"chunked">>)>>
  ELSE IF total_size # "unknown" /\ "HAS_CONTENT_LENGTH" \notin flags_auto
    THEN <<Entry("header", "Content-Length", <<"size">>)>> ELSE <<>>

build_header_response(q) ==
  (IF "HAS_DATE_HDR" \in flags_auto THEN <<>> ELSE <<Entry("header", "Date", <<"now">>)>>)
    \o AutoConnection(q) \o add_user_headers(q) \o AutoBody(q)

\* The response is queued, and its header built, for some request.
Reply ==
  \E q \in Queries :
    /\ failed = "none" /\ ~ reply.sent /\ Suitable(q)
    /\ reply' = [sent |-> TRUE, query |-> q, keepalive |-> KeepAlive(q), chunked |-> UseChunked(q),
                 body |-> is_reply_body_needed(q), lines |-> build_header_response(q)]
    /\ UNCHANGED <<entries, flags_auto, flags, total_size, upgrade, failed>>

Next ==
  \/ AddConnection \/ AddTransferEncoding \/ AddDate \/ AddContentLength \/ AddOther
  \/ MHD_add_response_footer \/ DelConnection \/ MHD_del_response_header
  \/ MHD_set_response_options \/ Reply

Spec == Init /\ [][Next]_vars

-----------------------------------------------------------------------------
(* Properties *)

Has(name) == \E k \in DOMAIN entries : entries[k].kind = "header" /\ entries[k].name = name
Right(flag) ==
  CASE flag = "HAS_CONNECTION_HDR" -> (flag \in flags_auto) = Has("Connection")
    [] flag = "HAS_CONNECTION_CLOSE" ->
         (flag \in flags_auto) = (Has("Connection") /\ HasClose(entries[1].value))
    [] flag = "HAS_TRANS_ENC_CHUNKED" ->
         Cardinality(At("header", "Transfer-Encoding")) = IF flag \in flags_auto THEN 1 ELSE 0
    [] flag = "HAS_CONTENT_LENGTH" ->
         /\ (flag \in flags_auto) = Has("Content-Length")
         /\ "INSANITY" \in flags \/ Cardinality(At("header", "Content-Length")) <= 1
    [] flag = "HAS_DATE_HDR" -> Cardinality(At("header", "Date")) = IF flag \in flags_auto THEN 1 ELSE 0
AllFlags == {"HAS_CONNECTION_HDR", "HAS_CONNECTION_CLOSE", "HAS_TRANS_ENC_CHUNKED", "HAS_CONTENT_LENGTH", "HAS_DATE_HDR"}

\* There is one Connection header at most and it is the first entry: MHD_queue_response()
\* and add_user_headers() rely on its place.  The two flags about it are always right.
ConnectionFirst ==
  /\ Right("HAS_CONNECTION_HDR") /\ Right("HAS_CONNECTION_CLOSE")
  /\ At("header", "Connection") \subseteq {1}
  /\ Has("Connection") => \A k \in 2..Len(entries[1].value) : entries[1].value[k] # "close"

\* A response for an upgrade is never told to close the connection.
UpgradeNeverCloses ==
  upgrade => "HAS_CONNECTION_CLOSE" \notin flags_auto /\ (reply.sent => reply.keepalive = "upgrade")

FlagStep ==
  \A flag \in AllFlags :
    Right(flag) /\ ~ Right(flag)' =>
      \/ Has("Connection")' /\ ~ Has("Connection")
      \/ \E k \in DOMAIN entries : entries[k].kind = "footer" /\ entries' = RemoveAt(entries, k)
      \/ flag = "HAS_DATE_HDR" /\ Has("Date") /\ ~ Has("Date")'

\* The flags about the other headers go wrong in three ways only: the first Connection
\* header is added after them, a footer of the same name is deleted, or a new Date is
\* refused after the old one was removed.
FlagsGoWrong == [][FlagStep]_vars

\* internal.h: "Has "Date" header" and so on for each flag.
FlagsRight == \A flag \in AllFlags : Right(flag)

Lines(name) == {k \in DOMAIN reply.lines : reply.lines[k].name = name}
TransferEncodings == Cardinality(Lines("Transfer-Encoding"))
ContentLengths == Cardinality(Lines("Content-Length"))

\* The recipient of a reply can tell where its body ends: there is one framing header at
\* most, chunks are announced if and only if they are sent, and not to an HTTP/1.0 client,
\* a body without either ends with the connection, and one Connection header says so.
OneFraming ==
  /\ TransferEncodings <= 1
  /\ "INSANITY" \notin flags => TransferEncodings + ContentLengths <= 1
  /\ (TransferEncodings = 1) => reply.chunked
  /\ reply.chunked => reply.query.version = "1.1"
BodyEnds ==
  reply.body = 2 => \/ reply.chunked /\ TransferEncodings = 1
                    \/ ~ reply.chunked /\ ContentLengths > 0
                    \/ reply.keepalive = "close"
CloseAnnounced ==
  /\ Cardinality(Lines("Connection")) <= 1
  /\ (reply.keepalive = "close") <=> (\E k \in Lines("Connection") : "close" \in ToSet(reply.lines[k].value))
NoBodyHeaders == reply.body = 0 /\ "INSANITY" \notin flags => TransferEncodings + ContentLengths = 0
Framed == OneFraming /\ BodyEnds /\ CloseAnnounced /\ NoBodyHeaders /\ Cardinality(Lines("Date")) = 1

ReplyStep == ~ reply.sent /\ reply'.sent /\ FlagsRight => Framed'

\* As long as the flags are right, every reply is framed.
RepliesFramed == [][ReplyStep]_vars

\* connection.c: "@param filter_transf_enc skip "Transfer-Encoding" header if any": the
\* filter is set for every reply that is not chunked.
ChunksAnnounced == [][Reply => (TransferEncodings > 0 => reply.chunked)']_vars

\* response.c: "mhd_assert (already_has_close == (0 == memcmp (hdr->value, "close", 5)))"
CloseAssertion == failed # "close"

\* response.c: "mhd_assert (NULL != hdr)" for the Date that is to be replaced.
DateAssertion == failed # "date"
=============================================================================
