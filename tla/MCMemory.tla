------------------------------- MODULE MCMemory -------------------------------
(***************************************************************************)
(* The memory of a connection, what a daemon acquires when it starts, and  *)
(* the post processor with its buffer.  A behaviour is about one of them;  *)
(* its first state chooses which.  A daemon is started with everything     *)
(* that can be acquired, in a few modes, and with every combination of the *)
(* flags that choose a mode.                                               *)
(***************************************************************************)
EXTENDS ConnMemory, StartUp, Sequences

CONSTANTS NULL

\* Lengths of what is read and written in the buffers.
Few == {0, 3, 5, 12}

\* All that matter for the way the daemon polls and is woken.
ModeFlags == SUBSET {"THREAD_PER_CONNECTION", "INTERNAL_POLLING_THREAD", "POLL", "NO_LISTEN_SOCKET",
                     "EPOLL", "ITC", "ALLOW_SUSPEND_RESUME", "AUTO", "NO_THREAD_SAFETY"}
\* Everything that is acquired, in a few modes.
FullFlags ==
  {{"TLS", "ALLOW_UPGRADE"} \cup f : f \in {{}, {"INTERNAL_POLLING_THREAD"}, {"AUTO"},
     {"EPOLL", "INTERNAL_POLLING_THREAD"}, {"NO_LISTEN_SOCKET", "INTERNAL_POLLING_THREAD"}}}
  \cup {{"IPv6"}, {"INTERNAL_POLLING_THREAD"}, {"EPOLL", "ALLOW_UPGRADE"}}

Opt(o, v) == [opt |-> o, val |-> v]
ModeOptions ==
  {Opt("THREAD_POOL_SIZE", 1), Opt("THREAD_POOL_SIZE", 2), Opt("THREAD_POOL_SIZE", 3), Opt("NOTIFY", 0),
   Opt("LISTEN_SOCKET", "app")}
FullOptions ==
  {Opt("THREAD_POOL_SIZE", 2), Opt("DIGEST_AUTH_RANDOM", "copy"), Opt("NONCE_NC_SIZE", 0),
   Opt("HTTPS_MEM_DHPARAMS", 0), Opt("HTTPS_PRIORITIES", 0), Opt("HTTPS_CRED_TYPE", "other"),
   Opt("LISTENING_ADDRESS_REUSE", 1), Opt("invalid", 0), Opt("APP_FD_SETSIZE", "bad"),
   Opt("LISTEN_SOCKET", "app"), Opt("SOCK_ADDR", "inet"), Opt("SOCK_ADDR", "inet6"),
   Opt("SOCK_ADDR_LEN", [addr |-> "unix", len |-> "ok"]), Opt("CONNECTION_LIMIT", 5),
   Opt("CONNECTION_MEMORY_LIMIT", 10), Opt("CONNECTION_MEMORY_LIMIT", 20),
   Opt("CONNECTION_MEMORY_INCREMENT", 9)}

Applications ==
  {[flags |-> f, options |-> FullOptions] : f \in FullFlags}
  \cup {[flags |-> f, options |-> ModeOptions] : f \in ModeFlags}

-----------------------------------------------------------------------------
(* Forms, each with its encoding: what the parser is to find and its bytes. *)

Seqs == INSTANCE SequencesExt
FormBuffer == 10
Mixed == <<"mixed">>
NoAttributes == [a \in {"name", "filename", "type"} |-> <<>>]
Entry(name, filename, type, value) ==
  [attr |-> [NoAttributes EXCEPT !["name"] = name, !["filename"] = filename,
                                 !["type"] = type],
   value |-> value]

\* URL encoding of one byte.
UrlEscape == [b \in {"x", "4", "D", "J", "AA", "SP"} |->
             CASE b = "D"  -> <<"%", "4", "4">>
               [] b = "J"  -> <<"%", "4", "A">>
               [] b = "AA" -> <<"%", "A", "A">>
               [] b = "SP" -> <<"+">>
               [] OTHER    -> <<b>>]
UrlEscaped(s) == Seqs!FlattenSeq([i \in DOMAIN s |-> UrlEscape[s[i]]])

FormValues == {<<>>, <<"D">>, <<"4", "J", "x">>, <<"AA", "D", "SP", "4">>}
FormKeys == {<<"x">>, <<"D", "x">>}

\* One entry, ended by a newline or not at all, and two entries, of which the
\* first may be without "=".
UrlForm(bytes, entries) ==
  [encoding |-> "urlencoded", bytes |-> bytes, nested |-> <<>>,
   entries |-> entries, whole |-> TRUE]
Named(k, v) == Entry(k, <<>>, <<>>, v)

UrlForms ==
  {UrlForm(UrlEscaped(k) \o <<"=">> \o UrlEscaped(v) \o e, <<Named(k, v)>>) :
     k \in FormKeys, v \in FormValues, e \in {<<>>, <<"CR", "LF">>}}
  \cup
  {UrlForm(<<"4">> \o a \o <<"&">> \o UrlEscaped(k) \o <<"=">> \o UrlEscaped(v),
           <<Named(<<"4">>, IF a = <<"=", "x">> THEN <<"x">> ELSE <<>>), Named(k, v)>>) :
     a \in {<<>>, <<"=">>, <<"=", "x">>, <<"&">>}, k \in FormKeys, v \in FormValues}
  \cup {UrlForm(<<"x", "LF">>, <<Named(<<"x">>, <<>>)>>)}

Long(end) == [i \in 1..FormBuffer + 3 |-> IF i = FormBuffer + 2 THEN end ELSE "x"]

\* Forms with errors: two equal signs, no key, data after the end, and a key
\* that is too long for the buffer.
UrlErrors ==
  {[UrlForm(b, <<Named(<<"x">>, <<"4">>)>>) EXCEPT !.whole = FALSE] :
     b \in {<<"x", "=", "4", "=">>, <<"=", "4">>, <<"x", "=", "4", "LF", "4">>,
            Long("="), Long("&")}}

CRLF == <<"CR", "LF">>
LF == <<"LF">>
FormBoundary == <<"b", "c">>
NestedBoundary == <<"b", "d">>
PartHeaders ==
  [h \in {"N1", "N2", "F1", "F2", "T1", "M"} |->
     CASE h = "N1" -> [NoAttributes EXCEPT !["name"] = <<"n1">>]
       [] h = "N2" -> [NoAttributes EXCEPT !["name"] = <<"n2">>, !["filename"] = <<"f">>]
       [] h = "F1" -> [NoAttributes EXCEPT !["filename"] = <<"f1">>]
       [] h = "F2" -> [NoAttributes EXCEPT !["filename"] = <<"f2">>]
       [] h = "T1" -> [NoAttributes EXCEPT !["type"] = <<"t1">>]
       [] h = "M"  -> [NoAttributes EXCEPT !["type"] = Mixed]]

\* Values with what looks like a boundary.
PartValues == {<<>>, <<"x">>, <<"CR", "LF", "-", "-", "b", "x">>,
            <<"CR", "CR", "LF", "-", "CR", "LF", "-", "-">>}

Delim(b) == <<"-", "-">> \o b
LastLine == Delim(FormBoundary) \o <<"-", "-">> \o CRLF
MultiForm(bytes, entries) ==
  [encoding |-> "multipart", bytes |-> bytes, nested |-> NestedBoundary,
   entries |-> entries, whole |-> TRUE]

\* One part with any value, after what precedes the first boundary; two parts
\* with different attributes.
OnePart(pre, eol, v) ==
  MultiForm(pre \o Delim(FormBoundary) \o eol \o <<"N2">> \o eol \o eol \o v \o CRLF
            \o LastLine,
            <<Entry(<<"n2">>, <<"f">>, <<>>, v)>>)
TwoParts(v) ==
  MultiForm(Delim(FormBoundary) \o CRLF \o <<"N2">> \o CRLF \o <<"T1">> \o CRLF \o CRLF
            \o v \o CRLF \o Delim(FormBoundary) \o CRLF \o <<"N1">> \o CRLF \o CRLF
            \o CRLF \o LastLine,
            <<Entry(<<"n2">>, <<"f">>, <<"t1">>, v), Entry(<<"n1">>, <<>>, <<>>, <<>>)>>)

\* A part with two nested parts, and what follows it.
NestedPart(v, b) ==
  Delim(FormBoundary) \o CRLF \o <<"N1">> \o CRLF \o <<"M">> \o CRLF \o CRLF
  \o Delim(b) \o CRLF \o <<"F1">> \o CRLF \o <<"T1">> \o CRLF \o CRLF \o v
  \o CRLF \o Delim(b) \o CRLF \o <<"F2">> \o CRLF \o CRLF \o <<"x">>
  \o CRLF \o Delim(b) \o <<"-", "-">> \o CRLF
NestedEntries(v) ==
  <<Entry(<<"n1">>, <<"f1">>, <<"t1">>, v), Entry(<<"n1">>, <<"f2">>, <<>>, <<"x">>)>>
NestedForm(v) == MultiForm(NestedPart(v, NestedBoundary) \o LastLine, NestedEntries(v))

MultiForms ==
  {OnePart(<<>>, CRLF, v) : v \in PartValues} \cup {OnePart(<<"x", "-", "b">>, LF, <<"x">>)}
  \cup {TwoParts(<<"CR", "LF", "-", "-", "b", "x">>)} \cup {NestedForm(<<>>)}

\* Forms that break off.
Cut(d, n) == [d EXCEPT !.bytes = SubSeq(@, 1, n), !.whole = FALSE]
CutForms == {Cut(OnePart(<<>>, CRLF, <<"x", "x">>), n) : n \in {8, 10, 13, 16, 18}}
            \cup {Cut(NestedForm(<<"x">>), n) : n \in {30}}

\* Nested boundaries that are too long for the buffer, without and with the line
\* end before them.
LongNested ==
  {Cut([MultiForm(NestedPart(<<"x">>, b), NestedEntries(<<"x">>)) EXCEPT !.nested = b], 36) :
     b \in {[i \in 1..n |-> "b"] : n \in {FormBuffer - 1, FormBuffer - 3}}}

\* A nested part whose type tells no boundary.
Unbounded == Cut([NestedForm(<<"x">>) EXCEPT !.nested = <<>>], 30)

Forms ==
  UrlForms \cup UrlErrors \cup MultiForms \cup CutForms \cup LongNested
  \cup {Unbounded}

VARIABLES doc, pp, loc, got, refused, broken, ret

Post == INSTANCE PostProcessor WITH
  Docs <- Forms, Headers <- PartHeaders, BufferSize <- FormBuffer, XBUF_SIZE <- 4, Boundary <-
  FormBoundary

allvars == <<vars, part, ask, pc, options, daemon, listen, held, twice, fault, worker, doc, pp, loc, got,
  refused, broken, ret>>

AnyInit ==
  \/ /\ part = "memory" /\ Init
     /\ ask = NULL /\ pc = NULL /\ options = NULL /\ daemon = NULL /\ listen = NULL
     /\ held = NULL /\ twice = NULL /\ fault = NULL /\ worker = NULL /\ doc = NULL /\ pp = NULL /\ loc = NULL
     /\ got = NULL /\ refused = NULL /\ broken = NULL /\ ret = NULL
  \/ /\ part = "start" /\ Start!Init /\ Init
     /\ doc = NULL /\ pp = NULL /\ loc = NULL /\ got = NULL /\ refused = NULL
     /\ broken = NULL /\ ret = NULL
  \/ /\ part = "post" /\ Post!Init /\ Init
     /\ ask = NULL /\ options = NULL /\ daemon = NULL /\ listen = NULL /\ held = NULL
     /\ twice = NULL /\ fault = NULL /\ worker = NULL

AnyNext ==
  \/ /\ part = "memory" /\ Next
     /\ UNCHANGED <<part, ask, pc, options, daemon, listen, held, twice, fault, worker, doc,
        pp, loc, got, refused, broken, ret>>
  \/ /\ part = "start" /\ Start!Next
     /\ UNCHANGED <<part, vars, doc, pp, loc, got, refused, broken, ret>>
  \/ /\ part = "post" /\ Post!Next
     /\ UNCHANGED <<part, vars, ask, options, daemon, listen, held, twice, fault, worker>>

AnySpec == AnyInit /\ [][AnyNext]_allvars

-----------------------------------------------------------------------------
(* Properties of the components. *)

\* However the body is cut into pieces, the application is told the entries of
\* the form in order, each with its own name, file name and type, every part of
\* a value at its offset; and it is not called again after it has refused.
\* The result of MHD_destroy_post_processor() tells whether the application has
\* got the whole form.
\* The assertions of post_process_urlencoded(), and no buffer is overrun.
PostExact ==
  part = "post" =>
    /\ Post!EntriesExact
    /\ Post!ResultTells
    /\ Post!AssertionsHold

ASSUME Post!SizeAssumption /\ Post!HeaderAssumption
=============================================================================
