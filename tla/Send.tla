-------------------------------- MODULE Send --------------------------------
(***************************************************************************)
(* Sending a reply (mhd_send.c and the writing part of connection.c).      *)
(*                                                                         *)
(* A reply has a header and a body in memory, in a vector of buffers or in *)
(* a file.  The socket takes any part of what it is offered.  Around each  *)
(* send the library sets TCP_CORK (or TCP_NOPUSH) and TCP_NODELAY so that  *)
(* the kernel holds data back while more is to come, and lets everything   *)
(* go when the reply is complete; how that works differs by kernel, and    *)
(* the library remembers the options it has set.                           *)
(*                                                                         *)
(* The bytes of a reply are numbered: 1..header, then the body.            *)
(***************************************************************************)
EXTENDS Integers, Sequences, SequencesExt, FiniteSets

CONSTANTS Replies,      \* the replies an application may make
          Systems,      \* kernels: "linux", "freebsd", "bsd", "nocork"
          MaxReplies,   \* replies on one connection
          SendMax,      \* MHD_SCKT_SEND_MAX_SIZE_
          IovMax,       \* _MHD_IOV_MAX
          ChunkMax,     \* MHD_SENFILE_CHUNK_
          OnePacket,    \* 1400 in MHD_send_hdr_and_body_()
          BufSize,      \* the buffer of a response read from a file
          Failures      \* socket options that may fail to be set

VARIABLES env,     \* the connection: system, TLS, epoll, kind of socket
          sk,      \* cached and real socket options, and data held back
          rp,      \* the reply being sent
          wire,    \* bytes of this reply the kernel has accepted
          epoll,   \* WRITE_READY, and whether the kernel refused data
          failed,  \* options that once could not be set
          count    \* replies begun

vars == <<env, sk, rp, wire, epoll, failed, count>>

Options == {"cork", "nodelay"}
Tri == {"off", "on", "unknown"}
Least(a, b) == IF a < b THEN a ELSE b
BodySize(r) == FoldSeq(LAMBDA n, m : n + m, 0, r.body)
Upto(a, n) == [i \in 1..n |-> a + i - 1]

-----------------------------------------------------------------------------
(* The kernel. *)

HasCork == env.os # "nocork"

(* Accepting n bytes: they leave at once only without MSG_MORE, uncorked    *)
(* and with TCP_NODELAY; what was held back leaves with them.              *)
KernelTakes(s, n, more) ==
  IF env.nonip THEN s
  ELSE IF ~more /\ ~s.kcorked /\ s.knodelay THEN [s EXCEPT !.held = FALSE]
  ELSE [s EXCEPT !.held = @ \/ n > 0]

(* Clearing TCP_CORK sends what is held back on Linux always, on FreeBSD    *)
(* if the socket was corked; setting TCP_NODELAY does so on Linux only.    *)
KernelCork(s, on) ==
  [s EXCEPT !.kcorked = on,
            !.held = @ /\ ~(/\ ~on
                            /\ \/ env.os = "linux"
                               \/ env.os = "freebsd" /\ s.kcorked)]
KernelNodelay(s, on) ==
  [s EXCEPT !.knodelay = on, !.held = @ /\ ~(on /\ env.os = "linux")]

-----------------------------------------------------------------------------
(* Socket options.  F is the set of options that fail in this call.  On a   *)
(* socket that is not TCP every option fails, and the library learns it.   *)

CanSet(s, opt, F) == s.isNonip # "yes" /\ ~env.nonip /\ opt \notin F
OptionFails(s) ==
  [s EXCEPT !.isNonip = IF env.nonip /\ @ = "unknown" THEN "yes" ELSE @]

MutantCachedAnyway(s, on, F) ==
  IF CanSet(s, "cork", F)
  THEN [KernelCork(s, on) EXCEPT !.corked = IF on THEN "on" ELSE "off"]
  ELSE [OptionFails(s) EXCEPT !.corked = IF on THEN "on" ELSE "off"]

(* MHD_connection_set_cork_state_() *)
SetCork(s, on, F) ==
  IF CanSet(s, "cork", F)
  THEN [KernelCork(s, on) EXCEPT !.corked = IF on THEN "on" ELSE "off"]
  ELSE OptionFails(s)

(* MHD_connection_set_nodelay_state_() *)
SetNodelay(s, on, F) ==
  IF CanSet(s, "nodelay", F)
  THEN [KernelNodelay(s, on) EXCEPT !.nodelay = IF on THEN "on" ELSE "off"]
  ELSE OptionFails(s)

(* The second option is set only if the first could not be. *)
NodelayElseCork(s, on, F) ==
  IF CanSet(s, "nodelay", F) THEN SetNodelay(s, TRUE, F)
  ELSE SetCork(SetNodelay(s, TRUE, F), on, F)
CorkElseNodelay(s, on, F) ==
  IF CanSet(s, "cork", F) THEN SetCork(s, on, F)
  ELSE SetNodelay(SetCork(s, on, F), TRUE, F)

(* pre_send_setopt() when more data follows: hold data back. *)
PreBuffer(s, plain, F) ==
  LET t == IF HasCork THEN SetCork(s, TRUE, F) ELSE s
  IN  IF (env.os = "linux" /\ plain) \/ (HasCork /\ s.corked = "on") THEN s
      ELSE IF (HasCork /\ CanSet(s, "cork", F)) \/ t.nodelay = "off" THEN t
      ELSE SetNodelay(t, FALSE, F)

(* pre_send_setopt() before the last data of a reply. *)
PrePush(s, F) ==
  CASE env.os = "linux" -> s
    [] env.os = "freebsd" /\ s.corked = "on" -> s
    [] env.os = "freebsd" /\ s.corked = "off" ->
         IF s.nodelay = "on" THEN s ELSE NodelayElseCork(s, TRUE, F)
    [] env.os = "freebsd" /\ s.corked = "unknown" ->
         IF s.nodelay = "on" THEN SetCork(s, TRUE, F) ELSE CorkElseNodelay(s, TRUE, F)
    [] env.os \in {"bsd", "nocork"} ->
         LET t == IF env.os = "bsd" /\ s.corked # "off"
                  THEN SetCork(s, FALSE, F) ELSE s
         IN  IF t.nodelay # "on" THEN SetNodelay(t, TRUE, F) ELSE t

Pre(s, plain, push, F) ==
  IF s.isNonip = "yes" THEN s
  ELSE IF push THEN PrePush(s, F) ELSE PreBuffer(s, plain, F)

(* zero_send_(): sending nothing on an uncorked socket with TCP_NODELAY.    *)
ZeroSend(s) == [KernelTakes(s, 0, FALSE) EXCEPT !.zero = TRUE]
NodelayAndZeroSend(s, F) ==
  IF s.nodelay = "on" \/ CanSet(s, "nodelay", F)
  THEN ZeroSend(IF s.nodelay = "on" THEN s ELSE SetNodelay(s, TRUE, F))
  ELSE OptionFails(s)

MutantLinuxIgnoresFailure(s, plain, F) ==
  IF s.corked = "off" /\ s.nodelay = "on" THEN s
  ELSE IF s.nodelay # "on" \/ ~plain THEN SetNodelay(s, TRUE, F)
  ELSE SetCork(s, FALSE, F)

(* post_send_setopt() after the last data; `plain' is whether send() or     *)
(* sendmsg() is expected next.  The comparison of the old cork state with   *)
(* _MHD_OFF on FreeBSD stands where it is never _MHD_OFF.                   *)
PostLinux(s, plain, F) ==
  IF s.corked = "off" /\ s.nodelay = "on" THEN s
  ELSE IF s.nodelay # "on" \/ ~plain THEN NodelayElseCork(s, FALSE, F)
  ELSE CorkElseNodelay(s, FALSE, F)

PostBSD(s, F) ==
  CASE s.corked = "off" /\ s.nodelay = "on" -> s
    [] s.corked = "off" /\ s.nodelay # "on" -> NodelayAndZeroSend(s, F)
    [] OTHER -> IF CanSet(s, "cork", F)
                THEN NodelayAndZeroSend(SetCork(s, FALSE, F), F)
                ELSE OptionFails(s)

PostNoCork(s, F) == IF s.nodelay = "on" THEN s ELSE NodelayAndZeroSend(s, F)

Post(s, plain, F) ==
  CASE s.isNonip = "yes" -> s
    [] s.isNonip # "yes" /\ env.os = "linux" -> PostLinux(s, plain, F)
    [] s.isNonip # "yes" /\ env.os \in {"freebsd", "bsd"} -> PostBSD(s, F)
    [] OTHER -> PostNoCork(s, F)

-----------------------------------------------------------------------------
(* The send functions.  Each gives the socket after the call when the       *)
(* kernel has accepted n bytes; n = 0 is a refusal, MHD_ERR_AGAIN_.        *)

(* What MHD_send_data_() offers to the kernel, and whether it still pushes. *)
Offered(size) == IF env.tls THEN size ELSE Least(size, SendMax)

MHD_send_data_(s, size, push, n, F, G) ==
  LET last == push /\ size = Offered(size)
      taken == KernelTakes(Pre(s, ~env.tls, last, F), n,
                           env.os = "linux" /\ ~env.tls /\ ~last)
  IN  IF last /\ n = size THEN Post(taken, ~env.tls, G) ELSE taken

MutantHeaderWaits(hsize, bsize, complete) == complete

(* Whether MHD_send_hdr_and_body_() wants the header to leave at once. *)
PushHeader(hsize, bsize, complete) ==
  \/ ~complete
  \/ hsize + bsize >= OnePacket
  \/ bsize = 0

(* The header alone, then the body if the header went completely and the   *)
(* socket does not block (TLS, or no body to send).                        *)
SendTwice(s, hsize, bsize, complete, n, F, G) ==
  LET h == MHD_send_data_(s, hsize, PushHeader(hsize, bsize, complete),
                          Least(n, hsize), F, G)
  IN  IF n < hsize \/ bsize = 0 \/ ~env.nonblock THEN h
      ELSE MHD_send_data_(h, bsize, complete, n - hsize, F, G)

(* Both in one sendmsg(), which is called without MSG_MORE. *)
SendVector(s, hsize, bsize, complete, n, F, G) ==
  LET b == Least(bsize, SendMax - hsize)
      last == complete /\ b = bsize
      hdr == PushHeader(hsize, bsize, complete)
      taken == KernelTakes(Pre(s, TRUE, hdr \/ last, F), n, FALSE)
  IN  CASE last /\ n = hsize + b -> Post(taken, TRUE, G)
        [] ~(last /\ n = hsize + b) /\ hdr /\ n >= hsize ->
             Post(taken, rp.sender = "std", G)
        [] OTHER -> taken

(* send_iov_emu(): one element after the other while the socket takes all;  *)
(* only the last element is pushed.                                        *)
SendIovEmu(s, lens, n, F, G) ==
  LET first == FoldSeq(LAMBDA a, b : a + b, 0, Front(lens))
      a == IF Len(lens) = 1 THEN s
           ELSE MHD_send_data_(s, first, FALSE, Least(n, first), F, G)
  IN  IF n < first \/ (Len(lens) > 1 /\ ~env.nonblock) THEN a
      ELSE MHD_send_data_(a, Last(lens), TRUE, n - first, F, G)

(* send_iov_nontls(): at most IovMax elements in one sendmsg(). *)
SendIovVector(s, lens, n, F, G) ==
  LET all == Len(lens) <= IovMax
      taken == KernelTakes(Pre(s, TRUE, all, F), n, env.os = "linux" /\ ~all)
      done == n = FoldSeq(LAMBDA a, b : a + b, 0, lens)
  IN  IF done /\ all THEN Post(taken, TRUE, G) ELSE taken

(* MHD_send_sendfile_() *)
SendFile(s, left, n, F, G) ==
  LET last == left <= ChunkMax
      taken == KernelTakes(Pre(s, FALSE, last, F), n, FALSE)
  IN  IF last /\ n = left THEN Post(taken, FALSE, G) ELSE taken

-----------------------------------------------------------------------------
(* The connection that sends the reply. *)

Total == BodySize(rp.r)
HeaderLeft == rp.r.header - rp.hpos
Sum(lens) == FoldSeq(LAMBDA a, b : a + b, 0, lens)
Lens(iov) == [i \in 1..Len(iov) |-> iov[i].len]
BodyBytes(from, n) == Upto(rp.r.header + from + 1, n)

(* The elements of the vector in the application's memory. *)
Vector(r) ==
  [i \in 1..Len(r.body) |->
     [base |-> r.header + Sum(SubSeq(r.body, 1, i - 1)) + 1, len |-> r.body[i]]]
Bytes(iov) == FlattenSeq([i \in 1..Len(iov) |-> Upto(iov[i].base, iov[i].len)])

(* The reply a connection starts: sendfile() is chosen for a file unless    *)
(* the connection uses TLS.                                                *)
StartReply(r) ==
  [r |-> r, st |-> "headers", hpos |-> 0, pos |-> 0, iov |-> Vector(r),
   sender |-> IF r.kind = "file" /\ ~env.tls THEN "sendfile" ELSE "std",
   start |-> 0, buf |-> << >>]

InitialSocket(e, ext, c, d) ==
  [corked |-> IF ext THEN "unknown" ELSE "off",
   nodelay |-> IF ext THEN "unknown" ELSE "off",
   isNonip |-> IF ext THEN "unknown" ELSE IF e.nonip THEN "yes" ELSE "no",
   kcorked |-> ext /\ c, knodelay |-> ext /\ d, held |-> FALSE, zero |-> FALSE]

Ready == [ready |-> TRUE, nospace |-> FALSE]
Full == [ready |-> FALSE, nospace |-> TRUE]

Init ==
  /\ env \in [os : Systems, tls : BOOLEAN, epoll : BOOLEAN, nonip : BOOLEAN, nonblock : BOOLEAN]
  /\ env.epoll => env.os = "linux" /\ env.nonblock
  /\ \E ext, c, d \in BOOLEAN : /\ (c => ext /\ HasCork) /\ (d => ext) /\ (env.nonip => ~c /\ ~d)
                              /\ sk = InitialSocket(env, ext, c, d)
  /\ \E r \in Replies : rp = StartReply(r)
  /\ wire = << >>
  /\ epoll = Ready
  /\ failed = {}
  /\ count = 1

CanWrite == IF env.epoll THEN epoll.ready ELSE ~epoll.nospace

MutantNotReady(n, offered) ==
  IF n = offered THEN {epoll} ELSE {[ready |-> FALSE, nospace |-> n > 0]}

(* The state of the socket after it took n of `offered' bytes: a part means *)
(* that it is full, nothing that it is full or that a signal came; a TLS    *)
(* record may be smaller than what is offered.                             *)
After(n, offered) ==
  IF n = offered THEN {epoll}
  ELSE IF env.tls \/ n = 0 THEN {epoll, Full}
  ELSE {Full}

(* Only options of TCP sockets fail by chance. *)
Fails(F, G) == /\ F \subseteq Failures /\ G \subseteq Failures
               /\ failed' = failed \cup (IF env.nonip THEN {} ELSE F \cup G)

(* MHD_connection_handle_write() in the state HEADERS_SENDING: the body is  *)
(* sent along if it is in memory.                                          *)
HeadersDone(p) ==
  IF p.hpos < p.r.header THEN p
  ELSE [p EXCEPT !.st = IF @ = "headers" THEN IF p.pos < BodySize(p.r) THEN "body" ELSE "done" ELSE @]

SendHeaders ==
  LET body == IF rp.r.kind = "data" THEN Total ELSE 0
      complete == rp.r.kind = "data" \/ Total = 0
      twice == env.tls \/ body = 0 \/ SendMax < HeaderLeft
      offered == IF ~twice THEN HeaderLeft + Least(body, SendMax - HeaderLeft)
                 ELSE Offered(HeaderLeft)
                      + (IF HeaderLeft = Offered(HeaderLeft) /\ env.nonblock
                         THEN Offered(body) ELSE 0)
  IN  /\ rp.st = "headers"
      /\ CanWrite
      /\ \E F, G \in SUBSET Options, n \in 0..offered :
           /\ Fails(F, G)
           /\ sk' = IF twice THEN SendTwice(sk, HeaderLeft, body, complete, n, F, G)
                    ELSE SendVector(sk, HeaderLeft, body, complete, n, F, G)
           /\ LET h == Least(n, HeaderLeft)
              IN  /\ wire' = wire \o Upto(rp.hpos + 1, h) \o BodyBytes(0, n - h)
                  /\ rp' = HeadersDone([rp EXCEPT !.hpos = @ + h, !.pos = n - h])
           /\ epoll' \in After(n, offered)
      /\ UNCHANGED <<env, count>>

(* The end of a write of n bytes of the body. *)
Wrote(p, n) ==
  [p EXCEPT !.pos = @ + n, !.st = IF p.pos + n = BodySize(p.r) THEN "done" ELSE @]

(* The rest of a body in memory. *)
SendData ==
  /\ rp.st = "body" /\ rp.r.kind = "data"
  /\ CanWrite
  /\ \E F, G \in SUBSET Options, n \in 0..Offered(Total - rp.pos) :
       /\ Fails(F, G)
       /\ sk' = MHD_send_data_(sk, Total - rp.pos, TRUE, n, F, G)
       /\ wire' = wire \o BodyBytes(rp.pos, n)
       /\ rp' = Wrote(rp, n)
       /\ epoll' \in After(n, Offered(Total - rp.pos))
  /\ UNCHANGED <<env, count>>

MutantLengthOnly(iov, n) ==
  LET k == Cardinality({i \in 1..Len(iov) : Sum(Lens(SubSeq(iov, 1, i))) <= n})
      part == n - Sum(Lens(SubSeq(iov, 1, k)))
      rest == SubSeq(iov, k + 1, Len(iov))
  IN  IF part = 0 THEN rest ELSE [rest EXCEPT ![1].len = @ - part]

(* The vector after n bytes of it were sent. *)
Advance(iov, n) ==
  LET k == Cardinality({i \in 1..Len(iov) : Sum(Lens(SubSeq(iov, 1, i))) <= n})
      part == n - Sum(Lens(SubSeq(iov, 1, k)))
      rest == SubSeq(iov, k + 1, Len(iov))
  IN  IF part = 0 THEN rest
      ELSE [rest EXCEPT ![1].base = @ + part, ![1].len = @ - part]

(* MHD_send_iovec_().  With the vector functions WRITE_READY is cleared     *)
(* whenever elements are left, also when the kernel took all it was offered.*)
SendIovec ==
  LET lens == Lens(rp.iov)
      some == SubSeq(lens, 1, Least(Len(lens), IovMax))
      one == IF env.nonblock THEN lens ELSE <<lens[1]>>
      offered == IF env.tls THEN Sum(one) ELSE Sum(some)
  IN  /\ rp.st = "body" /\ rp.r.kind = "iov"
      /\ CanWrite
      /\ \E F, G \in SUBSET Options, n \in 0..offered :
           /\ Fails(F, G)
           /\ sk' = IF env.tls THEN SendIovEmu(sk, lens, n, F, G)
                    ELSE SendIovVector(sk, lens, n, F, G)
           /\ wire' = wire \o SubSeq(Bytes(rp.iov), 1, n)
           /\ rp' = [Wrote(rp, n) EXCEPT !.iov = Advance(@, n)]
           /\ IF ~env.tls /\ n = offered /\ n < Sum(lens)
              THEN epoll' = [epoll EXCEPT !.ready = FALSE]
              ELSE epoll' \in After(n, offered)
      /\ UNCHANGED <<env, count>>

(* MHD_send_sendfile_() *)
Sendfile ==
  LET offered == Least(Total - rp.pos, ChunkMax)
  IN  /\ rp.st = "body" /\ rp.sender = "sendfile"
      /\ CanWrite
      /\ \E F, G \in SUBSET Options, n \in 0..offered :
           /\ Fails(F, G)
           /\ sk' = SendFile(sk, Total - rp.pos, n, F, G)
           /\ wire' = wire \o BodyBytes(rp.pos, n)
           /\ rp' = Wrote(rp, n)
           /\ epoll' \in After(n, offered)
      /\ UNCHANGED <<env, count>>

(* sendfile() does not work for this file: go on with send(). *)
SendfileFallback ==
  /\ rp.st = "body" /\ rp.sender = "sendfile"
  /\ CanWrite
  /\ \E F \in SUBSET Options :
       /\ Fails(F, {})
       /\ sk' = Pre(sk, FALSE, Total - rp.pos <= ChunkMax, F)
  /\ rp' = [rp EXCEPT !.sender = "std"]
  /\ UNCHANGED <<env, wire, epoll, count>>

(* try_ready_normal_body(): read the next k bytes of the file into the      *)
(* buffer unless it holds the byte at the write position.                  *)
Refill(k) ==
  IF rp.start <= rp.pos /\ rp.start + Len(rp.buf) > rp.pos THEN rp
  ELSE [rp EXCEPT !.start = rp.pos, !.buf = BodyBytes(rp.pos, k)]

(* A file sent with send(). *)
SendFromBuffer ==
  /\ rp.st = "body" /\ rp.r.kind = "file" /\ rp.sender = "std"
  /\ CanWrite
  /\ \E F, G \in SUBSET Options, k \in 1..Least(BufSize, Total - rp.pos) :
       LET p == Refill(k)
           size == p.start + Len(p.buf) - p.pos
       IN  \E n \in 0..Offered(size) :
             /\ Fails(F, G)
             /\ sk' = MHD_send_data_(sk, size, TRUE, n, F, G)
             /\ wire' = wire \o SubSeq(p.buf, p.pos - p.start + 1, p.pos - p.start + n)
             /\ rp' = Wrote(p, n)
             /\ epoll' \in After(n, Offered(size))
  /\ UNCHANGED <<env, count>>

(* A hard error closes the connection. *)
SendFailsHard ==
  /\ rp.st \in {"headers", "body"}
  /\ CanWrite
  /\ rp' = [rp EXCEPT !.st = "closed"]
  /\ UNCHANGED <<env, sk, wire, epoll, failed, count>>

(* The client reads and the socket has space again: an event for epoll,     *)
(* which reports edges, only if the kernel had refused data.               *)
SocketDrains ==
  /\ epoll.nospace
  /\ epoll' = Ready
  /\ UNCHANGED <<env, sk, rp, wire, failed, count>>

(* The next reply on the same connection. *)
NextReply ==
  /\ rp.st = "done" /\ count < MaxReplies
  /\ \E r \in Replies : rp' = StartReply(r)
  /\ count' = count + 1
  /\ wire' = << >>
  /\ UNCHANGED <<env, sk, epoll, failed>>

SendStep == SendHeaders \/ SendData \/ SendIovec \/ Sendfile \/ SendFromBuffer

Next == SendStep \/ SendfileFallback \/ SendFailsHard \/ SocketDrains \/ NextReply

(* The client keeps reading, and a socket that is ready again and again     *)
(* takes data at last (not every send is interrupted).                     *)
Fairness ==
  /\ WF_vars(SocketDrains)
  /\ WF_vars(NextReply)
  /\ SF_vars(SendStep /\ wire' # wire)

Spec == Init /\ [][Next]_vars /\ Fairness

-----------------------------------------------------------------------------
(***************************************************************************)
(* Properties.                                                             *)
(***************************************************************************)

(* Whatever parts the kernel takes, whichever of the four senders is used   *)
(* and whenever sendfile() is given up, the client gets the header and the  *)
(* body in order, without gaps or repeats, and a finished reply is          *)
(* complete (MHD_connection_handle_write with all of mhd_send.c).           *)
WireInOrder ==
  /\ wire = Upto(1, Len(wire))
  /\ Len(wire) <= rp.r.header + Total
  /\ rp.st = "done" => Len(wire) = rp.r.header + Total

(* A complete reply is not held back in the kernel by TCP_CORK, Nagle's     *)
(* algorithm or MSG_MORE, unless an option could not be set; on Linux one   *)
(* of the two options is enough (pre_send_setopt and post_send_setopt).     *)
DonePushed ==
  rp.st = "done" /\ sk.held =>
     IF env.os = "linux" THEN failed = Options ELSE failed # {}

(* A header whose body is not in memory does not wait for the body          *)
(* (push_hdr in MHD_send_hdr_and_body_).                                    *)
HeaderPushed ==
  rp.st = "body" /\ rp.r.kind # "data" /\ rp.pos = 0 /\ sk.held => failed # {}

(* The remembered options are the options of the socket: a wrong guess would *)
(* skip a system call that is needed (sk_corked, sk_nodelay).               *)
CacheTrue ==
  /\ sk.corked # "unknown" => (sk.corked = "on") = sk.kcorked
  /\ sk.nodelay # "unknown" => (sk.nodelay = "on") = sk.knodelay

Ended == rp.st = "closed" \/ (rp.st = "done" /\ count = MaxReplies)

(* With edge-triggered epoll a reply ends although readiness is reported    *)
(* once only, except for a vector with more elements than one call takes.   *)
LongVector == env.epoll /\ ~env.tls /\ rp.r.kind = "iov" /\ Len(rp.r.body) > IovMax
SendsEnd == []~LongVector => <>Ended

(* "epoll() told us that space was available for writing, and we did not    *)
(* consume all of it yet" (internal.h, MHD_EPOLL_STATE_WRITE_READY): as the *)
(* flag says so, every reply gets sent.                                     *)
AllSendsEnd == <>Ended

(* "Should not be called on typical data processing" (zero_send_).          *)
NoZeroSend == sk.zero => failed # {}
=============================================================================
