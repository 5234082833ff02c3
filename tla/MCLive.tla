-------------------------------- MODULE MCLive --------------------------------
(***************************************************************************)
(* What must happen in the end: the forwarding of an upgraded connection,  *)
(* the threads of the connections, the sending of a reply, the post        *)
(* processor.  A behaviour is about one of them; its first state chooses   *)
(* which.                                                                  *)
(***************************************************************************)
EXTENDS Integers, SequencesExt

CONSTANTS NULL, c1, c2

(* Forms: escapes and line ends, an error, a value longer than the buffer, *)
(* a part within a part.                                                   *)
NoAttributes == [a \in {"name", "filename", "type"} |-> <<>>]
PartHeaders ==
  [h \in {"N", "F", "M"} |->
     CASE h = "N" -> [NoAttributes EXCEPT !["name"] = <<"n">>]
       [] h = "F" -> [NoAttributes EXCEPT !["filename"] = <<"f">>]
       [] h = "M" -> [NoAttributes EXCEPT !["type"] = <<"mixed">>]]
Form(encoding, bytes) ==
  [encoding |-> encoding, bytes |-> bytes, nested |-> <<"b", "d">>, entries |-> <<>>, whole |-> FALSE]
Forms ==
  {Form("urlencoded", b) :
     b \in {<<"x", "=", "%", "4", "D", "&", "x", "=", "+", "CR", "LF">>, <<"x", "=", "4", "=">>,
            <<"x", "&", "&", "x", "=", "%", "4">>}}
  \cup {Form("urlencoded", <<"x", "=">> \o [k \in 1..12 |-> "x"])}
  \cup {Form("multipart", <<"-", "-", "b", "c", "CR", "LF", "N", "CR", "LF", "M", "CR", "LF", "CR", "LF",
                            "-", "-", "b", "d", "CR", "LF", "F", "CR", "LF", "CR", "LF", "x", "CR", "LF",
                            "-", "-", "b", "d", "-", "-", "CR", "LF", "-", "-", "b", "c", "-", "-", "CR", "LF">>)}

(* A reply to be sent is as in MCReply, for one kernel. *)
SentReplies ==
  {[kind |-> "data", header |-> 2, body |-> <<2>>],
   [kind |-> "data", header |-> 1, body |-> << >>],
   [kind |-> "iov", header |-> 1, body |-> <<1, 2, 1>>],
   [kind |-> "file", header |-> 1, body |-> <<3>>]}

VARIABLES
  part,  \* the component this behaviour is about
  doc, pc, pp, loc, got, refused, broken, ret, in, in_size, out, out_size, app_celi, mhd_celi,
  was_closed, tls_ready, shutdown, seen_closed, client, csent, net, tls, cgot, app, shut,
  asent, up, down, agot, itc, dresuming, connections, at_limit, place, suspended, resuming,
  thread_joined, sock, was_suspended, dpc, dcon, dset, panic, held, waking, nsuspends, env,
  sk, rp, wire, epoll, failed, count

Post == INSTANCE PostProcessor WITH
  Docs <- Forms, Headers <- PartHeaders, BufferSize <- 10, XBUF_SIZE <- 4, Boundary <- <<"b",
  "c">>

Fwd == INSTANCE Forwarding WITH
  PollFn <- "poll", BufferSize <- 2, PipeSize <- 2, ClientBytes <- 1, AppBytes <- 2, Faults <-
  TRUE

Tpc == INSTANCE ThreadPerConn WITH
  Conn <- {c1, c2}, Limit <- 2, MaxSuspends <- 0

Sent == INSTANCE Send WITH
  Replies <- SentReplies, Systems <- {"linux"}, MaxReplies <- 1, SendMax <- 3, IovMax <- 2,
  ChunkMax <- 2, OnePacket <- 4, BufSize <- 2, Failures <- {}

vars == <<part, doc, pc, pp, loc, got, refused, broken, ret, in, in_size, out, out_size,
  app_celi, mhd_celi, was_closed, tls_ready, shutdown, seen_closed, client, csent, net, tls,
  cgot, app, shut, asent, up, down, agot, itc, dresuming, connections, at_limit, place,
  suspended, resuming, thread_joined, sock, was_suspended, dpc, dcon, dset, panic, held,
  waking, nsuspends, env, sk, rp, wire, epoll, failed, count>>

Init ==
  \/ /\ part = "post" /\ Post!Init
     /\ in = NULL /\ in_size = NULL /\ out = NULL /\ out_size = NULL /\ app_celi = NULL
     /\ mhd_celi = NULL /\ was_closed = NULL /\ tls_ready = NULL /\ shutdown = NULL
     /\ seen_closed = NULL /\ client = NULL /\ csent = NULL /\ net = NULL /\ tls = NULL
     /\ cgot = NULL /\ app = NULL /\ shut = NULL /\ asent = NULL /\ up = NULL /\ down = NULL
     /\ agot = NULL /\ itc = NULL /\ dresuming = NULL /\ connections = NULL
     /\ at_limit = NULL /\ place = NULL /\ suspended = NULL /\ resuming = NULL
     /\ thread_joined = NULL /\ sock = NULL /\ was_suspended = NULL /\ dpc = NULL
     /\ dcon = NULL /\ dset = NULL /\ panic = NULL /\ held = NULL /\ waking = NULL
     /\ nsuspends = NULL /\ env = NULL /\ sk = NULL /\ rp = NULL /\ wire = NULL
     /\ epoll = NULL /\ failed = NULL /\ count = NULL
  \/ /\ part = "forwarding" /\ Fwd!Init
     /\ doc = NULL /\ pp = NULL /\ loc = NULL /\ got = NULL /\ refused = NULL
     /\ broken = NULL /\ ret = NULL /\ itc = NULL /\ dresuming = NULL /\ connections = NULL
     /\ at_limit = NULL /\ place = NULL /\ suspended = NULL /\ resuming = NULL
     /\ thread_joined = NULL /\ sock = NULL /\ was_suspended = NULL /\ dpc = NULL
     /\ dcon = NULL /\ dset = NULL /\ panic = NULL /\ held = NULL /\ waking = NULL
     /\ nsuspends = NULL /\ env = NULL /\ sk = NULL /\ rp = NULL /\ wire = NULL
     /\ epoll = NULL /\ failed = NULL /\ count = NULL
  \/ /\ part = "threads" /\ Tpc!Init
     /\ doc = NULL /\ pp = NULL /\ loc = NULL /\ got = NULL /\ refused = NULL
     /\ broken = NULL /\ ret = NULL /\ in = NULL /\ in_size = NULL /\ out = NULL
     /\ out_size = NULL /\ app_celi = NULL /\ mhd_celi = NULL /\ was_closed = NULL
     /\ tls_ready = NULL /\ seen_closed = NULL /\ client = NULL /\ csent = NULL
     /\ net = NULL /\ tls = NULL /\ cgot = NULL /\ shut = NULL /\ asent = NULL /\ up = NULL
     /\ down = NULL /\ agot = NULL /\ env = NULL /\ sk = NULL /\ rp = NULL /\ wire = NULL
     /\ epoll = NULL /\ failed = NULL /\ count = NULL
  \/ /\ part = "send" /\ Sent!Init
     /\ doc = NULL /\ pc = NULL /\ pp = NULL /\ loc = NULL /\ got = NULL /\ refused = NULL
     /\ broken = NULL /\ ret = NULL /\ in = NULL /\ in_size = NULL /\ out = NULL
     /\ out_size = NULL /\ app_celi = NULL /\ mhd_celi = NULL /\ was_closed = NULL
     /\ tls_ready = NULL /\ shutdown = NULL /\ seen_closed = NULL /\ client = NULL
     /\ csent = NULL /\ net = NULL /\ tls = NULL /\ cgot = NULL /\ app = NULL /\ shut = NULL
     /\ asent = NULL /\ up = NULL /\ down = NULL /\ agot = NULL /\ itc = NULL
     /\ dresuming = NULL /\ connections = NULL /\ at_limit = NULL /\ place = NULL
     /\ suspended = NULL /\ resuming = NULL /\ thread_joined = NULL /\ sock = NULL
     /\ was_suspended = NULL /\ dpc = NULL /\ dcon = NULL /\ dset = NULL /\ panic = NULL
     /\ held = NULL /\ waking = NULL /\ nsuspends = NULL

Next ==
  \/ /\ part = "post" /\ Post!Next
     /\ UNCHANGED <<part, in, in_size, out, out_size, app_celi, mhd_celi, was_closed, tls_ready,
        shutdown, seen_closed, client, csent, net, tls, cgot, app, shut, asent, up,
        down, agot, itc, dresuming, connections, at_limit, place, suspended, resuming,
        thread_joined, sock, was_suspended, dpc, dcon, dset, panic, held, waking,
        nsuspends, env, sk, rp, wire, epoll, failed, count>>
  \/ /\ part = "forwarding" /\ Fwd!Next
     /\ UNCHANGED <<part, doc, pp, loc, got, refused, broken, ret, itc, dresuming, connections,
        at_limit, place, suspended, resuming, thread_joined, sock, was_suspended, dpc,
        dcon, dset, panic, held, waking, nsuspends, env, sk, rp, wire, epoll, failed,
        count>>
  \/ /\ part = "threads" /\ Tpc!Next
     /\ UNCHANGED <<part, doc, pp, loc, got, refused, broken, ret, in, in_size, out, out_size,
        app_celi, mhd_celi, was_closed, tls_ready, seen_closed, client, csent, net, tls,
        cgot, shut, asent, up, down, agot, env, sk, rp, wire, epoll, failed, count>>
  \/ /\ part = "send" /\ Sent!Next
     /\ UNCHANGED <<part, doc, pc, pp, loc, got, refused, broken, ret, in, in_size, out,
        out_size, app_celi, mhd_celi, was_closed, tls_ready, shutdown, seen_closed,
        client, csent, net, tls, cgot, app, shut, asent, up, down, agot, itc, dresuming,
        connections, at_limit, place, suspended, resuming, thread_joined, sock,
        was_suspended, dpc, dcon, dset, panic, held, waking, nsuspends>>

Spec == Init /\ [][Next]_vars

PostVars == Post!vars
FwdVars == Fwd!vars
TpcVars == Tpc!vars
SentVars == Sent!vars
\* The fairness of each component, see there.
Fairness ==
  /\ WF_PostVars(part = "post" /\ (Post!Url \/ Post!Multi))
  /\ WF_FwdVars(part = "forwarding" /\ Fwd!ThreadSteps)
  /\ WF_FwdVars(part = "forwarding" /\ Fwd!Poll(FALSE))
  /\ WF_FwdVars(part = "forwarding" /\ Fwd!MHD_upgraded_connection_mark_app_closed_)
  /\ WF_FwdVars(part = "forwarding" /\ Fwd!StopWakes)
  /\ \A t \in {c1, c2} : /\ WF_TpcVars(part = "threads" /\ Tpc!ThreadStep(t))
                        /\ WF_TpcVars(part = "threads" /\ Tpc!ResumeSignals(t))
  /\ WF_TpcVars(part = "threads" /\ Tpc!DaemonStep)
  /\ WF_TpcVars(part = "threads" /\ Tpc!StopSignals)
  /\ WF_TpcVars(part = "threads" /\ Tpc!StopJoins)
  /\ WF_SentVars(part = "send" /\ Sent!SocketDrains)
  /\ WF_SentVars(part = "send" /\ Sent!NextReply)
  /\ SF_SentVars(part = "send" /\ Sent!SendStep /\ wire' # wire)

FairSpec == Spec /\ Fairness

-----------------------------------------------------------------------------
(* Properties of the components. *)

\* Every call returns: neither the loops over the input nor the one over the
\* value run for ever.
CallsReturn == (part = "post" /\ pc \notin {"idle", "ended"}) ~> (part = "post" /\ pc = "idle")

\* Forwarding ends after either.  Code: thread_main_connection_upgrade() leaves
\* its loop.
ForwardingEnds ==
  /\ (part = "forwarding" /\ shutdown) ~> (part = "forwarding" /\ pc = "done")
  /\ (/\ SF_FwdVars(part = "forwarding" /\ Fwd!Poll(TRUE))
      /\ SF_FwdVars(part = "forwarding" /\ Fwd!SendClient /\ out' # out))
     => ((part = "forwarding" /\ was_closed) ~> (part = "forwarding" /\ pc = "done"))

\* As long as no connection is suspended: stopping wakes every thread, in
\* select() or between two of its checks, and returns.
StopReturns == (part = "threads" /\ app # "running") ~> (part = "threads" /\ app = "stopped")

\* As long as no connection is suspended: the daemon thread, which may wait with
\* no event but the signals of the threads, learns of the end of every one, frees
\* the connection and is below its limit again.
ClosedIsFreed ==
  (part = "threads" /\ place[c1] = "cleanup") ~> (part = "threads" /\ place[c1] = "freed")

(* With edge-triggered epoll a reply ends although readiness is reported    *)
(* once only, except for a vector with more elements than one call takes.   *)
SendsEnd ==
  [](part = "send" /\ ~ Sent!LongVector) => <>(part = "send" /\ Sent!Ended)

\* A call of the post processor returns, and a reply is sent to its end by a socket that
\* drains again and again.  Code: MHD_post_process(), the send functions of mhd_send.c.
OperationsEnd == CallsReturn /\ SendsEnd

\* The thread that forwards for an upgraded connection ends, and the stop of a daemon with
\* one thread per connection returns; its closed connections are freed without it.  Code:
\* thread_main_connection_upgrade(), close_all_connections(), MHD_cleanup_connections().
ThreadsEnd == ForwardingEnds /\ StopReturns /\ ClosedIsFreed

ASSUME Post!SizeAssumption /\ Post!HeaderAssumption /\ Fwd!PollAssumption /\ Fwd!SizeAssumption
ASSUME Tpc!ConnAssumption /\ Tpc!LimitAssumption
=============================================================================
