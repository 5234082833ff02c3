----------------------------- MODULE Forwarding -----------------------------
(***************************************************************************)
(* Forwarding on an upgraded TLS connection (daemon.c): the application    *)
(* gets one end of a socketpair, and MHD copies between the other end and  *)
(* the TLS session until both directions are finished.  The loop is that   *)
(* of thread_main_connection_upgrade(), with poll() or select();           *)
(* process_urh() is cut where another thread, the client or the            *)
(* application may act in between.                                         *)
(*                                                                         *)
(* Bytes are numbered in each direction.  In the code "app.celi" is the    *)
(* state of the client's socket and "mhd.celi" that of the socketpair.     *)
(***************************************************************************)
EXTENDS Integers, Sequences, SequencesExt, FiniteSetsExt

CONSTANTS
  PollFn,      \* "poll" or "select"
  BufferSize,  \* in_buffer_size and out_buffer_size at the start
  PipeSize,    \* how much the socketpair holds in each direction
  ClientBytes, \* how much the client sends at most
  AppBytes,    \* how much the application writes at most
  Faults       \* may the client's connection break and the daemon be stopped?

PollAssumption == PollFn \in {"poll", "select"} /\ Faults \in BOOLEAN
SizeAssumption ==
  /\ BufferSize \in Nat \ {0} /\ PipeSize \in Nat \ {0}
  /\ ClientBytes \in Nat /\ AppBytes \in Nat

VARIABLES
  \* struct MHD_UpgradeResponseHandle
  in,          \* in_buffer, up to in_buffer_used
  in_size,     \* in_buffer_size, 0 when nothing more is to be read
  out,         \* out_buffer, up to out_buffer_used
  out_size,    \* out_buffer_size
  app_celi,    \* the readiness of the client's socket
  mhd_celi,    \* the readiness of the socketpair
  was_closed,
  \* the rest of MHD
  tls_ready,   \* connection->tls_read_ready
  shutdown,    \* daemon->shutdown
  seen_closed, \* the local copy of was_closed in process_urh()
  pc,
  \* the client and its TLS session
  client,      \* "open", "closed" (its end of the stream sent) or "reset"
  csent,       \* how much it has sent
  net,         \* what has not been received of this
  tls,         \* what the TLS library holds decrypted
  cgot,        \* what it has got
  \* the application and the socketpair
  app,         \* "open", then "closing" while MHD_UPGRADE_ACTION_CLOSE runs, "closed"
  shut,        \* has shutdown() been called for the application's socket?
  asent,       \* how much it has written
  up,          \* what has been written and not read by MHD
  down,        \* what MHD has written and the application not read
  agot         \* what it has read

urh == <<in, in_size, out, out_size, app_celi, mhd_celi>>
cvars == <<client, csent, net, tls, cgot>>
avars == <<app, shut, asent, up, down, agot>>
vars == <<urh, was_closed, tls_ready, shutdown, seen_closed, pc, cvars, avars>>

Celi == {"READ_READY", "WRITE_READY", "ERROR"}

\* MHD_response_execute_upgrade_()
Init ==
  /\ in = <<>> /\ in_size = BufferSize /\ out = <<>> /\ out_size = BufferSize
  /\ app_celi = {} /\ mhd_celi = {} /\ was_closed = FALSE
  /\ tls_ready = FALSE /\ shutdown = FALSE /\ seen_closed = FALSE /\ pc = "poll"
  /\ client = "open" /\ csent = 0 /\ net = <<>> /\ tls = <<>> /\ cgot = <<>>
  /\ app = "open" /\ shut = FALSE /\ asent = 0 /\ up = <<>> /\ down = <<>>
  /\ agot = <<>>

Drop(s, n) == SubSeq(s, n + 1, Len(s))
Take(s, n) == SubSeq(s, 1, n)

mvars == <<urh, was_closed, tls_ready, shutdown, seen_closed, pc>>

-----------------------------------------------------------------------------
(* The client and the application.                                         *)

ClientSends ==
  /\ client = "open" /\ csent < ClientBytes
  /\ csent' = csent + 1 /\ net' = Append(net, csent + 1)
  /\ UNCHANGED <<mvars, client, tls, cgot, avars>>

ClientCloses ==
  /\ client = "open" /\ client' = "closed"
  /\ UNCHANGED <<mvars, csent, net, tls, cgot, avars>>

\* What the system has received and not passed on is lost.
ClientResets ==
  /\ Faults /\ client # "reset" /\ client' = "reset" /\ net' = <<>>
  /\ UNCHANGED <<mvars, csent, tls, cgot, avars>>

AppWrites ==
  /\ app = "open" /\ ~shut /\ asent < AppBytes /\ Len(up) < PipeSize
  /\ asent' = asent + 1 /\ up' = Append(up, asent + 1)
  /\ UNCHANGED <<mvars, cvars, app, shut, down, agot>>

AppReads ==
  /\ app = "open" /\ ~shut /\ down # <<>>
  /\ agot' = Append(agot, Head(down)) /\ down' = Tail(down)
  /\ UNCHANGED <<mvars, cvars, app, shut, asent, up>>

\* MHD_upgrade_action(MHD_UPGRADE_ACTION_CLOSE): first the socket is shut down,
\* then the connection is marked.
AppShutsDown ==
  /\ app = "open" /\ ~was_closed
  /\ app' = "closing" /\ shut' = TRUE /\ down' = <<>>
  /\ UNCHANGED <<mvars, cvars, asent, up, agot>>

MHD_upgraded_connection_mark_app_closed_ ==
  /\ app = "closing"
  /\ app' = "closed" /\ was_closed' = TRUE
  /\ UNCHANGED <<urh, tls_ready, shutdown, seen_closed, pc, cvars, shut, asent,
                 up, down, agot>>

\* MHD_stop_daemon(), and close_all_connections(), which wakes the thread by a
\* shutdown() of the application's socket and waits for its end.
StopDaemon ==
  /\ Faults /\ ~shutdown /\ shutdown' = TRUE
  /\ UNCHANGED <<urh, was_closed, tls_ready, seen_closed, pc, cvars, avars>>

StopWakes ==
  /\ shutdown /\ ~shut /\ pc # "done"
  /\ shut' = TRUE /\ down' = <<>>
  /\ UNCHANGED <<mvars, cvars, app, asent, up, agot>>

-----------------------------------------------------------------------------
(***************************************************************************)
(* Waiting: urh_to_fdset(), urh_from_fdset(), urh_update_pollfd() and      *)
(* urh_from_pollfd().  room says whether the system takes data for the     *)
(* client.                                                                 *)
(***************************************************************************)

Space == Len(in) < in_size

ClientEvents(room) ==
  (IF Space /\ (net # <<>> \/ client # "open") THEN {"READ_READY"} ELSE {})
  \cup (IF out # <<>> /\ (room \/ client = "reset") THEN {"WRITE_READY"} ELSE {})
  \cup (IF PollFn = "poll" /\ client = "reset"
        THEN {"READ_READY", "WRITE_READY", "ERROR"} ELSE {})

MutantHangupIgnored ==
  (IF Len(out) < out_size /\ (up # <<>> \/ shut) THEN {"READ_READY"} ELSE {})
  \cup (IF in # <<>> /\ (Len(down) < PipeSize \/ shut) THEN {"WRITE_READY"} ELSE {})

\* poll() reports a hang-up whether it has been asked for or not, select() has
\* no such event.
PairEvents ==
  (IF Len(out) < out_size /\ (up # <<>> \/ shut) THEN {"READ_READY"} ELSE {})
  \cup (IF in # <<>> /\ (Len(down) < PipeSize \/ shut) THEN {"WRITE_READY"} ELSE {})
  \cup (IF PollFn = "poll" /\ shut THEN {"ERROR"} ELSE {})

\* The timeout is zero, or there is an event.
Wakes(room) ==
  \/ tls_ready /\ Space
  \/ shutdown
  \/ ClientEvents(room) # {} \/ PairEvents # {}

Poll(room) ==
  /\ pc = "poll" /\ Wakes(room)
  /\ app_celi' = (app_celi \cap {"ERROR"}) \cup ClientEvents(room)
  /\ mhd_celi' = (mhd_celi \cap {"ERROR"}) \cup PairEvents
  /\ pc' = "start"
  /\ UNCHANGED <<in, in_size, out, out_size, was_closed, tls_ready, shutdown,
                 seen_closed, cvars, avars>>

-----------------------------------------------------------------------------
(***************************************************************************)
(* process_urh()                                                           *)
(***************************************************************************)

\* was_closed is read once.  After a close nothing goes to the application.
Start ==
  /\ pc = "start"
  /\ was_closed' = (was_closed \/ shutdown)
  /\ seen_closed' = was_closed'
  /\ IF was_closed'
     THEN /\ in' = <<>> /\ in_size' = 0 /\ tls_ready' = FALSE
          /\ mhd_celi' = mhd_celi \ {"WRITE_READY"}
          /\ app_celi' = app_celi \ {"READ_READY"}
     ELSE UNCHANGED <<in, in_size, tls_ready, mhd_celi, app_celi>>
  /\ pc' = "recv_client"
  /\ UNCHANGED <<out, out_size, shutdown, cvars, avars>>

MutantDisconnectFirst ==
  /\ pc = "recv_client" /\ pc' = "recv_app"
  /\ IF client # "open" /\ ~tls_ready
     THEN in_size' = 0 /\ UNCHANGED <<in, app_celi, tls_ready, net, tls>>
     ELSE IF ~((app_celi \cap {"ERROR", "READ_READY"} # {} \/ tls_ready) /\ Space)
     THEN UNCHANGED <<in, in_size, app_celi, tls_ready, net, tls>>
     ELSE \E r \in IF tls # <<>> THEN {0} ELSE 0..Len(net) :
            LET data == tls \o Take(net, r)
                n == Min({Len(data), in_size - Len(in)})
            IN /\ in' = in \o Take(data, n)
               /\ tls' = Drop(data, n) /\ net' = Drop(net, r)
               /\ tls_ready' = (tls' # <<>>)
               /\ UNCHANGED <<in_size, app_celi>>
  /\ UNCHANGED <<out, out_size, mhd_celi, was_closed, shutdown, seen_closed,
                 client, csent, cgot, avars>>

\* gnutls_record_recv() decrypts a record, of any size, when it holds no data.
RecvClient ==
  /\ pc = "recv_client" /\ pc' = "recv_app"
  /\ IF ~((app_celi \cap {"ERROR", "READ_READY"} # {} \/ tls_ready) /\ Space)
     THEN UNCHANGED <<in, in_size, app_celi, tls_ready, net, tls>>
     ELSE \/ \E r \in IF tls # <<>> THEN {0} ELSE 1..Len(net) :
               LET data == tls \o Take(net, r)
                   n == Min({Len(data), in_size - Len(in)})
               IN /\ in' = in \o Take(data, n)
                  /\ tls' = Drop(data, n) /\ net' = Drop(net, r)
                  /\ tls_ready' = (tls' # <<>>)
                  /\ UNCHANGED <<in_size, app_celi>>
          \/ /\ tls = <<>> /\ net = <<>>
             /\ app_celi' = app_celi \ {"READ_READY"}
             /\ in_size' = IF client # "open" \/ "ERROR" \in app_celi
                           THEN 0 ELSE in_size
             /\ tls_ready' = FALSE
             /\ UNCHANGED <<in, net, tls>>
  /\ UNCHANGED <<out, out_size, mhd_celi, was_closed, shutdown, seen_closed,
                 client, csent, cgot, avars>>

MutantClosedMeansEmpty ==
  /\ pc = "recv_app" /\ pc' = "send_client"
  /\ IF ~(mhd_celi \cap {"ERROR", "READ_READY"} # {} /\ Len(out) < out_size)
     THEN /\ out_size' = IF seen_closed THEN 0 ELSE out_size
          /\ UNCHANGED <<out, mhd_celi, up>>
     ELSE LET n == Min({Len(up), out_size - Len(out)})
          IN /\ out' = out \o Take(up, n) /\ up' = Drop(up, n)
             /\ mhd_celi' = IF Len(out') < out_size
                            THEN mhd_celi \ {"READ_READY"} ELSE mhd_celi
             /\ out_size' = IF n = 0 /\ (shut \/ seen_closed \/ "ERROR" \in mhd_celi)
                            THEN 0 ELSE out_size
  /\ UNCHANGED <<in, in_size, app_celi, was_closed, tls_ready, shutdown,
                 seen_closed, cvars, app, shut, asent, down, agot>>

\* The application's data is read to its end after it has closed, even if
\* poll() has not announced it.
RecvApp ==
  /\ pc = "recv_app" /\ pc' = "send_client"
  /\ IF ~((mhd_celi \cap {"ERROR", "READ_READY"} # {} \/ seen_closed)
          /\ Len(out) < out_size)
     THEN UNCHANGED <<out, out_size, mhd_celi, up>>
     ELSE LET n == Min({Len(up), out_size - Len(out)})
          IN /\ out' = out \o Take(up, n) /\ up' = Drop(up, n)
             /\ mhd_celi' = IF Len(out') < out_size
                            THEN mhd_celi \ {"READ_READY"} ELSE mhd_celi
             /\ out_size' = IF n = 0 /\ (shut \/ seen_closed \/ "ERROR" \in mhd_celi)
                            THEN 0 ELSE out_size
  /\ UNCHANGED <<in, in_size, app_celi, was_closed, tls_ready, shutdown,
                 seen_closed, cvars, app, shut, asent, down, agot>>

\* Data for the client is discarded and no more is read from the application.
OutDiscarded ==
  /\ out' = <<>> /\ out_size' = 0
  /\ app_celi' = app_celi \ {"WRITE_READY"}
  /\ mhd_celi' = mhd_celi \ {"READ_READY"}

MutantOutNotMoved ==
  /\ pc = "send_client" /\ pc' = "send_app"
  /\ IF "WRITE_READY" \notin app_celi \/ out = <<>>
     THEN UNCHANGED <<out, out_size, app_celi, mhd_celi, cgot>>
     ELSE \/ \E n \in 1..Len(out) :
               /\ client # "reset"
               /\ cgot' = cgot \o Take(out, n)
               /\ out' = Take(out, Len(out) - n)
               /\ UNCHANGED <<out_size, app_celi, mhd_celi>>
          \/ client # "open" /\ OutDiscarded /\ cgot' = cgot
  /\ UNCHANGED <<in, in_size, was_closed, tls_ready, shutdown, seen_closed,
                 client, csent, net, tls, avars>>

\* gnutls_record_send() sends a part, cannot send now, or fails when the client
\* is gone.  After an error on the socket the last data ends the direction.
SendClient ==
  /\ pc = "send_client" /\ pc' = "send_app"
  /\ IF "WRITE_READY" \notin app_celi \/ out = <<>>
     THEN UNCHANGED <<out, out_size, app_celi, mhd_celi, cgot>>
     ELSE \/ \E n \in 1..Len(out) :
               /\ client # "reset"
               /\ cgot' = cgot \o Take(out, n)
               /\ IF n = Len(out) /\ "ERROR" \in app_celi THEN OutDiscarded
                  ELSE out' = Drop(out, n) /\ UNCHANGED <<out_size, app_celi, mhd_celi>>
          \/ /\ client # "reset"
             /\ app_celi' = app_celi \ {"WRITE_READY"}
             /\ UNCHANGED <<out, out_size, mhd_celi, cgot>>
          \/ client # "open" /\ OutDiscarded /\ cgot' = cgot
  /\ UNCHANGED <<in, in_size, was_closed, tls_ready, shutdown, seen_closed,
                 client, csent, net, tls, avars>>

\* Data for the application is discarded and no more is read from the client.
InDiscarded ==
  /\ in' = <<>> /\ in_size' = 0 /\ tls_ready' = FALSE
  /\ mhd_celi' = mhd_celi \ {"WRITE_READY"}
  /\ app_celi' = app_celi \ {"READ_READY"}

SendApp ==
  /\ pc = "send_app" /\ pc' = "end"
  /\ IF "WRITE_READY" \notin mhd_celi \/ in = <<>>
     THEN UNCHANGED <<in, in_size, tls_ready, mhd_celi, app_celi, down>>
     ELSE IF shut THEN InDiscarded /\ down' = down
     ELSE LET n == Min({Len(in), PipeSize - Len(down)})
          IN /\ down' = down \o Take(in, n)
             /\ IF n = Len(in) /\ "ERROR" \in mhd_celi THEN InDiscarded
                ELSE /\ in' = Drop(in, n)
                     /\ mhd_celi' = IF in' # <<>> THEN mhd_celi \ {"WRITE_READY"}
                                    ELSE mhd_celi
                     /\ UNCHANGED <<in_size, tls_ready, app_celi>>
  /\ UNCHANGED <<out, out_size, was_closed, shutdown, seen_closed, cvars, app,
                 shut, asent, up, agot>>

\* The end of process_urh(), and of a turn of the loop: forwarding is finished
\* when nothing is left in either direction.  "Force processing again", when
\* was_closed has changed meanwhile, only concerns the daemon's own loop.
End ==
  /\ pc = "end"
  /\ IF shutdown /\ (out_size # 0 \/ out # <<>>) THEN OutDiscarded
     ELSE UNCHANGED <<out, out_size, app_celi, mhd_celi>>
  /\ pc' = IF in_size = 0 /\ in = <<>> /\ out_size' = 0 /\ out' = <<>>
           THEN "done" ELSE "poll"
  /\ UNCHANGED <<in, in_size, was_closed, tls_ready, shutdown, seen_closed,
                 cvars, avars>>

ThreadSteps == Start \/ RecvClient \/ RecvApp \/ SendClient \/ SendApp \/ End

Next ==
  \/ ClientSends \/ ClientCloses \/ ClientResets
  \/ AppWrites \/ AppReads \/ AppShutsDown
  \/ MHD_upgraded_connection_mark_app_closed_
  \/ StopDaemon \/ StopWakes
  \/ \E room \in BOOLEAN : Poll(room)
  \/ ThreadSteps

Spec == Init /\ [][Next]_vars

\* The thread goes on, the calls of the application and of MHD_stop_daemon()
\* return.
Fairness ==
  /\ WF_vars(ThreadSteps)
  /\ WF_vars(Poll(FALSE))
  /\ WF_vars(MHD_upgraded_connection_mark_app_closed_)
  /\ WF_vars(StopWakes)

\* The client goes on reading.
ClientReads ==
  SF_vars(Poll(TRUE)) /\ SF_vars(SendClient /\ out' # out)

FairSpec == Spec /\ Fairness

-----------------------------------------------------------------------------
(* Properties.                                                             *)

\* The numbers from 1 to n
Upto(n) == [i \in 1..n |-> i]

\* The buffers are never fuller than they are large, unless nothing more is to
\* be read into them.
TypeOK ==
  /\ in_size \in {0, BufferSize} /\ out_size \in {0, BufferSize}
  /\ Len(in) <= BufferSize /\ Len(out) <= BufferSize
  /\ app_celi \subseteq Celi /\ mhd_celi \subseteq Celi
  /\ Len(down) <= PipeSize /\ Len(up) <= PipeSize
  /\ pc \in {"poll", "start", "recv_client", "recv_app", "send_client",
             "send_app", "end", "done"}

\* Neither direction ever loses a byte from the middle, repeats one or changes
\* their order: what one side has got is what the other has sent first, and no
\* buffer is overrun.  Code:
\* the memmove() calls of process_urh().
StreamsIntact ==
  /\ TypeOK
  /\ IsPrefix(cgot, Upto(asent))
  /\ IsPrefix(agot, Upto(csent))
  /\ out_size # 0 => cgot \o out \o up = Upto(asent)
  /\ (in_size # 0 /\ client # "reset" /\ ~shut) =>
       agot \o down \o in \o tls \o net = Upto(csent)

\* Everything the application has written before it closed has been sent when
\* forwarding ends, if the client stays and the daemon is not stopped.  Code:
\* was_closed is read once, before the last reading.
LastWordsDelivered ==
  (pc = "done" /\ client = "open" /\ ~shutdown) => cgot = Upto(asent)

\* When MHD stops reading from a client that has closed in good order, the
\* application has, or still can read, all it has sent.  Code: the
\* reading before the writing in process_urh(), tls_read_ready.
ClientDataKept ==
  (in_size = 0 /\ in = <<>> /\ client = "closed" /\ ~shut /\ ~shutdown) =>
    agot \o down = Upto(csent)

\* What is promised of the data in both directions.
ForwardedIntact == StreamsIntact /\ LastWordsDelivered /\ ClientDataKept

\* MHD_stop_daemon(), which waits for the thread, is not held up by forwarding,
\* even if the client reads nothing.  Code: close_all_connections(),
\* "Wake thread by shutdown of app socket."
StopEndsForwarding == shutdown ~> pc = "done"

\* Forwarding ends once the application has closed, if the client reads what is
\* left for it.  Code: "If 'was_closed' changed externally in the middle of
\* processing - it will be processed on next iteration."
CloseEndsForwarding == ClientReads => (was_closed ~> pc = "done")

\* Forwarding ends after either.  Code: thread_main_connection_upgrade() leaves
\* its loop.
ForwardingEnds == StopEndsForwarding /\ CloseEndsForwarding

=============================================================================
