------------------------------- MODULE Loops -------------------------------
(***************************************************************************)
(* Two components that have threads of their own besides the loop of the   *)
(* daemon: the threads of the connections, and the thread that forwards    *)
(* the data of an upgraded connection.  A behaviour is about one of them,  *)
(* and "part" tells which.                                                 *)
(***************************************************************************)
CONSTANTS
  \* ThreadPerConn
  Served,       \* the connections that have a thread
  Limit, MaxSuspends,
  \* Forwarding
  ForwardPoll,  \* "select" or "poll"
  BufferSize, PipeSize, ClientBytes, AppBytes, Faults

VARIABLES
  part,  \* the component this behaviour is about
  itc, shutdown, dresuming, connections, at_limit, tpc_place, suspended, resuming,
  thread_joined, sock, pc, was_suspended, dpc, dcon, dset, panic, held, waking, nsuspends,
  app, in, in_size, out, out_size, app_celi, mhd_celi, was_closed, tls_ready, fwd_shutdown,
  seen_closed, fwd_pc, client, csent, net, tls, cgot, fwd_app, shut, asent, up, down, agot

Tpc == INSTANCE ThreadPerConn WITH Conn <- Served, place <- tpc_place

Fwd == INSTANCE Forwarding WITH
  PollFn <- ForwardPoll, shutdown <- fwd_shutdown, pc <- fwd_pc, app <- fwd_app

-----------------------------------------------------------------------------
(* Properties of the components. *)

\* The thread of a connection uses it up to its last step, long after it has put
\* it into the cleanup list; the daemon thread frees it only when the thread has
\* ended (MHD_cleanup_connections()).
\* The daemon never panics, whatever the race between resuming a connection and
\* stopping, provided that the application has resumed what it has suspended.
\* When MHD_stop_daemon() returns every thread has ended and every accepted
\* connection is freed; daemon->connections is back to zero.
ThreadsLeaveNothing == part = "threads" => Tpc!ThreadsLeaveNothing

\* Neither direction ever loses a byte from the middle, repeats one or changes
\* their order: what one side has got is what the other has sent first, and no
\* buffer is overrun.  Code:
\* the memmove() calls of process_urh().
\* Everything the application has written before it closed has been sent when
\* forwarding ends, if the client stays and the daemon is not stopped.  Code:
\* was_closed is read once, before the last reading.
\* When MHD stops reading from a client that has closed in good order, the
\* application has, or still can read, all it has sent.  Code: the
\* reading before the writing in process_urh(), tls_read_ready.
ForwardedIntact == part = "forwarding" => Fwd!ForwardedIntact
=============================================================================
