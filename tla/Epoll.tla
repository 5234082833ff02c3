------------------------------- MODULE Epoll -------------------------------
(***************************************************************************)
(* The event loop with epoll (MHD_epoll() in daemon.c).  The sockets of    *)
(* the connections are in the epoll set edge-triggered: an event is        *)
(* reported once, so MHD remembers in epoll_state what a socket is ready   *)
(* for, and keeps in the list "eready" the connections it can go on with   *)
(* without a new event.  The listen socket and the ITC are in the set      *)
(* level-triggered.                                                        *)
(*                                                                         *)
(* A connection is a record.  What its requests are is left to Connection; *)
(* here MHD_connection_handle_idle() may put it in any event loop state    *)
(* once it has something to go on with.  Sockets without TLS.              *)
(***************************************************************************)
EXTENDS Integers, FiniteSets

CONSTANTS
  Conns,      \* the sockets, used again after a connection is freed
  Instances,  \* values of connection_limit, and what is left out with them (a bound)
  MaxEvents   \* MAX_EVENTS

ASSUME EpollAssumption ==
  /\ IsFiniteSet(Conns) /\ {"itc", "listen"} \cap Conns = {}
  /\ Instances \subseteq [limit : Nat \ {0}, calm : BOOLEAN] /\ Instances # {}
  /\ MaxEvents \in Nat \ {0}

VARIABLES
  conn,        \* the connections, with their sockets
  turbo,       \* MHD_USE_TURBO
  opt,         \* connection_limit; calm: no socket closes, fails or times out,
               \* epoll_ctl() does not fail and no connection is suspended
  listening,   \* daemon->listen_socket_in_epoll
  at_limit,    \* accept() has failed for want of descriptors (daemon->at_limit)
  pending,     \* daemon->data_already_pending
  d_resuming,  \* daemon->resuming
  itc,         \* is the ITC activated?
  signalling,  \* calls of MHD_resume_connection() about to activate the ITC
  pc,          \* where the thread is in MHD_polling_thread() and MHD_epoll()
  zero,        \* timeout_ms = 0, or millisec = 0 before it is computed
  again,       \* not the first epoll_wait() of this call of MHD_epoll()
  accept,      \* need_to_accept
  todo         \* the rest of the list that is walked through

options == <<turbo, opt>>
dvars == <<listening, at_limit, pending, d_resuming, itc, signalling>>
tvars == <<pc, zero, again, accept, todo>>
vars == <<conn, options, dvars, tvars>>

\* What the thread asks of a socket (event_loop_info), as sets of its bits.
READ == {"read"}
WRITE == {"write"}
PROCESS == {"process"}
PROCESS_READ == {"process", "read"}
CLEANUP == {"cleanup"}
EventLoopInfo == {READ, WRITE, PROCESS, PROCESS_READ}

\* A socket nobody has connected yet.
Unused ==
  [place |-> "unused", info |-> READ, ready |-> {}, eready |-> FALSE, inset |-> FALSE,
   resuming |-> FALSE, stale |-> FALSE, left |-> FALSE, late |-> FALSE, stuck |-> FALSE,
   data |-> FALSE, eof |-> FALSE, space |-> TRUE, err |-> FALSE, edge |-> FALSE]

ConnType ==
  [place : {"unused", "backlog", "active", "suspended", "cleanup"},
   info : EventLoopInfo \cup {CLEANUP}, \* event_loop_info; CLEANUP: the state is CLOSED
   ready : SUBSET {"read", "write", "error"}, \* ..._READ_READY, ..._WRITE_READY, ..._ERROR
   eready : BOOLEAN,   \* MHD_EPOLL_STATE_IN_EREADY_EDLL
   inset : BOOLEAN,    \* MHD_EPOLL_STATE_IN_EPOLL_SET
   resuming : BOOLEAN,
   stale : BOOLEAN,    \* info is from before the connection was suspended
   left : BOOLEAN,     \* the application has left data of the body in the read buffer
   late : BOOLEAN,     \* the timeout of the connection has passed
   stuck : BOOLEAN,    \* history: handle_idle() for the timeouts queued a reply
   data : BOOLEAN,     \* the socket has data that was not received
   eof : BOOLEAN,      \* the client has closed its side
   space : BOOLEAN,    \* the socket takes data to send
   err : BOOLEAN,      \* the connection is broken
   edge : BOOLEAN]     \* the socket is on epoll's list of events to report

Held == {c \in Conns : conn[c].place \in {"active", "suspended", "cleanup"}}
In(place) == {c \in Conns : conn[c].place = place}
Eready == {c \in Conns : conn[c].eready}

\* Does epoll_wait() have something to report of the socket?
Reportable(k) == k.data \/ k.eof \/ k.space \/ k.err

-----------------------------------------------------------------------------
(* One connection.  Each operator gives the connections that may result.   *)

\* MHD_connection_close_() and the MHD_connection_handle_idle() that follows.  Nothing
\* but the lists the connection is in matters any more.
CloseConn(k) ==
  [Unused EXCEPT !.place = "cleanup", !.info = CLEANUP, !.eready = k.eready, !.inset = k.inset]

MutantSuspendKeepsReady(k) == \* the connection stays in eready
  [k EXCEPT !.place = "suspended", !.inset = FALSE, !.edge = FALSE,
            !.stale = TRUE, !.left = FALSE, !.late = FALSE]

\* internal_suspend_connection_()
SuspendConn(k) ==
  [k EXCEPT !.place = "suspended", !.eready = FALSE, !.inset = FALSE, !.edge = FALSE,
            !.stale = TRUE, !.left = FALSE, !.late = FALSE]

\* MHD_connection_epoll_update_(): into eready with what is to be processed, and
\* into the epoll set, once, when the connection must wait for its socket.
MHD_connection_epoll_update_(k) ==
  LET r == [k EXCEPT !.eready = @ \/ "process" \in k.info]
      needs == /\ ~k.inset
               /\ \/ k.info = WRITE /\ "write" \notin k.ready
                  \/ "read" \in k.info /\ "read" \notin k.ready
  IN IF ~needs THEN {r}
     ELSE {[r EXCEPT !.inset = TRUE, !.edge = Reportable(k)]}
          \cup (IF ~opt.calm THEN {[r EXCEPT !.place = "cleanup"]} ELSE {})

\* The end of MHD_connection_handle_idle(): a connection whose time is over is
\* closed and left where it is until the next call.
IdleEnd(k) ==
  IF k.late THEN {[k EXCEPT !.info = CLEANUP, !.left = FALSE]}
  ELSE MHD_connection_epoll_update_(k)

\* MHD_connection_handle_idle(): got says that something was received or sent.
\* Without it the application is asked again only for data it has left or has not
\* supplied yet, and after a resume.
MHD_connection_handle_idle(k, got) ==
  IF k.place # "active" THEN {k}
  ELSE IF k.info = CLEANUP THEN {CloseConn(k)}
  ELSE IF got \/ k.left \/ k.stale \/ "process" \in k.info
  THEN {CloseConn(k)} \cup (IF opt.calm THEN {} ELSE {SuspendConn(k)})
       \cup (UNION {IdleEnd([k EXCEPT !.info = i, !.left = FALSE, !.stale = FALSE]) :
                      i \in EventLoopInfo})
       \cup IdleEnd([k EXCEPT !.info = READ, !.left = TRUE, !.stale = FALSE])
  ELSE IdleEnd(k)

MutantReadClears(k) == \* a read that fills the buffer clears READ_READY too
  IF k.place # "active" THEN {<<k, FALSE>>}
  ELSE IF k.data THEN {<<[k EXCEPT !.late = FALSE, !.data = d, !.ready = @ \ {"read"}], TRUE>> :
                    d \in BOOLEAN}
  ELSE IF k.err \/ k.eof THEN {<<[k EXCEPT !.info = CLEANUP], FALSE>>}
  ELSE {<<[k EXCEPT !.ready = @ \ {"read"}], FALSE>>}

\* MHD_connection_handle_read() with recv_param_adapter().  A read that does not
\* fill the buffer clears MHD_EPOLL_STATE_READ_READY.
MHD_connection_handle_read(k) ==
  LET unready == [k EXCEPT !.ready = @ \ {"read"}]
  IN (IF k.stale THEN {<<k, FALSE>>} ELSE {}) \* no space in the read buffer
     \cup (IF k.place # "active" THEN {<<k, FALSE>>}
           ELSE IF k.err \/ (k.eof /\ ~k.data)
           THEN {<<[k EXCEPT !.info = CLEANUP], FALSE>>}
           ELSE IF k.data
           THEN {<<[k EXCEPT !.late = FALSE], TRUE>>,
                 <<[k EXCEPT !.late = FALSE, !.data = FALSE], TRUE>>,
                 <<[unready EXCEPT !.late = FALSE, !.data = FALSE], TRUE>>}
           ELSE {<<unready, FALSE>>})

\* MHD_connection_handle_write() with MHD_send_data_(), one call of it.
MHD_connection_handle_write(k) ==
  LET unready == [k EXCEPT !.ready = @ \ {"write"}, !.space = FALSE]
  IN IF k.place # "active" THEN {<<k, FALSE>>}
     ELSE IF k.err THEN {<<[k EXCEPT !.info = CLEANUP], FALSE>>}
     ELSE IF ~k.space THEN {<<unready, FALSE>>}
     ELSE {<<[unready EXCEPT !.late = FALSE], FALSE>>} \* sent in part
          \cup {<<[k EXCEPT !.late = FALSE, !.space = s], TRUE>> : s \in BOOLEAN}

Idled(results) == UNION {MHD_connection_handle_idle(r[1], r[2]) : r \in results}
WriteAndIdle(k) == Idled(MHD_connection_handle_write(k))

\* The fast track of call_handlers(): a request read at once may be answered at
\* once, the header and then the body, whether the socket is known to take it or not.
FastTrack(k) ==
  LET answered(ks) == UNION {WriteAndIdle(a) : a \in {b \in ks : b.info = WRITE}}
      once == answered({k})
  IN {k} \cup once \cup answered(once)

\* call_handlers()
call_handlers(k) ==
  LET reading == "read" \in k.info /\ "read" \in k.ready
      afterRead == IF reading THEN Idled(MHD_connection_handle_read(k)) ELSE {k}
      writes(a) == a.info = WRITE /\ "write" \in k.ready
      afterWrite == UNION {IF writes(a) THEN WriteAndIdle(a) ELSE {a} : a \in afterRead}
  IN IF "error" \in k.ready
     THEN {IF k.place = "active" THEN CloseConn(k) ELSE k}
          \* handle_read() has no space to read to, and does not close
          \cup (IF k.stale /\ "read" \in k.info
                THEN MHD_connection_handle_idle(k, FALSE) ELSE {})
     ELSE IF ~reading /\ ~writes(k) THEN MHD_connection_handle_idle(k, FALSE)
     ELSE IF k.info = READ THEN UNION {FastTrack(a) : a \in afterWrite}
     ELSE afterWrite

\* The end of the loop over eready: a connection that must wait for its socket
\* leaves the list.
LeaveEready(k) ==
  IF /\ k.place # "suspended" /\ k.eready
     /\ \/ k.info = READ /\ "read" \notin k.ready
        \/ k.info = WRITE /\ "write" \notin k.ready
        \/ k.info = CLEANUP
  THEN [k EXCEPT !.eready = FALSE]
  ELSE k

\* An event of epoll_wait() for the connection; room says whether its read buffer
\* has space although it does not wait for data.
Reported(k, room) ==
  LET readable == k.data \/ k.eof
  IN IF k.err
     THEN [k EXCEPT !.ready = @ \cup {"error"}, !.eready = TRUE, !.edge = FALSE]
     ELSE [k EXCEPT !.ready = @ \cup (IF readable THEN {"read"} ELSE {})
                                \cup (IF k.space THEN {"write"} ELSE {}),
                    !.eready = @ \/ (readable /\ ("read" \in k.info \/ room))
                                 \/ (k.space /\ k.info = WRITE),
                    !.edge = FALSE]

\* resume_suspended_connections(): an edge may have been missed, so the
\* connection is taken to be ready for everything.
ResumeConn(k) ==
  [k EXCEPT !.place = "active", !.resuming = FALSE, !.eready = TRUE,
            !.ready = @ \cup {"read", "write"}]

\* new_connection_process_()
AddedConn(k) ==
  IF turbo
  THEN {[k EXCEPT !.place = "active", !.ready = {"read", "write"}, !.eready = TRUE]}
  ELSE {[k EXCEPT !.place = "active", !.inset = TRUE, !.edge = TRUE]}
       \cup (IF ~opt.calm THEN {Unused} ELSE {})

-----------------------------------------------------------------------------
(* The thread.                                                             *)

Init ==
  /\ conn = [c \in Conns |-> Unused]
  /\ turbo \in BOOLEAN /\ opt \in Instances
  /\ listening = TRUE /\ at_limit = FALSE /\ pending = FALSE /\ d_resuming = FALSE /\ itc = FALSE
  /\ signalling = {}
  /\ pc = "listen" /\ zero = FALSE /\ again = FALSE /\ accept = FALSE /\ todo = {}

\* The listen socket is taken out of the set at the connection limit and when the
\* process has no descriptor left, and put back otherwise.
ListenSocket ==
  /\ pc = "listen"
  /\ listening' = IF listening THEN Cardinality(Held) # opt.limit /\ ~at_limit
                  ELSE Cardinality(Held) < opt.limit /\ ~at_limit
  /\ pc' = "resume"
  /\ UNCHANGED <<conn, options, at_limit, pending, d_resuming, itc, signalling, zero, again, accept, todo>>

resume_suspended_connections ==
  LET resumed == {c \in In("suspended") : d_resuming /\ conn[c].resuming}
  IN /\ pc = "resume"
     /\ conn' = [c \in Conns |-> IF c \in resumed THEN ResumeConn(conn[c]) ELSE conn[c]]
     /\ d_resuming' = FALSE
     /\ zero' = (resumed # {})
     /\ pc' = "timeout"
     /\ UNCHANGED <<options, listening, at_limit, pending, itc, signalling, again, accept, todo>>

\* get_timeout_millisec_int() with MHD_get_timeout64(); then data_already_pending
\* is reset.
GetTimeout ==
  /\ pc = "timeout"
  /\ zero' = (zero \/ pending \/ In("cleanup") # {} \/ d_resuming \/ Eready # {})
  /\ pending' = FALSE /\ again' = FALSE /\ accept' = FALSE
  /\ pc' = "wait"
  /\ UNCHANGED <<conn, options, listening, at_limit, d_resuming, itc, signalling, todo>>

\* What epoll_wait() can report.
Sources ==
  {c \in Conns : conn[c].inset /\ conn[c].edge /\ Reportable(conn[c])}
  \cup (IF itc THEN {"itc"} ELSE {})
  \cup (IF listening /\ In("backlog") # {} THEN {"listen"} ELSE {})

\* One epoll_wait().  With MAX_EVENTS events it is called again, with the same
\* timeout.
EpollWait ==
  /\ pc = "wait"
  /\ zero \/ Sources # {} \/ \E c \in In("active") : conn[c].late
  /\ \E got \in SUBSET Sources, room \in [Conns -> BOOLEAN] :
       /\ Cardinality(got) <= MaxEvents
       /\ Cardinality(got) = MaxEvents \/ got = Sources
       /\ conn' = [c \in Conns |-> IF c \in got THEN Reported(conn[c], room[c]) ELSE conn[c]]
       /\ itc' = (itc /\ "itc" \notin got)
       /\ accept' = (accept \/ "listen" \in got)
       /\ again' = TRUE
       /\ pc' = IF Cardinality(got) = MaxEvents THEN "wait" ELSE "accept"
  /\ UNCHANGED <<options, listening, at_limit, pending, d_resuming, signalling, zero, todo>>

\* MHD_accept_connection() succeeds.  It is called again below the limit, though at most
\* ten times in a turn.
MHD_accept_connection(c) ==
  /\ pc = "accept" /\ accept
  /\ conn[c].place = "backlog"
  /\ \E k \in AddedConn(conn[c]) : conn' = [conn EXCEPT ![c] = k]
  /\ accept' \in {FALSE, Cardinality(Held') < opt.limit}
  /\ UNCHANGED <<options, dvars, pc, zero, again, todo>>

\* accept() fails: nobody waits any more, or no descriptor is left.  The latter is
\* remembered when there is a connection whose end gives one back.
AcceptFails ==
  /\ pc = "accept" /\ accept
  /\ at_limit' \in {at_limit, at_limit \/ Held # {}}
  /\ accept' = FALSE
  /\ UNCHANGED <<conn, options, listening, pending, d_resuming, itc, signalling, pc, zero,
                 again, todo>>

\* The connections the timeout lists give: all with a timeout of their own and the
\* oldest of the others, at least all whose time is over.
AcceptDone ==
  /\ pc = "accept" /\ ~accept
  /\ todo' \in {v \in SUBSET In("active") : \A c \in In("active") : conn[c].late => c \in v}
  /\ pc' = "timeouts"
  /\ UNCHANGED <<conn, options, dvars, zero, again, accept>>

\* MHD_connection_handle_idle() for the timeouts.
HandleTimeout(c) ==
  /\ pc = "timeouts" /\ c \in todo
  /\ \E k \in MHD_connection_handle_idle(conn[c], FALSE) :
       conn' = [conn EXCEPT ![c] =
                  [k EXCEPT !.stuck = @ \/ (k.info = WRITE /\ ~k.eready /\ "write" \in k.ready)]]
  /\ todo' = todo \ {c}
  /\ UNCHANGED <<options, dvars, pc, zero, again, accept>>

TimeoutsDone ==
  /\ pc = "timeouts" /\ todo = {}
  /\ pc' = "visit" /\ todo' = Eready
  /\ UNCHANGED <<conn, options, dvars, zero, again, accept>>

\* One connection of eready.
VisitReady(c) ==
  /\ pc = "visit" /\ c \in todo
  /\ \E k \in call_handlers(conn[c]) :
       /\ conn' = [conn EXCEPT ![c] = [LeaveEready(k) EXCEPT !.stuck = FALSE]]
       /\ pending' = (pending \/ "process" \in k.info)
  /\ todo' = todo \ {c}
  /\ UNCHANGED <<options, listening, at_limit, d_resuming, itc, signalling, pc, zero, again, accept>>

\* MHD_cleanup_connections(), after MHD_epoll() has returned.
MHD_cleanup_connections ==
  /\ pc = "visit" /\ todo = {}
  /\ conn' = [c \in Conns |-> IF conn[c].place = "cleanup" THEN Unused ELSE conn[c]]
  /\ at_limit' = (at_limit /\ In("cleanup") = {})
  /\ pc' = "listen"
  /\ UNCHANGED <<options, listening, pending, d_resuming, itc, signalling, zero, again,
                 accept, todo>>

Thread ==
  \/ ListenSocket \/ resume_suspended_connections \/ GetTimeout \/ EpollWait
  \/ AcceptFails \/ AcceptDone \/ TimeoutsDone \/ MHD_cleanup_connections
  \/ \E c \in Conns : MHD_accept_connection(c) \/ HandleTimeout(c) \/ VisitReady(c)

-----------------------------------------------------------------------------
(* The application, the clients and the clock.                             *)

\* MHD_resume_connection(), up to the unlock.
MHD_resume_connection(c) ==
  /\ conn[c].place = "suspended" /\ ~conn[c].resuming
  /\ conn' = [conn EXCEPT ![c].resuming = TRUE]
  /\ d_resuming' = TRUE
  /\ signalling' = signalling \cup {c}
  /\ UNCHANGED <<options, listening, at_limit, pending, itc, tvars>>

\* Its end: MHD_itc_activate_().
ActivateItc(c) ==
  /\ c \in signalling
  /\ signalling' = signalling \ {c}
  /\ itc' = TRUE
  /\ UNCHANGED <<conn, options, listening, at_limit, pending, d_resuming, tvars>>

ClientConnects(c) ==
  /\ conn[c].place = "unused"
  /\ conn' = [conn EXCEPT ![c].place = "backlog"]
  /\ UNCHANGED <<options, dvars, tvars>>

\* The state of a socket changes; a socket in the set is put on the list of events.
\* What changes while the client is in the backlog might as well change right after
\* it was accepted.
SocketEvent(c, k) ==
  /\ conn[c].place \in {"active", "suspended"} /\ ~conn[c].err
  /\ conn' = [conn EXCEPT ![c] = [k EXCEPT !.edge = @ \/ k.inset]]
  /\ UNCHANGED <<options, dvars, tvars>>

ClientSends(c) == ~conn[c].eof /\ SocketEvent(c, [conn[c] EXCEPT !.data = TRUE])
ClientCloses(c) == ~opt.calm /\ ~conn[c].eof /\ SocketEvent(c, [conn[c] EXCEPT !.eof = TRUE])
ClientReads(c) == ~conn[c].space /\ SocketEvent(c, [conn[c] EXCEPT !.space = TRUE])
ClientResets(c) ==
  /\ ~opt.calm
  /\ SocketEvent(c, [conn[c] EXCEPT !.err = TRUE, !.data = FALSE, !.eof = FALSE,
                                    !.space = TRUE])

\* The time of a connection passes.
TimePasses(c) ==
  /\ ~opt.calm /\ conn[c].place = "active" /\ ~conn[c].late
  /\ conn' = [conn EXCEPT ![c].late = TRUE]
  /\ UNCHANGED <<options, dvars, tvars>>

Environment ==
  \E c \in Conns : \/ MHD_resume_connection(c) \/ ActivateItc(c) \/ ClientConnects(c)
                   \/ ClientSends(c) \/ ClientCloses(c) \/ ClientReads(c) \/ ClientResets(c)
                   \/ TimePasses(c)

Next == Thread \/ Environment

Spec == Init /\ [][Next]_vars

-----------------------------------------------------------------------------
(* Properties.                                                             *)

TypeOK ==
  /\ conn \in [Conns -> ConnType]
  /\ turbo \in BOOLEAN /\ opt \in Instances
  /\ listening \in BOOLEAN /\ at_limit \in BOOLEAN /\ pending \in BOOLEAN /\ d_resuming \in BOOLEAN /\ itc \in BOOLEAN
  /\ signalling \subseteq Conns /\ todo \subseteq Conns
  /\ pc \in {"listen", "resume", "timeout", "wait", "accept", "timeouts", "visit"}
  /\ zero \in BOOLEAN /\ again \in BOOLEAN /\ accept \in BOOLEAN

(***************************************************************************)
(* The list eready, the epoll set and the list that is being walked        *)
(* through hold no connection that was freed or is suspended: a pointer    *)
(* from them is always good, and a resumed connection is not in eready yet *)
(* (the panic in resume_suspended_connections()).  When the thread waits,  *)
(* no closed connection is left to be freed.                               *)
(***************************************************************************)
ReadySetsLive ==
  /\ TypeOK
  /\ \A c \in Conns : conn[c].eready \/ conn[c].inset => conn[c].place \in {"active", "cleanup"}
  /\ \A c \in todo : conn[c].place \in {"active", "cleanup"}
  /\ pc = "visit" => \A c \in todo : conn[c].eready
  /\ pc \in {"listen", "resume", "timeout", "wait"} => In("cleanup") = {}

\* What a connection outside eready waits for will be reported.
AwaitsItsEdge(k) ==
  /\ k.info \in {READ, WRITE} \/ (k.info = CLEANUP /\ k.late)
  /\ k.info = READ => k.inset /\ "read" \notin k.ready /\ (k.data => k.edge)
  /\ k.info = WRITE => k.stuck \/ (k.inset /\ "write" \notin k.ready /\ (k.space => k.edge))
  /\ k.err /\ k.inset => k.edge

(***************************************************************************)
(* No edge is lost: when the thread blocks in its epoll_wait(), every      *)
(* connection waits for an event that epoll will still report, although    *)
(* events were reported while the connection was not interested in them,   *)
(* was suspended, or was not in the set; a resume is signalled, and a      *)
(* client in the backlog is waited for below the connection limit, unless  *)
(* the process has run out of descriptors, and then a connection is there  *)
(* whose end makes MHD listen again.  The end of a client's data is not    *)
(* covered: see the README.  Neither is a reply queued by the              *)
(* handle_idle() for the timeouts (stuck), nor a second epoll_wait() after *)
(* MAX_EVENTS events.                                                      *)
(***************************************************************************)
NoEdgeLost ==
  pc = "wait" /\ ~zero /\ ~again =>
    /\ Eready = {}
    /\ \A c \in In("active") : AwaitsItsEdge(conn[c])
    /\ \A c \in In("suspended") : conn[c].resuming => d_resuming /\ (itc \/ signalling # {})
    /\ In("backlog") # {} /\ Cardinality(Held) < opt.limit =>
         listening \/ (at_limit /\ Held # {})

\* The lists hold no dead connection, and no event is lost.  Code: MHD_epoll(),
\* MHD_connection_epoll_update_(), resume_suspended_connections().
EpollSeesAll == ReadySetsLive /\ NoEdgeLost
=============================================================================
