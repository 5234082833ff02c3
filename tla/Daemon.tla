------------------------------- MODULE Daemon -------------------------------
(***************************************************************************)
(* The daemon of libmicrohttpd in "internal polling thread" mode: one      *)
(* thread runs MHD_polling_thread() over select() or poll(), while any     *)
(* number of application threads call MHD_add_connection(),                *)
(* MHD_resume_connection(), MHD_upgrade_action(), MHD_quiesce_daemon() and *)
(* MHD_stop_daemon().                                                      *)
(*                                                                         *)
(* A connection is always in exactly one place, list[c]: the DL-lists of   *)
(* struct MHD_Daemon plus the moments at which one thread alone owns it.   *)
(* Every critical section of cleanup_connection_mutex,                     *)
(* new_connections_mutex and per_ip_connection_mutex is one step; the      *)
(* signal an application thread writes to the inter-thread channel (ITC)   *)
(* after it has left the critical section is a step of its own.            *)
(*                                                                         *)
(* The definitions named Mutant... state a plausible slip in the code      *)
(* modelled by the definition that follows them; the specification does    *)
(* not use them, the checks use them to see that a property would notice.  *)
(***************************************************************************)
EXTENDS Integers, FiniteSets

CONSTANTS
  Conn,             \* the connections that may ever exist
  Addr,             \* client addresses
  AddrOf,           \* the address of each connection
  ConnectionLimit,  \* daemon->connection_limit
  PerIpLimit,       \* daemon->per_ip_connection_limit, 0 switches it off
  PollFn,           \* "select" or "poll": the polling function in use
  Timeouts,         \* does the daemon use connection timeouts?
  AllowUpgrade,     \* is MHD_ALLOW_UPGRADE set?
  Tls,              \* is MHD_USE_TLS set?
  Calls             \* which of the calls below the application makes

ASSUME ConnAssumption == IsFiniteSet(Conn)
ASSUME AddrAssumption == AddrOf \in [Conn -> Addr]
ASSUME LimitAssumption == ConnectionLimit \in Nat \ {0} /\ PerIpLimit \in Nat
ASSUME ModeAssumption ==
  /\ PollFn \in {"select", "poll"}
  /\ Timeouts \in BOOLEAN /\ AllowUpgrade \in BOOLEAN /\ Tls \in BOOLEAN
  /\ Calls \subseteq {"connect", "add", "suspend", "quiesce", "stop"}

VARIABLES
  \* struct MHD_Daemon
  list,                  \* where each connection is
  connections,           \* the counter daemon->connections
  ip_count,              \* per_ip_connection_count, by address
  d_resuming,            \* daemon->resuming
  have_new,              \* daemon->have_new
  data_already_pending,  \* daemon->data_already_pending
  at_limit,              \* daemon->at_limit
  was_quiesced,          \* daemon->was_quiesced
  shutdown,              \* daemon->shutdown
  itc,                   \* is the inter-thread channel readable?
  \* struct MHD_Connection
  suspended,             \* connection->suspended
  resuming,              \* connection->resuming
  event_loop_info,       \* connection->event_loop_info
  idle_due,              \* must handle_idle() run although no socket event comes?
  urh,                   \* connection->urh # NULL: is the connection upgraded?
  urh_listed,            \* is its handle in the daemon's urh list (TLS only)?
  was_closed,            \* urh->was_closed: has the application closed it?
  clean_ready,           \* urh->clean_ready: is the daemon done with forwarding?
  notified,              \* the last notify_connection() call for the connection
  \* the operating system
  sock,                  \* what poll() would report for the connection's socket
  \* the daemon thread
  pc,                    \* the step the daemon thread is about to take
  zero_wait,             \* will the polling function return at once?
  watch_listen,          \* is the listen socket in the polled set?
  polled,                \* the connections in the polled set
  ready, failed,         \* of those, what the polling function has reported
  itc_ready,             \* ... and whether it reported the ITC
  listen_ready,          \* ... and the listen socket
  todo,                  \* the connections the processing loop has still to visit
  \* the application threads
  signals                \* ITC signals the application is about to write

dvars == <<connections, ip_count, d_resuming, have_new, data_already_pending,
           at_limit, was_quiesced, shutdown, itc>>
uvars == <<urh, urh_listed, was_closed, clean_ready>>
cvars == <<suspended, resuming, event_loop_info, idle_due, uvars, notified>>
wvars == <<zero_wait, watch_listen, polled, ready, failed, itc_ready,
           listen_ready, todo>>
lvars == <<pc, wvars>>
vars == <<list, dvars, cvars, sock, lvars, signals>>

Places == {"unused",      \* not created yet
           "backlog",     \* in the kernel's queue of the listen socket
           "prepared",    \* new_connection_prepare_() done, held by an application thread
           "new",         \* new_connections list
           "local",       \* held by the daemon thread, not yet served
           "connections", \* connections list
           "suspended",   \* suspended_connections list
           "cleanup",     \* cleanup list
           "closing",     \* taken from the cleanup list
           "released",    \* freed, but still counted in daemon->connections
           "gone"}        \* freed

\* enum MHD_ConnectionEventLoopInfo; READ stands for WRITE as well, since the
\* event a connection waits for is all that matters here.
Infos == {"READ", "PROCESS", "PROCESS_READ", "CLEANUP"}
Processing == {"PROCESS", "PROCESS_READ"}

DaemonSteps == {"top", "resume", "fdset", "wait", "clear", "new", "newproc",
                "accept", "acceptproc", "visit", "forward", "cleanup", "free",
                "count", "x_resume", "x_drain", "x_forward", "x_force",
                "x_mark", "x_resume2", "x_close", "x_cleanup", "x_free",
                "x_count", "exited", "panic"}

\* An ITC signal: the letter the code writes, and the connection it is for
\* (0 for the two signals that are for none).
Signals == {"r", "n"} \X Conn \cup {"q", "e"} \X {0}

Signal(letter, c) == <<letter, c>>

Init ==
  /\ list = [c \in Conn |-> "unused"]
  /\ connections = 0
  /\ ip_count = [a \in Addr |-> 0]
  /\ d_resuming = FALSE
  /\ have_new = FALSE
  /\ data_already_pending = FALSE
  /\ at_limit = FALSE
  /\ was_quiesced = FALSE
  /\ shutdown = FALSE
  /\ itc = FALSE
  /\ suspended = [c \in Conn |-> FALSE]
  /\ resuming = [c \in Conn |-> FALSE]
  /\ event_loop_info = [c \in Conn |-> "READ"]
  /\ idle_due = [c \in Conn |-> FALSE]
  /\ urh = [c \in Conn |-> FALSE]
  /\ urh_listed = [c \in Conn |-> FALSE]
  /\ was_closed = [c \in Conn |-> FALSE]
  /\ clean_ready = [c \in Conn |-> FALSE]
  /\ notified = [c \in Conn |-> "none"]
  /\ sock = [c \in Conn |-> "idle"]
  /\ pc = "top"
  /\ zero_wait = FALSE
  /\ watch_listen = FALSE
  /\ polled = {}
  /\ ready = {}
  /\ failed = {}
  /\ itc_ready = FALSE
  /\ listen_ready = FALSE
  /\ todo = {}
  /\ signals = {}

In(place) == {c \in Conn : list[c] = place}

-----------------------------------------------------------------------------
(***************************************************************************)
(* Per-address connection limit.                                           *)
(***************************************************************************)

\* MHD_ip_limit_add(): is there room for another connection of this address?
IpLimitAdmits(c) == PerIpLimit = 0 \/ ip_count[AddrOf[c]] < PerIpLimit

MHD_ip_limit_add(c) ==
  ip_count' = IF PerIpLimit = 0 THEN ip_count
              ELSE [ip_count EXCEPT ![AddrOf[c]] = @ + 1]

\* MHD_ip_limit_del(): the code panics if the counter is zero, which
\* IpCountExact excludes.
MHD_ip_limit_del(c) ==
  ip_count' = IF PerIpLimit = 0 THEN ip_count
              ELSE [ip_count EXCEPT ![AddrOf[c]] = @ - 1]

-----------------------------------------------------------------------------
(***************************************************************************)
(* The network.                                                            *)
(***************************************************************************)

\* A client connects: the connection waits in the listen queue.
ClientConnect(c) ==
  /\ "connect" \in Calls
  /\ list[c] = "unused"
  /\ ~shutdown
  /\ list' = [list EXCEPT ![c] = "backlog"]
  /\ UNCHANGED <<dvars, cvars, sock, lvars, signals>>

\* The event the connection waits for happens on its socket, or it fails.
SocketEvent(c) ==
  /\ list[c] \in {"connections", "suspended"}
  /\ sock[c] = "idle"
  /\ \E s \in {"ready", "error"} : sock' = [sock EXCEPT ![c] = s]
  /\ UNCHANGED <<list, dvars, cvars, lvars, signals>>

-----------------------------------------------------------------------------
(***************************************************************************)
(* Application threads.  The API forbids calls that race with              *)
(* MHD_stop_daemon(), hence the guard ~shutdown.                           *)
(***************************************************************************)

\* new_connection_prepare_() in an application thread: the unlocked check of
\* the connection limit, the per-address counter, the accept policy, malloc.
AddPrepare(c) ==
  /\ "add" \in Calls
  /\ list[c] = "unused"
  /\ ~shutdown
  /\ \/ /\ connections # ConnectionLimit /\ IpLimitAdmits(c)
        /\ MHD_ip_limit_add(c)
        /\ list' = [list EXCEPT ![c] = "prepared"]
     \/ \* over a limit, or refused by the policy callback or by malloc()
        \* after the address was counted: the counter is where it was
        /\ list' = [list EXCEPT ![c] = "gone"]
        /\ UNCHANGED ip_count
  /\ UNCHANGED <<connections, d_resuming, have_new, data_already_pending,
                 at_limit, was_quiesced, shutdown, itc, cvars, sock, lvars,
                 signals>>

MutantAddUnsignalled(c) ==
  /\ list[c] = "prepared"
  /\ list' = [list EXCEPT ![c] = "new"]
  /\ have_new' = TRUE
  /\ UNCHANGED <<connections, ip_count, d_resuming, data_already_pending,
                 at_limit, was_quiesced, shutdown, itc, cvars, sock, lvars,
                 signals>>

\* internal_add_connection(): hand the connection over to the daemon thread.
AddInsert(c) ==
  /\ list[c] = "prepared"
  /\ list' = [list EXCEPT ![c] = "new"]
  /\ have_new' = TRUE
  /\ signals' = signals \cup {Signal("n", c)}
  /\ UNCHANGED <<connections, ip_count, d_resuming, data_already_pending,
                 at_limit, was_quiesced, shutdown, itc, cvars, sock, lvars>>

\* MHD_resume_connection(): only for a connection that was suspended.
MHD_resume_connection(c) ==
  /\ list[c] = "suspended" /\ ~urh[c] /\ ~resuming[c]
  /\ ~shutdown
  /\ Signal("r", c) \notin signals
  /\ resuming' = [resuming EXCEPT ![c] = TRUE]
  /\ d_resuming' = TRUE
  /\ signals' = signals \cup {Signal("r", c)}
  /\ UNCHANGED <<list, connections, ip_count, have_new, data_already_pending,
                 at_limit, was_quiesced, shutdown, itc, suspended,
                 event_loop_info, idle_due, uvars, notified, sock, lvars>>

\* MHD_upgrade_action(MHD_UPGRADE_ACTION_CLOSE): the application is done with
\* an upgraded connection.
MHD_upgraded_connection_mark_app_closed_(c) ==
  /\ list[c] = "suspended" /\ urh[c] /\ ~was_closed[c]
  /\ ~shutdown
  /\ was_closed' = [was_closed EXCEPT ![c] = TRUE]
  /\ resuming' = [resuming EXCEPT ![c] = TRUE]
  /\ d_resuming' = TRUE
  /\ signals' = signals \cup {Signal("r", c)}
  /\ UNCHANGED <<list, connections, ip_count, have_new, data_already_pending,
                 at_limit, was_quiesced, shutdown, itc, suspended,
                 event_loop_info, idle_due, urh, urh_listed, clean_ready,
                 notified, sock, lvars>>

MHD_quiesce_daemon ==
  /\ "quiesce" \in Calls
  /\ ~was_quiesced /\ ~shutdown
  /\ was_quiesced' = TRUE
  /\ signals' = signals \cup {Signal("q", 0)}
  /\ UNCHANGED <<list, connections, ip_count, d_resuming, have_new,
                 data_already_pending, at_limit, shutdown, itc, cvars, sock,
                 lvars>>

MutantStopUnsignalled ==
  /\ "stop" \in Calls /\ ~shutdown
  /\ In("prepared") = {} /\ signals = {}
  /\ \A c \in In("suspended") : urh[c] \/ resuming[c]
  /\ shutdown' = TRUE
  /\ UNCHANGED <<list, connections, ip_count, d_resuming, have_new,
                 data_already_pending, at_limit, was_quiesced, itc, cvars,
                 sock, lvars, signals>>

\* MHD_stop_daemon(): the application has resumed what it had suspended and
\* has no other call under way.
MHD_stop_daemon ==
  /\ "stop" \in Calls
  /\ ~shutdown
  /\ In("prepared") = {} /\ signals = {}
  /\ \A c \in In("suspended") : urh[c] \/ resuming[c]
  /\ shutdown' = TRUE
  /\ signals' = signals \cup {Signal("e", 0)}
  /\ UNCHANGED <<list, connections, ip_count, d_resuming, have_new,
                 data_already_pending, at_limit, was_quiesced, itc, cvars,
                 sock, lvars>>

\* MHD_itc_activate_(): the last step of every call above.
ItcActivate(s) ==
  /\ s \in signals
  /\ signals' = signals \ {s}
  /\ itc' = TRUE
  /\ UNCHANGED <<list, connections, ip_count, d_resuming, have_new,
                 data_already_pending, at_limit, was_quiesced, shutdown,
                 cvars, sock, lvars>>

-----------------------------------------------------------------------------
(***************************************************************************)
(* The daemon thread: one turn of the loop of MHD_polling_thread().  A     *)
(* local variable is put back to its initial value after its last use.     *)
(***************************************************************************)

\* The loop's condition, tested again by MHD_select() and MHD_poll().
Top ==
  /\ pc = "top"
  /\ pc' = IF shutdown THEN "x_resume" ELSE "resume"
  /\ UNCHANGED <<list, dvars, cvars, sock, wvars, signals>>

\* A suspended connection that resume_suspended_connections() takes out.
Resumable(c) ==
  /\ list[c] = "suspended" /\ resuming[c]
  /\ urh[c] => was_closed[c] /\ clean_ready[c]

\* resume_suspended_connections(): the connections it resumes, none when
\* daemon->resuming is not set.
ToResume(flag) == IF flag THEN {c \in Conn : Resumable(c)} ELSE {}

\* Its effect on the lists: back to the connections list, or to the cleanup
\* list when the connection was upgraded.
ResumeSuspended(R) ==
  /\ list' = [c \in Conn |->
                IF c \notin R THEN list[c]
                ELSE IF urh[c] THEN "cleanup" ELSE "connections"]
  /\ suspended' = [c \in Conn |-> suspended[c] /\ c \notin R]
  /\ resuming' = [c \in Conn |-> resuming[c] /\ c \notin R]
  /\ d_resuming' = FALSE
  /\ data_already_pending' =
       (data_already_pending \/ \E c \in R : urh[c])

Resume ==
  /\ pc = "resume"
  /\ ResumeSuspended(ToResume(d_resuming))
  /\ zero_wait' = (ToResume(d_resuming) # {})
  /\ pc' = "fdset"
  /\ UNCHANGED <<connections, ip_count, have_new, at_limit, was_quiesced,
                 shutdown, itc, event_loop_info, idle_due, uvars, notified,
                 sock, watch_listen, polled, ready, failed, itc_ready,
                 listen_ready, todo, signals>>

\* Build the set to poll and choose the time to wait: zero if
\* MHD_get_timeout64() finds something to do, or if a connection that has
\* timed out waits to be cleaned up (poll() looks for one; for select() its
\* deadline, which MHD_get_timeout64() compares, is over).
Fdset ==
  /\ pc = "fdset"
  /\ zero_wait' = (\/ zero_wait \/ data_already_pending \/ In("cleanup") # {}
                   \/ d_resuming \/ have_new \/ shutdown
                   \/ \E c \in In("connections") : event_loop_info[c] = "CLEANUP")
  /\ watch_listen' = (~was_quiesced /\ connections < ConnectionLimit /\ ~at_limit)
  /\ polled' = In("connections")
  /\ pc' = "wait"
  /\ UNCHANGED <<list, dvars, cvars, sock, ready, failed, itc_ready,
                 listen_ready, todo, signals>>

\* Is c's socket reported?  For PROCESS only errors are asked for.
ReportsReady(c) == sock[c] = "ready" /\ event_loop_info[c] \in {"READ", "PROCESS_READ"}
ReportsError(c) == sock[c] = "error"

\* select() or poll() returns: something is ready, the time is over, or a
\* socket of an upgraded connection is ready.
WaitMayReturn ==
  \/ zero_wait
  \/ itc
  \/ watch_listen /\ In("backlog") # {}
  \/ \E c \in polled : ReportsReady(c) \/ ReportsError(c)
  \/ Timeouts /\ polled # {}
  \/ \E c \in Conn : urh_listed[c]

Wait ==
  /\ pc = "wait"
  /\ WaitMayReturn
  /\ itc_ready' = itc
  /\ listen_ready' = (watch_listen /\ In("backlog") # {})
  /\ ready' = {c \in polled : ReportsReady(c)}
  /\ failed' = {c \in polled : ReportsError(c)}
  /\ zero_wait' = FALSE /\ watch_listen' = FALSE
  /\ pc' = "clear"
  /\ UNCHANGED <<list, dvars, cvars, sock, polled, todo, signals>>

\* Clear the ITC before anything else; poll() clears it before it looks at
\* daemon->shutdown, select() after.
Clear ==
  /\ pc = "clear"
  /\ itc' = (itc /\ ~(itc_ready /\ (PollFn = "poll" \/ ~shutdown)))
  /\ data_already_pending' = (data_already_pending /\ (PollFn = "poll" \/ shutdown))
  /\ IF shutdown
     THEN /\ pc' = "cleanup"
          /\ listen_ready' = FALSE /\ polled' = {} /\ ready' = {} /\ failed' = {}
     ELSE /\ pc' = "new"
          /\ UNCHANGED <<listen_ready, polled, ready, failed>>
  /\ itc_ready' = FALSE
  /\ UNCHANGED <<list, connections, ip_count, d_resuming, have_new, at_limit,
                 was_quiesced, shutdown, cvars, sock, zero_wait, watch_listen,
                 todo, signals>>

\* new_connections_list_process_(): detach the list of new connections.
New ==
  /\ pc = "new"
  /\ IF have_new
     THEN /\ list' = [c \in Conn |-> IF list[c] = "new" THEN "local" ELSE list[c]]
          /\ have_new' = FALSE
          /\ pc' = "newproc"
     ELSE /\ pc' = "accept"
          /\ UNCHANGED <<list, have_new>>
  /\ UNCHANGED <<connections, ip_count, d_resuming, data_already_pending,
                 at_limit, was_quiesced, shutdown, itc, cvars, sock, wvars,
                 signals>>

\* new_connection_process_(): the firm check of the limit under the lock.
FirmLimitAdmits == connections < ConnectionLimit

\* new_connection_process_() for one connection: it is counted and served, or
\* a failure gives the address back.
NewConnectionProcess(c) ==
  /\ pc \in {"newproc", "acceptproc"}
  /\ list[c] = "local"
  /\ \/ /\ FirmLimitAdmits
        /\ connections' = connections + 1
        /\ list' = [list EXCEPT ![c] = "connections"]
        /\ notified' = [notified EXCEPT ![c] = "started"]
        /\ UNCHANGED ip_count
     \/ \* at the limit, or MHD_pool_create() has failed
        /\ list' = [list EXCEPT ![c] = "gone"]
        /\ MHD_ip_limit_del(c)
        /\ UNCHANGED <<connections, notified>>
  /\ UNCHANGED <<d_resuming, have_new, data_already_pending, at_limit,
                 was_quiesced, shutdown, itc, suspended, resuming,
                 event_loop_info, idle_due, uvars, sock, lvars, signals>>

\* The local list is empty.  After the externally added connections the
\* listen socket is looked at, after the accepted one the processing starts.
StartVisits ==
  /\ todo' = IF PollFn = "poll" THEN polled ELSE In("connections")
  /\ data_already_pending' = (data_already_pending /\ PollFn # "poll")
  /\ polled' = {} /\ listen_ready' = FALSE
  /\ pc' = "visit"

NewDone ==
  /\ In("local") = {}
  /\ \/ pc = "acceptproc" /\ StartVisits
     \/ /\ pc = "newproc" /\ pc' = "accept"
        /\ UNCHANGED <<data_already_pending, todo, polled, listen_ready>>
  /\ UNCHANGED <<list, connections, ip_count, d_resuming, have_new, at_limit,
                 was_quiesced, shutdown, itc, cvars, sock, zero_wait,
                 watch_listen, ready, failed, itc_ready, signals>>

\* MHD_accept_connection(): accept() succeeds and new_connection_prepare_()
\* admits the connection or refuses it, or the system is out of resources.
Accept ==
  /\ pc = "accept"
  /\ listen_ready /\ ~was_quiesced
  /\ \/ \E c \in In("backlog") :
          /\ \/ /\ connections # ConnectionLimit /\ IpLimitAdmits(c)
                /\ MHD_ip_limit_add(c)
                /\ list' = [list EXCEPT ![c] = "local"]
             \/ /\ list' = [list EXCEPT ![c] = "gone"]
                /\ UNCHANGED ip_count
          /\ UNCHANGED at_limit
     \/ /\ at_limit' = (at_limit \/ connections # 0)
        /\ UNCHANGED <<list, ip_count>>
  /\ pc' = "acceptproc"
  /\ UNCHANGED <<connections, d_resuming, have_new, data_already_pending,
                 was_quiesced, shutdown, itc, cvars, sock, wvars, signals>>

\* Nothing to accept.
AcceptNothing ==
  /\ pc = "accept"
  /\ ~listen_ready \/ was_quiesced
  /\ StartVisits
  /\ UNCHANGED <<list, connections, ip_count, d_resuming, have_new, at_limit,
                 was_quiesced, shutdown, itc, cvars, sock, zero_wait,
                 watch_listen, ready, failed, itc_ready, signals>>
-----------------------------------------------------------------------------
(***************************************************************************)
(* The processing loop: call_handlers() for every connection.  What the    *)
(* HTTP state machine and the application do with a connection is left     *)
(* open, except for whether it has anything to do at all.                  *)
(***************************************************************************)

\* Has the connection anything to do?
Due(c) == c \in ready \/ event_loop_info[c] \in Processing \/ idle_due[c]

MutantAdvanceByMovedLink(c, stays) ==
  /\ todo' = IF stays THEN todo \ {c} ELSE {}
  /\ UNCHANGED <<pc, zero_wait, watch_listen, polled, ready, failed,
                 itc_ready, listen_ready>>

MutantAdvanceKeepsMoved(c, stays) ==
  /\ todo' = IF stays THEN todo \ {c} ELSE todo
  /\ UNCHANGED <<pc, zero_wait, watch_listen, polled, ready, failed, itc_ready,
                 listen_ready>>

\* The loop goes on.  The loop of internal_run_from_select() follows pos->prev
\* after the call: a connection that was moved to the head of another list has
\* no predecessor any more, and the loop ends there.
Advance(c, stays) ==
  /\ todo' = IF PollFn = "select" /\ ~stays THEN {} ELSE todo \ {c}
  /\ UNCHANGED <<pc, zero_wait, watch_listen, polled, ready, failed,
                 itc_ready, listen_ready>>

\* Reading or writing may use up what the socket had.
SocketUsed(c) ==
  \E s \in IF c \in ready THEN {"idle", sock[c]} ELSE {sock[c]} :
    sock' = [sock EXCEPT ![c] = s]

\* The connection goes on with its request or reply.
VisitProgress(c) ==
  /\ pc = "visit" /\ c \in todo \ failed /\ Due(c)
  /\ event_loop_info[c] # "CLEANUP"
  /\ SocketUsed(c)
  /\ \E e \in {"READ", "PROCESS", "PROCESS_READ"} :
       /\ event_loop_info' = [event_loop_info EXCEPT ![c] = e]
       /\ data_already_pending' = (data_already_pending \/ e \in Processing)
  /\ idle_due' = [idle_due EXCEPT ![c] = FALSE]
  /\ Advance(c, TRUE)
  /\ UNCHANGED <<list, connections, ip_count, d_resuming, have_new, at_limit,
                 was_quiesced, shutdown, itc, suspended, resuming, uvars,
                 notified, signals>>

\* handle_idle() has nothing to do, or finds that the connection timed out and
\* closes it; the next turn cleans it up.
VisitNothing(c) ==
  /\ pc = "visit" /\ c \in todo \ failed /\ ~Due(c)
  /\ event_loop_info[c] # "CLEANUP"
  /\ \/ UNCHANGED event_loop_info
     \/ /\ Timeouts
        /\ event_loop_info' = [event_loop_info EXCEPT ![c] = "CLEANUP"]
  /\ Advance(c, TRUE)
  /\ UNCHANGED <<list, dvars, suspended, resuming, idle_due, uvars, notified,
                 sock, signals>>

\* The connection ends: cleanup_connection().  After a socket error
\* call_handlers() always closes it.
VisitClose(c) ==
  /\ pc = "visit" /\ c \in todo
  /\ c \in failed \/ Due(c) \/ event_loop_info[c] = "CLEANUP"
  /\ list' = [list EXCEPT ![c] = "cleanup"]
  /\ resuming' = [resuming EXCEPT ![c] = FALSE]
  /\ event_loop_info' = [event_loop_info EXCEPT ![c] = "CLEANUP"]
  /\ idle_due' = [idle_due EXCEPT ![c] = FALSE]
  /\ Advance(c, FALSE)
  /\ UNCHANGED <<dvars, suspended, uvars, notified, sock, signals>>

\* internal_suspend_connection_(): undo a resume that is still pending, or
\* move the connection to the suspended list.
InternalSuspend(c) ==
  \/ /\ resuming[c]
     /\ resuming' = [resuming EXCEPT ![c] = FALSE]
     /\ UNCHANGED <<list, suspended>>
  \/ /\ ~resuming[c]
     /\ list' = [list EXCEPT ![c] = "suspended"]
     /\ suspended' = [suspended EXCEPT ![c] = TRUE]
     /\ UNCHANGED resuming

\* The application calls MHD_suspend_connection() from its handler; it does
\* not do so once it has called MHD_stop_daemon().  event_loop_info keeps its
\* old value until the connection is resumed.
VisitSuspend(c) ==
  /\ "suspend" \in Calls
  /\ pc = "visit" /\ c \in todo \ failed /\ Due(c)
  /\ event_loop_info[c] # "CLEANUP"
  /\ ~shutdown
  /\ InternalSuspend(c)
  /\ SocketUsed(c)
  /\ idle_due' = [idle_due EXCEPT ![c] = TRUE]
  /\ data_already_pending' =
       (data_already_pending \/ event_loop_info[c] \in Processing)
  /\ Advance(c, resuming[c])
  /\ UNCHANGED <<connections, ip_count, d_resuming, have_new, at_limit,
                 was_quiesced, shutdown, itc, event_loop_info, uvars,
                 notified, signals>>

\* While it handles another connection the application suspends again a
\* connection whose resume the daemon has not seen yet.
SuspendAgain(c) ==
  /\ pc = "visit" /\ todo # {}
  /\ list[c] = "suspended" /\ resuming[c] /\ ~urh[c] /\ ~shutdown
  /\ InternalSuspend(c)
  /\ UNCHANGED <<dvars, event_loop_info, idle_due, uvars, notified, sock,
                 lvars, signals>>

\* The reply was a "101 Switching Protocols": MHD_response_execute_upgrade_()
\* suspends the connection until the application closes it.
VisitUpgrade(c) ==
  /\ pc = "visit" /\ c \in todo \ failed /\ Due(c)
  /\ event_loop_info[c] # "CLEANUP"
  /\ AllowUpgrade
  /\ urh' = [urh EXCEPT ![c] = TRUE]
  /\ urh_listed' = [urh_listed EXCEPT ![c] = Tls]
  /\ was_closed' = [was_closed EXCEPT ![c] = FALSE]
  /\ clean_ready' = [clean_ready EXCEPT ![c] = ~Tls]
  /\ InternalSuspend(c)
  /\ SocketUsed(c)
  /\ idle_due' = [idle_due EXCEPT ![c] = FALSE]
  /\ data_already_pending' =
       (data_already_pending \/ event_loop_info[c] \in Processing)
  /\ Advance(c, resuming[c])
  /\ UNCHANGED <<connections, ip_count, d_resuming, have_new, at_limit,
                 was_quiesced, shutdown, itc, event_loop_info, notified,
                 signals>>

VisitsDone ==
  /\ pc = "visit" /\ todo = {}
  /\ pc' = "forward"
  /\ ready' = {} /\ failed' = {}
  /\ UNCHANGED <<list, dvars, cvars, sock, zero_wait, watch_listen, polled,
                 itc_ready, listen_ready, todo, signals>>

-----------------------------------------------------------------------------
(***************************************************************************)
(* Upgraded TLS connections: the daemon forwards the data.                 *)
(***************************************************************************)

MutantForwardNotResumed(c) ==
  /\ pc \in {"forward", "x_forward"}
  /\ urh_listed[c]
  /\ urh_listed' = [urh_listed EXCEPT ![c] = FALSE]
  /\ clean_ready' = [clean_ready EXCEPT ![c] = TRUE]
  /\ was_closed' = [was_closed EXCEPT ![c] = @ \/ shutdown]
  /\ UNCHANGED <<list, dvars, suspended, resuming, event_loop_info, idle_due,
                 notified, sock, lvars, signals, urh>>

\* Forwarding is finished, because both ends are closed or have failed or
\* because the daemon stops, which process_urh() takes for a close by the
\* application: MHD_connection_finish_forward_() takes the handle out of the
\* urh list and the daemon thread itself calls MHD_resume_connection().
FinishForward(c) ==
  /\ pc \in {"forward", "x_forward"}
  /\ urh_listed[c]
  /\ urh_listed' = [urh_listed EXCEPT ![c] = FALSE]
  /\ clean_ready' = [clean_ready EXCEPT ![c] = TRUE]
  /\ was_closed' = [was_closed EXCEPT ![c] = @ \/ shutdown]
  /\ resuming' = [resuming EXCEPT ![c] = TRUE]
  /\ d_resuming' = TRUE
  /\ itc' = TRUE
  /\ UNCHANGED <<list, connections, ip_count, have_new, data_already_pending,
                 at_limit, was_quiesced, shutdown, suspended, event_loop_info,
                 idle_due, notified, sock, lvars, signals, urh>>

\* During shutdown every handle is finished.
ForwardDone ==
  /\ \/ pc = "forward" /\ pc' = "cleanup"
     \/ pc = "x_forward" /\ (\A c \in Conn : ~urh_listed[c]) /\ pc' = "x_force"
  /\ UNCHANGED <<list, dvars, cvars, sock, wvars, signals>>

-----------------------------------------------------------------------------
(***************************************************************************)
(* MHD_cleanup_connections(): the lock is given up while one connection is *)
(* freed, and taken again to count it.                                     *)
(***************************************************************************)

CleanupTake(c) ==
  /\ pc \in {"cleanup", "x_cleanup"}
  /\ list[c] = "cleanup"
  /\ list' = [list EXCEPT ![c] = "closing"]
  /\ pc' = IF pc = "cleanup" THEN "free" ELSE "x_free"
  /\ UNCHANGED <<dvars, cvars, sock, wvars, signals>>

CleanupFree(c) ==
  /\ pc \in {"free", "x_free"}
  /\ list[c] = "closing"
  /\ list' = [list EXCEPT ![c] = "released"]
  /\ urh' = [urh EXCEPT ![c] = FALSE]
  /\ was_closed' = [was_closed EXCEPT ![c] = FALSE]
  /\ clean_ready' = [clean_ready EXCEPT ![c] = FALSE]
  /\ notified' = [notified EXCEPT ![c] = "closed"]
  /\ event_loop_info' = [event_loop_info EXCEPT ![c] = "READ"]
  /\ sock' = [sock EXCEPT ![c] = "idle"]
  /\ MHD_ip_limit_del(c)
  /\ pc' = IF pc = "free" THEN "count" ELSE "x_count"
  /\ UNCHANGED <<connections, d_resuming, have_new, data_already_pending,
                 at_limit, was_quiesced, shutdown, itc, suspended, resuming,
                 idle_due, wvars, signals, urh_listed>>

MutantLimitNotLifted(c) ==
  /\ pc \in {"count", "x_count"}
  /\ list[c] = "released"
  /\ list' = [list EXCEPT ![c] = "gone"]
  /\ connections' = connections - 1
  /\ pc' = IF pc = "count" THEN "cleanup" ELSE "x_cleanup"
  /\ UNCHANGED <<ip_count, d_resuming, have_new, data_already_pending,
                 at_limit, was_quiesced, shutdown, itc, cvars, sock, wvars,
                 signals>>

CleanupCount(c) ==
  /\ pc \in {"count", "x_count"}
  /\ list[c] = "released"
  /\ list' = [list EXCEPT ![c] = "gone"]
  /\ connections' = connections - 1
  /\ at_limit' = FALSE
  /\ pc' = IF pc = "count" THEN "cleanup" ELSE "x_cleanup"
  /\ UNCHANGED <<ip_count, d_resuming, have_new, data_already_pending,
                 was_quiesced, shutdown, itc, cvars, sock, wvars, signals>>

CleanupDone ==
  /\ In("cleanup") = {}
  /\ \/ pc = "cleanup" /\ pc' = "top"
     \/ pc = "x_cleanup" /\ pc' = "exited"
  /\ UNCHANGED <<list, dvars, cvars, sock, wvars, signals>>

-----------------------------------------------------------------------------
(***************************************************************************)
(* The end of the daemon thread: close_all_connections().                  *)
(***************************************************************************)

\* Resume what is pending before anything is closed.
ExitResume ==
  /\ pc = "x_resume"
  /\ ResumeSuspended(ToResume(d_resuming))
  /\ pc' = "x_drain"
  /\ UNCHANGED <<connections, ip_count, have_new, at_limit, was_quiesced,
                 shutdown, itc, event_loop_info, idle_due, uvars, notified,
                 sock, wvars, signals>>

MutantDrainKeepsAddress(c) ==
  /\ pc = "x_drain"
  /\ list[c] = "new"
  /\ list' = [list EXCEPT ![c] = "gone"]
  /\ UNCHANGED <<dvars, cvars, sock, lvars, signals>>

\* new_connection_close_() for a connection the thread has never processed.
ExitDrain(c) ==
  /\ pc = "x_drain"
  /\ list[c] = "new"
  /\ list' = [list EXCEPT ![c] = "gone"]
  /\ MHD_ip_limit_del(c)
  /\ UNCHANGED <<connections, d_resuming, have_new, data_already_pending,
                 at_limit, was_quiesced, shutdown, itc, cvars, sock, lvars,
                 signals>>

ExitDrained ==
  /\ pc = "x_drain" /\ In("new") = {}
  /\ pc' = "x_forward"
  /\ UNCHANGED <<list, dvars, cvars, sock, wvars, signals>>

MutantOneForcedResume ==
  /\ \/ pc = "x_force" /\ pc' = "x_mark"
        /\ ResumeSuspended(ToResume(TRUE))
     \/ pc = "x_resume2" /\ pc' = "x_close"
        /\ UNCHANGED <<list, suspended, resuming, d_resuming,
                       data_already_pending>>
  /\ UNCHANGED <<connections, ip_count, have_new, at_limit, was_quiesced,
                 shutdown, itc, event_loop_info, idle_due, uvars, notified,
                 sock, wvars, signals>>

\* The forced check for pending resumes, before and after the upgraded
\* connections are marked.
ExitForcedResume ==
  /\ \/ pc = "x_force" /\ pc' = "x_mark"
        /\ ResumeSuspended(ToResume(TRUE))
     \/ pc = "x_resume2" /\ pc' = "x_close"
        /\ IF AllowUpgrade THEN ResumeSuspended(ToResume(TRUE))
           ELSE UNCHANGED <<list, suspended, resuming, d_resuming,
                            data_already_pending>>
  /\ UNCHANGED <<connections, ip_count, have_new, at_limit, was_quiesced,
                 shutdown, itc, event_loop_info, idle_due, uvars, notified,
                 sock, wvars, signals>>

\* No connection may be suspended now, except for the upgraded ones, which are
\* marked for cleanup although the application has not closed them.
ExitMark ==
  /\ pc = "x_mark"
  /\ IF \E c \in In("suspended") : ~urh[c]
     THEN /\ pc' = "panic"
          /\ UNCHANGED <<urh_listed, was_closed, resuming, d_resuming>>
     ELSE /\ pc' = "x_resume2"
          /\ was_closed' = [c \in Conn |-> was_closed[c] \/ list[c] = "suspended"]
          /\ urh_listed' = [c \in Conn |-> urh_listed[c] /\ list[c] # "suspended"]
          /\ resuming' = [c \in Conn |-> resuming[c] \/ list[c] = "suspended"]
          /\ d_resuming' = (d_resuming \/ In("suspended") # {})
  /\ UNCHANGED <<list, connections, ip_count, have_new, data_already_pending,
                 at_limit, was_quiesced, shutdown, itc, suspended,
                 event_loop_info, idle_due, urh, clean_ready, notified, sock,
                 wvars, signals>>

\* close_connection() for one connection.
ExitClose(c) ==
  /\ pc = "x_close"
  /\ list[c] = "connections"
  /\ list' = [list EXCEPT ![c] = "cleanup"]
  /\ event_loop_info' = [event_loop_info EXCEPT ![c] = "CLEANUP"]
  /\ data_already_pending' = TRUE
  /\ idle_due' = [idle_due EXCEPT ![c] = FALSE]
  /\ UNCHANGED <<connections, ip_count, d_resuming, have_new, at_limit,
                 was_quiesced, shutdown, itc, suspended, resuming, uvars,
                 notified, sock, lvars, signals>>

ExitClosed ==
  /\ pc = "x_close" /\ In("connections") = {}
  /\ pc' = "x_cleanup"
  /\ UNCHANGED <<list, dvars, cvars, sock, wvars, signals>>

-----------------------------------------------------------------------------
Network(c) == ClientConnect(c) \/ SocketEvent(c)

Application(c) ==
  \/ AddPrepare(c) \/ AddInsert(c) \/ MHD_resume_connection(c)
  \/ MHD_upgraded_connection_mark_app_closed_(c)

PollingThreadOn(c) ==
  \/ NewConnectionProcess(c)
  \/ VisitProgress(c) \/ VisitNothing(c) \/ VisitClose(c) \/ VisitSuspend(c)
  \/ VisitUpgrade(c) \/ FinishForward(c)
  \/ CleanupTake(c) \/ CleanupFree(c) \/ CleanupCount(c)
  \/ ExitDrain(c) \/ ExitClose(c)

PollingThread ==
  \/ Top \/ Resume \/ Fdset \/ Wait \/ Clear \/ New \/ NewDone \/ Accept
  \/ AcceptNothing \/ VisitsDone \/ ForwardDone \/ CleanupDone \/ ExitResume
  \/ ExitDrained \/ ExitForcedResume \/ ExitMark \/ ExitClosed

Next ==
  \/ \E c \in Conn : Network(c) \/ Application(c) \/ PollingThreadOn(c)
                     \/ SuspendAgain(c)
  \/ PollingThread
  \/ MHD_quiesce_daemon
  \/ MHD_stop_daemon
  \/ \E s \in Signals : ItcActivate(s)

\* The threads run: the daemon thread takes its steps, and an application
\* thread inside an MHD_* function comes to the end of it.
Fairness ==
  /\ WF_vars(PollingThread \/ \E c \in Conn : PollingThreadOn(c))
  /\ WF_vars(\E s \in Signals : ItcActivate(s))
  /\ WF_vars(\E c \in Conn : AddInsert(c))

Spec == Init /\ [][Next]_vars

FairSpec == Spec /\ Fairness
-----------------------------------------------------------------------------
(***************************************************************************)
(* Properties.                                                             *)
(***************************************************************************)

DaemonTypeOK ==
  /\ connections \in Nat
  /\ ip_count \in [Addr -> Nat]
  /\ d_resuming \in BOOLEAN /\ have_new \in BOOLEAN
  /\ data_already_pending \in BOOLEAN /\ at_limit \in BOOLEAN
  /\ was_quiesced \in BOOLEAN /\ shutdown \in BOOLEAN /\ itc \in BOOLEAN

ConnectionTypeOK ==
  /\ list \in [Conn -> Places]
  /\ suspended \in [Conn -> BOOLEAN]
  /\ resuming \in [Conn -> BOOLEAN]
  /\ event_loop_info \in [Conn -> Infos]
  /\ idle_due \in [Conn -> BOOLEAN]
  /\ urh \in [Conn -> BOOLEAN]
  /\ urh_listed \in [Conn -> BOOLEAN]
  /\ was_closed \in [Conn -> BOOLEAN]
  /\ clean_ready \in [Conn -> BOOLEAN]
  /\ notified \in [Conn -> {"none", "started", "closed"}]
  /\ sock \in [Conn -> {"idle", "ready", "error"}]

ThreadTypeOK ==
  /\ pc \in DaemonSteps
  /\ zero_wait \in BOOLEAN /\ watch_listen \in BOOLEAN
  /\ itc_ready \in BOOLEAN /\ listen_ready \in BOOLEAN
  /\ polled \subseteq Conn /\ ready \subseteq Conn /\ failed \subseteq Conn
  /\ todo \subseteq Conn
  /\ signals \subseteq Signals

\* The type invariant of the fields of the daemon and of the connections and of
\* what the threads hold; in particular no counter goes below zero.
TypeOK == DaemonTypeOK /\ ConnectionTypeOK /\ ThreadTypeOK

Counted == {"connections", "suspended", "cleanup", "closing", "released"}
IpCounted == {"prepared", "new", "local", "connections", "suspended", "cleanup",
              "closing"}

\* The daemon thread never works on a connection that has left the connections
\* list, to another list or to free(): neither between building the polled set
\* and using it nor while the processing loop walks the list that its own
\* calls change.
VisitsLive ==
  /\ polled \cup todo \subseteq In("connections")
  /\ polled # {} => pc \in {"wait", "clear", "new", "newproc", "accept",
                            "acceptproc"}
  /\ todo # {} => pc = "visit"

\* daemon->connections is the number of connections the daemon serves, through
\* every hand-over between lists and threads, and never passes
\* connection_limit although new_connection_prepare_() checks it unlocked.
CountExact ==
  /\ connections = Cardinality({c \in Conn : list[c] \in Counted})
  /\ connections <= ConnectionLimit

\* The counter of an address is the number of its connections on every path,
\* failures included: MHD_ip_limit_del() never meets a zero counter (a panic)
\* and no address keeps a count it cannot lose or goes over the limit.
IpCountExact ==
  PerIpLimit # 0 =>
    \A a \in Addr :
      /\ ip_count[a] = Cardinality({c \in Conn : AddrOf[c] = a /\ list[c] \in IpCounted})
      /\ ip_count[a] <= PerIpLimit

\* The flag and the list say the same, and a resume is pending only for a
\* suspended connection: what the assertions of resume_suspended_connections(),
\* internal_suspend_connection_() and close_connection() rely on.
FlagsMatchList ==
  \A c \in Conn : /\ suspended[c] <=> list[c] = "suspended"
                  /\ resuming[c] => list[c] = "suspended"

\* A connection that can be resumed is never overlooked: daemon->resuming is
\* set whenever resume_suspended_connections() would find one, although it is
\* reset even for connections it has to leave in the list (an upgraded one
\* that is closed but still forwarding).
ResumeFlagged == (\E c \in Conn : Resumable(c)) => d_resuming

\* The handle of an upgraded connection is given up only when the application
\* has closed it (or the daemon stops) and the forwarding is over: neither the
\* application nor process_urh() ever works on a freed handle.
UpgradeReleasedByBoth ==
  \A c \in Conn : urh[c] /\ list[c] # "suspended" =>
                   was_closed[c] /\ clean_ready[c] /\ ~urh_listed[c]

\* Both counters are right.  Code: MHD_ip_limit_add(), MHD_ip_limit_del() and the
\* changes of daemon->connections.
CountersRight == CountExact /\ IpCountExact

\* Suspending, resuming and upgrading leave flags, lists and handles in
\* agreement.  Code: internal_suspend_connection_(), MHD_resume_connection(),
\* resume_suspended_connections() and MHD_upgrade_action().
SuspendConsistent == FlagsMatchList /\ ResumeFlagged /\ UpgradeReleasedByBoth

\* While the daemon thread blocks in select() or poll() no request for its
\* attention is lost: the ITC is readable, or will be by a call under way.
NoLostWakeup ==
  pc = "wait" /\ (d_resuming \/ have_new \/ shutdown)
    => zero_wait \/ itc \/ signals # {}

\* accept() is stopped only while there is a connection whose end starts it
\* again (the comment in MHD_accept_connection()).
AtLimitClearable == at_limit => connections > 0

\* While the daemon thread blocks in select() or poll() nothing it must do is forgotten:
\* a request for its attention will wake it, and accept() is stopped only while there is
\* a connection whose end starts it again.  Code: MHD_itc_activate_() with the flags that
\* are set before it, at_limit of MHD_accept_connection().
NothingForgotten == NoLostWakeup /\ AtLimitClearable

\* Shutdown never runs into "MHD_stop_daemon() called while we have suspended
\* connections" if the application has resumed them all before, however late
\* the daemon thread sees the resume.
NoPanic == pc # "panic"

\* When the thread has ended nothing is left: no list has a connection, every
\* started connection was reported closed, and the counters are back at zero.
StopReleasesAll ==
  pc = "exited" =>
    /\ \A c \in Conn : list[c] \in {"unused", "backlog", "gone"}
                       /\ notified[c] # "started"
    /\ connections = 0
    /\ PerIpLimit # 0 => \A a \in Addr : ip_count[a] = 0

\* A stop reaches its end in good order.  Code: close_all_connections().
StopClean == NoPanic /\ StopReleasesAll

\* A resumed connection is processed: handle_idle() runs for it without any
\* further network activity.
ResumedIsProcessed ==
  \A c \in Conn :
    (list[c] = "suspended" /\ resuming[c] /\ ~urh[c])
      ~> (~idle_due[c] \/ (list[c] = "suspended" /\ ~resuming[c]))

\* MHD_stop_daemon() comes to an end: the thread it joins ends.
StopTerminates == shutdown ~> pc = "exited"
=============================================================================
