--------------------------- MODULE ThreadPerConn ---------------------------
(***************************************************************************)
(* A daemon with MHD_USE_THREAD_PER_CONNECTION and select(): the daemon    *)
(* thread accepts connections, moves resumed ones back and frees closed    *)
(* ones; every connection has a thread of its own, which runs              *)
(* thread_main_handle_connection(); the application resumes connections    *)
(* and stops the daemon from a third thread.  All of them share one        *)
(* inter-thread channel (ITC), which the daemon thread and the threads of  *)
(* suspended connections poll and clear.                                   *)
(*                                                                         *)
(* What happens under cleanup_connection_mutex is one step, as are single  *)
(* reads and writes without it.  What the handlers do with a request is in *)
(* Connection; here a call of them goes on, suspends or closes.            *)
(***************************************************************************)
EXTENDS Integers, FiniteSets

CONSTANTS
  Conn,         \* clients, each connecting once
  Limit,        \* daemon->connection_limit
  MaxSuspends   \* bound: how often a connection is suspended

NoConn == "none"

ConnAssumption == IsFiniteSet(Conn) /\ NoConn \notin Conn
LimitAssumption == Limit \in Nat \ {0} /\ MaxSuspends \in Nat

VARIABLES
  \* struct MHD_Daemon
  itc,          \* has the channel been activated?
  shutdown,     \* daemon->shutdown
  dresuming,    \* daemon->resuming
  connections,  \* daemon->connections
  at_limit,     \* daemon->at_limit
  \* struct MHD_Connection
  place,        \* the list it is in, or what has become of it
  suspended, resuming, thread_joined,
  sock,         \* what select() would tell of its socket
  \* the threads
  pc,           \* where the thread of each connection is
  was_suspended,
  dpc,          \* where the daemon thread is
  dcon,         \* the connection it waits for
  dset,         \* the sets of select(): is the listen socket polled, what is ready
  panic,
  \* the application
  held,         \* the connections it has suspended and not resumed
  waking,       \* the ones whose resume it has not signalled yet
  nsuspends,    \* how often each was suspended
  app           \* how far MHD_stop_daemon() has come

dvars == <<itc, shutdown, dresuming, connections, at_limit>>
cvars == <<place, suspended, resuming, thread_joined, sock>>
tvars == <<pc, was_suspended>>
lvars == <<dpc, dcon, dset, panic>>
avars == <<held, waking, nsuspends, app>>
vars == <<dvars, cvars, tvars, lvars, avars>>

In(list) == {c \in Conn : place[c] = list}
NotPolled == [listen |-> FALSE, itc |-> FALSE, accept |-> FALSE]

Init ==
  /\ itc = FALSE /\ shutdown = FALSE /\ dresuming = FALSE
  /\ connections = 0 /\ at_limit = FALSE
  /\ place = [c \in Conn |-> "backlog"]
  /\ suspended = [c \in Conn |-> FALSE] /\ resuming = [c \in Conn |-> FALSE]
  /\ thread_joined = [c \in Conn |-> FALSE] /\ sock = [c \in Conn |-> "quiet"]
  /\ pc = [c \in Conn |-> "none"] /\ was_suspended = [c \in Conn |-> FALSE]
  /\ dpc = "top" /\ dcon = NoConn /\ dset = NotPolled /\ panic = FALSE
  /\ held = {} /\ waking = {} /\ nsuspends = [c \in Conn |-> 0] /\ app = "running"

-----------------------------------------------------------------------------
(* thread_main_handle_connection() *)

Goto(c, l) == pc' = [pc EXCEPT ![c] = l]

\* The condition of the loop; a closed connection has left it already.
LoopTop(c) ==
  /\ pc[c] = "loop"
  /\ Goto(c, IF shutdown THEN "ending" ELSE "check")
  /\ UNCHANGED <<dvars, cvars, was_suspended, lvars, avars>>

\* con->suspended, read without a lock.
CheckSuspended(c) ==
  /\ pc[c] = "check"
  /\ was_suspended' = [was_suspended EXCEPT ![c] = suspended[c]]
  /\ Goto(c, IF suspended[c] THEN "itc" ELSE IF was_suspended[c] THEN "idle" ELSE "select")
  /\ UNCHANGED <<dvars, cvars, lvars, avars>>

\* select() on the channel, and MHD_itc_clear_().
ItcReady(c) ==
  /\ pc[c] = "itc" /\ itc
  /\ Goto(c, "clear")
  /\ UNCHANGED <<dvars, cvars, was_suspended, lvars, avars>>

ItcClear(c) ==
  /\ pc[c] = "clear"
  /\ itc' = FALSE
  /\ Goto(c, "loop")
  /\ UNCHANGED <<shutdown, dresuming, connections, at_limit, cvars, was_suspended,
                 lvars, avars>>

\* select() on the socket of the connection; without an event, its timeout.
SocketReady(c) ==
  /\ pc[c] = "select" /\ sock[c] # "quiet"
  /\ Goto(c, "call")
  /\ UNCHANGED <<dvars, cvars, was_suspended, lvars, avars>>

TimedOut(c) ==
  /\ pc[c] = "select" /\ sock[c] = "quiet" /\ ~ suspended[c]
  /\ Goto(c, "ending")
  /\ UNCHANGED <<dvars, cvars, was_suspended, lvars, avars>>

\* call_handlers(): what was to be read is read, unless the connection was
\* suspended at the end of the last round.  After a resume the thread calls
\* MHD_connection_handle_idle() and goes on to select() at once.
Handled(c) == Goto(c, IF pc[c] = "idle" THEN "select" ELSE "loop")

CallContinues(c) ==
  /\ pc[c] \in {"call", "idle"}
  /\ sock' = [sock EXCEPT ![c] =
                IF @ = "ready" /\ pc[c] = "call" /\ ~ suspended[c] THEN "quiet" ELSE @]
  /\ Handled(c)
  /\ UNCHANGED <<dvars, place, suspended, resuming, thread_joined, was_suspended,
                 lvars, avars>>

\* The access handler calls MHD_suspend_connection().
internal_suspend_connection_(c) ==
  /\ pc[c] \in {"call", "idle"} /\ ~ suspended[c]
  /\ app = "running" /\ nsuspends[c] < MaxSuspends
  /\ IF resuming[c]
       THEN /\ resuming' = [resuming EXCEPT ![c] = FALSE]
            /\ UNCHANGED <<place, suspended>>
       ELSE /\ place' = [place EXCEPT ![c] = "suspended"]
            /\ suspended' = [suspended EXCEPT ![c] = TRUE]
            /\ UNCHANGED resuming
  /\ held' = held \cup {c} /\ nsuspends' = [nsuspends EXCEPT ![c] = @ + 1]
  /\ Handled(c)
  /\ UNCHANGED <<dvars, thread_joined, sock, was_suspended, lvars, waking, app>>

\* cleanup_connection(), called by MHD_connection_handle_idle() for a connection
\* that is closed, by the handlers or at the end of the loop.
cleanup_connection(c) ==
  /\ pc[c] \in {"call", "idle", "ending"} /\ ~ suspended[c]
  /\ place' = [place EXCEPT ![c] = "cleanup"]
  /\ resuming' = [resuming EXCEPT ![c] = FALSE]
  /\ Goto(c, "closed")
  /\ UNCHANGED <<dvars, suspended, thread_joined, sock, was_suspended, lvars, avars>>

\* MHD_connection_handle_idle() does nothing for a connection that is still
\* suspended.
EndsSuspended(c) ==
  /\ pc[c] = "ending" /\ suspended[c]
  /\ Goto(c, "exit")
  /\ UNCHANGED <<dvars, cvars, was_suspended, lvars, avars>>

\* The end of cleanup_connection(): the daemon may accept again.
SignalClosed(c) ==
  /\ pc[c] = "closed"
  /\ itc' = TRUE
  /\ Goto(c, "exit")
  /\ UNCHANGED <<shutdown, dresuming, connections, at_limit, cvars, was_suspended,
                 lvars, avars>>

\* The exit of the thread, which still uses its connection.
ThreadExit(c) ==
  /\ pc[c] = "exit"
  /\ itc' = TRUE
  /\ Goto(c, "done")
  /\ UNCHANGED <<shutdown, dresuming, connections, at_limit, cvars, was_suspended,
                 lvars, avars>>

ThreadStep(c) ==
  \/ LoopTop(c) \/ CheckSuspended(c) \/ ItcReady(c) \/ ItcClear(c) \/ SocketReady(c)
  \/ CallContinues(c) \/ internal_suspend_connection_(c) \/ cleanup_connection(c)
  \/ EndsSuspended(c) \/ SignalClosed(c) \/ ThreadExit(c)

-----------------------------------------------------------------------------
(* The daemon thread: MHD_polling_thread() with MHD_select() *)

DGoto(l) == dpc' = l

DaemonTop ==
  /\ dpc = "top"
  /\ DGoto(IF shutdown THEN "final_resume" ELSE "resume")
  /\ UNCHANGED <<dvars, cvars, tvars, dcon, dset, panic, avars>>

\* What resume_suspended_connections() moves back, when it looks.
ToResume == {c \in In("suspended") : resuming[c]}

resume_suspended_connections(forced, wake, next) ==
  LET moved == IF forced \/ dresuming THEN ToResume ELSE {}
  IN /\ place' = [c \in Conn |-> IF c \in moved THEN "connections" ELSE place[c]]
     /\ suspended' = [c \in Conn |-> suspended[c] /\ c \notin moved]
     /\ resuming' = [c \in Conn |-> resuming[c] /\ c \notin moved]
     /\ dresuming' = FALSE
     /\ DGoto(IF moved # {} THEN wake ELSE next)
     /\ UNCHANGED <<itc, shutdown, connections, at_limit, thread_joined, sock, tvars,
                    dcon, dset, panic, avars>>

Resume == dpc = "resume" /\ resume_suspended_connections(FALSE, "wake", "build")

\* The end of resume_suspended_connections(): "Wake up suspended connections".
After == [l \in {"wake", "final_wake", "close_wake"} |->
            CASE l = "wake" -> "build"
              [] l = "final_wake" -> "close_resume"
              [] l = "close_wake" -> "shut"]

Wake ==
  /\ dpc \in DOMAIN After
  /\ itc' = TRUE
  /\ DGoto(After[dpc])
  /\ UNCHANGED <<shutdown, dresuming, connections, at_limit, cvars, tvars, dcon, dset,
                 panic, avars>>

\* The sets of select(): no accepting at the limit.
BuildSets ==
  /\ dpc = "build"
  /\ dset' = [NotPolled EXCEPT !.listen = connections < Limit /\ ~ at_limit]
  /\ DGoto("select")
  /\ UNCHANGED <<dvars, cvars, tvars, dcon, panic, avars>>

SelectReturns ==
  /\ dpc = "select"
  /\ LET accept == dset.listen /\ In("backlog") # {}
     IN /\ itc \/ accept
        /\ dset' = [dset EXCEPT !.itc = itc, !.accept = accept]
  /\ DGoto("run")
  /\ UNCHANGED <<dvars, cvars, tvars, dcon, panic, avars>>

\* After select(): the shutdown ends the round.
CheckShutdown ==
  /\ dpc = "run"
  /\ DGoto(IF shutdown THEN "cleanup" ELSE "clear")
  /\ UNCHANGED <<dvars, cvars, tvars, dcon, dset, panic, avars>>

\* A slip: closed connections are freed only when a new one has been accepted.
MutantCleanupAfterAccept ==
  /\ dpc = "clear"
  /\ itc' = (itc /\ ~ dset.itc)
  /\ DGoto(IF dset.accept THEN "accept" ELSE "top")
  /\ UNCHANGED <<shutdown, dresuming, connections, at_limit, cvars, tvars, dcon, dset,
                 panic, avars>>

\* internal_run_from_select(): the channel first.
ClearItc ==
  /\ dpc = "clear"
  /\ itc' = (itc /\ ~ dset.itc)
  /\ DGoto(IF dset.accept THEN "accept" ELSE "cleanup")
  /\ UNCHANGED <<shutdown, dresuming, connections, at_limit, cvars, tvars, dcon, dset,
                 panic, avars>>

\* MHD_accept_connection() and new_connection_process_(): a thread is started.
AcceptConnection(c) ==
  /\ dpc = "accept" /\ place[c] = "backlog"
  /\ connections' = connections + 1
  /\ place' = [place EXCEPT ![c] = "connections"]
  /\ Goto(c, "loop")
  /\ DGoto("cleanup")
  /\ UNCHANGED <<itc, shutdown, dresuming, at_limit, suspended, resuming, thread_joined,
                 sock, was_suspended, dcon, dset, panic, avars>>

\* The thread cannot be created: the connection is taken back.
NoThread(c) ==
  /\ dpc = "accept" /\ place[c] = "backlog"
  /\ place' = [place EXCEPT ![c] = "freed"]
  /\ DGoto("cleanup")
  /\ UNCHANGED <<dvars, suspended, resuming, thread_joined, sock, tvars, dcon, dset,
                 panic, avars>>

\* accept() fails for lack of resources.
AcceptFails ==
  /\ dpc = "accept"
  /\ at_limit' = (at_limit \/ connections # 0)
  /\ DGoto("cleanup")
  /\ UNCHANGED <<itc, shutdown, dresuming, connections, cvars, tvars, dcon, dset, panic,
                 avars>>

\* MHD_cleanup_connections(): takes a connection out of the list, waits for its
\* thread without the mutex, and frees it.
TakeClosed ==
  /\ dpc \in {"cleanup", "last_cleanup"}
  /\ \/ /\ In("cleanup") = {}
        /\ DGoto(IF dpc = "cleanup" THEN "top" ELSE "stopped")
        /\ UNCHANGED <<place, dcon>>
     \/ \E c \in In("cleanup") :
          /\ place' = [place EXCEPT ![c] = "taken"]
          /\ dcon' = c
          /\ DGoto(IF dpc = "cleanup" THEN "join" ELSE "last_join")
  /\ UNCHANGED <<dvars, suspended, resuming, thread_joined, sock, tvars, dset, panic,
                 avars>>

\* A slip: the connection is freed although its thread is not done with it.
MutantNotJoined ==
  /\ dpc \in {"join", "last_join"}
  /\ DGoto(IF dpc = "join" THEN "free" ELSE "last_free")
  /\ UNCHANGED <<dvars, cvars, tvars, dcon, dset, panic, avars>>

JoinClosed ==
  /\ dpc \in {"join", "last_join"}
  /\ thread_joined[dcon] \/ pc[dcon] = "done"
  /\ DGoto(IF dpc = "join" THEN "free" ELSE "last_free")
  /\ UNCHANGED <<dvars, cvars, tvars, dcon, dset, panic, avars>>

\* A slip: cleanup_connection() has counted the connection out already.
MutantCountedTwice ==
  /\ dpc \in {"free", "last_free"}
  /\ place' = [place EXCEPT ![dcon] = "freed"]
  /\ connections' = connections - 2 /\ at_limit' = FALSE
  /\ dcon' = NoConn
  /\ DGoto(IF dpc = "free" THEN "cleanup" ELSE "last_cleanup")
  /\ UNCHANGED <<itc, shutdown, dresuming, suspended, resuming, thread_joined, sock,
                 tvars, dset, panic, avars>>

FreeClosed ==
  /\ dpc \in {"free", "last_free"}
  /\ place' = [place EXCEPT ![dcon] = "freed"]
  /\ connections' = connections - 1 /\ at_limit' = FALSE
  /\ dcon' = NoConn
  /\ DGoto(IF dpc = "free" THEN "cleanup" ELSE "last_cleanup")
  /\ UNCHANGED <<itc, shutdown, dresuming, suspended, resuming, thread_joined, sock,
                 tvars, dset, panic, avars>>

-----------------------------------------------------------------------------
(* The daemon thread: the end of MHD_polling_thread(), close_all_connections() *)

FinalResume ==
  /\ dpc = "final_resume"
  /\ resume_suspended_connections(FALSE, "final_wake", "close_resume")
CloseResume ==
  /\ dpc = "close_resume"
  /\ resume_suspended_connections(TRUE, "close_wake", "shut")

\* The next thread to be joined, if there is one.
CollectNext(joined) ==
  LET left == {c \in In("connections") : ~ joined[c]}
  IN \/ left = {} /\ dcon' = NoConn /\ DGoto("rest")
     \/ \E c \in left : dcon' = c /\ DGoto("collect")

\* A slip: the sockets are left open for the replies that are being sent.
MutantNotShut ==
  /\ dpc = "shut"
  /\ IF In("suspended") # {}
       THEN panic' = TRUE /\ DGoto("panic") /\ UNCHANGED dcon
       ELSE CollectNext(thread_joined) /\ UNCHANGED panic
  /\ UNCHANGED <<dvars, cvars, tvars, dset, avars>>

\* "make sure all threads are aware of shutdown"
ShutAll ==
  /\ dpc = "shut"
  /\ IF In("suspended") # {}
       THEN panic' = TRUE /\ DGoto("panic") /\ UNCHANGED <<sock, dcon>>
       ELSE /\ sock' = [c \in Conn |-> IF c \in In("connections") THEN "shut" ELSE sock[c]]
            /\ CollectNext(thread_joined)
            /\ UNCHANGED panic
  /\ UNCHANGED <<dvars, place, suspended, resuming, thread_joined, tvars, dset, avars>>

\* A slip: the list is not gone through again.
MutantNotRestarted ==
  /\ dpc = "collect" /\ pc[dcon] = "done"
  /\ thread_joined' = [thread_joined EXCEPT ![dcon] = TRUE]
  /\ dcon' = NoConn /\ DGoto("rest")
  /\ UNCHANGED <<dvars, place, suspended, resuming, sock, tvars, dset, panic, avars>>

\* Joins a thread without the mutex and starts again from the tail.
CollectThread ==
  /\ dpc = "collect" /\ pc[dcon] = "done"
  /\ thread_joined' = [thread_joined EXCEPT ![dcon] = TRUE]
  /\ CollectNext(thread_joined')
  /\ UNCHANGED <<dvars, place, suspended, resuming, sock, tvars, dset, panic, avars>>

\* A slip: what the threads have put into the cleanup list stays there.
MutantNoLastCleanup ==
  /\ dpc = "rest"
  /\ panic' = (\E c \in In("connections") : ~ thread_joined[c])
  /\ DGoto(IF panic' THEN "panic" ELSE IF In("connections") = {} THEN "stopped" ELSE "rest")
  /\ UNCHANGED <<dvars, cvars, tvars, dcon, dset, avars>>

\* "now that we're alone, move everyone to cleanup": close_connection() leaves
\* the list as it is, for the thread of the connection to do the rest.
CloseRest ==
  /\ dpc = "rest"
  /\ panic' = (\E c \in In("connections") : ~ thread_joined[c])
  /\ DGoto(IF panic' THEN "panic" ELSE IF In("connections") = {} THEN "last_cleanup" ELSE "rest")
  /\ UNCHANGED <<dvars, cvars, tvars, dcon, dset, avars>>

DaemonStep ==
  \/ DaemonTop \/ Resume \/ Wake \/ BuildSets \/ SelectReturns \/ CheckShutdown
  \/ ClearItc \/ (\E c \in Conn : AcceptConnection(c) \/ NoThread(c)) \/ AcceptFails
  \/ TakeClosed \/ JoinClosed \/ FreeClosed
  \/ FinalResume \/ CloseResume \/ ShutAll \/ CollectThread \/ CloseRest

-----------------------------------------------------------------------------
(* The application and the clients *)

\* MHD_resume_connection(): the flags under the mutex, then the signal.
MHD_resume_connection(c) ==
  /\ c \in held
  /\ resuming' = [resuming EXCEPT ![c] = TRUE] /\ dresuming' = TRUE
  /\ held' = held \ {c} /\ waking' = waking \cup {c}
  /\ UNCHANGED <<itc, shutdown, connections, at_limit, place, suspended, thread_joined,
                 sock, tvars, lvars, nsuspends, app>>

ResumeSignals(c) ==
  /\ c \in waking
  /\ itc' = TRUE /\ waking' = waking \ {c}
  /\ UNCHANGED <<shutdown, dresuming, connections, at_limit, cvars, tvars, lvars, held,
                 nsuspends, app>>

\* MHD_stop_daemon(), which may be called when every connection was resumed.
MHD_stop_daemon ==
  /\ app = "running" /\ held = {} /\ waking = {}
  /\ shutdown' = TRUE /\ app' = "signal"
  /\ UNCHANGED <<itc, dresuming, connections, at_limit, cvars, tvars, lvars, held, waking,
                 nsuspends>>

StopSignals ==
  /\ app = "signal"
  /\ itc' = TRUE /\ app' = "joining"
  /\ UNCHANGED <<shutdown, dresuming, connections, at_limit, cvars, tvars, lvars, held,
                 waking, nsuspends>>

StopJoins ==
  /\ app = "joining" /\ dpc = "stopped"
  /\ app' = "stopped"
  /\ UNCHANGED <<dvars, cvars, tvars, lvars, held, waking, nsuspends>>

ClientSends(c) ==
  /\ place[c] \in {"connections", "suspended"} /\ sock[c] = "quiet"
  /\ sock' = [sock EXCEPT ![c] = "ready"]
  /\ UNCHANGED <<dvars, place, suspended, resuming, thread_joined, tvars, lvars, avars>>

Stopped == app = "stopped" /\ UNCHANGED vars

Next ==
  \/ \E c \in Conn : \/ ThreadStep(c) \/ TimedOut(c) \/ ClientSends(c)
                     \/ MHD_resume_connection(c) \/ ResumeSignals(c)
  \/ DaemonStep
  \/ MHD_stop_daemon \/ StopSignals \/ StopJoins \/ Stopped

Spec == Init /\ [][Next]_vars

\* Every thread goes on as long as it can; calls of the application return.
Fairness ==
  /\ \A c \in Conn : WF_vars(ThreadStep(c)) /\ WF_vars(ResumeSignals(c))
  /\ WF_vars(DaemonStep)
  /\ WF_vars(StopSignals) /\ WF_vars(StopJoins)

FairSpec == Spec /\ Fairness
-----------------------------------------------------------------------------
(* Properties *)

\* The types of the variables; daemon->connections is within the limit.
TypeOK ==
  /\ itc \in BOOLEAN /\ shutdown \in BOOLEAN /\ dresuming \in BOOLEAN
  /\ connections \in 0..Limit /\ at_limit \in BOOLEAN
  /\ place \in [Conn -> {"backlog", "connections", "suspended", "cleanup", "taken", "freed"}]
  /\ suspended \in [Conn -> BOOLEAN] /\ resuming \in [Conn -> BOOLEAN]
  /\ thread_joined \in [Conn -> BOOLEAN] /\ was_suspended \in [Conn -> BOOLEAN]
  /\ sock \in [Conn -> {"quiet", "ready", "shut"}]
  /\ held \subseteq Conn /\ waking \subseteq Conn /\ dcon \in Conn \cup {NoConn}

\* The thread of a connection uses it up to its last step, long after it has put
\* it into the cleanup list; the daemon thread frees it only when the thread has
\* ended (MHD_cleanup_connections()).
FreedAfterThread ==
  \A c \in Conn : place[c] = "freed" => pc[c] \in {"none", "done"}

\* The daemon never panics, whatever the race between resuming a connection and
\* stopping, provided that the application has resumed what it has suspended.
NoPanic == ~ panic

\* When MHD_stop_daemon() returns every thread has ended and every accepted
\* connection is freed; daemon->connections is back to zero.
StopLeavesNothing ==
  app = "stopped" => /\ connections = 0
                     /\ \A c \in Conn : place[c] \in {"backlog", "freed"}
                                        /\ pc[c] \in {"none", "done"}

\* The three together: no thread loses its connection, and a stop leaves nothing.
ThreadsLeaveNothing == FreedAfterThread /\ NoPanic /\ StopLeavesNothing

\* As long as no connection is suspended: stopping wakes every thread, in
\* select() or between two of its checks, and returns.
NeverSuspended == \A c \in Conn : nsuspends[c] = 0
StopReturns == app # "running" ~> app = "stopped" \/ ~ NeverSuspended

\* As long as no connection is suspended: the daemon thread, which may wait with
\* no event but the signals of the threads, learns of the end of every one, frees
\* the connection and is below its limit again.
ClosedIsFreed ==
  \A c \in Conn : place[c] = "cleanup" ~> place[c] = "freed" \/ ~ NeverSuspended

\* "It is safe to resume a suspended connection at any time": the thread of a
\* connection that the application has resumed goes on with it.
ResumedGoesOn ==
  \A c \in Conn : resuming[c] ~> pc[c] \in {"idle", "ending", "done"} \/ c \in held
============================================================================
