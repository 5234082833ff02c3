---------------------------- MODULE ThreadsProofs ----------------------------
(***************************************************************************)
(* Proofs about what the threads of connections do: ThreadPerConn, the     *)
(* threads of a daemon that starts one per connection, for any number of   *)
(* connections, any limit and any number of suspensions; Forwarding, the   *)
(* loop such a thread ends in when a TLS connection is upgraded, for any   *)
(* sizes of the buffers and amounts of data; and SharedResponse, the       *)
(* response that several of them send, for any size of the body and any    *)
(* amounts the callback returns, with and without failures; and what is    *)
(* handed over with a response (ResponseData), for any width of sizes.     *)
(***************************************************************************)
EXTENDS SharedResponse, Loops, FiniteSetTheorems, SequenceTheorems, TLAPS

(***************************************************************************)
(* ThreadPerConn.                                                          *)
(***************************************************************************)
\* The operators of FiniteSets mean the same in ThreadPerConn.
LEMMA SameSets == \A S : Tpc!IsFiniteSet(S) <=> IsFiniteSet(S)
BY DEF Tpc!IsFiniteSet, IsFiniteSet

\* The places of the thread of a connection that it has not closed.
Serving == {"loop", "check", "itc", "clear", "select", "call", "idle", "ending"}
Ended == {"none", "done"}
ThreadPlaces == Serving \cup Ended \cup {"closed", "exit"}

\* The places of the daemon thread: in a turn, and when it stops.
Taking == {"join", "free", "last_join", "last_free"}
Turning == {"top", "resume", "wake", "build", "select", "run", "clear", "accept", "cleanup",
            "join", "free"}
Resuming == {"final_resume", "final_wake", "close_resume"}
Leaving == {"last_cleanup", "last_join", "last_free", "stopped"}
AllResumed == {"close_wake", "shut", "collect", "rest"} \cup Leaving
DaemonPlaces == Turning \cup Resuming \cup AllResumed

ListPlaces == {"backlog", "connections", "suspended", "cleanup", "taken", "freed"}

ThreadsHaveTypes ==
  /\ itc \in BOOLEAN /\ shutdown \in BOOLEAN /\ dresuming \in BOOLEAN
  /\ connections \in Int /\ at_limit \in BOOLEAN
  /\ tpc_place \in [Served -> ListPlaces]
  /\ suspended \in [Served -> BOOLEAN] /\ resuming \in [Served -> BOOLEAN]
  /\ thread_joined \in [Served -> BOOLEAN] /\ was_suspended \in [Served -> BOOLEAN]
  /\ sock \in [Served -> {"quiet", "ready", "shut"}]
  /\ pc \in [Served -> ThreadPlaces] /\ dpc \in DaemonPlaces
  /\ dcon \in Served \cup {Tpc!NoConn}
  /\ dset \in [listen : BOOLEAN, itc : BOOLEAN, accept : BOOLEAN]
  /\ panic = FALSE
  /\ held \subseteq Served /\ waking \subseteq Served
  /\ nsuspends \in [Served -> Nat]
  /\ app \in {"running", "signal", "joining", "stopped"}

\* Where a connection is and where its thread is.
ThreadInPlace(c) ==
  /\ tpc_place[c] = "backlog" => pc[c] = "none"
  /\ tpc_place[c] = "connections" => pc[c] \in Serving \cup {"exit", "done"}
  /\ tpc_place[c] = "suspended" => pc[c] \in Serving \cup {"exit", "done"}
  /\ tpc_place[c] \in {"cleanup", "taken"} => pc[c] \in {"closed", "exit", "done"}
  /\ tpc_place[c] = "freed" => pc[c] \in Ended
  /\ thread_joined[c] => pc[c] = "done"

\* The flag and the list agree, and who is suspended will be resumed.
SuspendedInPlace(c) ==
  /\ suspended[c] <=> tpc_place[c] = "suspended"
  /\ suspended[c] => resuming[c] \/ c \in held

\* The connection the daemon thread has taken out of the cleanup list.
TakenByDaemon ==
  /\ \A c \in Served : tpc_place[c] = "taken" <=> dpc \in Taking /\ c = dcon
  /\ dpc \in Taking \cup {"collect"} => dcon \in Served
  /\ dpc \in {"free", "last_free"} => pc[dcon] = "done"

\* How far a stop has come.
StopReached ==
  /\ shutdown <=> app # "running"
  /\ dpc \notin Turning => shutdown
  /\ shutdown => held = {}
  /\ dpc \in AllResumed => \A c \in Served : ~suspended[c]
  /\ dpc = "rest" => \A c \in Served : tpc_place[c] = "connections" => thread_joined[c]
  /\ dpc \in Leaving => \A c \in Served : tpc_place[c] # "connections"
  /\ dpc = "stopped" => \A c \in Served : tpc_place[c] \in {"backlog", "freed"}
  /\ app = "stopped" => dpc = "stopped"

\* The connections that daemon->connections counts.
Counted == {c \in Served : tpc_place[c] \in {"connections", "suspended", "cleanup", "taken"}}

\* The counter is exact; the daemon accepts only below the limit.
CountKept ==
  /\ connections = Cardinality(Counted) /\ connections <= Limit
  /\ dset.accept => dset.listen
  /\ dpc \in {"select", "run", "clear", "accept"} /\ dset.listen => connections < Limit
  /\ dpc = "accept" => dset.accept

ConnsKept == \A c \in Served : ThreadInPlace(c) /\ SuspendedInPlace(c)

ThreadsInv == ThreadsHaveTypes /\ ConnsKept /\ TakenByDaemon /\ StopReached /\ CountKept

-----------------------------------------------------------------------------
(* The steps. *)

(* Types; in particular nothing panics. *)
LEMMA TypedStep ==
  ASSUME Tpc!ConnAssumption, ThreadsInv, Tpc!Next
  PROVE  ThreadsHaveTypes'
<1> USE DEF ThreadsHaveTypes, ListPlaces, Serving, Ended, ThreadPlaces, Taking, Turning, Resuming, Leaving,
   AllResumed, DaemonPlaces, Tpc!dvars, Tpc!cvars, Tpc!tvars, Tpc!lvars, Tpc!avars
<1>1. ASSUME NEW c \in Served, Tpc!LoopTop(c) PROVE ThreadsHaveTypes'
  BY <1>1 DEF ThreadsInv, Tpc!LoopTop, Tpc!Goto
<1>2. ASSUME NEW c \in Served, Tpc!CheckSuspended(c) PROVE ThreadsHaveTypes'
  BY <1>2 DEF ThreadsInv, Tpc!CheckSuspended, Tpc!Goto
<1>3. ASSUME NEW c \in Served, Tpc!ItcReady(c) PROVE ThreadsHaveTypes'
  BY <1>3 DEF ThreadsInv, Tpc!ItcReady, Tpc!Goto
<1>4. ASSUME NEW c \in Served, Tpc!ItcClear(c) PROVE ThreadsHaveTypes'
  <2>1. pc' \in [Served -> ThreadPlaces]
    BY <1>4 DEF ThreadsInv, Tpc!ItcClear, Tpc!Goto
  <2>2. itc' \in BOOLEAN
    BY <1>4 DEF Tpc!ItcClear
  <2>3. /\ UNCHANGED <<shutdown, dresuming, connections, at_limit, tpc_place, suspended, resuming>>
        /\ UNCHANGED <<thread_joined, sock, was_suspended, dpc, dcon, dset, panic, held, waking>>
        /\ UNCHANGED <<nsuspends, app>>
    BY <1>4 DEF Tpc!ItcClear
  <2> QED BY <2>1, <2>2, <2>3 DEF ThreadsInv
<1>5. ASSUME NEW c \in Served, Tpc!SocketReady(c) PROVE ThreadsHaveTypes'
  BY <1>5 DEF ThreadsInv, Tpc!SocketReady, Tpc!Goto
<1>6. ASSUME NEW c \in Served, Tpc!TimedOut(c) PROVE ThreadsHaveTypes'
  BY <1>6 DEF ThreadsInv, Tpc!TimedOut, Tpc!Goto
<1>7. ASSUME NEW c \in Served, Tpc!CallContinues(c) PROVE ThreadsHaveTypes'
  BY <1>7 DEF ThreadsInv, Tpc!CallContinues, Tpc!Handled, Tpc!Goto
<1>8. ASSUME NEW c \in Served, Tpc!internal_suspend_connection_(c) PROVE ThreadsHaveTypes'
  <2>1. nsuspends' \in [Served -> Nat] /\ held' \subseteq Served
    BY <1>8 DEF ThreadsInv, Tpc!internal_suspend_connection_
  <2>2. pc' \in [Served -> ThreadPlaces]
    BY <1>8 DEF ThreadsInv, Tpc!internal_suspend_connection_, Tpc!Handled, Tpc!Goto
  <2>3. tpc_place' \in [Served -> ListPlaces] /\ suspended' \in [Served -> BOOLEAN]
    BY <1>8 DEF ThreadsInv, Tpc!internal_suspend_connection_, ListPlaces
  <2>4. resuming' \in [Served -> BOOLEAN]
    BY <1>8 DEF ThreadsInv, Tpc!internal_suspend_connection_
  <2> QED BY <1>8, <2>1, <2>2, <2>3, <2>4 DEF ThreadsInv, Tpc!internal_suspend_connection_, ListPlaces
<1>9. ASSUME NEW c \in Served, Tpc!cleanup_connection(c) PROVE ThreadsHaveTypes'
  BY <1>9 DEF ThreadsInv, Tpc!cleanup_connection, Tpc!Goto
<1>10. ASSUME NEW c \in Served, Tpc!EndsSuspended(c) PROVE ThreadsHaveTypes'
  BY <1>10 DEF ThreadsInv, Tpc!EndsSuspended, Tpc!Goto
<1>11. ASSUME NEW c \in Served, Tpc!SignalClosed(c) PROVE ThreadsHaveTypes'
  BY <1>11 DEF ThreadsInv, Tpc!SignalClosed, Tpc!Goto
<1>12. ASSUME NEW c \in Served, Tpc!ThreadExit(c) PROVE ThreadsHaveTypes'
  BY <1>12 DEF ThreadsInv, Tpc!ThreadExit, Tpc!Goto
<1>13. ASSUME NEW c \in Served, Tpc!ClientSends(c) PROVE ThreadsHaveTypes'
  BY <1>13 DEF ThreadsInv, Tpc!ClientSends
<1>14. ASSUME NEW c \in Served, Tpc!MHD_resume_connection(c) PROVE ThreadsHaveTypes'
  BY <1>14 DEF ThreadsInv, Tpc!MHD_resume_connection
<1>15. ASSUME NEW c \in Served, Tpc!ResumeSignals(c) PROVE ThreadsHaveTypes'
  BY <1>15 DEF ThreadsInv, Tpc!ResumeSignals
<1>16. ASSUME NEW c \in Served, Tpc!AcceptConnection(c) PROVE ThreadsHaveTypes'
  BY <1>16 DEF ThreadsInv, Tpc!AcceptConnection, Tpc!Goto, Tpc!DGoto
<1>17. ASSUME NEW c \in Served, Tpc!NoThread(c) PROVE ThreadsHaveTypes'
  BY <1>17 DEF ThreadsInv, Tpc!NoThread, Tpc!DGoto
<1>18. ASSUME Tpc!DaemonTop PROVE ThreadsHaveTypes'
  BY <1>18 DEF ThreadsInv, Tpc!DaemonTop, Tpc!DGoto
<1>19. ASSUME Tpc!Wake PROVE ThreadsHaveTypes'
  BY <1>19 DEF ThreadsInv, Tpc!Wake, Tpc!After, Tpc!DGoto
<1>20. ASSUME Tpc!BuildSets PROVE ThreadsHaveTypes'
  BY <1>20 DEF ThreadsInv, Tpc!BuildSets, Tpc!NotPolled, Tpc!DGoto
<1>21. ASSUME Tpc!SelectReturns PROVE ThreadsHaveTypes'
  BY <1>21 DEF ThreadsInv, Tpc!SelectReturns, Tpc!In, Tpc!DGoto
<1>22. ASSUME Tpc!CheckShutdown PROVE ThreadsHaveTypes'
  BY <1>22 DEF ThreadsInv, Tpc!CheckShutdown, Tpc!DGoto
<1>23. ASSUME Tpc!ClearItc PROVE ThreadsHaveTypes'
  BY <1>23 DEF ThreadsInv, Tpc!ClearItc, Tpc!DGoto
<1>24. ASSUME Tpc!AcceptFails PROVE ThreadsHaveTypes'
  BY <1>24 DEF ThreadsInv, Tpc!AcceptFails, Tpc!DGoto
<1>25. ASSUME Tpc!JoinClosed PROVE ThreadsHaveTypes'
  BY <1>25 DEF ThreadsInv, Tpc!JoinClosed, Tpc!DGoto
<1>26. ASSUME Tpc!ShutAll PROVE ThreadsHaveTypes'
  BY <1>26 DEF ThreadsInv, ConnsKept, SuspendedInPlace, StopReached, Tpc!ShutAll, Tpc!CollectNext, Tpc!In,
     Tpc!DGoto
<1>27. ASSUME Tpc!CollectThread PROVE ThreadsHaveTypes'
  <2>1. thread_joined' \in [Served -> BOOLEAN]
    BY <1>27 DEF ThreadsInv, Tpc!CollectThread
  <2>2. dcon' \in Served \cup {Tpc!NoConn} /\ dpc' \in DaemonPlaces
    BY <1>27 DEF Tpc!CollectThread, Tpc!CollectNext, Tpc!In, Tpc!DGoto
  <2> QED BY <1>27, <2>1, <2>2 DEF ThreadsInv, Tpc!CollectThread
<1>28. ASSUME Tpc!CloseRest PROVE ThreadsHaveTypes'
  BY <1>28 DEF ThreadsInv, StopReached, Tpc!CloseRest, Tpc!In, Tpc!DGoto
<1>29. ASSUME Tpc!Resume PROVE ThreadsHaveTypes'
  BY <1>29 DEF ThreadsInv, Tpc!Resume, Tpc!resume_suspended_connections, Tpc!ToResume, Tpc!In, Tpc!DGoto
<1>30. ASSUME Tpc!FinalResume PROVE ThreadsHaveTypes'
  BY <1>30 DEF ThreadsInv, Tpc!FinalResume, Tpc!resume_suspended_connections, Tpc!ToResume, Tpc!In, Tpc!DGoto
<1>31. ASSUME Tpc!CloseResume PROVE ThreadsHaveTypes'
  BY <1>31 DEF ThreadsInv, Tpc!CloseResume, Tpc!resume_suspended_connections, Tpc!ToResume, Tpc!In, Tpc!DGoto
<1>32. ASSUME Tpc!TakeClosed PROVE ThreadsHaveTypes'
  BY <1>32 DEF ThreadsInv, Tpc!TakeClosed, Tpc!In, Tpc!DGoto
<1>33. ASSUME Tpc!FreeClosed PROVE ThreadsHaveTypes'
  <2>1. tpc_place' \in [Served -> ListPlaces]
    BY <1>33 DEF ThreadsInv, Tpc!FreeClosed
  <2>2. connections' \in Int
    BY <1>33 DEF ThreadsInv, Tpc!FreeClosed
  <2> QED BY <1>33, <2>1, <2>2 DEF ThreadsInv, ListPlaces, Tpc!FreeClosed, Tpc!DGoto
<1>34. ASSUME Tpc!MHD_stop_daemon PROVE ThreadsHaveTypes'
  BY <1>34 DEF ThreadsInv, Tpc!MHD_stop_daemon
<1>35. ASSUME Tpc!StopSignals PROVE ThreadsHaveTypes'
  BY <1>35 DEF ThreadsInv, Tpc!StopSignals
<1>36. ASSUME Tpc!StopJoins PROVE ThreadsHaveTypes'
  BY <1>36 DEF ThreadsInv, Tpc!StopJoins
<1>37. ASSUME Tpc!Stopped PROVE ThreadsHaveTypes'
  BY <1>37 DEF Tpc!Stopped, Tpc!vars, ThreadsInv
<1> QED
  BY <1>1, <1>2, <1>3, <1>4, <1>5, <1>6, <1>7, <1>8, <1>9, <1>10, <1>11, <1>12, <1>13, <1>14,
     <1>15, <1>16, <1>17, <1>18, <1>19, <1>20, <1>21, <1>22, <1>23, <1>24, <1>25, <1>26, <1>27,
     <1>28, <1>29, <1>30, <1>31, <1>32, <1>33, <1>34, <1>35, <1>36, <1>37
  DEF Tpc!Next, Tpc!ThreadStep, Tpc!DaemonStep

(* Connections and their threads. *)
LEMMA ConnsStep ==
  ASSUME Tpc!ConnAssumption, ThreadsInv, Tpc!Next
  PROVE  ConnsKept'
<1> USE DEF ThreadsInv, ThreadsHaveTypes, ConnsKept, ThreadInPlace, SuspendedInPlace, StopReached,
   TakenByDaemon, ListPlaces, Serving, Ended, ThreadPlaces, Taking, Turning, Resuming, Leaving,
   AllResumed, DaemonPlaces, Tpc!dvars, Tpc!cvars, Tpc!tvars, Tpc!lvars, Tpc!avars
<1>1. ASSUME NEW c \in Served, Tpc!LoopTop(c) PROVE ConnsKept'
  BY <1>1 DEF Tpc!LoopTop, Tpc!Goto
<1>2. ASSUME NEW c \in Served, Tpc!CheckSuspended(c) PROVE ConnsKept'
  BY <1>2 DEF Tpc!CheckSuspended, Tpc!Goto
<1>3. ASSUME NEW c \in Served, Tpc!ItcReady(c) PROVE ConnsKept'
  BY <1>3 DEF Tpc!ItcReady, Tpc!Goto
<1>4. ASSUME NEW c \in Served, Tpc!ItcClear(c) PROVE ConnsKept'
  BY <1>4 DEF Tpc!ItcClear, Tpc!Goto
<1>5. ASSUME NEW c \in Served, Tpc!SocketReady(c) PROVE ConnsKept'
  BY <1>5 DEF Tpc!SocketReady, Tpc!Goto
<1>6. ASSUME NEW c \in Served, Tpc!TimedOut(c) PROVE ConnsKept'
  BY <1>6 DEF Tpc!TimedOut, Tpc!Goto
<1>7. ASSUME NEW c \in Served, Tpc!CallContinues(c) PROVE ConnsKept'
  BY <1>7 DEF Tpc!CallContinues, Tpc!Handled, Tpc!Goto
<1>8. ASSUME NEW c \in Served, Tpc!internal_suspend_connection_(c) PROVE ConnsKept'
  BY <1>8 DEF Tpc!internal_suspend_connection_, Tpc!Handled, Tpc!Goto
<1>9. ASSUME NEW c \in Served, Tpc!cleanup_connection(c) PROVE ConnsKept'
  BY <1>9 DEF Tpc!cleanup_connection, Tpc!Goto
<1>10. ASSUME NEW c \in Served, Tpc!EndsSuspended(c) PROVE ConnsKept'
  BY <1>10 DEF Tpc!EndsSuspended, Tpc!Goto
<1>11. ASSUME NEW c \in Served, Tpc!SignalClosed(c) PROVE ConnsKept'
  BY <1>11 DEF Tpc!SignalClosed, Tpc!Goto
<1>12. ASSUME NEW c \in Served, Tpc!ThreadExit(c) PROVE ConnsKept'
  BY <1>12 DEF Tpc!ThreadExit, Tpc!Goto
<1>13. ASSUME NEW c \in Served, Tpc!ClientSends(c) PROVE ConnsKept'
  BY <1>13 DEF Tpc!ClientSends
<1>14. ASSUME NEW c \in Served, Tpc!MHD_resume_connection(c) PROVE ConnsKept'
  BY <1>14 DEF Tpc!MHD_resume_connection
<1>15. ASSUME NEW c \in Served, Tpc!ResumeSignals(c) PROVE ConnsKept'
  BY <1>15 DEF Tpc!ResumeSignals
<1>16. ASSUME NEW c \in Served, Tpc!AcceptConnection(c) PROVE ConnsKept'
  BY <1>16 DEF Tpc!AcceptConnection, Tpc!Goto, Tpc!DGoto
<1>17. ASSUME NEW c \in Served, Tpc!NoThread(c) PROVE ConnsKept'
  BY <1>17 DEF Tpc!NoThread, Tpc!DGoto
<1>18. ASSUME Tpc!DaemonTop PROVE ConnsKept'
  BY <1>18 DEF Tpc!DaemonTop, Tpc!DGoto
<1>19. ASSUME Tpc!Wake PROVE ConnsKept'
  BY <1>19 DEF Tpc!Wake, Tpc!After, Tpc!DGoto
<1>20. ASSUME Tpc!BuildSets PROVE ConnsKept'
  BY <1>20 DEF Tpc!BuildSets, Tpc!NotPolled, Tpc!DGoto
<1>21. ASSUME Tpc!SelectReturns PROVE ConnsKept'
  BY <1>21 DEF Tpc!SelectReturns, Tpc!In, Tpc!DGoto
<1>22. ASSUME Tpc!CheckShutdown PROVE ConnsKept'
  BY <1>22 DEF Tpc!CheckShutdown, Tpc!DGoto
<1>23. ASSUME Tpc!ClearItc PROVE ConnsKept'
  BY <1>23 DEF Tpc!ClearItc, Tpc!DGoto
<1>24. ASSUME Tpc!AcceptFails PROVE ConnsKept'
  BY <1>24 DEF Tpc!AcceptFails, Tpc!DGoto
<1>25. ASSUME Tpc!JoinClosed PROVE ConnsKept'
  BY <1>25 DEF Tpc!JoinClosed, Tpc!DGoto
<1>26. ASSUME Tpc!ShutAll PROVE ConnsKept'
  BY <1>26 DEF Tpc!ShutAll, Tpc!CollectNext, Tpc!In, Tpc!DGoto
<1>27. ASSUME Tpc!CollectThread PROVE ConnsKept'
  BY <1>27 DEF Tpc!CollectThread, Tpc!CollectNext, Tpc!In, Tpc!DGoto
<1>28. ASSUME Tpc!CloseRest PROVE ConnsKept'
  BY <1>28 DEF Tpc!CloseRest, Tpc!In, Tpc!DGoto
<1>29. ASSUME Tpc!Resume PROVE ConnsKept'
  BY <1>29 DEF Tpc!Resume, Tpc!resume_suspended_connections, Tpc!ToResume, Tpc!In, Tpc!DGoto
<1>30. ASSUME Tpc!FinalResume PROVE ConnsKept'
  BY <1>30 DEF Tpc!FinalResume, Tpc!resume_suspended_connections, Tpc!ToResume, Tpc!In, Tpc!DGoto
<1>31. ASSUME Tpc!CloseResume PROVE ConnsKept'
  BY <1>31 DEF Tpc!CloseResume, Tpc!resume_suspended_connections, Tpc!ToResume, Tpc!In, Tpc!DGoto
<1>32. ASSUME Tpc!TakeClosed PROVE ConnsKept'
  BY <1>32 DEF Tpc!TakeClosed, Tpc!In, Tpc!DGoto
<1>33. ASSUME Tpc!FreeClosed PROVE ConnsKept'
  BY <1>33 DEF Tpc!FreeClosed, Tpc!DGoto
<1>34. ASSUME Tpc!MHD_stop_daemon PROVE ConnsKept'
  BY <1>34 DEF Tpc!MHD_stop_daemon
<1>35. ASSUME Tpc!StopSignals PROVE ConnsKept'
  BY <1>35 DEF Tpc!StopSignals
<1>36. ASSUME Tpc!StopJoins PROVE ConnsKept'
  BY <1>36 DEF Tpc!StopJoins
<1>37. ASSUME Tpc!Stopped PROVE ConnsKept'
  BY <1>37 DEF Tpc!Stopped, Tpc!vars, ThreadsInv
<1> QED
  BY <1>1, <1>2, <1>3, <1>4, <1>5, <1>6, <1>7, <1>8, <1>9, <1>10, <1>11, <1>12, <1>13, <1>14,
     <1>15, <1>16, <1>17, <1>18, <1>19, <1>20, <1>21, <1>22, <1>23, <1>24, <1>25, <1>26, <1>27,
     <1>28, <1>29, <1>30, <1>31, <1>32, <1>33, <1>34, <1>35, <1>36, <1>37
  DEF Tpc!Next, Tpc!ThreadStep, Tpc!DaemonStep

(* The connection that is taken. *)
LEMMA TakenStep ==
  ASSUME Tpc!ConnAssumption, ThreadsInv, Tpc!Next
  PROVE  TakenByDaemon'
<1> USE DEF ThreadsInv, ThreadsHaveTypes, ConnsKept, ThreadInPlace, TakenByDaemon, ListPlaces, Serving,
   Ended, ThreadPlaces, Taking, Turning, Resuming, Leaving, AllResumed, DaemonPlaces, Tpc!dvars,
   Tpc!cvars, Tpc!tvars, Tpc!lvars, Tpc!avars
<1>1. ASSUME NEW c \in Served, Tpc!LoopTop(c) PROVE TakenByDaemon'
  BY <1>1 DEF Tpc!LoopTop, Tpc!Goto
<1>2. ASSUME NEW c \in Served, Tpc!CheckSuspended(c) PROVE TakenByDaemon'
  BY <1>2 DEF Tpc!CheckSuspended, Tpc!Goto
<1>3. ASSUME NEW c \in Served, Tpc!ItcReady(c) PROVE TakenByDaemon'
  BY <1>3 DEF Tpc!ItcReady, Tpc!Goto
<1>4. ASSUME NEW c \in Served, Tpc!ItcClear(c) PROVE TakenByDaemon'
  BY <1>4 DEF Tpc!ItcClear, Tpc!Goto
<1>5. ASSUME NEW c \in Served, Tpc!SocketReady(c) PROVE TakenByDaemon'
  BY <1>5 DEF Tpc!SocketReady, Tpc!Goto
<1>6. ASSUME NEW c \in Served, Tpc!TimedOut(c) PROVE TakenByDaemon'
  BY <1>6 DEF Tpc!TimedOut, Tpc!Goto
<1>7. ASSUME NEW c \in Served, Tpc!CallContinues(c) PROVE TakenByDaemon'
  BY <1>7 DEF Tpc!CallContinues, Tpc!Handled, Tpc!Goto
<1>8. ASSUME NEW c \in Served, Tpc!internal_suspend_connection_(c) PROVE TakenByDaemon'
  BY <1>8 DEF Tpc!internal_suspend_connection_, Tpc!Handled, Tpc!Goto
<1>9. ASSUME NEW c \in Served, Tpc!cleanup_connection(c) PROVE TakenByDaemon'
  BY <1>9 DEF Tpc!cleanup_connection, Tpc!Goto
<1>10. ASSUME NEW c \in Served, Tpc!EndsSuspended(c) PROVE TakenByDaemon'
  BY <1>10 DEF Tpc!EndsSuspended, Tpc!Goto
<1>11. ASSUME NEW c \in Served, Tpc!SignalClosed(c) PROVE TakenByDaemon'
  BY <1>11 DEF Tpc!SignalClosed, Tpc!Goto
<1>12. ASSUME NEW c \in Served, Tpc!ThreadExit(c) PROVE TakenByDaemon'
  BY <1>12 DEF Tpc!ThreadExit, Tpc!Goto
<1>13. ASSUME NEW c \in Served, Tpc!ClientSends(c) PROVE TakenByDaemon'
  BY <1>13 DEF Tpc!ClientSends
<1>14. ASSUME NEW c \in Served, Tpc!MHD_resume_connection(c) PROVE TakenByDaemon'
  BY <1>14 DEF Tpc!MHD_resume_connection
<1>15. ASSUME NEW c \in Served, Tpc!ResumeSignals(c) PROVE TakenByDaemon'
  BY <1>15 DEF Tpc!ResumeSignals
<1>16. ASSUME NEW c \in Served, Tpc!AcceptConnection(c) PROVE TakenByDaemon'
  BY <1>16 DEF Tpc!AcceptConnection, Tpc!Goto, Tpc!DGoto
<1>17. ASSUME NEW c \in Served, Tpc!NoThread(c) PROVE TakenByDaemon'
  BY <1>17 DEF Tpc!NoThread, Tpc!DGoto
<1>18. ASSUME Tpc!DaemonTop PROVE TakenByDaemon'
  BY <1>18 DEF Tpc!DaemonTop, Tpc!DGoto
<1>19. ASSUME Tpc!Wake PROVE TakenByDaemon'
  BY <1>19 DEF Tpc!Wake, Tpc!After, Tpc!DGoto
<1>20. ASSUME Tpc!BuildSets PROVE TakenByDaemon'
  BY <1>20 DEF Tpc!BuildSets, Tpc!NotPolled, Tpc!DGoto
<1>21. ASSUME Tpc!SelectReturns PROVE TakenByDaemon'
  BY <1>21 DEF Tpc!SelectReturns, Tpc!In, Tpc!DGoto
<1>22. ASSUME Tpc!CheckShutdown PROVE TakenByDaemon'
  BY <1>22 DEF Tpc!CheckShutdown, Tpc!DGoto
<1>23. ASSUME Tpc!ClearItc PROVE TakenByDaemon'
  BY <1>23 DEF Tpc!ClearItc, Tpc!DGoto
<1>24. ASSUME Tpc!AcceptFails PROVE TakenByDaemon'
  BY <1>24 DEF Tpc!AcceptFails, Tpc!DGoto
<1>25. ASSUME Tpc!JoinClosed PROVE TakenByDaemon'
  BY <1>25 DEF Tpc!JoinClosed, Tpc!DGoto
<1>26. ASSUME Tpc!ShutAll PROVE TakenByDaemon'
  BY <1>26 DEF Tpc!ShutAll, Tpc!CollectNext, Tpc!In, Tpc!DGoto
<1>27. ASSUME Tpc!CollectThread PROVE TakenByDaemon'
  BY <1>27 DEF Tpc!CollectThread, Tpc!CollectNext, Tpc!In, Tpc!DGoto
<1>28. ASSUME Tpc!CloseRest PROVE TakenByDaemon'
  BY <1>28 DEF Tpc!CloseRest, Tpc!In, Tpc!DGoto
<1>29. ASSUME Tpc!Resume PROVE TakenByDaemon'
  BY <1>29 DEF Tpc!Resume, Tpc!resume_suspended_connections, Tpc!ToResume, Tpc!In, Tpc!DGoto
<1>30. ASSUME Tpc!FinalResume PROVE TakenByDaemon'
  BY <1>30 DEF Tpc!FinalResume, Tpc!resume_suspended_connections, Tpc!ToResume, Tpc!In, Tpc!DGoto
<1>31. ASSUME Tpc!CloseResume PROVE TakenByDaemon'
  BY <1>31 DEF Tpc!CloseResume, Tpc!resume_suspended_connections, Tpc!ToResume, Tpc!In, Tpc!DGoto
<1>32. ASSUME Tpc!TakeClosed PROVE TakenByDaemon'
  BY <1>32 DEF Tpc!TakeClosed, Tpc!In, Tpc!DGoto
<1>33. ASSUME Tpc!FreeClosed PROVE TakenByDaemon'
  BY <1>33 DEF Tpc!FreeClosed, Tpc!DGoto
<1>34. ASSUME Tpc!MHD_stop_daemon PROVE TakenByDaemon'
  BY <1>34 DEF Tpc!MHD_stop_daemon
<1>35. ASSUME Tpc!StopSignals PROVE TakenByDaemon'
  BY <1>35 DEF Tpc!StopSignals
<1>36. ASSUME Tpc!StopJoins PROVE TakenByDaemon'
  BY <1>36 DEF Tpc!StopJoins
<1>37. ASSUME Tpc!Stopped PROVE TakenByDaemon'
  BY <1>37 DEF Tpc!Stopped, Tpc!vars, ThreadsInv
<1> QED
  BY <1>1, <1>2, <1>3, <1>4, <1>5, <1>6, <1>7, <1>8, <1>9, <1>10, <1>11, <1>12, <1>13, <1>14,
     <1>15, <1>16, <1>17, <1>18, <1>19, <1>20, <1>21, <1>22, <1>23, <1>24, <1>25, <1>26, <1>27,
     <1>28, <1>29, <1>30, <1>31, <1>32, <1>33, <1>34, <1>35, <1>36, <1>37
  DEF Tpc!Next, Tpc!ThreadStep, Tpc!DaemonStep

(* The progress of a stop. *)
LEMMA StopStep ==
  ASSUME Tpc!ConnAssumption, ThreadsInv, Tpc!Next
  PROVE  StopReached'
<1> USE DEF ThreadsInv, ThreadsHaveTypes, ConnsKept, ThreadInPlace, SuspendedInPlace, StopReached,
   TakenByDaemon, ListPlaces, Serving, Ended, ThreadPlaces, Taking, Turning, Resuming, Leaving,
   AllResumed, DaemonPlaces, Tpc!dvars, Tpc!cvars, Tpc!tvars, Tpc!lvars, Tpc!avars
<1>1. ASSUME NEW c \in Served, Tpc!LoopTop(c) PROVE StopReached'
  BY <1>1 DEF Tpc!LoopTop, Tpc!Goto
<1>2. ASSUME NEW c \in Served, Tpc!CheckSuspended(c) PROVE StopReached'
  BY <1>2 DEF Tpc!CheckSuspended, Tpc!Goto
<1>3. ASSUME NEW c \in Served, Tpc!ItcReady(c) PROVE StopReached'
  BY <1>3 DEF Tpc!ItcReady, Tpc!Goto
<1>4. ASSUME NEW c \in Served, Tpc!ItcClear(c) PROVE StopReached'
  BY <1>4 DEF Tpc!ItcClear, Tpc!Goto
<1>5. ASSUME NEW c \in Served, Tpc!SocketReady(c) PROVE StopReached'
  BY <1>5 DEF Tpc!SocketReady, Tpc!Goto
<1>6. ASSUME NEW c \in Served, Tpc!TimedOut(c) PROVE StopReached'
  BY <1>6 DEF Tpc!TimedOut, Tpc!Goto
<1>7. ASSUME NEW c \in Served, Tpc!CallContinues(c) PROVE StopReached'
  BY <1>7 DEF Tpc!CallContinues, Tpc!Handled, Tpc!Goto
<1>8. ASSUME NEW c \in Served, Tpc!internal_suspend_connection_(c) PROVE StopReached'
  BY <1>8 DEF Tpc!internal_suspend_connection_, Tpc!Handled, Tpc!Goto
<1>9. ASSUME NEW c \in Served, Tpc!cleanup_connection(c) PROVE StopReached'
  BY <1>9 DEF Tpc!cleanup_connection, Tpc!Goto
<1>10. ASSUME NEW c \in Served, Tpc!EndsSuspended(c) PROVE StopReached'
  BY <1>10 DEF Tpc!EndsSuspended, Tpc!Goto
<1>11. ASSUME NEW c \in Served, Tpc!SignalClosed(c) PROVE StopReached'
  BY <1>11 DEF Tpc!SignalClosed, Tpc!Goto
<1>12. ASSUME NEW c \in Served, Tpc!ThreadExit(c) PROVE StopReached'
  BY <1>12 DEF Tpc!ThreadExit, Tpc!Goto
<1>13. ASSUME NEW c \in Served, Tpc!ClientSends(c) PROVE StopReached'
  BY <1>13 DEF Tpc!ClientSends
<1>14. ASSUME NEW c \in Served, Tpc!MHD_resume_connection(c) PROVE StopReached'
  BY <1>14 DEF Tpc!MHD_resume_connection
<1>15. ASSUME NEW c \in Served, Tpc!ResumeSignals(c) PROVE StopReached'
  BY <1>15 DEF Tpc!ResumeSignals
<1>16. ASSUME NEW c \in Served, Tpc!AcceptConnection(c) PROVE StopReached'
  BY <1>16 DEF Tpc!AcceptConnection, Tpc!Goto, Tpc!DGoto
<1>17. ASSUME NEW c \in Served, Tpc!NoThread(c) PROVE StopReached'
  BY <1>17 DEF Tpc!NoThread, Tpc!DGoto
<1>18. ASSUME Tpc!DaemonTop PROVE StopReached'
  BY <1>18 DEF Tpc!DaemonTop, Tpc!DGoto
<1>19. ASSUME Tpc!Wake PROVE StopReached'
  BY <1>19 DEF Tpc!Wake, Tpc!After, Tpc!DGoto
<1>20. ASSUME Tpc!BuildSets PROVE StopReached'
  BY <1>20 DEF Tpc!BuildSets, Tpc!NotPolled, Tpc!DGoto
<1>21. ASSUME Tpc!SelectReturns PROVE StopReached'
  BY <1>21 DEF Tpc!SelectReturns, Tpc!In, Tpc!DGoto
<1>22. ASSUME Tpc!CheckShutdown PROVE StopReached'
  BY <1>22 DEF Tpc!CheckShutdown, Tpc!DGoto
<1>23. ASSUME Tpc!ClearItc PROVE StopReached'
  BY <1>23 DEF Tpc!ClearItc, Tpc!DGoto
<1>24. ASSUME Tpc!AcceptFails PROVE StopReached'
  BY <1>24 DEF Tpc!AcceptFails, Tpc!DGoto
<1>25. ASSUME Tpc!JoinClosed PROVE StopReached'
  BY <1>25 DEF Tpc!JoinClosed, Tpc!DGoto
<1>26. ASSUME Tpc!ShutAll PROVE StopReached'
  BY <1>26 DEF Tpc!ShutAll, Tpc!CollectNext, Tpc!In, Tpc!DGoto
<1>27. ASSUME Tpc!CollectThread PROVE StopReached'
  BY <1>27 DEF Tpc!CollectThread, Tpc!CollectNext, Tpc!In, Tpc!DGoto
<1>28. ASSUME Tpc!CloseRest PROVE StopReached'
  BY <1>28 DEF Tpc!CloseRest, Tpc!In, Tpc!DGoto
<1>29. ASSUME Tpc!Resume PROVE StopReached'
  BY <1>29 DEF Tpc!Resume, Tpc!resume_suspended_connections, Tpc!ToResume, Tpc!In, Tpc!DGoto
<1>30. ASSUME Tpc!FinalResume PROVE StopReached'
  BY <1>30 DEF Tpc!FinalResume, Tpc!resume_suspended_connections, Tpc!ToResume, Tpc!In, Tpc!DGoto
<1>31. ASSUME Tpc!CloseResume PROVE StopReached'
  BY <1>31 DEF Tpc!CloseResume, Tpc!resume_suspended_connections, Tpc!ToResume, Tpc!In, Tpc!DGoto
<1>32. ASSUME Tpc!TakeClosed PROVE StopReached'
  BY <1>32 DEF Tpc!TakeClosed, Tpc!In, Tpc!DGoto
<1>33. ASSUME Tpc!FreeClosed PROVE StopReached'
  BY <1>33 DEF Tpc!FreeClosed, Tpc!DGoto
<1>34. ASSUME Tpc!MHD_stop_daemon PROVE StopReached'
  BY <1>34 DEF Tpc!MHD_stop_daemon
<1>35. ASSUME Tpc!StopSignals PROVE StopReached'
  BY <1>35 DEF Tpc!StopSignals
<1>36. ASSUME Tpc!StopJoins PROVE StopReached'
  BY <1>36 DEF Tpc!StopJoins
<1>37. ASSUME Tpc!Stopped PROVE StopReached'
  BY <1>37 DEF Tpc!Stopped, Tpc!vars, ThreadsInv
<1> QED
  BY <1>1, <1>2, <1>3, <1>4, <1>5, <1>6, <1>7, <1>8, <1>9, <1>10, <1>11, <1>12, <1>13, <1>14,
     <1>15, <1>16, <1>17, <1>18, <1>19, <1>20, <1>21, <1>22, <1>23, <1>24, <1>25, <1>26, <1>27,
     <1>28, <1>29, <1>30, <1>31, <1>32, <1>33, <1>34, <1>35, <1>36, <1>37
  DEF Tpc!Next, Tpc!ThreadStep, Tpc!DaemonStep

(* There are finitely many counted connections. *)
LEMMA CountedFinite == Tpc!ConnAssumption => IsFiniteSet(Counted) /\ Cardinality(Counted) \in Nat
BY FS_Subset, FS_CardinalityType, SameSets DEF Counted, Tpc!ConnAssumption

(* The counter and the limit. *)
LEMMA CountStep ==
  ASSUME Tpc!ConnAssumption, Tpc!LimitAssumption, ThreadsInv, Tpc!Next
  PROVE  CountKept'
<1> USE DEF ThreadsInv, ThreadsHaveTypes, ConnsKept, ThreadInPlace, SuspendedInPlace, TakenByDaemon,
   ListPlaces, Serving, Ended, ThreadPlaces, Taking, Turning, Resuming, Leaving, AllResumed,
   DaemonPlaces, Tpc!dvars, Tpc!cvars, Tpc!tvars, Tpc!lvars, Tpc!avars
<1>1. ASSUME NEW c \in Served, Tpc!LoopTop(c) PROVE CountKept'
  <2>1. Counted' = Counted
    BY <1>1 DEF Counted, Tpc!LoopTop, Tpc!Goto
  <2> QED BY <1>1, <2>1 DEF CountKept, Tpc!LoopTop, Tpc!Goto
<1>2. ASSUME NEW c \in Served, Tpc!CheckSuspended(c) PROVE CountKept'
  <2>1. Counted' = Counted
    BY <1>2 DEF Counted, Tpc!CheckSuspended, Tpc!Goto
  <2> QED BY <1>2, <2>1 DEF CountKept, Tpc!CheckSuspended, Tpc!Goto
<1>3. ASSUME NEW c \in Served, Tpc!ItcReady(c) PROVE CountKept'
  <2>1. Counted' = Counted
    BY <1>3 DEF Counted, Tpc!ItcReady, Tpc!Goto
  <2> QED BY <1>3, <2>1 DEF CountKept, Tpc!ItcReady, Tpc!Goto
<1>4. ASSUME NEW c \in Served, Tpc!ItcClear(c) PROVE CountKept'
  <2>1. Counted' = Counted
    BY <1>4 DEF Counted, Tpc!ItcClear, Tpc!Goto
  <2> QED BY <1>4, <2>1 DEF CountKept, Tpc!ItcClear, Tpc!Goto
<1>5. ASSUME NEW c \in Served, Tpc!SocketReady(c) PROVE CountKept'
  <2>1. Counted' = Counted
    BY <1>5 DEF Counted, Tpc!SocketReady, Tpc!Goto
  <2> QED BY <1>5, <2>1 DEF CountKept, Tpc!SocketReady, Tpc!Goto
<1>6. ASSUME NEW c \in Served, Tpc!TimedOut(c) PROVE CountKept'
  <2>1. Counted' = Counted
    BY <1>6 DEF Counted, Tpc!TimedOut, Tpc!Goto
  <2> QED BY <1>6, <2>1 DEF CountKept, Tpc!TimedOut, Tpc!Goto
<1>7. ASSUME NEW c \in Served, Tpc!CallContinues(c) PROVE CountKept'
  <2>1. Counted' = Counted
    BY <1>7 DEF Counted, Tpc!CallContinues, Tpc!Handled, Tpc!Goto
  <2> QED BY <1>7, <2>1 DEF CountKept, Tpc!CallContinues, Tpc!Handled, Tpc!Goto
<1>8. ASSUME NEW c \in Served, Tpc!internal_suspend_connection_(c) PROVE CountKept'
  <2>1. Counted' = Counted
    BY <1>8 DEF Counted, Tpc!internal_suspend_connection_, Tpc!Handled, Tpc!Goto
  <2> QED BY <1>8, <2>1 DEF CountKept, Tpc!internal_suspend_connection_, Tpc!Handled, Tpc!Goto
<1>9. ASSUME NEW c \in Served, Tpc!cleanup_connection(c) PROVE CountKept'
  <2>1. Counted' = Counted
    BY <1>9 DEF Counted, Tpc!cleanup_connection, Tpc!Goto
  <2> QED BY <1>9, <2>1 DEF CountKept, Tpc!cleanup_connection, Tpc!Goto
<1>10. ASSUME NEW c \in Served, Tpc!EndsSuspended(c) PROVE CountKept'
  <2>1. Counted' = Counted
    BY <1>10 DEF Counted, Tpc!EndsSuspended, Tpc!Goto
  <2> QED BY <1>10, <2>1 DEF CountKept, Tpc!EndsSuspended, Tpc!Goto
<1>11. ASSUME NEW c \in Served, Tpc!SignalClosed(c) PROVE CountKept'
  <2>1. Counted' = Counted
    BY <1>11 DEF Counted, Tpc!SignalClosed, Tpc!Goto
  <2> QED BY <1>11, <2>1 DEF CountKept, Tpc!SignalClosed, Tpc!Goto
<1>12. ASSUME NEW c \in Served, Tpc!ThreadExit(c) PROVE CountKept'
  <2>1. Counted' = Counted
    BY <1>12 DEF Counted, Tpc!ThreadExit, Tpc!Goto
  <2> QED BY <1>12, <2>1 DEF CountKept, Tpc!ThreadExit, Tpc!Goto
<1>13. ASSUME NEW c \in Served, Tpc!ClientSends(c) PROVE CountKept'
  <2>1. Counted' = Counted
    BY <1>13 DEF Counted, Tpc!ClientSends
  <2> QED BY <1>13, <2>1 DEF CountKept, Tpc!ClientSends
<1>14. ASSUME NEW c \in Served, Tpc!MHD_resume_connection(c) PROVE CountKept'
  <2>1. Counted' = Counted
    BY <1>14 DEF Counted, Tpc!MHD_resume_connection
  <2> QED BY <1>14, <2>1 DEF CountKept, Tpc!MHD_resume_connection
<1>15. ASSUME NEW c \in Served, Tpc!ResumeSignals(c) PROVE CountKept'
  <2>1. Counted' = Counted
    BY <1>15 DEF Counted, Tpc!ResumeSignals
  <2> QED BY <1>15, <2>1 DEF CountKept, Tpc!ResumeSignals
<1>16. ASSUME NEW c \in Served, Tpc!AcceptConnection(c) PROVE CountKept'
  <2>1. Counted' = Counted \cup {c} /\ c \notin Counted
    BY <1>16 DEF Counted, Tpc!AcceptConnection, Tpc!Goto, Tpc!DGoto
  <2>2. Cardinality(Counted') = Cardinality(Counted) + 1
    BY <2>1, CountedFinite, FS_AddElement
  <2>3. connections < Limit /\ connections' = connections + 1 /\ connections =
     Cardinality(Counted)
    BY <1>16 DEF CountKept, Tpc!AcceptConnection, Tpc!Goto, Tpc!DGoto
  <2> QED BY <1>16, <2>2, <2>3, Tpc!LimitAssumption DEF CountKept, Tpc!LimitAssumption,
     Tpc!AcceptConnection, Tpc!Goto, Tpc!DGoto
<1>17. ASSUME NEW c \in Served, Tpc!NoThread(c) PROVE CountKept'
  <2>1. Counted' = Counted
    BY <1>17 DEF Counted, Tpc!NoThread, Tpc!DGoto
  <2> QED BY <1>17, <2>1 DEF CountKept, Tpc!NoThread, Tpc!DGoto
<1>18. ASSUME Tpc!DaemonTop PROVE CountKept'
  <2>1. Counted' = Counted
    BY <1>18 DEF Counted, Tpc!DaemonTop, Tpc!DGoto
  <2> QED BY <1>18, <2>1 DEF CountKept, Tpc!DaemonTop, Tpc!DGoto
<1>19. ASSUME Tpc!Wake PROVE CountKept'
  <2>1. Counted' = Counted
    BY <1>19 DEF Counted, Tpc!Wake, Tpc!After, Tpc!DGoto
  <2> QED BY <1>19, <2>1 DEF CountKept, Tpc!Wake, Tpc!After, Tpc!DGoto
<1>20. ASSUME Tpc!BuildSets PROVE CountKept'
  <2>1. Counted' = Counted
    BY <1>20 DEF Counted, Tpc!BuildSets, Tpc!NotPolled, Tpc!DGoto
  <2> QED BY <1>20, <2>1 DEF CountKept, Tpc!BuildSets, Tpc!NotPolled, Tpc!DGoto
<1>21. ASSUME Tpc!SelectReturns PROVE CountKept'
  <2>1. Counted' = Counted
    BY <1>21 DEF Counted, Tpc!SelectReturns, Tpc!In, Tpc!DGoto
  <2> QED BY <1>21, <2>1 DEF CountKept, Tpc!SelectReturns, Tpc!In, Tpc!DGoto
<1>22. ASSUME Tpc!CheckShutdown PROVE CountKept'
  <2>1. Counted' = Counted
    BY <1>22 DEF Counted, Tpc!CheckShutdown, Tpc!DGoto
  <2> QED BY <1>22, <2>1 DEF CountKept, Tpc!CheckShutdown, Tpc!DGoto
<1>23. ASSUME Tpc!ClearItc PROVE CountKept'
  <2>1. Counted' = Counted
    BY <1>23 DEF Counted, Tpc!ClearItc, Tpc!DGoto
  <2> QED BY <1>23, <2>1 DEF CountKept, Tpc!ClearItc, Tpc!DGoto
<1>24. ASSUME Tpc!AcceptFails PROVE CountKept'
  <2>1. Counted' = Counted
    BY <1>24 DEF Counted, Tpc!AcceptFails, Tpc!DGoto
  <2> QED BY <1>24, <2>1 DEF CountKept, Tpc!AcceptFails, Tpc!DGoto
<1>25. ASSUME Tpc!JoinClosed PROVE CountKept'
  <2>1. Counted' = Counted
    BY <1>25 DEF Counted, Tpc!JoinClosed, Tpc!DGoto
  <2> QED BY <1>25, <2>1 DEF CountKept, Tpc!JoinClosed, Tpc!DGoto
<1>26. ASSUME Tpc!ShutAll PROVE CountKept'
  <2>1. Counted' = Counted
    BY <1>26 DEF Counted, Tpc!ShutAll, Tpc!CollectNext, Tpc!In, Tpc!DGoto
  <2> QED BY <1>26, <2>1 DEF CountKept, Tpc!ShutAll, Tpc!CollectNext, Tpc!In, Tpc!DGoto
<1>27. ASSUME Tpc!CollectThread PROVE CountKept'
  <2>1. Counted' = Counted
    BY <1>27 DEF Counted, Tpc!CollectThread, Tpc!CollectNext, Tpc!In, Tpc!DGoto
  <2> QED BY <1>27, <2>1 DEF CountKept, Tpc!CollectThread, Tpc!CollectNext, Tpc!In, Tpc!DGoto
<1>28. ASSUME Tpc!CloseRest PROVE CountKept'
  <2>1. Counted' = Counted
    BY <1>28 DEF Counted, Tpc!CloseRest, Tpc!In, Tpc!DGoto
  <2> QED BY <1>28, <2>1 DEF CountKept, Tpc!CloseRest, Tpc!In, Tpc!DGoto
<1>29. ASSUME Tpc!Resume PROVE CountKept'
  <2>1. Counted' = Counted
    BY <1>29 DEF Counted, Tpc!Resume, Tpc!resume_suspended_connections, Tpc!ToResume, Tpc!In, Tpc!DGoto
  <2> QED BY <1>29, <2>1 DEF CountKept, Tpc!Resume, Tpc!resume_suspended_connections, Tpc!ToResume, Tpc!In, Tpc!DGoto
<1>30. ASSUME Tpc!FinalResume PROVE CountKept'
  <2>1. Counted' = Counted
    BY <1>30 DEF Counted, Tpc!FinalResume, Tpc!resume_suspended_connections, Tpc!ToResume, Tpc!In, Tpc!DGoto
  <2> QED BY <1>30, <2>1 DEF CountKept, Tpc!FinalResume, Tpc!resume_suspended_connections, Tpc!ToResume, Tpc!In,
     Tpc!DGoto
<1>31. ASSUME Tpc!CloseResume PROVE CountKept'
  <2>1. Counted' = Counted
    BY <1>31 DEF Counted, Tpc!CloseResume, Tpc!resume_suspended_connections, Tpc!ToResume, Tpc!In, Tpc!DGoto
  <2> QED BY <1>31, <2>1 DEF CountKept, Tpc!CloseResume, Tpc!resume_suspended_connections, Tpc!ToResume, Tpc!In,
     Tpc!DGoto
<1>32. ASSUME Tpc!TakeClosed PROVE CountKept'
  <2>1. Counted' = Counted
    BY <1>32 DEF Counted, Tpc!TakeClosed, Tpc!In, Tpc!DGoto
  <2> QED BY <1>32, <2>1 DEF CountKept, Tpc!TakeClosed, Tpc!In, Tpc!DGoto
<1>33. ASSUME Tpc!FreeClosed PROVE CountKept'
  <2>1. Counted' = Counted \ {dcon} /\ dcon \in Counted
    BY <1>33 DEF Counted, Tpc!FreeClosed, Tpc!DGoto
  <2>2. Cardinality(Counted') = Cardinality(Counted) - 1
    BY <2>1, CountedFinite, FS_RemoveElement
  <2> QED BY <1>33, <2>2 DEF CountKept, Tpc!LimitAssumption, Tpc!FreeClosed, Tpc!DGoto
<1>34. ASSUME Tpc!MHD_stop_daemon PROVE CountKept'
  <2>1. Counted' = Counted
    BY <1>34 DEF Counted, Tpc!MHD_stop_daemon
  <2> QED BY <1>34, <2>1 DEF CountKept, Tpc!MHD_stop_daemon
<1>35. ASSUME Tpc!StopSignals PROVE CountKept'
  <2>1. Counted' = Counted
    BY <1>35 DEF Counted, Tpc!StopSignals
  <2> QED BY <1>35, <2>1 DEF CountKept, Tpc!StopSignals
<1>36. ASSUME Tpc!StopJoins PROVE CountKept'
  <2>1. Counted' = Counted
    BY <1>36 DEF Counted, Tpc!StopJoins
  <2> QED BY <1>36, <2>1 DEF CountKept, Tpc!StopJoins
<1>37. ASSUME Tpc!Stopped PROVE CountKept'
  BY <1>37 DEF Tpc!Stopped, Tpc!vars, ThreadsInv, CountKept, Counted
<1> QED
  BY <1>1, <1>2, <1>3, <1>4, <1>5, <1>6, <1>7, <1>8, <1>9, <1>10, <1>11, <1>12, <1>13, <1>14,
     <1>15, <1>16, <1>17, <1>18, <1>19, <1>20, <1>21, <1>22, <1>23, <1>24, <1>25, <1>26, <1>27,
     <1>28, <1>29, <1>30, <1>31, <1>32, <1>33, <1>34, <1>35, <1>36, <1>37
  DEF Tpc!Next, Tpc!ThreadStep, Tpc!DaemonStep

-----------------------------------------------------------------------------
LEMMA InitKept == Tpc!ConnAssumption /\ Tpc!LimitAssumption /\ Tpc!Init => ThreadsInv
<1> SUFFICES ASSUME Tpc!ConnAssumption, Tpc!LimitAssumption, Tpc!Init PROVE ThreadsInv
  OBVIOUS
<1>1. ThreadsHaveTypes
  <2>1. "none" \in ThreadPlaces /\ "top" \in DaemonPlaces /\ "backlog" \in ListPlaces
    BY DEF ThreadPlaces, Ended, DaemonPlaces, Turning, ListPlaces
  <2>2. dset \in [listen : BOOLEAN, itc : BOOLEAN, accept : BOOLEAN]
    BY DEF Tpc!Init, Tpc!NotPolled
  <2>3. /\ tpc_place \in [Served -> ListPlaces] /\ pc \in [Served -> ThreadPlaces]
        /\ suspended \in [Served -> BOOLEAN] /\ resuming \in [Served -> BOOLEAN]
        /\ thread_joined \in [Served -> BOOLEAN] /\ was_suspended \in [Served -> BOOLEAN]
    BY <2>1 DEF Tpc!Init
  <2>4. sock \in [Served -> {"quiet", "ready", "shut"}] /\ nsuspends \in [Served -> Nat]
    BY DEF Tpc!Init
  <2>5. /\ itc \in BOOLEAN /\ shutdown \in BOOLEAN /\ dresuming \in BOOLEAN
        /\ at_limit \in BOOLEAN
    BY Zenon DEF Tpc!Init
  <2> QED BY <2>1, <2>2, <2>3, <2>4, <2>5 DEF Tpc!Init, ThreadsHaveTypes
<1>2. ConnsKept
  BY DEF Tpc!Init, ConnsKept, ThreadInPlace, SuspendedInPlace
<1>3. TakenByDaemon /\ StopReached
  BY DEF Tpc!Init, TakenByDaemon, StopReached, Taking, Turning, AllResumed, Leaving
<1>4. CountKept
  <2>1. Counted = {}
    BY DEF Tpc!Init, Counted
  <2> QED BY <2>1, FS_EmptySet DEF Tpc!Init, CountKept, Tpc!NotPolled, Tpc!LimitAssumption
<1> QED BY <1>1, <1>2, <1>3, <1>4 DEF ThreadsInv

LEMMA NextKept ==
  Tpc!ConnAssumption /\ Tpc!LimitAssumption /\ ThreadsInv /\ [Tpc!Next]_(Tpc!vars) => ThreadsInv'
<1>1. ASSUME Tpc!ConnAssumption, Tpc!LimitAssumption, ThreadsInv, Tpc!Next PROVE ThreadsInv'
  BY <1>1, TypedStep, ConnsStep, TakenStep, StopStep, CountStep DEF ThreadsInv
<1>2. ASSUME ThreadsInv, UNCHANGED Tpc!vars PROVE ThreadsInv'
  <2>1. ThreadsHaveTypes' /\ ConnsKept' /\ TakenByDaemon'
    BY <1>2 DEF ThreadsInv, ThreadsHaveTypes, ConnsKept, ThreadInPlace, SuspendedInPlace, TakenByDaemon,
                Tpc!vars, Tpc!dvars, Tpc!cvars, Tpc!tvars, Tpc!lvars, Tpc!avars
  <2>2. StopReached' /\ CountKept'
    BY <1>2 DEF ThreadsInv, StopReached, CountKept, Counted, Tpc!vars, Tpc!dvars, Tpc!cvars, Tpc!tvars, Tpc!lvars, Tpc!avars
  <2> QED BY <2>1, <2>2 DEF ThreadsInv
<1> QED BY <1>1, <1>2

(* Whatever the order in which the threads of the connections, the daemon  *)
(* thread, the application and the clients take their steps: the places of *)
(* all threads, the lists, the flags and the counter agree                 *)
(* (thread_main_handle_connection() with MHD_cleanup_connections() and     *)
(* close_all_connections()).                                               *)
THEOREM ThreadsAgree ==
  ASSUME Tpc!ConnAssumption, Tpc!LimitAssumption
  PROVE  Tpc!Spec => []ThreadsInv
<1>1. Tpc!Init => ThreadsInv
  BY InitKept
<1>2. ThreadsInv /\ [Tpc!Next]_(Tpc!vars) => ThreadsInv'
  BY NextKept
<1> QED BY <1>1, <1>2, PTL DEF Tpc!Spec

(* The types of the variables; daemon->connections never exceeds the limit *)
(* and is never negative, since the daemon thread polls the listen socket  *)
(* only below the limit and accepts one connection in a turn.              *)
THEOREM ThreadsTyped ==
  ASSUME Tpc!ConnAssumption, Tpc!LimitAssumption
  PROVE  Tpc!Spec => []Tpc!TypeOK
<1>1. ThreadsInv => Tpc!TypeOK
  <2> SUFFICES ASSUME ThreadsInv PROVE Tpc!TypeOK
    OBVIOUS
  <2>1. connections \in 0 .. Limit
    BY CountedFinite DEF ThreadsInv, CountKept, Tpc!LimitAssumption
  <2> QED BY <2>1 DEF ThreadsInv, ThreadsHaveTypes, Tpc!TypeOK, ListPlaces
<1> QED BY <1>1, ThreadsAgree, PTL

(* A connection is freed only after its thread has ended, the daemon never *)
(* panics over a connection that was resumed in time, and when             *)
(* MHD_stop_daemon() returns every thread has ended and every accepted     *)
(* connection is freed.                                                    *)
THEOREM ThreadsLeaveNoTrace ==
  ASSUME Tpc!ConnAssumption, Tpc!LimitAssumption
  PROVE  Tpc!Spec => []Tpc!ThreadsLeaveNothing /\ []ThreadsLeaveNothing
<1>1. ThreadsInv => Tpc!ThreadsLeaveNothing
  <2> SUFFICES ASSUME ThreadsInv PROVE Tpc!ThreadsLeaveNothing
    OBVIOUS
  <2>1. Tpc!FreedAfterThread /\ Tpc!NoPanic
    BY DEF ThreadsInv, ConnsKept, ThreadInPlace, ThreadsHaveTypes, Tpc!FreedAfterThread, Tpc!NoPanic, Ended
  <2>2. ASSUME app = "stopped" PROVE connections = 0
    <3>1. Counted = {}
      BY <2>2 DEF ThreadsInv, StopReached, Counted
    <3> QED BY <3>1, FS_EmptySet DEF ThreadsInv, CountKept
  <2>3. ASSUME app = "stopped", NEW c \in Served
        PROVE  tpc_place[c] \in {"backlog", "freed"} /\ pc[c] \in {"none", "done"}
    BY <2>3 DEF ThreadsInv, StopReached, ConnsKept, ThreadInPlace, Ended
  <2> QED BY <2>1, <2>2, <2>3 DEF Tpc!ThreadsLeaveNothing, Tpc!StopLeavesNothing
<1>2. Tpc!ThreadsLeaveNothing => ThreadsLeaveNothing
  BY DEF ThreadsLeaveNothing
<1> QED BY <1>1, <1>2, ThreadsAgree, PTL

(***************************************************************************)
(* Forwarding.                                                             *)
(***************************************************************************)
\* The numbers that follow a, in order.
Run(s, a) == \A i \in 1 .. Len(s) : s[i] = a + i

ForwardPlaces == {"poll", "start", "recv_client", "recv_app", "send_client", "send_app", "end", "done"}

ForwardTypes ==
  /\ in \in Seq(Nat) /\ out \in Seq(Nat) /\ net \in Seq(Nat) /\ tls \in Seq(Nat)
  /\ cgot \in Seq(Nat) /\ agot \in Seq(Nat) /\ up \in Seq(Nat) /\ down \in Seq(Nat)
  /\ csent \in Nat /\ asent \in Nat
  /\ in_size \in {0, BufferSize} /\ out_size \in {0, BufferSize}
  /\ Len(in) <= BufferSize /\ Len(out) <= BufferSize
  /\ Len(down) <= PipeSize /\ Len(up) <= PipeSize
  /\ app_celi \subseteq Fwd!Celi /\ mhd_celi \subseteq Fwd!Celi
  /\ was_closed \in BOOLEAN /\ tls_ready \in BOOLEAN /\ fwd_shutdown \in BOOLEAN
  /\ seen_closed \in BOOLEAN /\ shut \in BOOLEAN
  /\ client \in {"open", "closed", "reset"} /\ fwd_app \in {"open", "closing", "closed"}
  /\ fwd_pc \in ForwardPlaces

\* Who has closed, and what the thread has seen of it.
Closing ==
  /\ fwd_app # "open" => shut
  /\ was_closed => shut \/ fwd_shutdown
  /\ seen_closed => was_closed
  /\ "ERROR" \in mhd_celi => shut
  /\ "ERROR" \in app_celi => client = "reset"
  /\ fwd_pc = "done" => in_size = 0 /\ in = <<>> /\ out_size = 0 /\ out = <<>>

\* From the application to the client.
Outward ==
  /\ Run(cgot, 0) /\ Run(out, Len(cgot)) /\ Len(cgot) + Len(out) <= asent
  /\ out_size # 0 => /\ Run(up, Len(cgot) + Len(out))
                     /\ Len(cgot) + Len(out) + Len(up) = asent
  /\ out_size = 0 /\ client = "open" /\ ~fwd_shutdown => shut /\ Len(cgot) + Len(out) = asent

\* From the client to the application.
Inward ==
  /\ Run(agot, 0) /\ Len(agot) <= csent
  /\ client = "reset" => net = <<>>
  /\ ~shut =>
       /\ Run(down, Len(agot)) /\ Run(in, Len(agot) + Len(down))
       /\ Len(agot) + Len(down) + Len(in) <= csent
  /\ ~shut /\ in_size # 0 =>
       /\ Run(tls, Len(agot) + Len(down) + Len(in))
       /\ Len(agot) + Len(down) + Len(in) + Len(tls) <= csent
       /\ client # "reset" =>
            /\ Run(net, Len(agot) + Len(down) + Len(in) + Len(tls))
            /\ Len(agot) + Len(down) + Len(in) + Len(tls) + Len(net) = csent
  /\ ~shut /\ in_size = 0 /\ ~fwd_shutdown /\ client # "reset" =>
       client = "closed" /\ Len(agot) + Len(down) + Len(in) = csent

ForwardInv == ForwardTypes /\ Closing /\ Outward /\ Inward


-----------------------------------------------------------------------------
(* Runs of numbers.                                                        *)

\* The lesser of two is one of them.
LEMMA MinOfTwo ==
  ASSUME NEW x \in Nat, NEW y \in Nat
  PROVE  /\ Fwd!Min({x, y}) \in Nat /\ Fwd!Min({x, y}) <= x /\ Fwd!Min({x, y}) <= y
         /\ Fwd!Min({x, y}) = x \/ Fwd!Min({x, y}) = y
<1>1. \E m \in {x, y} : \A z \in {x, y} : m =< z
  <2>1. CASE x =< y
    BY <2>1
  <2>2. CASE ~(x =< y)
    BY <2>2
  <2> QED  BY <2>1, <2>2
<1>2. Fwd!Min({x, y}) \in {x, y} /\ \A z \in {x, y} : Fwd!Min({x, y}) =< z
  BY <1>1, Zenon DEF Fwd!Min
<1> QED  BY <1>2

\* What a part taken from the front is.
LEMMA TakeIs ==
  ASSUME NEW s \in Seq(Nat), NEW n \in 0 .. Len(s), NEW a \in Nat
  PROVE  /\ Fwd!Take(s, n) \in Seq(Nat) /\ Len(Fwd!Take(s, n)) = n
         /\ Run(s, a) => Run(Fwd!Take(s, n), a)
<1>1. Fwd!Take(s, n) \in Seq(Nat) /\ Len(Fwd!Take(s, n)) = n
  BY DEF Fwd!Take
<1>2. ASSUME Run(s, a), NEW i \in 1 .. Len(Fwd!Take(s, n))  PROVE Fwd!Take(s, n)[i] = a + i
  <2>1. i \in 1 .. n /\ i \in 1 .. Len(s)
    BY <1>1, <1>2
  <2>2. Fwd!Take(s, n)[i] = s[i]
    BY <2>1 DEF Fwd!Take
  <2> QED  BY <2>1, <2>2, <1>2 DEF Run
<1> QED  BY <1>1, <1>2 DEF Run

\* What is left behind it is.
LEMMA DropIs ==
  ASSUME NEW s \in Seq(Nat), NEW n \in 0 .. Len(s), NEW a \in Nat
  PROVE  /\ Fwd!Drop(s, n) \in Seq(Nat) /\ Len(Fwd!Drop(s, n)) = Len(s) - n
         /\ Run(s, a) => Run(Fwd!Drop(s, n), a + n)
<1>1. Fwd!Drop(s, n) \in Seq(Nat) /\ Len(Fwd!Drop(s, n)) = Len(s) - n
  BY DEF Fwd!Drop
<1>2. ASSUME Run(s, a), NEW i \in 1 .. Len(Fwd!Drop(s, n))  PROVE Fwd!Drop(s, n)[i] = a + n + i
  <2>1. i \in 1 .. (Len(s) - n) /\ i + n \in 1 .. Len(s)
    BY <1>1, <1>2
  <2>2. Fwd!Drop(s, n)[i] = s[i + n]
    <3>1. SubSeq(s, n + 1, Len(s))[i] = s[(n + 1) + i - 1]
      BY <2>1
    <3> QED  BY <3>1 DEF Fwd!Drop
  <2>3. s[i + n] = a + (i + n)
    BY <2>1, <1>2 DEF Run
  <2> QED  BY <2>1, <2>2, <2>3
<1> QED  BY <1>1, <1>2 DEF Run

\* Two runs put together.
LEMMA ConcatIs ==
  ASSUME NEW s \in Seq(Nat), NEW t \in Seq(Nat), NEW a \in Nat
  PROVE  /\ s \o t \in Seq(Nat) /\ Len(s \o t) = Len(s) + Len(t)
         /\ Run(s, a) /\ Run(t, a + Len(s)) => Run(s \o t, a)
<1>1. s \o t \in Seq(Nat) /\ Len(s \o t) = Len(s) + Len(t)
  OBVIOUS
<1>2. ASSUME Run(s, a), Run(t, a + Len(s)), NEW i \in 1 .. Len(s \o t)
      PROVE  (s \o t)[i] = a + i
  <2>1. CASE i <= Len(s)
    <3>1. i \in 1 .. Len(s) /\ (s \o t)[i] = s[i]
      BY <2>1
    <3> QED  BY <3>1, <1>2 DEF Run
  <2>2. CASE i > Len(s)
    <3>1. i - Len(s) \in 1 .. Len(t) /\ (s \o t)[i] = t[i - Len(s)]
      BY <2>2, <1>1
    <3>2. t[i - Len(s)] = a + Len(s) + (i - Len(s))
      BY <3>1, <1>2 DEF Run
    <3> QED  BY <3>1, <3>2
  <2> QED  BY <2>1, <2>2
<1> QED  BY <1>1, <1>2 DEF Run

\* The next number put behind a run.
LEMMA AppendIs ==
  ASSUME NEW s \in Seq(Nat), NEW a \in Nat, NEW e \in Nat
  PROVE  /\ Append(s, e) \in Seq(Nat) /\ Len(Append(s, e)) = Len(s) + 1
         /\ Run(s, a) /\ e = a + Len(s) + 1 => Run(Append(s, e), a)
<1>1. Append(s, e) \in Seq(Nat) /\ Len(Append(s, e)) = Len(s) + 1
  OBVIOUS
<1>2. ASSUME Run(s, a), e = a + Len(s) + 1, NEW i \in 1 .. Len(Append(s, e))
      PROVE  Append(s, e)[i] = a + i
  <2>1. CASE i = Len(s) + 1
    BY <2>1, <1>2
  <2>2. CASE i # Len(s) + 1
    <3>1. i \in 1 .. Len(s) /\ Append(s, e)[i] = s[i]
      BY <2>2, <1>1
    <3> QED  BY <3>1, <1>2 DEF Run
  <2> QED  BY <2>1, <2>2
<1> QED  BY <1>1, <1>2 DEF Run

\* The first of a run, and the rest of it.
LEMMA TailIs ==
  ASSUME NEW s \in Seq(Nat), NEW a \in Nat, s # <<>>
  PROVE  /\ Tail(s) \in Seq(Nat) /\ Len(Tail(s)) = Len(s) - 1 /\ Len(s) > 0
         /\ Head(s) \in Nat
         /\ Run(s, a) => Head(s) = a + 1 /\ Run(Tail(s), a + 1)
<1>1. Tail(s) \in Seq(Nat) /\ Len(Tail(s)) = Len(s) - 1 /\ Len(s) > 0
  OBVIOUS
<1>2. Head(s) = s[1] /\ 1 \in 1 .. Len(s) /\ s[1] \in Nat
  BY <1>1
<1>3. ASSUME Run(s, a), NEW i \in 1 .. Len(Tail(s))  PROVE Tail(s)[i] = a + 1 + i
  <2>1. i + 1 \in 1 .. Len(s) /\ Tail(s)[i] = s[i + 1]
    BY <1>1
  <2>2. s[i + 1] = a + (i + 1)
    BY <2>1, <1>3 DEF Run
  <2> QED  BY <2>1, <2>2
<1> QED  BY <1>1, <1>2, <1>3 DEF Run

\* Nothing is a run.
LEMMA NothingRuns == <<>> \in Seq(Nat) /\ Len(<<>>) = 0 /\ \A a \in Nat : Run(<<>>, a)
BY DEF Run

\* A run from the beginning is a prefix of the numbers up to any greater.
LEMMA RunIsPrefix ==
  ASSUME NEW s \in Seq(Nat), Run(s, 0), NEW n \in Nat, Len(s) <= n
  PROVE  Fwd!IsPrefix(s, Fwd!Upto(n)) /\ (Len(s) = n => s = Fwd!Upto(n))
<1>1. Fwd!Upto(n) \in Seq(Nat) /\ Len(Fwd!Upto(n)) = n /\ \A i \in 1 .. n : Fwd!Upto(n)[i] = i
  BY DEF Fwd!Upto
<1>2. \A i \in 1 .. Len(s) : s[i] = i
  BY DEF Run
<1>3. SubSeq(s, 1, Len(s)) = SubSeq(Fwd!Upto(n), 1, Len(s))
  <2>1. /\ SubSeq(s, 1, Len(s)) \in Seq(Nat) /\ SubSeq(Fwd!Upto(n), 1, Len(s)) \in Seq(Nat)
        /\ Len(SubSeq(s, 1, Len(s))) = Len(s) /\ Len(SubSeq(Fwd!Upto(n), 1, Len(s))) = Len(s)
    BY <1>1
  <2>2. ASSUME NEW i \in 1 .. Len(s)
        PROVE  SubSeq(s, 1, Len(s))[i] = SubSeq(Fwd!Upto(n), 1, Len(s))[i]
    BY <1>1, <1>2
  <2> QED  BY <2>1, <2>2, SeqEqual
<1>4. Len(s) = n => s = Fwd!Upto(n)
  BY <1>1, <1>2, SeqEqual
<1> QED  BY <1>1, <1>3, <1>4 DEF Fwd!IsPrefix

-----------------------------------------------------------------------------
(* The steps.                                                              *)

\* Nothing has happened to the data on its way to the client.
LEMMA OutwardSame ==
  ASSUME Outward, UNCHANGED <<cgot, out, out_size, asent, up>>,
         client' = "open" => client = "open", fwd_shutdown => fwd_shutdown', shut => shut'
  PROVE  Outward'
BY DEF Outward

\* Nor to the data on its way to the application.
LEMMA InwardSame ==
  ASSUME Inward, UNCHANGED <<agot, down, in, in_size, tls, net, csent>>,
         client' = client \/ (client = "open" /\ client' = "closed"),
         fwd_shutdown => fwd_shutdown', shut => shut'
  PROVE  Inward'
BY DEF Inward

\* The application's socket has been shut down.
LEMMA InwardShut ==
  ASSUME Inward, UNCHANGED <<agot, net, csent, client>>, shut'
  PROVE  Inward'
BY DEF Inward

LEMMA InitHolds ==
  ASSUME Fwd!PollAssumption, Fwd!SizeAssumption, Fwd!Init
  PROVE  ForwardInv
<1>1. ForwardTypes
  <2>1. /\ in \in Seq(Nat) /\ out \in Seq(Nat) /\ net \in Seq(Nat) /\ tls \in Seq(Nat)
        /\ cgot \in Seq(Nat) /\ agot \in Seq(Nat) /\ up \in Seq(Nat) /\ down \in Seq(Nat)
        /\ Len(in) = 0 /\ Len(out) = 0 /\ Len(up) = 0 /\ Len(down) = 0
    BY NothingRuns DEF Fwd!Init
  <2>2. BufferSize \in Nat /\ PipeSize \in Nat
    BY DEF Fwd!SizeAssumption
  <2>3. /\ csent \in Nat /\ asent \in Nat
        /\ in_size \in {0, BufferSize} /\ out_size \in {0, BufferSize}
        /\ app_celi \subseteq Fwd!Celi /\ mhd_celi \subseteq Fwd!Celi
        /\ was_closed \in BOOLEAN /\ tls_ready \in BOOLEAN /\ fwd_shutdown \in BOOLEAN
        /\ seen_closed \in BOOLEAN /\ shut \in BOOLEAN
        /\ client \in {"open", "closed", "reset"} /\ fwd_app \in {"open", "closing", "closed"}
        /\ fwd_pc \in ForwardPlaces
    BY DEF Fwd!Init, ForwardPlaces
  <2> QED  BY <2>1, <2>2, <2>3 DEF ForwardTypes
<1>2. Closing
  BY DEF Fwd!Init, Closing
<1>3. Outward
  BY NothingRuns DEF Fwd!Init, Outward, Fwd!SizeAssumption
<1>4. Inward
  BY NothingRuns DEF Fwd!Init, Inward, Fwd!SizeAssumption
<1> QED  BY <1>1, <1>2, <1>3, <1>4 DEF ForwardInv

LEMMA ClientSendsKeeps ==
  ASSUME Fwd!SizeAssumption, ForwardInv, Fwd!ClientSends
  PROVE  ForwardInv'
<1> USE DEF ForwardInv, Fwd!ClientSends, Fwd!mvars, Fwd!avars, Fwd!urh
<1>1. /\ net' \in Seq(Nat) /\ Len(net') = Len(net) + 1
      /\ \A a \in Nat : Run(net, a) /\ csent + 1 = a + Len(net) + 1 => Run(net', a)
  BY AppendIs DEF ForwardTypes
<1>2. ForwardTypes'
  BY <1>1 DEF ForwardTypes
<1>3. Closing'
  BY DEF Closing
<1>4. Outward'
  BY OutwardSame
<1>5. Inward'
  <2> DEFINE before == Len(agot) + Len(down) + Len(in) + Len(tls)
  <2>1. before \in Nat /\ before' = before /\ csent \in Nat /\ Len(net) \in Nat
    BY DEF ForwardTypes
  <2>2. ~shut /\ in_size # 0 => Run(net', before) /\ before + Len(net') = csent'
    <3>1. ~shut /\ in_size # 0 => Run(net, before) /\ before + Len(net) = csent
      BY DEF Inward
    <3>2. csent' = csent + 1
      OBVIOUS
    <3> HIDE DEF before, Fwd!ClientSends
    <3> QED  BY <1>1, <2>1, <3>1, <3>2
  <2>3. csent <= csent' /\ client # "reset"
    BY <2>1
  <2>4. Len(agot) \in Nat /\ Len(down) \in Nat /\ Len(in) \in Nat /\ Len(tls) \in Nat
    BY DEF ForwardTypes
  <2> QED  BY <2>1, <2>2, <2>3, <2>4 DEF Inward
<1> QED  BY <1>2, <1>3, <1>4, <1>5

LEMMA ClientClosesKeeps ==
  ASSUME Fwd!SizeAssumption, ForwardInv, Fwd!ClientCloses
  PROVE  ForwardInv'
<1> USE DEF ForwardInv, Fwd!ClientCloses, Fwd!mvars, Fwd!avars, Fwd!urh
<1>2. ForwardTypes'
  BY DEF ForwardTypes
<1>3. Closing'
  BY DEF Closing
<1>4. Outward'
  BY OutwardSame
<1>5. Inward'
  BY InwardSame
<1> QED  BY <1>2, <1>3, <1>4, <1>5

LEMMA ClientResetsKeeps ==
  ASSUME Fwd!SizeAssumption, ForwardInv, Fwd!ClientResets
  PROVE  ForwardInv'
<1> USE DEF ForwardInv, Fwd!ClientResets, Fwd!mvars, Fwd!avars, Fwd!urh
<1>2. ForwardTypes'
  BY NothingRuns DEF ForwardTypes
<1>3. Closing'
  BY DEF Closing
<1>4. Outward'
  BY OutwardSame
<1>5. Inward'
  BY DEF Inward
<1> QED  BY <1>2, <1>3, <1>4, <1>5

LEMMA AppWritesKeeps ==
  ASSUME Fwd!SizeAssumption, ForwardInv, Fwd!AppWrites
  PROVE  ForwardInv'
<1> USE DEF ForwardInv, Fwd!AppWrites, Fwd!mvars, Fwd!cvars, Fwd!urh
<1>1. /\ up' \in Seq(Nat) /\ Len(up') = Len(up) + 1
      /\ \A a \in Nat : Run(up, a) /\ asent + 1 = a + Len(up) + 1 => Run(up', a)
  BY AppendIs DEF ForwardTypes
<1>2. ForwardTypes'
  BY <1>1 DEF ForwardTypes, Fwd!SizeAssumption
<1>3. Closing'
  BY DEF Closing
<1>4. Outward'
  BY <1>1 DEF Outward, ForwardTypes
<1>5. Inward'
  BY InwardSame
<1> QED  BY <1>2, <1>3, <1>4, <1>5

LEMMA AppReadsKeeps ==
  ASSUME Fwd!SizeAssumption, ForwardInv, Fwd!AppReads
  PROVE  ForwardInv'
<1> USE DEF ForwardInv, Fwd!AppReads, Fwd!mvars, Fwd!cvars, Fwd!urh
<1>1. /\ down' \in Seq(Nat) /\ Len(down') = Len(down) - 1 /\ Len(down) > 0
      /\ Head(down) \in Nat
      /\ \A a \in Nat : Run(down, a) => Head(down) = a + 1 /\ Run(down', a + 1)
  BY TailIs DEF ForwardTypes
<1>2. /\ agot' \in Seq(Nat) /\ Len(agot') = Len(agot) + 1
      /\ Run(agot, 0) /\ Head(down) = Len(agot) + 1 => Run(agot', 0)
  BY <1>1, AppendIs DEF ForwardTypes
<1>3. ForwardTypes'
  BY <1>1, <1>2 DEF ForwardTypes, Fwd!SizeAssumption
<1>4. Closing'
  BY DEF Closing
<1>5. Outward'
  BY OutwardSame
<1>6. Inward'
  <2>1. Len(agot) \in Nat /\ Len(down) \in Nat /\ Len(in) \in Nat /\ csent \in Nat
    BY DEF ForwardTypes
  <2>2. Run(down', Len(agot')) /\ Run(agot', 0)
    BY <1>1, <1>2, <2>1 DEF Inward
  <2>3. Len(agot') + Len(down') = Len(agot) + Len(down)
    BY <1>1, <1>2, <2>1
  <2>4. UNCHANGED <<in, in_size, tls, net, csent, client, shut, fwd_shutdown>>
    OBVIOUS
  <2>5. Len(agot') <= csent'
    BY <1>1, <1>2, <2>1 DEF Inward
  <2> HIDE DEF Fwd!AppReads
  <2> QED  BY <2>2, <2>3, <2>4, <2>5 DEF Inward
<1> QED  BY <1>3, <1>4, <1>5, <1>6

LEMMA AppShutsDownKeeps ==
  ASSUME Fwd!SizeAssumption, ForwardInv, Fwd!AppShutsDown
  PROVE  ForwardInv'
<1> USE DEF ForwardInv, Fwd!AppShutsDown, Fwd!mvars, Fwd!cvars, Fwd!urh
<1>2. ForwardTypes'
  BY NothingRuns DEF ForwardTypes, Fwd!SizeAssumption
<1>3. Closing'
  BY DEF Closing
<1>4. Outward'
  BY OutwardSame
<1>5. Inward'
  BY InwardShut
<1> QED  BY <1>2, <1>3, <1>4, <1>5

LEMMA MarkKeeps ==
  ASSUME Fwd!SizeAssumption, ForwardInv, Fwd!MHD_upgraded_connection_mark_app_closed_
  PROVE  ForwardInv'
<1> USE DEF ForwardInv, Fwd!MHD_upgraded_connection_mark_app_closed_, Fwd!cvars, Fwd!urh
<1>2. ForwardTypes'
  BY DEF ForwardTypes
<1>3. Closing'
  BY DEF Closing
<1>4. Outward'
  BY OutwardSame
<1>5. Inward'
  BY InwardSame
<1> QED  BY <1>2, <1>3, <1>4, <1>5

LEMMA StopDaemonKeeps ==
  ASSUME Fwd!SizeAssumption, ForwardInv, Fwd!StopDaemon
  PROVE  ForwardInv'
<1> USE DEF ForwardInv, Fwd!StopDaemon, Fwd!cvars, Fwd!avars, Fwd!urh
<1>2. ForwardTypes'
  BY DEF ForwardTypes
<1>3. Closing'
  BY DEF Closing
<1>4. Outward'
  BY OutwardSame
<1>5. Inward'
  BY InwardSame
<1> QED  BY <1>2, <1>3, <1>4, <1>5

LEMMA StopWakesKeeps ==
  ASSUME Fwd!SizeAssumption, ForwardInv, Fwd!StopWakes
  PROVE  ForwardInv'
<1> USE DEF ForwardInv, Fwd!StopWakes, Fwd!mvars, Fwd!cvars, Fwd!urh
<1>2. ForwardTypes'
  BY NothingRuns DEF ForwardTypes, Fwd!SizeAssumption
<1>3. Closing'
  BY DEF Closing
<1>4. Outward'
  BY OutwardSame
<1>5. Inward'
  BY InwardShut
<1> QED  BY <1>2, <1>3, <1>4, <1>5

LEMMA PollKeeps ==
  ASSUME Fwd!SizeAssumption, ForwardInv, NEW room \in BOOLEAN, Fwd!Poll(room)
  PROVE  ForwardInv'
<1> USE DEF ForwardInv, Fwd!Poll, Fwd!cvars, Fwd!avars
<1>1. /\ Fwd!ClientEvents(room) \subseteq Fwd!Celi /\ Fwd!PairEvents \subseteq Fwd!Celi
      /\ "ERROR" \in Fwd!ClientEvents(room) => client = "reset"
      /\ "ERROR" \in Fwd!PairEvents => shut
  BY DEF Fwd!ClientEvents, Fwd!PairEvents, Fwd!Celi
<1>2. ForwardTypes'
  BY <1>1 DEF ForwardTypes, ForwardPlaces
<1>3. Closing'
  BY <1>1 DEF Closing
<1>4. Outward'
  BY OutwardSame
<1>5. Inward'
  BY InwardSame
<1> QED  BY <1>2, <1>3, <1>4, <1>5

LEMMA StartKeeps ==
  ASSUME Fwd!SizeAssumption, ForwardInv, Fwd!Start
  PROVE  ForwardInv'
<1> USE DEF ForwardInv, Fwd!Start, Fwd!cvars, Fwd!avars
<1>1. /\ was_closed' \in BOOLEAN /\ was_closed' => shut \/ fwd_shutdown
      /\ seen_closed' = was_closed'
  BY DEF ForwardTypes, Closing
<1>2. ForwardTypes'
  <2>1. BufferSize \in Nat
    BY DEF Fwd!SizeAssumption
  <2>2. /\ in' \in Seq(Nat) /\ Len(in') <= BufferSize /\ in_size' \in {0, BufferSize}
        /\ tls_ready' \in BOOLEAN /\ mhd_celi' \subseteq Fwd!Celi /\ app_celi' \subseteq Fwd!Celi
    <3>1. CASE was_closed'
      <4>1. in' = <<>> /\ in_size' = 0 /\ tls_ready' = FALSE
        BY <3>1
      <4>2. in' \in Seq(Nat) /\ Len(in') = 0
        BY <4>1, NothingRuns
      <4>3. mhd_celi' \subseteq Fwd!Celi /\ app_celi' \subseteq Fwd!Celi
        BY <3>1 DEF ForwardTypes
      <4>4. Len(in') <= BufferSize /\ in_size' \in {0, BufferSize} /\ tls_ready' \in BOOLEAN
        <5> HIDE DEF Fwd!Start
        <5>1. Len(in') <= BufferSize
          BY <2>1, <4>2
        <5> QED  BY <4>1, <5>1
      <4> QED  BY <4>2, <4>3, <4>4
    <3>2. CASE ~was_closed'
      BY <3>2 DEF ForwardTypes
    <3> QED  BY <3>1, <3>2
  <2>3. fwd_pc' \in ForwardPlaces
    BY DEF ForwardPlaces
  <2>4. UNCHANGED <<out, net, tls, cgot, agot, up, down, csent, asent, out_size, fwd_shutdown,
                    shut, client, fwd_app>>
    OBVIOUS
  <2>5. seen_closed' \in BOOLEAN
    BY <1>1
  <2> HIDE DEF Fwd!Start
  <2> QED  BY <1>1, <2>2, <2>3, <2>4, <2>5 DEF ForwardTypes
<1>3. Closing'
  BY <1>1 DEF Closing
<1>4. Outward'
  BY OutwardSame
<1>5. Inward'
  <2>1. CASE ~was_closed'
    BY <2>1, InwardSame
  <2>2. CASE was_closed' /\ shut
    BY <2>2, InwardShut
  <2>3. CASE was_closed' /\ ~shut
    <3>1. /\ in' = <<>> /\ in_size' = 0 /\ fwd_shutdown' /\ ~shut'
          /\ UNCHANGED <<agot, down, csent, net, client>>
      BY <2>3, <1>1
    <3>2. Len(in') = 0 /\ \A a \in Nat : Run(in', a)
      BY <3>1, NothingRuns
    <3>3. /\ Len(agot) \in Nat /\ Len(down) \in Nat /\ Len(in) \in Nat /\ csent \in Nat
      BY DEF ForwardTypes
    <3> HIDE DEF Fwd!Start
    <3> QED  BY <2>3, <3>1, <3>2, <3>3 DEF Inward
  <2> QED  BY <1>1, <2>1, <2>2, <2>3
<1> QED  BY <1>2, <1>3, <1>4, <1>5

\* The front of one run is moved behind another.
LEMMA MoveIs ==
  ASSUME NEW s \in Seq(Nat), NEW t \in Seq(Nat), NEW n \in 0 .. Len(t)
  PROVE  /\ s \o Fwd!Take(t, n) \in Seq(Nat) /\ Len(s \o Fwd!Take(t, n)) = Len(s) + n
         /\ Fwd!Drop(t, n) \in Seq(Nat) /\ Len(Fwd!Drop(t, n)) = Len(t) - n
         /\ \A a \in Nat : Run(s, a) /\ Run(t, a + Len(s)) =>
              Run(s \o Fwd!Take(t, n), a) /\ Run(Fwd!Drop(t, n), a + Len(s) + n)
<1>1. /\ Fwd!Take(t, n) \in Seq(Nat) /\ Len(Fwd!Take(t, n)) = n
      /\ Fwd!Drop(t, n) \in Seq(Nat) /\ Len(Fwd!Drop(t, n)) = Len(t) - n
      /\ \A a \in Nat : Run(t, a) => Run(Fwd!Take(t, n), a) /\ Run(Fwd!Drop(t, n), a + n)
  BY TakeIs, DropIs
<1> DEFINE u == Fwd!Take(t, n)
           d == Fwd!Drop(t, n)
<1>2. /\ u \in Seq(Nat) /\ Len(u) = n
      /\ d \in Seq(Nat) /\ Len(d) = Len(t) - n
      /\ \A a \in Nat : Run(t, a) => Run(u, a) /\ Run(d, a + n)
  BY <1>1
<1>3. Len(s) \in Nat /\ n \in Nat
  OBVIOUS
<1> HIDE DEF u, d
<1>4. /\ s \o u \in Seq(Nat) /\ Len(s \o u) = Len(s) + Len(u)
      /\ \A a \in Nat : Run(s, a) /\ Run(u, a + Len(s)) => Run(s \o u, a)
  BY <1>2, ConcatIs
<1>5. ASSUME NEW a \in Nat, Run(s, a), Run(t, a + Len(s))
      PROVE  Run(s \o u, a) /\ Run(d, a + Len(s) + n)
  <2>1. a + Len(s) \in Nat
    BY <1>3
  <2>2. Run(u, a + Len(s)) /\ Run(d, a + Len(s) + n)
    BY <2>1, <1>2, <1>5
  <2> QED  BY <2>2, <1>4, <1>5
<1>6. /\ s \o u \in Seq(Nat) /\ Len(s \o u) = Len(s) + n
      /\ d \in Seq(Nat) /\ Len(d) = Len(t) - n
      /\ \A a \in Nat : Run(s, a) /\ Run(t, a + Len(s)) =>
              Run(s \o u, a) /\ Run(d, a + Len(s) + n)
  BY <1>2, <1>4, <1>5
<1> QED  BY <1>6 DEF u, d

LEMMA NoneLeft == \A s \in Seq(Nat) : Len(s) = 0 => s = <<>>
OBVIOUS

\* What is decrypted of w behind t, and how much of it fits into the room.
Record(t, w, r, room, data, n) == data = t \o Fwd!Take(w, r) /\ n = Fwd!Min({Len(data), room})

\* n bytes of the data have gone into the buffer.
Moved(r, data, n) ==
  /\ in' = in \o Fwd!Take(data, n) /\ tls' = Fwd!Drop(data, n) /\ net' = Fwd!Drop(net, r)

\* r bytes of w have been decrypted behind t, and n bytes of it all have gone behind i.
Passed(i, t, w, r, data, n) ==
  /\ n \in Nat
  /\ i \o Fwd!Take(data, n) \in Seq(Nat) /\ Len(i \o Fwd!Take(data, n)) = Len(i) + n
  /\ Fwd!Drop(data, n) \in Seq(Nat) /\ Len(Fwd!Drop(data, n)) = Len(t) + r - n
  /\ Len(Fwd!Drop(data, n)) \in Nat
  /\ Fwd!Drop(w, r) \in Seq(Nat) /\ Len(Fwd!Drop(w, r)) = Len(w) - r
  /\ \A a \in Nat : Run(i, a) /\ Run(t, a + Len(i)) /\ (r = 0 \/ Run(w, a + Len(i) + Len(t)))
       => Run(i \o Fwd!Take(data, n), a) /\ Run(Fwd!Drop(data, n), a + Len(i) + n)
  /\ \A b \in Nat : Run(w, b) => Run(Fwd!Drop(w, r), b + r)

\* What gnutls_record_recv() decrypts and what it gives: the next of what the client
\* has sent.
LEMMA RecordIs ==
  ASSUME NEW i \in Seq(Nat), NEW t \in Seq(Nat), NEW w \in Seq(Nat),
         NEW room \in Nat, NEW r \in 0 .. Len(w),
         NEW data, NEW n, Record(t, w, r, room, data, n)
  PROVE  n <= room /\ Passed(i, t, w, r, data, n)
<1>1. /\ Fwd!Take(w, r) \in Seq(Nat) /\ Len(Fwd!Take(w, r)) = r
      /\ Fwd!Drop(w, r) \in Seq(Nat) /\ Len(Fwd!Drop(w, r)) = Len(w) - r
      /\ \A b \in Nat : Run(w, b) => Run(Fwd!Take(w, r), b) /\ Run(Fwd!Drop(w, r), b + r)
  BY TakeIs, DropIs
<1>2. r = 0 => \A b \in Nat : Run(Fwd!Take(w, r), b)
  BY <1>1 DEF Run
<1>3. /\ data \in Seq(Nat) /\ Len(data) = Len(t) + r
      /\ \A b \in Nat : Run(t, b) /\ Run(Fwd!Take(w, r), b + Len(t)) => Run(data, b)
  BY <1>1, ConcatIs, ZenonT(60) DEF Record
<1>4. n \in Nat /\ n <= room /\ n \in 0 .. Len(data)
  <2>1. Len(data) \in Nat
    BY <1>3
  <2>2. n \in Nat /\ n <= Len(data) /\ n <= room
    BY <2>1, MinOfTwo DEF Record
  <2> QED  BY <2>1, <2>2
<1>5. /\ i \o Fwd!Take(data, n) \in Seq(Nat) /\ Len(i \o Fwd!Take(data, n)) = Len(i) + n
      /\ Fwd!Drop(data, n) \in Seq(Nat) /\ Len(Fwd!Drop(data, n)) = Len(data) - n
      /\ \A a \in Nat : Run(i, a) /\ Run(data, a + Len(i)) =>
           Run(i \o Fwd!Take(data, n), a) /\ Run(Fwd!Drop(data, n), a + Len(i) + n)
  BY <1>3, <1>4, MoveIs, Zenon
<1>6. ASSUME NEW a \in Nat, Run(i, a), Run(t, a + Len(i)), r = 0 \/ Run(w, a + Len(i) + Len(t))
      PROVE  Run(i \o Fwd!Take(data, n), a) /\ Run(Fwd!Drop(data, n), a + Len(i) + n)
  <2>1. a + Len(i) \in Nat /\ a + Len(i) + Len(t) \in Nat
    OBVIOUS
  <2>2. Run(Fwd!Take(w, r), a + Len(i) + Len(t))
    BY <2>1, <1>1, <1>2, <1>6, Zenon
  <2>3. Run(data, a + Len(i))
    BY <2>1, <2>2, <1>3, <1>6, Zenon
  <2> QED  BY <2>3, <1>5, <1>6, Zenon
<1>7. Len(Fwd!Drop(data, n)) = Len(t) + r - n /\ Len(Fwd!Drop(data, n)) \in Nat
  <2>1. Len(data) = Len(t) + r /\ Len(Fwd!Drop(data, n)) = Len(data) - n
    BY <1>3, <1>5
  <2>2. Len(data) \in Nat /\ Len(t) \in Nat /\ r \in Nat
    BY <1>3
  <2> QED  BY <2>1, <2>2, <1>4
<1>8. Len(i \o Fwd!Take(data, n)) = Len(i) + n
  BY <1>5
<1> QED  BY <1>1, <1>4, <1>5, <1>6, <1>7, Zenon DEF Passed

\* So what is still on its way to the application goes on being a run.
LEMMA RecordRead ==
  ASSUME Fwd!SizeAssumption, ForwardInv, Fwd!Space,
         NEW r \in IF tls # <<>> THEN {0} ELSE 1 .. Len(net),
         NEW data, NEW n, Record(tls, net, r, in_size - Len(in), data, n), Moved(r, data, n),
         UNCHANGED <<in_size, agot, down, csent, client, shut, fwd_shutdown>>
  PROVE  /\ in' \in Seq(Nat) /\ tls' \in Seq(Nat) /\ net' \in Seq(Nat)
         /\ Len(in') <= BufferSize
         /\ Inward'
<1>1. /\ in \in Seq(Nat) /\ tls \in Seq(Nat) /\ net \in Seq(Nat)
      /\ in_size \in {0, BufferSize} /\ BufferSize \in Nat
      /\ agot \in Seq(Nat) /\ down \in Seq(Nat) /\ csent \in Nat
  BY DEF ForwardInv, ForwardTypes, Fwd!SizeAssumption
<1>2. /\ Len(in) \in Nat /\ Len(tls) \in Nat /\ Len(net) \in Nat
      /\ Len(agot) \in Nat /\ Len(down) \in Nat
  BY <1>1
<1>3. Len(in) < in_size /\ in_size = BufferSize /\ in_size # 0 /\ in_size - Len(in) \in Nat
  BY <1>1, <1>2 DEF Fwd!Space
<1>4. r \in 0 .. Len(net) /\ r \in Nat /\ r <= Len(net)
  BY <1>2
<1>5. /\ n \in Nat /\ n <= in_size - Len(in)
      /\ in' \in Seq(Nat) /\ Len(in') = Len(in) + n
      /\ tls' \in Seq(Nat) /\ Len(tls') = Len(tls) + r - n /\ Len(tls') \in Nat
      /\ net' \in Seq(Nat) /\ Len(net') = Len(net) - r
      /\ \A a \in Nat : Run(in, a) /\ Run(tls, a + Len(in)) /\ (r = 0 \/ Run(net, a + Len(in) + Len(tls)))
           => Run(in', a) /\ Run(tls', a + Len(in) + n)
      /\ \A b \in Nat : Run(net, b) => Run(net', b + r)
  <2>1. /\ n \in Nat /\ n <= in_size - Len(in)
        /\ in \o Fwd!Take(data, n) \in Seq(Nat) /\ Len(in \o Fwd!Take(data, n)) = Len(in) + n
        /\ Fwd!Drop(data, n) \in Seq(Nat) /\ Len(Fwd!Drop(data, n)) = Len(tls) + r - n
        /\ Len(Fwd!Drop(data, n)) \in Nat
        /\ Fwd!Drop(net, r) \in Seq(Nat) /\ Len(Fwd!Drop(net, r)) = Len(net) - r
        /\ \A a \in Nat : Run(in, a) /\ Run(tls, a + Len(in)) /\ (r = 0 \/ Run(net, a + Len(in) + Len(tls)))
             => Run(in \o Fwd!Take(data, n), a) /\ Run(Fwd!Drop(data, n), a + Len(in) + n)
        /\ \A b \in Nat : Run(net, b) => Run(Fwd!Drop(net, r), b + r)
    <3> DEFINE room == in_size - Len(in)
    <3>1. /\ in \in Seq(Nat) /\ tls \in Seq(Nat) /\ net \in Seq(Nat)
          /\ room \in Nat /\ r \in 0 .. Len(net)
      BY <1>1, <1>3, <1>4
    <3>2. Record(tls, net, r, room, data, n)
      OBVIOUS
    <3> HIDE DEF room
    <3>3. n <= room /\ Passed(in, tls, net, r, data, n)
      BY <3>1, <3>2, RecordIs
    <3> QED  BY <3>3, Zenon DEF room, Passed
  <2> QED  BY <2>1, Zenon DEF Moved
<1> HIDE DEF Fwd!Space
<1>6. Len(in') <= BufferSize
  BY <1>1, <1>2, <1>3, <1>5
<1>7. client = "reset" => r = 0 /\ Len(net') = 0 /\ net' = <<>>
  <2>1. client = "reset" => Len(net) = 0
    BY NothingRuns DEF ForwardInv, Inward
  <2>2. client = "reset" => r = 0 /\ Len(net') = 0
    BY <2>1, <1>2, <1>4, <1>5
  <2>3. net' \in Seq(Nat)
    BY <1>5
  <2> QED  BY <2>2, <2>3, NoneLeft, Zenon
<1> DEFINE a0 == Len(agot) + Len(down)
<1>8. a0 \in Nat
  BY <1>2
<1>9. ASSUME ~shut
      PROVE  /\ Run(agot, 0) /\ Run(down, Len(agot)) /\ Run(in, a0) /\ Run(tls, a0 + Len(in))
             /\ a0 + Len(in) + Len(tls) <= csent
             /\ client # "reset" => /\ Run(net, a0 + Len(in) + Len(tls))
                                    /\ a0 + Len(in) + Len(tls) + Len(net) = csent
  BY <1>3, <1>9 DEF ForwardInv, Inward
<1>10. /\ UNCHANGED <<in_size, agot, down, csent, client, shut, fwd_shutdown>>
       /\ a0 = Len(agot) + Len(down) /\ Run(agot, 0) /\ Len(agot) <= csent
  BY DEF ForwardInv, Inward
<1> HIDE DEF a0
<1>11. ASSUME ~shut
       PROVE  /\ Run(in', a0) /\ Run(tls', a0 + Len(in'))
              /\ a0 + Len(in') + Len(tls') <= csent /\ a0 + Len(in') <= csent
              /\ client # "reset" => /\ Run(net', a0 + Len(in') + Len(tls'))
                                     /\ a0 + Len(in') + Len(tls') + Len(net') = csent
  <2>1. r = 0 \/ Run(net, a0 + Len(in) + Len(tls))
    BY <1>7, <1>9, <1>11
  <2>2. Run(in', a0) /\ Run(tls', a0 + Len(in) + n)
    BY <1>5, <1>8, <1>9, <1>11, <2>1
  <2>3. a0 + Len(in) + n = a0 + Len(in')
    BY <1>2, <1>5, <1>8
  <2>4. a0 + Len(in') + Len(tls') = a0 + Len(in) + Len(tls) + r
    BY <1>2, <1>4, <1>5, <1>8
  <2>5. ASSUME client # "reset"
        PROVE  /\ Run(net', a0 + Len(in') + Len(tls'))
               /\ a0 + Len(in') + Len(tls') + Len(net') = csent
    <3>1. a0 + Len(in) + Len(tls) \in Nat
      BY <1>2, <1>8
    <3>2. Run(net', a0 + Len(in) + Len(tls) + r)
      BY <3>1, <1>5, <1>9, <1>11, <2>5
    <3>3. a0 + Len(in) + Len(tls) + r + Len(net') = csent
      BY <1>2, <1>4, <1>5, <1>8, <1>9, <1>11, <2>5
    <3> QED  BY <3>2, <3>3, <2>4
  <2>6. a0 + Len(in') + Len(tls') <= csent
    <3>1. CASE client = "reset"
      BY <3>1, <1>2, <1>7, <1>8, <1>9, <1>11, <2>4
    <3>2. CASE client # "reset"
      BY <3>2, <1>2, <1>4, <1>5, <1>8, <2>5
    <3> QED  BY <3>1, <3>2
  <2>7. a0 + Len(in') <= csent
    BY <2>6, <1>1, <1>2, <1>5, <1>8
  <2> QED  BY <2>2, <2>3, <2>5, <2>6, <2>7
<1>12. Inward'
  <2>1. ~shut => Run(down, Len(agot))
    BY <1>9
  <2> QED  BY <1>3, <1>7, <1>10, <1>11, <2>1 DEF Inward
<1> QED  BY <1>5, <1>6, <1>12

LEMMA RecvClientKeeps ==
  ASSUME Fwd!SizeAssumption, ForwardInv, Fwd!RecvClient
  PROVE  ForwardInv'
<1> USE DEF ForwardInv
<1>1. /\ UNCHANGED <<out, out_size, mhd_celi, was_closed, fwd_shutdown, seen_closed, client,
                     csent, cgot, fwd_app, shut, asent, up, down, agot>>
      /\ fwd_pc = "recv_client" /\ fwd_pc' = "recv_app"
  BY DEF Fwd!RecvClient, Fwd!avars
<1>2. Outward'
  BY <1>1, OutwardSame
<1>3. CASE UNCHANGED <<in, in_size, app_celi, tls_ready, net, tls>>
  <2>1. ForwardTypes'
    BY <1>1, <1>3 DEF ForwardTypes, ForwardPlaces
  <2>2. Closing'
    BY <1>1, <1>3 DEF Closing
  <2>3. Inward'
    BY <1>1, <1>3, InwardSame
  <2> QED  BY <1>2, <2>1, <2>2, <2>3
<1>4. CASE /\ Fwd!Space
           /\ \E r \in IF tls # <<>> THEN {0} ELSE 1 .. Len(net) :
                LET data == tls \o Fwd!Take(net, r)
                    n == Fwd!Min({Len(data), in_size - Len(in)})
                IN /\ in' = in \o Fwd!Take(data, n)
                   /\ tls' = Fwd!Drop(data, n) /\ net' = Fwd!Drop(net, r)
                   /\ tls_ready' = (tls' # <<>>)
                   /\ UNCHANGED <<in_size, app_celi>>
  <2>1. /\ in' \in Seq(Nat) /\ tls' \in Seq(Nat) /\ net' \in Seq(Nat)
        /\ Len(in') <= BufferSize /\ Inward'
        /\ tls_ready' \in BOOLEAN /\ UNCHANGED <<in_size, app_celi>>
    <3>1. PICK r \in IF tls # <<>> THEN {0} ELSE 1 .. Len(net) :
                LET data == tls \o Fwd!Take(net, r)
                    n == Fwd!Min({Len(data), in_size - Len(in)})
                IN /\ in' = in \o Fwd!Take(data, n)
                   /\ tls' = Fwd!Drop(data, n) /\ net' = Fwd!Drop(net, r)
                   /\ tls_ready' = (tls' # <<>>)
                   /\ UNCHANGED <<in_size, app_celi>>
      BY <1>4
    <3> DEFINE data == tls \o Fwd!Take(net, r)
               n == Fwd!Min({Len(data), in_size - Len(in)})
    <3>2. Record(tls, net, r, in_size - Len(in), data, n) /\ Moved(r, data, n)
      BY <3>1 DEF Record, Moved
    <3> HIDE DEF data, n
    <3> QED  BY <1>1, <1>4, <3>1, <3>2, RecordRead
  <2>2. ForwardTypes'
    BY <1>1, <2>1 DEF ForwardTypes, ForwardPlaces
  <2>3. Closing'
    BY <1>1, <2>1, <1>4 DEF Closing
  <2> QED  BY <1>2, <2>1, <2>2, <2>3
<1>5. CASE /\ tls = <<>> /\ net = <<>>
           /\ app_celi' = app_celi \ {"READ_READY"}
           /\ in_size' = IF client # "open" \/ "ERROR" \in app_celi THEN 0 ELSE in_size
           /\ tls_ready' = FALSE
           /\ UNCHANGED <<in, net, tls>>
  <2>1. ForwardTypes'
    BY <1>1, <1>5 DEF ForwardTypes, ForwardPlaces
  <2>2. Closing'
    BY <1>1, <1>5 DEF Closing
  <2>3. Inward'
    <3>1. CASE in_size' = in_size
      BY <1>1, <1>5, <3>1, InwardSame
    <3>2. CASE in_size' # in_size
      <4>1. in_size' = 0 /\ in_size # 0 /\ client # "open"
        BY <1>5, <3>2 DEF Closing
      <4>2. Len(tls) = 0 /\ Len(net) = 0
        BY <1>5, NothingRuns
      <4>3. Len(agot) \in Nat /\ Len(down) \in Nat /\ Len(in) \in Nat /\ csent \in Nat
        BY DEF ForwardTypes
      <4>4. client \in {"closed", "reset"}
        BY <4>1 DEF ForwardTypes
      <4>5. UNCHANGED <<in, net, tls>>
        BY <1>5
      <4>6. ~shut /\ client # "reset" => client = "closed" /\ Len(agot) + Len(down) + Len(in) = csent
        BY <4>1, <4>2, <4>3, <4>4 DEF Inward
      <4> QED  BY <1>1, <4>1, <4>5, <4>6 DEF Inward
    <3> QED  BY <3>1, <3>2
  <2> QED  BY <1>2, <2>1, <2>2, <2>3
<1> QED  BY <1>3, <1>4, <1>5 DEF Fwd!RecvClient

LEMMA RecvAppKeeps ==
  ASSUME Fwd!SizeAssumption, ForwardInv, Fwd!RecvApp
  PROVE  ForwardInv'
<1>1. /\ UNCHANGED <<in, in_size, app_celi, was_closed, tls_ready, fwd_shutdown, seen_closed,
                     client, csent, net, tls, cgot, fwd_app, shut, asent, down, agot>>
      /\ fwd_pc = "recv_app" /\ fwd_pc' = "send_client"
  BY DEF Fwd!RecvApp, Fwd!cvars
<1>2. Inward'
  BY <1>1, InwardSame DEF ForwardInv
<1>3. CASE UNCHANGED <<out, out_size, mhd_celi, up>>
  <2>1. ForwardTypes'
    BY <1>1, <1>3 DEF ForwardInv, ForwardTypes, ForwardPlaces
  <2>2. Closing'
    BY <1>1, <1>3 DEF ForwardInv, Closing
  <2>3. Outward'
    BY <1>1, <1>3, OutwardSame DEF ForwardInv
  <2> QED  BY <1>2, <2>1, <2>2, <2>3 DEF ForwardInv
<1>4. ASSUME NEW n, n = Fwd!Min({Len(up), out_size - Len(out)}), Len(out) < out_size,
             out' = out \o Fwd!Take(up, n), up' = Fwd!Drop(up, n),
             mhd_celi' \subseteq mhd_celi,
             out_size' = IF n = 0 /\ (shut \/ seen_closed \/ "ERROR" \in mhd_celi)
                         THEN 0 ELSE out_size
      PROVE  ForwardInv'
  <2>1. /\ out \in Seq(Nat) /\ up \in Seq(Nat) /\ cgot \in Seq(Nat) /\ asent \in Nat
        /\ out_size \in {0, BufferSize} /\ BufferSize \in Nat /\ PipeSize \in Nat
        /\ Len(up) <= PipeSize /\ mhd_celi' \subseteq Fwd!Celi
    BY <1>4 DEF ForwardInv, ForwardTypes, Fwd!SizeAssumption
  <2>2. Len(out) \in Nat /\ Len(up) \in Nat /\ Len(cgot) \in Nat
    BY <2>1
  <2>3. out_size = BufferSize /\ out_size # 0 /\ out_size - Len(out) \in Nat
    BY <1>4, <2>1, <2>2
  <2>4. n \in Nat /\ n <= Len(up) /\ n <= out_size - Len(out) /\ n \in 0 .. Len(up)
        /\ (n = Len(up) \/ n = out_size - Len(out))
    <3>1. n \in Nat /\ n <= Len(up) /\ n <= out_size - Len(out)
          /\ (n = Len(up) \/ n = out_size - Len(out))
      BY <1>4, <2>2, <2>3, MinOfTwo, Zenon
    <3> QED  BY <2>2, <3>1
  <2>5. /\ out' \in Seq(Nat) /\ Len(out') = Len(out) + n
        /\ up' \in Seq(Nat) /\ Len(up') = Len(up) - n
        /\ \A a \in Nat : Run(out, a) /\ Run(up, a + Len(out)) =>
             Run(out', a) /\ Run(up', a + Len(out) + n)
    <3>1. /\ out \o Fwd!Take(up, n) \in Seq(Nat) /\ Len(out \o Fwd!Take(up, n)) = Len(out) + n
          /\ Fwd!Drop(up, n) \in Seq(Nat) /\ Len(Fwd!Drop(up, n)) = Len(up) - n
          /\ \A a \in Nat : Run(out, a) /\ Run(up, a + Len(out)) =>
               Run(out \o Fwd!Take(up, n), a) /\ Run(Fwd!Drop(up, n), a + Len(out) + n)
      BY <2>1, <2>4, MoveIs, Zenon
    <3> QED  BY <1>4, <3>1, Zenon
  <2>6. Len(out') <= BufferSize /\ Len(up') <= PipeSize
    BY <2>1, <2>2, <2>3, <2>4, <2>5
  <2>7. out_size' \in {0, BufferSize}
    BY <1>4, <2>1
  <2>8. ForwardTypes'
    BY <1>1, <2>1, <2>5, <2>6, <2>7 DEF ForwardInv, ForwardTypes, ForwardPlaces
  <2>9. Closing'
    BY <1>1, <1>4 DEF ForwardInv, Closing
  <2>10. /\ Run(cgot, 0) /\ Run(out, Len(cgot)) /\ Run(up, Len(cgot) + Len(out))
         /\ Len(cgot) + Len(out) + Len(up) = asent
    BY <2>3 DEF ForwardInv, Outward
  <2>11. Run(out', Len(cgot)) /\ Run(up', Len(cgot) + Len(out'))
    <3>1. Len(cgot) + Len(out) + n = Len(cgot) + Len(out')
      BY <2>2, <2>4, <2>5
    <3> QED  BY <2>2, <2>5, <2>10, <3>1
  <2>12. Len(cgot) + Len(out') + Len(up') = asent /\ Len(cgot) + Len(out') <= asent
    <3>1. Len(out') \in Nat /\ Len(up') \in Nat
      BY <2>5
    <3>2. Len(out') + Len(up') = Len(out) + Len(up)
      BY <2>2, <2>4, <2>5
    <3> QED  BY <2>1, <2>2, <2>10, <3>1, <3>2
  <2>13. out_size' = 0 /\ ~fwd_shutdown => shut /\ Len(cgot) + Len(out') = asent
    <3>1. out_size' = 0 => n = 0 /\ (shut \/ seen_closed \/ "ERROR" \in mhd_celi)
      BY <1>4, <2>3
    <3>2. out_size' = 0 /\ ~fwd_shutdown => shut
      BY <3>1 DEF ForwardInv, Closing
    <3>3. n = 0 => Len(up) = 0
      BY <1>4, <2>1, <2>2, <2>3, <2>4
    <3> QED  BY <2>1, <2>2, <2>4, <2>5, <2>10, <3>1, <3>2, <3>3
  <2>14. Outward'
    BY <1>1, <2>10, <2>11, <2>12, <2>13 DEF Outward
  <2> QED  BY <1>2, <2>8, <2>9, <2>14 DEF ForwardInv
<1> QED
  <2>1. CASE ~((mhd_celi \cap {"ERROR", "READ_READY"} # {} \/ seen_closed)
               /\ Len(out) < out_size)
    BY <1>3, <2>1 DEF Fwd!RecvApp
  <2>2. CASE (mhd_celi \cap {"ERROR", "READ_READY"} # {} \/ seen_closed)
              /\ Len(out) < out_size
    <3> DEFINE n == Fwd!Min({Len(up), out_size - Len(out)})
    <3>1. /\ out' = out \o Fwd!Take(up, n) /\ up' = Fwd!Drop(up, n)
          /\ mhd_celi' = IF Len(out') < out_size THEN mhd_celi \ {"READ_READY"} ELSE mhd_celi
          /\ out_size' = IF n = 0 /\ (shut \/ seen_closed \/ "ERROR" \in mhd_celi)
                         THEN 0 ELSE out_size
      BY <2>2 DEF Fwd!RecvApp
    <3>2. mhd_celi' \subseteq mhd_celi
      BY <3>1
    <3> QED  BY <2>2, <3>1, <3>2, <1>4
  <2> QED  BY <2>1, <2>2

LEMMA SendClientKeeps ==
  ASSUME Fwd!SizeAssumption, ForwardInv, Fwd!SendClient
  PROVE  ForwardInv'
<1>1. /\ UNCHANGED <<in, in_size, was_closed, tls_ready, fwd_shutdown, seen_closed,
                     client, csent, net, tls, fwd_app, shut, asent, up, down, agot>>
      /\ fwd_pc = "send_client" /\ fwd_pc' = "send_app"
  BY DEF Fwd!SendClient, Fwd!avars
<1>2. Inward'
  BY <1>1, InwardSame DEF ForwardInv
<1>3. /\ out \in Seq(Nat) /\ up \in Seq(Nat) /\ cgot \in Seq(Nat) /\ asent \in Nat
      /\ out_size \in {0, BufferSize} /\ BufferSize \in Nat /\ Len(out) <= BufferSize
      /\ Len(out) \in Nat /\ Len(up) \in Nat /\ Len(cgot) \in Nat
  BY DEF ForwardInv, ForwardTypes, Fwd!SizeAssumption
<1>4. CASE /\ UNCHANGED <<out, out_size, mhd_celi, cgot>>
           /\ app_celi' \subseteq app_celi
  <2>1. ForwardTypes'
    BY <1>1, <1>4 DEF ForwardInv, ForwardTypes, ForwardPlaces
  <2>2. Closing'
    BY <1>1, <1>4 DEF ForwardInv, Closing
  <2>3. Outward'
    BY <1>1, <1>4, OutwardSame DEF ForwardInv
  <2> QED  BY <1>2, <2>1, <2>2, <2>3 DEF ForwardInv
<1>5. ASSUME NEW n \in 1 .. Len(out), cgot' = cgot \o Fwd!Take(out, n),
             out' = Fwd!Drop(out, n), UNCHANGED <<out_size, app_celi, mhd_celi>>
      PROVE  ForwardInv'
  <2>1. n \in 0 .. Len(out) /\ n \in Nat /\ n <= Len(out)
    BY <1>3, <1>5
  <2>2. /\ cgot' \in Seq(Nat) /\ Len(cgot') = Len(cgot) + n
        /\ out' \in Seq(Nat) /\ Len(out') = Len(out) - n
        /\ \A a \in Nat : Run(cgot, a) /\ Run(out, a + Len(cgot)) =>
             Run(cgot', a) /\ Run(out', a + Len(cgot) + n)
    BY <1>3, <1>5, <2>1, MoveIs
  <2>3. Len(out') <= BufferSize /\ Len(cgot') + Len(out') = Len(cgot) + Len(out)
    BY <1>3, <2>1, <2>2
  <2>4. ForwardTypes'
    BY <1>1, <1>5, <2>2, <2>3 DEF ForwardInv, ForwardTypes, ForwardPlaces
  <2>5. Closing'
    BY <1>1, <1>5 DEF ForwardInv, Closing
  <2>6. Run(cgot', 0) /\ Run(out', Len(cgot'))
    <3>1. Run(cgot, 0) /\ Run(out, 0 + Len(cgot)) /\ 0 + Len(cgot) + n = Len(cgot')
      BY <1>3, <2>1, <2>2 DEF ForwardInv, Outward
    <3> QED  BY <2>2, <3>1
  <2>7. Outward'
    BY <1>1, <1>5, <2>3, <2>6 DEF ForwardInv, Outward
  <2> QED  BY <1>2, <2>4, <2>5, <2>7 DEF ForwardInv
<1>6. ASSUME Fwd!OutDiscarded, client # "open",
             \/ cgot' = cgot
             \/ cgot' = cgot \o Fwd!Take(out, Len(out))
      PROVE  ForwardInv'
  <2>1. /\ out' = <<>> /\ Len(out') = 0 /\ out_size' = 0 /\ out' \in Seq(Nat)
        /\ \A a \in Nat : Run(out', a)
        /\ app_celi' \subseteq app_celi /\ mhd_celi' \subseteq mhd_celi
    BY <1>6, NothingRuns DEF Fwd!OutDiscarded
  <2>2. /\ cgot' \in Seq(Nat) /\ Run(cgot', 0)
        /\ Len(cgot') <= Len(cgot) + Len(out)
    <3>1. Run(cgot, 0) /\ Run(out, 0 + Len(cgot)) /\ Len(out) \in 0 .. Len(out)
      BY <1>3 DEF ForwardInv, Outward
    <3>2. CASE cgot' = cgot
      BY <1>3, <3>1, <3>2
    <3>3. CASE cgot' = cgot \o Fwd!Take(out, Len(out))
      <4>1. /\ cgot' \in Seq(Nat) /\ Len(cgot') = Len(cgot) + Len(out)
            /\ \A a \in Nat : Run(cgot, a) /\ Run(out, a + Len(cgot)) => Run(cgot', a)
        BY <1>3, <3>1, <3>3, MoveIs
      <4> QED  BY <1>3, <3>1, <4>1
    <3> QED  BY <1>6, <3>2, <3>3
  <2>3. ForwardTypes'
    <3>1. Len(out') <= BufferSize /\ out_size' \in {0, BufferSize}
      BY <1>3, <2>1
    <3> QED  BY <1>1, <2>1, <2>2, <3>1 DEF ForwardInv, ForwardTypes, ForwardPlaces
  <2>4. Closing'
    BY <1>1, <2>1 DEF ForwardInv, Closing
  <2>5. Len(cgot') + Len(out') <= asent
    BY <1>3, <2>1, <2>2 DEF ForwardInv, Outward
  <2>6. Run(out', Len(cgot'))
    BY <2>1, <2>2
  <2>7. Outward'
    BY <1>1, <1>6, <2>1, <2>2, <2>5, <2>6 DEF Outward
  <2> QED  BY <1>2, <2>3, <2>4, <2>7 DEF ForwardInv
<1> QED
  <2>1. CASE "WRITE_READY" \notin app_celi \/ out = <<>>
    BY <1>4, <2>1 DEF Fwd!SendClient
  <2>2. CASE ~("WRITE_READY" \notin app_celi \/ out = <<>>)
    <3>1. CASE \E n \in 1 .. Len(out) :
                 /\ client # "reset"
                 /\ cgot' = cgot \o Fwd!Take(out, n)
                 /\ IF n = Len(out) /\ "ERROR" \in app_celi THEN Fwd!OutDiscarded
                    ELSE out' = Fwd!Drop(out, n) /\ UNCHANGED <<out_size, app_celi, mhd_celi>>
      BY <1>5, <3>1 DEF ForwardInv, Closing
    <3>2. CASE /\ app_celi' = app_celi \ {"WRITE_READY"}
               /\ UNCHANGED <<out, out_size, mhd_celi, cgot>>
      BY <1>4, <3>2
    <3>3. CASE client # "open" /\ Fwd!OutDiscarded /\ cgot' = cgot
      BY <1>6, <3>3
    <3> QED  BY <2>2, <3>1, <3>2, <3>3 DEF Fwd!SendClient
  <2> QED  BY <2>1, <2>2

LEMMA SendAppKeeps ==
  ASSUME Fwd!SizeAssumption, ForwardInv, Fwd!SendApp
  PROVE  ForwardInv'
<1>1. /\ UNCHANGED <<out, out_size, was_closed, fwd_shutdown, seen_closed, client, csent, net,
                     tls, cgot, fwd_app, shut, asent, up, agot>>
      /\ fwd_pc = "send_app" /\ fwd_pc' = "end"
  BY DEF Fwd!SendApp, Fwd!cvars
<1>2. Outward'
  BY <1>1, OutwardSame DEF ForwardInv
<1>3. /\ in \in Seq(Nat) /\ down \in Seq(Nat) /\ agot \in Seq(Nat) /\ csent \in Nat
      /\ in_size \in {0, BufferSize} /\ BufferSize \in Nat /\ PipeSize \in Nat
      /\ Len(in) <= BufferSize /\ Len(down) <= PipeSize
      /\ Len(in) \in Nat /\ Len(down) \in Nat /\ Len(agot) \in Nat
  BY DEF ForwardInv, ForwardTypes, Fwd!SizeAssumption
<1>4. CASE UNCHANGED <<in, in_size, tls_ready, mhd_celi, app_celi, down>>
  <2>1. ForwardTypes'
    BY <1>1, <1>4 DEF ForwardInv, ForwardTypes, ForwardPlaces
  <2>2. Closing'
    BY <1>1, <1>4 DEF ForwardInv, Closing
  <2>3. Inward'
    BY <1>1, <1>4, InwardSame DEF ForwardInv
  <2> QED  BY <1>2, <2>1, <2>2, <2>3 DEF ForwardInv
<1>5. CASE shut /\ Fwd!InDiscarded /\ down' = down
  <2>1. /\ in' = <<>> /\ in_size' = 0 /\ tls_ready' = FALSE
        /\ mhd_celi' \subseteq mhd_celi /\ app_celi' \subseteq app_celi
        /\ in' \in Seq(Nat) /\ Len(in') = 0
    BY <1>5, NothingRuns DEF Fwd!InDiscarded
  <2>2. ForwardTypes'
    <3>1. Len(in') <= BufferSize /\ in_size' \in {0, BufferSize}
      BY <1>3, <2>1
    <3>2. tls_ready' \in BOOLEAN
      BY <2>1
    <3> QED  BY <1>1, <1>5, <2>1, <3>1, <3>2 DEF ForwardInv, ForwardTypes, ForwardPlaces
  <2>3. Closing'
    BY <1>1, <2>1 DEF ForwardInv, Closing
  <2>4. Inward'
    BY <1>1, <1>5, InwardShut DEF ForwardInv
  <2> QED  BY <1>2, <2>2, <2>3, <2>4 DEF ForwardInv
<1>6. ASSUME ~shut, NEW n, n = Fwd!Min({Len(in), PipeSize - Len(down)}),
             down' = down \o Fwd!Take(in, n), in' = Fwd!Drop(in, n),
             mhd_celi' \subseteq mhd_celi, UNCHANGED <<in_size, tls_ready, app_celi>>
      PROVE  ForwardInv'
  <2>1. PipeSize - Len(down) \in Nat
    BY <1>3
  <2>2. n \in Nat /\ n <= Len(in) /\ n <= PipeSize - Len(down)
    BY <1>3, <1>6, <2>1, MinOfTwo, Zenon
  <2>3. n \in 0 .. Len(in)
    BY <1>3, <2>2
  <2>4. /\ down' \in Seq(Nat) /\ Len(down') = Len(down) + n
        /\ in' \in Seq(Nat) /\ Len(in') = Len(in) - n
        /\ \A a \in Nat : Run(down, a) /\ Run(in, a + Len(down)) =>
             Run(down', a) /\ Run(in', a + Len(down) + n)
    <3>1. /\ down \o Fwd!Take(in, n) \in Seq(Nat) /\ Len(down \o Fwd!Take(in, n)) = Len(down) + n
          /\ Fwd!Drop(in, n) \in Seq(Nat) /\ Len(Fwd!Drop(in, n)) = Len(in) - n
          /\ \A a \in Nat : Run(down, a) /\ Run(in, a + Len(down)) =>
               Run(down \o Fwd!Take(in, n), a) /\ Run(Fwd!Drop(in, n), a + Len(down) + n)
      BY <1>3, <2>3, MoveIs, Zenon
    <3> QED  BY <1>6, <3>1, Zenon
  <2>5. Len(down') <= PipeSize /\ Len(in') <= BufferSize
    BY <1>3, <2>2, <2>4
  <2>6. ForwardTypes'
    BY <1>1, <1>6, <2>4, <2>5 DEF ForwardInv, ForwardTypes, ForwardPlaces
  <2>7. Closing'
    BY <1>1, <1>6 DEF ForwardInv, Closing
  <2>8. Run(down', Len(agot)) /\ Run(in', Len(agot) + Len(down'))
    <3>1. Run(down, Len(agot)) /\ Run(in, Len(agot) + Len(down))
      BY <1>6 DEF ForwardInv, Inward
    <3>2. Len(agot) + Len(down) + n = Len(agot) + Len(down')
      BY <1>3, <2>2, <2>4
    <3> QED  BY <1>3, <2>4, <3>1, <3>2
  <2>9. Len(agot) + Len(down') + Len(in') = Len(agot) + Len(down) + Len(in)
    BY <1>3, <2>2, <2>4
  <2>10. Inward'
    BY <1>1, <1>6, <2>8, <2>9 DEF ForwardInv, Inward
  <2> QED  BY <1>2, <2>6, <2>7, <2>10 DEF ForwardInv
<1> QED
  <2>1. CASE "WRITE_READY" \notin mhd_celi \/ in = <<>>
    BY <1>4, <2>1 DEF Fwd!SendApp
  <2>2. CASE ~("WRITE_READY" \notin mhd_celi \/ in = <<>>) /\ shut
    BY <1>5, <2>2 DEF Fwd!SendApp
  <2>3. CASE ~("WRITE_READY" \notin mhd_celi \/ in = <<>>) /\ ~shut
    <3> DEFINE n == Fwd!Min({Len(in), PipeSize - Len(down)})
    <3>1. "ERROR" \notin mhd_celi
      BY <2>3 DEF ForwardInv, Closing
    <3>2. /\ down' = down \o Fwd!Take(in, n) /\ in' = Fwd!Drop(in, n)
          /\ mhd_celi' = IF in' # <<>> THEN mhd_celi \ {"WRITE_READY"} ELSE mhd_celi
          /\ UNCHANGED <<in_size, tls_ready, app_celi>>
      BY <2>3, <3>1 DEF Fwd!SendApp
    <3>3. mhd_celi' \subseteq mhd_celi
      BY <3>2
    <3> QED  BY <1>6, <2>3, <3>2, <3>3
  <2> QED  BY <2>1, <2>2, <2>3

LEMMA EndKeeps ==
  ASSUME Fwd!SizeAssumption, ForwardInv, Fwd!End
  PROVE  ForwardInv'
<1>1. UNCHANGED <<in, in_size, was_closed, tls_ready, fwd_shutdown, seen_closed, client, csent,
                  net, tls, cgot, fwd_app, shut, asent, up, down, agot>>
  BY DEF Fwd!End, Fwd!cvars, Fwd!avars
<1>2. fwd_pc' \in {"done", "poll"}
      /\ (fwd_pc' = "done" => in_size' = 0 /\ in' = <<>> /\ out_size' = 0 /\ out' = <<>>)
  BY <1>1 DEF Fwd!End
<1>3. Inward'
  BY <1>1, InwardSame DEF ForwardInv
<1>4. CASE UNCHANGED <<out, out_size, app_celi, mhd_celi>>
  <2>1. ForwardTypes'
    BY <1>1, <1>2, <1>4 DEF ForwardInv, ForwardTypes, ForwardPlaces
  <2>2. Closing'
    BY <1>1, <1>2, <1>4 DEF ForwardInv, Closing
  <2>3. Outward'
    BY <1>1, <1>4, OutwardSame DEF ForwardInv
  <2> QED  BY <1>3, <2>1, <2>2, <2>3 DEF ForwardInv
<1>5. CASE fwd_shutdown /\ Fwd!OutDiscarded
  <2>1. /\ out' = <<>> /\ out_size' = 0 /\ out' \in Seq(Nat) /\ Len(out') = 0
        /\ \A a \in Nat : Run(out', a)
        /\ app_celi' \subseteq app_celi /\ mhd_celi' \subseteq mhd_celi
    BY <1>5, NothingRuns DEF Fwd!OutDiscarded
  <2>2. ForwardTypes'
    <3>1. Len(out') <= BufferSize /\ out_size' \in {0, BufferSize}
      BY <2>1 DEF Fwd!SizeAssumption
    <3> QED  BY <1>1, <1>2, <2>1, <3>1 DEF ForwardInv, ForwardTypes, ForwardPlaces
  <2>3. Closing'
    BY <1>1, <1>2, <2>1 DEF ForwardInv, Closing
  <2>4. Len(cgot) \in Nat /\ Len(out) \in Nat /\ asent \in Nat
    BY DEF ForwardInv, ForwardTypes
  <2>5. Len(cgot) + Len(out') <= asent /\ Run(cgot, 0)
    BY <2>1, <2>4 DEF ForwardInv, Outward
  <2>6. Outward'
    BY <1>1, <1>5, <2>1, <2>4, <2>5 DEF Outward
  <2> QED  BY <1>3, <2>2, <2>3, <2>6 DEF ForwardInv
<1> QED  BY <1>4, <1>5 DEF Fwd!End

LEMMA NextHolds ==
  ASSUME Fwd!SizeAssumption, ForwardInv, [Fwd!Next]_(Fwd!vars)
  PROVE  ForwardInv'
<1>1. CASE UNCHANGED Fwd!vars
  <2>1. ForwardTypes'
    BY <1>1 DEF Fwd!vars, Fwd!urh, Fwd!cvars, Fwd!avars, ForwardInv, ForwardTypes
  <2>2. Closing'
    BY <1>1 DEF Fwd!vars, Fwd!urh, Fwd!cvars, Fwd!avars, ForwardInv, Closing
  <2>3. Outward'
    BY <1>1, OutwardSame DEF Fwd!vars, Fwd!urh, Fwd!cvars, Fwd!avars, ForwardInv
  <2>4. Inward'
    BY <1>1, InwardSame DEF Fwd!vars, Fwd!urh, Fwd!cvars, Fwd!avars, ForwardInv
  <2> QED  BY <2>1, <2>2, <2>3, <2>4 DEF ForwardInv
<1>2. CASE Fwd!ThreadSteps
  BY <1>2, StartKeeps, RecvClientKeeps, RecvAppKeeps, SendClientKeeps, SendAppKeeps,
     EndKeeps, Zenon DEF Fwd!ThreadSteps
<1>3. CASE \E room \in BOOLEAN : Fwd!Poll(room)
  BY <1>3, PollKeeps, Zenon
<1> QED
  BY <1>1, <1>2, <1>3, ClientSendsKeeps, ClientClosesKeeps, ClientResetsKeeps,
     AppWritesKeeps, AppReadsKeeps, AppShutsDownKeeps, MarkKeeps, StopDaemonKeeps,
     StopWakesKeeps, Zenon DEF Fwd!Next

-----------------------------------------------------------------------------
(* Whatever is ready when, however much each call takes, and whoever of    *)
(* the client, the application and the daemon ends it: the bytes that MHD  *)
(* holds, that the sockets hold and that have arrived continue each other, *)
(* in both directions (process_urh() and the loop around it,               *)
(* thread_main_connection_upgrade()).                                      *)
THEOREM ForwardingKept ==
  ASSUME Fwd!PollAssumption, Fwd!SizeAssumption
  PROVE  Fwd!Spec => []ForwardInv
<1>1. Fwd!Init => ForwardInv
  BY InitHolds
<1>2. ForwardInv /\ [Fwd!Next]_(Fwd!vars) => ForwardInv'
  BY NextHolds
<1> QED  BY <1>1, <1>2, PTL DEF Fwd!Spec

LEMMA StreamsFollow ==
  ASSUME Fwd!SizeAssumption, ForwardInv
  PROVE  Fwd!StreamsIntact
<1>1. Fwd!TypeOK
  BY DEF ForwardInv, ForwardTypes, Fwd!TypeOK, ForwardPlaces
<1>2. Fwd!IsPrefix(cgot, Fwd!Upto(asent))
  <2>1. cgot \in Seq(Nat) /\ Run(cgot, 0) /\ asent \in Nat /\ Len(cgot) <= asent
    BY DEF ForwardInv, ForwardTypes, Outward
  <2> QED  BY <2>1, RunIsPrefix
<1>3. Fwd!IsPrefix(agot, Fwd!Upto(csent))
  <2>1. agot \in Seq(Nat) /\ Run(agot, 0) /\ csent \in Nat /\ Len(agot) <= csent
    BY DEF ForwardInv, ForwardTypes, Inward
  <2> QED  BY <2>1, RunIsPrefix
<1>4. ASSUME out_size # 0  PROVE cgot \o out \o up = Fwd!Upto(asent)
  <2>1. /\ cgot \in Seq(Nat) /\ out \in Seq(Nat) /\ up \in Seq(Nat) /\ asent \in Nat
        /\ Len(cgot) \in Nat /\ Len(out) \in Nat /\ Len(up) \in Nat
    BY DEF ForwardInv, ForwardTypes
  <2>2. /\ Run(cgot, 0) /\ Run(out, 0 + Len(cgot)) /\ Run(up, 0 + (Len(cgot) + Len(out)))
        /\ Len(cgot) + Len(out) + Len(up) = asent
    BY <1>4, <2>1 DEF ForwardInv, Outward
  <2>3. /\ cgot \o out \in Seq(Nat) /\ Len(cgot \o out) = Len(cgot) + Len(out)
        /\ Run(cgot \o out, 0)
    BY <2>1, <2>2, ConcatIs
  <2> DEFINE co == cgot \o out
  <2>4. co \in Seq(Nat) /\ Len(co) = Len(cgot) + Len(out) /\ Run(co, 0)
    BY <2>3
  <2> HIDE DEF co
  <2>5. /\ co \o up \in Seq(Nat) /\ Len(co \o up) = Len(co) + Len(up)
        /\ Run(co \o up, 0)
    BY <2>1, <2>2, <2>4, ConcatIs
  <2>6. Len(co \o up) = asent
    BY <2>1, <2>2, <2>4, <2>5
  <2>7. Len(co \o up) <= asent
    BY <2>1, <2>6
  <2>8. co \o up = Fwd!Upto(asent)
    BY <2>1, <2>5, <2>6, <2>7, RunIsPrefix, Zenon
  <2> QED  BY <2>8 DEF co
<1>5. ASSUME in_size # 0, client # "reset", ~shut
      PROVE  agot \o down \o in \o tls \o net = Fwd!Upto(csent)
  <2>1. /\ agot \in Seq(Nat) /\ down \in Seq(Nat) /\ in \in Seq(Nat) /\ tls \in Seq(Nat)
        /\ net \in Seq(Nat) /\ csent \in Nat
        /\ Len(agot) \in Nat /\ Len(down) \in Nat /\ Len(in) \in Nat /\ Len(tls) \in Nat
        /\ Len(net) \in Nat
    BY DEF ForwardInv, ForwardTypes
  <2>2. /\ Run(agot, 0) /\ Run(down, 0 + Len(agot)) /\ Run(in, 0 + (Len(agot) + Len(down)))
        /\ Run(tls, 0 + (Len(agot) + Len(down) + Len(in)))
        /\ Run(net, 0 + (Len(agot) + Len(down) + Len(in) + Len(tls)))
        /\ Len(agot) + Len(down) + Len(in) + Len(tls) + Len(net) = csent
    BY <1>5, <2>1 DEF ForwardInv, Inward
  <2> DEFINE s1 == agot \o down
             s2 == s1 \o in
             s3 == s2 \o tls
             s4 == s3 \o net
  <2>3. s1 \in Seq(Nat) /\ Len(s1) = Len(agot) + Len(down) /\ Run(s1, 0)
    BY <2>1, <2>2, ConcatIs
  <2> HIDE DEF s1
  <2>4. s2 \in Seq(Nat) /\ Len(s2) = Len(s1) + Len(in) /\ Run(s2, 0)
    <3>1. Run(in, 0 + Len(s1)) /\ 0 \in Nat
      BY <2>2, <2>3
    <3> QED  BY <2>1, <2>2, <2>3, <3>1, ConcatIs, Zenon
  <2>5. Len(s2) = Len(agot) + Len(down) + Len(in)
    BY <2>1, <2>3, <2>4
  <2> HIDE DEF s2
  <2>6. s3 \in Seq(Nat) /\ Len(s3) = Len(s2) + Len(tls) /\ Run(s3, 0)
    <3>1. Run(tls, 0 + Len(s2)) /\ 0 \in Nat
      BY <2>2, <2>5
    <3> QED  BY <2>1, <2>4, <3>1, ConcatIs, Zenon
  <2>7. Len(s3) = Len(agot) + Len(down) + Len(in) + Len(tls)
    BY <2>1, <2>5, <2>6
  <2> HIDE DEF s3
  <2>8. s4 \in Seq(Nat) /\ Len(s4) = Len(s3) + Len(net) /\ Run(s4, 0)
    <3>1. Run(net, 0 + Len(s3)) /\ 0 \in Nat
      BY <2>2, <2>7
    <3> QED  BY <2>1, <2>6, <3>1, ConcatIs, Zenon
  <2>9. Len(s4) = csent /\ Len(s4) <= csent
    BY <2>1, <2>2, <2>7, <2>8
  <2> HIDE DEF s4
  <2>10. s4 = Fwd!Upto(csent)
    BY <2>1, <2>8, <2>9, RunIsPrefix, Zenon
  <2> QED  BY <2>10 DEF s1, s2, s3, s4
<1> QED  BY <1>1, <1>2, <1>3, <1>4, <1>5 DEF Fwd!StreamsIntact

LEMMA LastWordsFollow ==
  ASSUME ForwardInv
  PROVE  Fwd!LastWordsDelivered
<1> SUFFICES ASSUME fwd_pc = "done", client = "open", ~fwd_shutdown  PROVE cgot = Fwd!Upto(asent)
  BY DEF Fwd!LastWordsDelivered
<1>1. cgot \in Seq(Nat) /\ Run(cgot, 0) /\ asent \in Nat /\ Len(cgot) \in Nat
  BY DEF ForwardInv, ForwardTypes, Outward
<1>2. out = <<>> /\ out_size = 0
  BY DEF ForwardInv, Closing
<1>3. Len(out) = 0 /\ Len(cgot) + Len(out) = asent
  BY <1>2, NothingRuns DEF ForwardInv, Outward
<1>4. Len(cgot) = asent
  BY <1>1, <1>3
<1> QED  BY <1>1, <1>4, RunIsPrefix

LEMMA ClientDataFollows ==
  ASSUME ForwardInv
  PROVE  Fwd!ClientDataKept
<1> SUFFICES ASSUME in_size = 0, in = <<>>, client = "closed", ~shut, ~fwd_shutdown
             PROVE  agot \o down = Fwd!Upto(csent)
  BY DEF Fwd!ClientDataKept
<1>1. /\ agot \in Seq(Nat) /\ down \in Seq(Nat) /\ csent \in Nat
      /\ Len(agot) \in Nat /\ Len(down) \in Nat
  BY DEF ForwardInv, ForwardTypes
<1>2. /\ Run(agot, 0) /\ Run(down, 0 + Len(agot)) /\ Len(agot) + Len(down) + Len(in) = csent
  BY <1>1 DEF ForwardInv, Inward
<1>3. Len(in) = 0
  BY NothingRuns
<1>4. agot \o down \in Seq(Nat) /\ Len(agot \o down) = csent /\ Run(agot \o down, 0)
  BY <1>1, <1>2, <1>3, ConcatIs
<1>5. Len(agot \o down) <= csent
  BY <1>1, <1>4
<1> QED  BY <1>1, <1>4, <1>5, RunIsPrefix, Zenon

(* Neither side gets a byte that was not sent, twice or out of order, and  *)
(* no buffer is overrun; what the application has written before it closed *)
(* is sent before the thread ends, if the client stays and the daemon is   *)
(* not stopped; and what a client has sent before it closed in good order  *)
(* is not dropped when MHD stops reading (process_urh()).                  *)
THEOREM ForwardingIntact ==
  ASSUME Fwd!PollAssumption, Fwd!SizeAssumption
  PROVE  Fwd!Spec => []Fwd!ForwardedIntact /\ []ForwardedIntact
<1>1. ForwardInv => Fwd!ForwardedIntact
  BY StreamsFollow, LastWordsFollow, ClientDataFollows DEF Fwd!ForwardedIntact
<1>2. Fwd!ForwardedIntact => ForwardedIntact
  BY DEF ForwardedIntact
<1> QED  BY <1>1, <1>2, ForwardingKept, PTL

(***************************************************************************)
(* SharedResponse.                                                         *)
(***************************************************************************)
Active == {"unready", "filling", "ready", "locking", "checking", "sending", "checked", "chunk"}

(* Only the callback changes what is known of the response; a vector is    *)
(* never chunked.                                                          *)
Kinds ==
  /\ kind # "crc" => total = Length /\ ~failed /\ start = 0
  /\ kind = "buffer" => size = Length
  /\ kind = "iov" => ~enforced /\ \A c \in Conn : ~chunked[c]

(* The data in the buffer is part of the body.  A connection is past the   *)
(* end of it only after it has sent from a buffer that was not its own,    *)
(* and then it does nothing more.                                          *)
Positions ==
  /\ start + size <= Length
  /\ failed => total # MHD_SIZE_UNKNOWN
  /\ \A c \in Conn :
       /\ \/ pos[c] <= Length
          \/ st[c] \in {"checked", "ready"} /\ kind = "crc" /\ total # MHD_SIZE_UNKNOWN
       /\ st[c] \in {"ready", "locking", "checking", "sending", "checked"} => ~chunked[c]

(* Until the callback fails, the size is Length or unknown, every header   *)
(* says so, and a connection that has announced a size and found more to   *)
(* send does have more to send.                                            *)
SizeStable ==
  ~failed =>
    /\ total \in {Length, MHD_SIZE_UNKNOWN}
    /\ \A c \in Conn :
         /\ promised[c] \in {0, Length, MHD_SIZE_UNKNOWN}
         /\ promised[c] = Length => total = Length
         /\ st[c] \in Active => promised[c] # 0
         /\ st[c] \in {"locking", "checking"} /\ promised[c] = Length => pos[c] < Length

SafeInv == SharedSafely /\ Kinds /\ Positions /\ SizeStable

-----------------------------------------------------------------------------
(* The reference counter. *)

(* The connections that hold a reference are finitely many. *)
LEMMA HoldersFinite ==
  ASSUME ConnAssumption
  PROVE  /\ IsFiniteSet(Holders) /\ Cardinality(Holders) \in Nat
         /\ Cardinality(Holders) <= Cardinality(Conn) /\ Cardinality(Conn) \in Nat
         /\ Cardinality(Holders) = 0 <=> Holders = {}
<1>1. Holders \in SUBSET Conn
  BY DEF Holders
<1> QED BY <1>1, FS_Subset, FS_CardinalityType, FS_EmptySet DEF ConnAssumption

(* A connection that moves within the reply keeps its reference. *)
LEMMA HoldersKept ==
  ASSUME TypeOK, NEW c \in Conn, NEW s \in Steps, Goto(c, s),
         st[c] \notin {"none", "gone"}, s \notin {"none", "gone"}
  PROVE  Holders' = Holders
BY DEF TypeOK, Goto, Holders

(* The counter does not move with a connection that keeps its reference. *)
LEMMA FreedKept ==
  ASSUME FreedByTheLast, Holders' = Holders, UNCHANGED <<rc, freed, appref>>
  PROVE  FreedByTheLast'
BY DEF FreedByTheLast

LEMMA QueueFreed ==
  ASSUME ConnAssumption, TypeOK, FreedByTheLast, NEW c \in Conn, Queue(c)
  PROVE  FreedByTheLast'
<1>1. Holders' = Holders \cup {c} /\ c \notin Holders
  BY DEF Queue, Goto, Holders, TypeOK
<1>2. Cardinality(Holders') = Cardinality(Holders) + 1
  BY <1>1, HoldersFinite, FS_AddElement
<1>3. rc' = rc + 1 /\ appref /\ appref' = appref /\ freed' = freed
  BY DEF Queue
<1> QED BY <1>1, <1>2, <1>3, HoldersFinite DEF FreedByTheLast

LEMMA AppDestroysFreed ==
  ASSUME ConnAssumption, TypeOK, FreedByTheLast, AppDestroys
  PROVE  FreedByTheLast'
<1>1. Holders' = Holders
  BY DEF AppDestroys, Holders
<1>2. rc' = rc - 1 /\ appref /\ ~appref' /\ (freed' <=> (freed \/ rc' = 0))
  BY DEF AppDestroys, MHD_destroy_response
<1> QED BY <1>1, <1>2, HoldersFinite DEF FreedByTheLast

LEMMA ReleaseFreed ==
  ASSUME ConnAssumption, TypeOK, FreedByTheLast, NEW c \in Conn, Release(c)
  PROVE  FreedByTheLast'
<1>1. Holders' = Holders \ {c} /\ c \in Holders
  BY DEF Release, Goto, Holders, TypeOK
<1>2. IsFiniteSet(Holders') /\ Cardinality(Holders') = Cardinality(Holders) - 1
  BY <1>1, HoldersFinite, FS_RemoveElement
<1>3. Cardinality(Holders') = 0 <=> Holders' = {}
  BY <1>2, FS_EmptySet
<1>4. rc' = rc - 1 /\ appref' = appref /\ (freed' <=> (freed \/ rc' = 0))
  BY DEF Release, MHD_destroy_response
<1> QED BY <1>1, <1>2, <1>3, <1>4, HoldersFinite DEF FreedByTheLast

-----------------------------------------------------------------------------
(* The steps. *)

(* From the counter, its range. *)
LEMMA CounterType ==
  ASSUME ConnAssumption, FreedByTheLast', appref' \in BOOLEAN
  PROVE  rc' \in 0 .. (Cardinality(Conn) + 1)
<1>1. Holders' \in SUBSET Conn
  BY DEF Holders
<1>2. /\ Cardinality(Holders') \in Nat /\ Cardinality(Conn) \in Nat
      /\ Cardinality(Holders') <= Cardinality(Conn)
  BY <1>1, FS_Subset, FS_CardinalityType DEF ConnAssumption
<1> QED BY <1>2 DEF FreedByTheLast

(* Queue, AppDestroys and Release move references, and nothing else. *)
LEMMA CounterSteps ==
  ASSUME ConnAssumption, LengthAssumption, SafeInv,
         AppDestroys \/ \E c \in Conn : Queue(c) \/ Release(c)
  PROVE  SafeInv'
<1>1. TypeOK
  BY DEF SafeInv, SharedSafely, SendsItsOwnPart
<1>2. FreedByTheLast'
  BY <1>1, AppDestroysFreed, QueueFreed, ReleaseFreed DEF SafeInv, SharedSafely
<1>3. UNCHANGED <<kind, enforced, holder, total, start, size, pos, promised, chunked, wbuf, failed, stray>>
  BY DEF AppDestroys, Queue, Release, MHD_destroy_response
<1>4. TypeOK'
  <2>1. appref' \in BOOLEAN /\ freed' \in BOOLEAN /\ st' \in [Conn -> Steps]
    BY <1>1 DEF AppDestroys, Queue, Release, MHD_destroy_response, Goto, TypeOK, Steps
  <2> QED BY <1>1, <1>2, <1>3, <2>1, CounterType DEF TypeOK
<1>5. \A d \in Conn : \/ st'[d] = st[d]
                      \/ st[d] \in {"none", "done"} /\ st'[d] \in {"queued", "gone"}
  BY <1>1 DEF AppDestroys, Queue, Release, Goto, TypeOK
<1>6. LockHeld'
  BY <1>3, <1>5 DEF SafeInv, SharedSafely, LockHeld
<1>7. Kinds' /\ Positions'
  BY <1>3, <1>5 DEF SafeInv, Kinds, Positions
<1>8. SizeStable'
  BY <1>3, <1>5 DEF SafeInv, SizeStable, Active
<1>9. SendsItsOwnPart' /\ SizeAsPromised'
  BY <1>3, <1>4, <1>5
  DEF SafeInv, SharedSafely, SendsItsOwnPart, SizeAsPromised, InBuffer, EndMadeKnown
<1> QED BY <1>2, <1>6, <1>7, <1>8, <1>9 DEF SafeInv, SharedSafely

(* Whatever else a connection does, the references stay. *)
LEMMA ReplyStepsFreed ==
  ASSUME SafeInv, NEW c \in Conn,
         \/ Abort(c) \/ Header(c) \/ IdleLocks(c) \/ WriteChecks(c) \/ WriteLocks(c)
         \/ try_ready_normal_body(c) \/ Send(c) \/ Check(c) \/ try_ready_chunked_body(c)
         \/ ChunkSent(c)
  PROVE  FreedByTheLast' /\ UNCHANGED <<kind, enforced, rc, freed, appref>>
<1>1. TypeOK /\ FreedByTheLast
  BY DEF SafeInv, SharedSafely, SendsItsOwnPart
<1>2. UNCHANGED <<kind, enforced, rc, freed, appref>>
  BY DEF Abort, Header, IdleLocks, WriteChecks, WriteLocks, try_ready_normal_body, NormalReady,
         CopyVector, FillBuffer, Send, Check, try_ready_chunked_body, ChunkReady, ChunkGivenUp,
         FillChunk, ChunkSent, CallbackEnds, resp
<1>3. /\ st[c] \notin {"none", "gone"}
      /\ \E s \in Steps \ {"none", "gone"} : Goto(c, s)
  BY DEF Abort, Header, IdleLocks, WriteChecks, WriteLocks, try_ready_normal_body, NormalReady,
         CopyVector, FillBuffer, Send, Check, try_ready_chunked_body, ChunkReady, ChunkGivenUp,
         FillChunk, ChunkSent, CallbackEnds, GivenUp, Steps
<1> QED BY <1>1, <1>2, <1>3, HoldersKept, FreedKept

(* The steps that change neither the mutex nor the size nor the buffer. *)
LEMMA QuietSteps ==
  ASSUME LengthAssumption, SafeInv, NEW c \in Conn,
         Abort(c) \/ Check(c) \/ ChunkSent(c) \/ WriteChecks(c)
  PROVE  SafeInv'
<1>1. TypeOK
  BY DEF SafeInv, SharedSafely, SendsItsOwnPart
<1>2. FreedByTheLast' /\ UNCHANGED <<kind, enforced, rc, freed, appref>>
  BY ReplyStepsFreed
<1>3. UNCHANGED <<holder, total, start, size, chunked, failed, stray>>
  BY DEF Abort, Check, ChunkSent, WriteChecks, resp
<1>4. TypeOK'
  BY <1>1, <1>2, <1>3
  DEF Abort, GivenUp, Check, ChunkSent, WriteChecks, Goto, TypeOK, Steps, LengthAssumption
<1>5. LockHeld'
  BY <1>1, <1>2, <1>3
  DEF Abort, GivenUp, Check, ChunkSent, WriteChecks, Goto, TypeOK, SafeInv, SharedSafely, LockHeld
<1>6. Kinds' /\ Positions'
  BY <1>1, <1>2, <1>3
  DEF Abort, GivenUp, Check, ChunkSent, WriteChecks, Goto, TypeOK, SafeInv, Kinds, Positions,
      LengthAssumption, MHD_SIZE_UNKNOWN
<1>7. SizeStable'
  BY <1>1, <1>2, <1>3
  DEF Abort, GivenUp, Check, ChunkSent, WriteChecks, Goto, TypeOK, SafeInv, SizeStable, Active,
      LengthAssumption, MHD_SIZE_UNKNOWN
<1>8. SendsItsOwnPart'
  BY <1>1, <1>2, <1>3, <1>4
  DEF Abort, GivenUp, Check, ChunkSent, WriteChecks, Goto, TypeOK, SafeInv, SharedSafely,
      SendsItsOwnPart, InBuffer, EndMadeKnown
<1>9. SizeAsPromised'
  BY <1>1, <1>2, <1>3
  DEF Abort, GivenUp, Check, ChunkSent, WriteChecks, Goto, TypeOK, SafeInv, SharedSafely,
      SizeAsPromised, Positions, SizeStable, Active, LengthAssumption, MHD_SIZE_UNKNOWN
<1> QED BY <1>2, <1>5, <1>6, <1>7, <1>8, <1>9 DEF SafeInv, SharedSafely

(* The header announces the size as it is, and chooses the encoding. *)
LEMMA HeaderStep ==
  ASSUME LengthAssumption, SafeInv, NEW c \in Conn, Header(c)
  PROVE  SafeInv'
<1>1. TypeOK
  BY DEF SafeInv, SharedSafely, SendsItsOwnPart
<1>2. FreedByTheLast' /\ UNCHANGED <<kind, enforced, rc, freed, appref>>
  BY ReplyStepsFreed
<1>3. UNCHANGED <<holder, total, start, size, wbuf, failed, stray>>
  BY DEF Header, resp
<1>4. /\ st[c] = "queued" /\ st' = [st EXCEPT ![c] = "unready"]
      /\ promised' = [promised EXCEPT ![c] = total]
  BY DEF Header, Goto
<1>5. PICK allowed \in BOOLEAN :
        chunked' = [chunked EXCEPT ![c] = (total = MHD_SIZE_UNKNOWN \/ enforced) /\ allowed]
  BY DEF Header
<1>6. PICK n \in 0 .. Length : pos' = [pos EXCEPT ![c] = n]
  <2>1. PICK m \in 0 .. (IF kind = "buffer" /\ ~chunked'[c] THEN Length ELSE 0) :
          pos' = [pos EXCEPT ![c] = m]
    BY DEF Header
  <2>2. m \in 0 .. Length
    BY <2>1 DEF LengthAssumption
  <2> QED BY <2>1, <2>2
<1>7. chunked' \in [Conn -> BOOLEAN]
  BY <1>1, <1>5, Zenon DEF TypeOK
<1>8. TypeOK'
  <2>1. pos' \in [Conn -> 0 .. (Length + 1)]
    BY <1>1, <1>6 DEF TypeOK, LengthAssumption
  <2>2. st' \in [Conn -> Steps] /\ promised' \in [Conn -> 0 .. Length \cup {MHD_SIZE_UNKNOWN}]
    BY <1>1, <1>4 DEF TypeOK, Steps
  <2> QED BY <1>1, <1>2, <1>3, <1>7, <2>1, <2>2 DEF TypeOK
<1>9. LockHeld'
  BY <1>1, <1>2, <1>3, <1>4 DEF TypeOK, SafeInv, SharedSafely, LockHeld
<1>10. kind = "iov" => ~chunked'[c]
  BY <1>1, <1>5 DEF TypeOK, SafeInv, Kinds, LengthAssumption, MHD_SIZE_UNKNOWN
<1>11. \A d \in Conn \ {c} : chunked'[d] = chunked[d]
  BY <1>1, <1>5 DEF TypeOK
<1>12. Kinds' /\ Positions'
  BY <1>1, <1>2, <1>3, <1>4, <1>6, <1>10, <1>11 DEF TypeOK, SafeInv, Kinds, Positions, LengthAssumption
<1>13. SizeStable'
  BY <1>1, <1>2, <1>3, <1>4, <1>6
  DEF TypeOK, SafeInv, SizeStable, Active, LengthAssumption, MHD_SIZE_UNKNOWN
<1>14. SendsItsOwnPart' /\ SizeAsPromised'
  BY <1>1, <1>2, <1>3, <1>4, <1>6, <1>8, <1>11
  DEF TypeOK, SafeInv, SharedSafely, SendsItsOwnPart, SizeAsPromised, InBuffer, EndMadeKnown
<1> QED BY <1>2, <1>9, <1>12, <1>13, <1>14 DEF SafeInv, SharedSafely

(* The mutex is locked, unless the reply has come to its end. *)
LEMMA LockSteps ==
  ASSUME ConnAssumption, LengthAssumption, SafeInv, NEW c \in Conn,
         IdleLocks(c) \/ WriteLocks(c)
  PROVE  SafeInv'
<1>1. TypeOK
  BY DEF SafeInv, SharedSafely, SendsItsOwnPart
<1>2. FreedByTheLast' /\ UNCHANGED <<kind, enforced, rc, freed, appref>>
  BY ReplyStepsFreed
<1>3. UNCHANGED <<total, start, size, pos, promised, chunked, wbuf, failed, stray>>
  BY DEF IdleLocks, WriteLocks
<1>4. TypeOK'
  BY <1>1, <1>2, <1>3 DEF IdleLocks, WriteLocks, Lock, Goto, TypeOK, Steps
<1>5. LockHeld'
  BY <1>1, <1>2, <1>3
  DEF IdleLocks, WriteLocks, Lock, Goto, TypeOK, SafeInv, SharedSafely, LockHeld, ConnAssumption
<1>6. Kinds' /\ Positions'
  BY <1>1, <1>2, <1>3 DEF IdleLocks, WriteLocks, Goto, TypeOK, SafeInv, Kinds, Positions
<1>7. SizeStable'
  BY <1>1, <1>2, <1>3
  DEF IdleLocks, WriteLocks, Goto, TypeOK, SafeInv, SizeStable, Active
<1>8. SendsItsOwnPart'
  BY <1>1, <1>2, <1>3, <1>4
  DEF IdleLocks, WriteLocks, Goto, TypeOK, SafeInv, SharedSafely, SendsItsOwnPart, InBuffer,
      EndMadeKnown, Kinds, Positions, LengthAssumption
<1>9. SizeAsPromised'
  BY <1>1, <1>2, <1>3
  DEF IdleLocks, WriteLocks, Goto, TypeOK, SafeInv, SharedSafely, SizeAsPromised, SizeStable,
      Positions, Active, LengthAssumption, MHD_SIZE_UNKNOWN
<1> QED BY <1>2, <1>5, <1>6, <1>7, <1>8, <1>9 DEF SafeInv, SharedSafely

(* The mutex is unlocked again by its holder; without a callback there is   *)
(* no holder, before and after.                                             *)
LEMMA UnlockSafe ==
  ASSUME ConnAssumption, TypeOK, LockHeld, NEW c \in Conn, NEW s \in Steps,
         st[c] \in {"filling", "checking", "sending"}, s \notin {"filling", "checking", "sending"},
         kind' = kind, Goto(c, s), Unlock(c) \/ UnlockAlways(c)
  PROVE  LockHeld' /\ holder' = NoOne /\ stray' \in BOOLEAN
<1>1. kind # "crc" => holder = NoOne
  BY DEF LockHeld, TypeOK
<1>2. holder' = NoOne /\ (stray' => stray \/ kind # "crc") /\ stray' \in BOOLEAN
  BY <1>1 DEF Unlock, UnlockAlways, LockHeld, TypeOK
<1> QED BY <1>1, <1>2 DEF Goto, LockHeld, TypeOK, ConnAssumption

(* A reply is given up while the body is made ready. *)
LEMMA GivenUpStep ==
  ASSUME ConnAssumption, LengthAssumption, SafeInv, FreedByTheLast', NEW c \in Conn,
         st[c] \in {"filling", "checking"}, UnlockAlways(c), GivenUp(c),
         UNCHANGED <<kind, enforced, rc, total, start, size, freed, appref, chunked, wbuf, failed>>
  PROVE  SafeInv'
<1>1. TypeOK /\ LockHeld
  BY DEF SafeInv, SharedSafely, SendsItsOwnPart
<1>2. LockHeld' /\ holder' = NoOne /\ stray' \in BOOLEAN
  BY <1>1, UnlockSafe DEF GivenUp, Steps
<1>3. TypeOK'
  BY <1>1, <1>2 DEF GivenUp, Goto, TypeOK, Steps, LengthAssumption
<1>4. Kinds' /\ Positions' /\ SizeStable'
  BY <1>1 DEF GivenUp, Goto, TypeOK, SafeInv, Kinds, Positions, SizeStable, Active, LengthAssumption
<1>5. SendsItsOwnPart' /\ SizeAsPromised'
  BY <1>1, <1>3
  DEF GivenUp, Goto, TypeOK, SafeInv, SharedSafely, SendsItsOwnPart, SizeAsPromised, InBuffer,
      EndMadeKnown
<1> QED BY <1>2, <1>4, <1>5 DEF SafeInv, SharedSafely

(* The callback ends the body: at its end the size is what it was or       *)
(* becomes known; before, only the mutex, the counter and the ranges are   *)
(* promised from here on.                                                  *)
LEMMA CallbackEndsStep ==
  ASSUME ConnAssumption, LengthAssumption, SafeInv, FreedByTheLast', NEW c \in Conn,
         st[c] \in {"filling", "checking"}, kind = "crc", CallbackEnds(c)
  PROVE  SafeInv'
<1>1. TypeOK /\ LockHeld
  BY DEF SafeInv, SharedSafely, SendsItsOwnPart
<1>2. LockHeld' /\ holder' = NoOne /\ stray' \in BOOLEAN
  BY <1>1, UnlockSafe DEF CallbackEnds, Steps
<1>3. pos[c] \in 0 .. Length
  BY <1>1 DEF SafeInv, Positions, TypeOK, LengthAssumption
<1>4. TypeOK'
  BY <1>1, <1>2, <1>3 DEF CallbackEnds, Goto, TypeOK, Steps
<1>5. Kinds' /\ Positions'
  BY <1>1, <1>3 DEF CallbackEnds, Goto, TypeOK, SafeInv, Kinds, Positions, LengthAssumption, MHD_SIZE_UNKNOWN
<1>6. holder = c /\ \A d \in Conn \ {c} : st[d] \notin {"filling", "checking", "sending"}
  BY <1>1 DEF LockHeld
<1>7. SizeStable'
  BY <1>1, <1>3 DEF CallbackEnds, Goto, TypeOK, SafeInv, SizeStable, Active, LengthAssumption, MHD_SIZE_UNKNOWN
<1>8. SendsItsOwnPart'
  BY <1>1, <1>4, <1>6 DEF CallbackEnds, Goto, TypeOK, SendsItsOwnPart
<1>9. SizeAsPromised'
  BY <1>1, <1>3 DEF CallbackEnds, Goto, TypeOK, SafeInv, SharedSafely, SizeAsPromised, SizeStable
<1> QED BY <1>2, <1>5, <1>7, <1>8, <1>9 DEF SafeInv, SharedSafely

(* A body that is not chunked: a part of it is made ready, in the buffer   *)
(* of the response or in a copy of the vector.                             *)
LEMMA NormalReadyStep ==
  ASSUME ConnAssumption, LengthAssumption, SafeInv, FreedByTheLast', NEW c \in Conn,
         st[c] \in {"filling", "checking"}, ~chunked[c], NormalReady(c),
         \/ UNCHANGED <<start, size, wbuf>> /\ NothingToReady(c)
         \/ UNCHANGED <<start, size>> /\ wbuf' = [wbuf EXCEPT ![c] = Length] /\ kind = "iov"
         \/ /\ kind = "crc" /\ wbuf' = wbuf /\ start' = pos[c]
            /\ size' \in 1 .. MaxRead /\ pos[c] + size' <= Length
  PROVE  SafeInv'
<1>1. TypeOK /\ LockHeld
  BY DEF SafeInv, SharedSafely, SendsItsOwnPart
<1>2. UNCHANGED <<kind, enforced, rc, total, freed, appref, pos, promised, chunked, failed>>
  BY DEF NormalReady
<1>3. /\ \A d \in Conn \ {c} : st'[d] = st[d]
      /\ st'[c] = IF st[c] = "checking" THEN "sending" ELSE "ready"
      /\ st' \in [Conn -> Steps]
  BY <1>1 DEF NormalReady, Goto, TypeOK, Steps
<1>4. LockHeld' /\ holder' \in Conn \cup {NoOne} /\ stray' \in BOOLEAN
  <2>1. CASE st[c] = "filling"
    BY <1>1, <1>2, <2>1, UnlockSafe DEF NormalReady, Steps
  <2>2. CASE st[c] = "checking"
    BY <1>1, <1>2, <2>2 DEF NormalReady, Goto, LockHeld, TypeOK
  <2> QED BY <2>1, <2>2
<1>5. TypeOK'
  <2>1. start' \in 0 .. Length /\ size' \in 0 .. Length /\ wbuf' \in [Conn -> 0 .. Length]
    BY <1>1 DEF TypeOK, LengthAssumption
  <2> QED BY <1>1, <1>2, <1>3, <1>4, <2>1 DEF TypeOK
<1>6. Kinds'
  BY <1>2 DEF SafeInv, Kinds
<1>7. Positions'
  BY <1>1, <1>2, <1>3 DEF SafeInv, Positions, TypeOK, LengthAssumption
<1>8. SizeStable'
  BY <1>1, <1>2, <1>3 DEF SafeInv, SizeStable, TypeOK, Active
<1>9. kind = "crc" => \A d \in Conn \ {c} : st[d] \notin {"filling", "checking", "sending"}
  BY <1>1 DEF LockHeld
<1>10. ~failed /\ st[c] = "checking" => kind = "iov" \/ InBuffer(c)' \/ EndMadeKnown(c)'
  <2> SUFFICES ASSUME ~failed, st[c] = "checking", kind # "iov"
               PROVE  InBuffer(c)' \/ EndMadeKnown(c)'
    OBVIOUS
  <2>1. /\ total \in {Length, MHD_SIZE_UNKNOWN} /\ promised[c] \in {Length, MHD_SIZE_UNKNOWN}
        /\ promised[c] = Length => pos[c] < Length /\ total = Length
    BY DEF SafeInv, SizeStable, Active
  <2>2. CASE start' = pos[c] /\ size' \in 1 .. MaxRead
    BY <1>1, <1>2, <2>2 DEF InBuffer, TypeOK, LengthAssumption
  <2>3. CASE UNCHANGED <<start, size>> /\ NothingToReady(c) /\ kind = "crc"
    BY <1>1, <1>2, <2>1, <2>3
    DEF NothingToReady, InBuffer, EndMadeKnown, TypeOK, LengthAssumption, MHD_SIZE_UNKNOWN
  <2>4. CASE UNCHANGED <<start, size>> /\ kind = "buffer"
    BY <1>1, <1>2, <2>1, <2>4
    DEF SafeInv, Kinds, Positions, InBuffer, EndMadeKnown, TypeOK, LengthAssumption, MHD_SIZE_UNKNOWN
  <2> QED BY <1>1, <2>2, <2>3, <2>4 DEF TypeOK
<1>11. kind # "crc" => UNCHANGED <<start, size>>
  OBVIOUS
<1>12. SendsItsOwnPart'
  <2>1. ASSUME NEW d \in Conn, ~failed', st'[d] = "sending"
        PROVE  (kind = "iov" \/ InBuffer(d) \/ EndMadeKnown(d))'
    <3>1. CASE d = c
      BY <1>1, <1>2, <1>3, <1>10, <2>1, <3>1 DEF TypeOK
    <3>2. CASE d # c
      BY <1>1, <1>2, <1>3, <1>9, <1>11, <2>1, <3>2
      DEF SafeInv, SharedSafely, SendsItsOwnPart, InBuffer, EndMadeKnown, TypeOK
    <3> QED BY <3>1, <3>2
  <2>2. ASSUME NEW d \in Conn, st'[d] = "filling", chunked'[d]
        PROVE  (kind = "crc" \/ InBuffer(d))'
    BY <1>1, <1>2, <1>3, <1>11, <2>2
    DEF SafeInv, SharedSafely, SendsItsOwnPart, InBuffer, TypeOK
  <2> QED BY <1>5, <2>1, <2>2 DEF SendsItsOwnPart
<1>13. SizeAsPromised'
  BY <1>1, <1>2, <1>3 DEF SafeInv, SharedSafely, SizeAsPromised, TypeOK
<1> QED BY <1>4, <1>6, <1>7, <1>8, <1>12, <1>13 DEF SafeInv, SharedSafely

(* The callback has nothing yet. *)
LEMMA NotYetStep ==
  ASSUME ConnAssumption, LengthAssumption, SafeInv, FreedByTheLast', NEW c \in Conn,
         st[c] \in {"filling", "checking"}, kind = "crc", Unlock(c), Goto(c, "unready"),
         (start' = start /\ size' = size) \/ (start' = pos[c] /\ size' = 0),
         UNCHANGED <<kind, enforced, rc, total, freed, appref, pos, promised, chunked, wbuf, failed>>
  PROVE  SafeInv'
<1>1. TypeOK /\ LockHeld
  BY DEF SafeInv, SharedSafely, SendsItsOwnPart
<1>2. LockHeld' /\ holder' = NoOne /\ stray' \in BOOLEAN
  BY <1>1, UnlockSafe DEF Steps
<1>3. pos[c] \in 0 .. Length
  BY <1>1 DEF SafeInv, Positions, TypeOK, LengthAssumption
<1>4. TypeOK'
  BY <1>1, <1>2, <1>3 DEF Goto, TypeOK, Steps, LengthAssumption
<1>5. Kinds' /\ Positions' /\ SizeStable'
  BY <1>1, <1>3 DEF Goto, TypeOK, SafeInv, Kinds, Positions, SizeStable, Active, LengthAssumption
<1>6. \A d \in Conn \ {c} : st[d] \notin {"filling", "checking", "sending"}
  BY <1>1 DEF LockHeld
<1>7. SendsItsOwnPart' /\ SizeAsPromised'
  BY <1>1, <1>4, <1>6 DEF Goto, TypeOK, SafeInv, SharedSafely, SendsItsOwnPart, SizeAsPromised
<1> QED BY <1>2, <1>5, <1>7 DEF SafeInv, SharedSafely

LEMMA NormalBodyStep ==
  ASSUME ConnAssumption, LengthAssumption, SafeInv, NEW c \in Conn, try_ready_normal_body(c)
  PROVE  SafeInv'
<1>1. FreedByTheLast'
  BY ReplyStepsFreed
<1>2. st[c] \in {"filling", "checking"} /\ ~chunked[c]
  BY DEF try_ready_normal_body
<1>3. CASE NothingToReady(c) /\ NormalReady(c) /\ UNCHANGED <<start, size, wbuf>>
  BY <1>1, <1>2, <1>3, NormalReadyStep
<1>4. CASE kind = "iov" /\ CopyVector(c)
  BY <1>1, <1>2, <1>4, NormalReadyStep, GivenUpStep DEF CopyVector
<1>5. CASE kind = "crc" /\ FillBuffer(c)
  <2>1. CASE CallbackEnds(c)
    BY <1>1, <1>2, <1>5, <2>1, CallbackEndsStep
  <2>2. ASSUME NEW n \in 1 .. MaxRead, Supplies(c, n), start' = pos[c], size' = n,
               NormalReady(c), UNCHANGED wbuf
        PROVE  SafeInv'
    BY <1>1, <1>2, <1>5, <2>2, NormalReadyStep DEF Supplies
  <2>3. CASE /\ start' = pos[c] /\ size' = 0 /\ Unlock(c) /\ Goto(c, "unready")
             /\ UNCHANGED <<kind, enforced, rc, total, freed>>
             /\ UNCHANGED <<appref, pos, promised, chunked, wbuf, failed>>
    BY <1>1, <1>2, <1>5, <2>3, NotYetStep
  <2> QED BY <1>5, <2>1, <2>2, <2>3 DEF FillBuffer
<1> QED BY <1>3, <1>4, <1>5 DEF try_ready_normal_body

(* Some of the data in the buffer is sent. *)
LEMMA SendStep ==
  ASSUME ConnAssumption, LengthAssumption, SafeInv, NEW c \in Conn, Send(c)
  PROVE  SafeInv'
<1>1. TypeOK /\ LockHeld
  BY DEF SafeInv, SharedSafely, SendsItsOwnPart
<1>2. FreedByTheLast' /\ UNCHANGED <<kind, enforced, rc, freed, appref>>
  BY ReplyStepsFreed
<1>3. st[c] = "sending" /\ st' = [st EXCEPT ![c] = "checked"]
  BY DEF Send, Goto
<1>4. UNCHANGED <<total, start, size, promised, chunked, wbuf, failed>>
  BY DEF Send
<1>5. PICK p \in pos[c] .. Reach(c) : pos' = [pos EXCEPT ![c] = p]
  BY DEF Send
<1>6. pos[c] \in 0 .. Length
  BY <1>1, <1>3 DEF SafeInv, Positions, TypeOK, LengthAssumption
<1>7. /\ p \in 0 .. (Length + 1)
      /\ p <= Length \/ (kind = "crc" /\ total # MHD_SIZE_UNKNOWN)
  <2>1. CASE kind = "iov"
    BY <1>5, <1>6, <2>1 DEF Reach, LengthAssumption
  <2>2. CASE kind = "buffer"
    <3>1. start = 0 /\ size = Length
      BY <2>2 DEF SafeInv, Kinds
    <3>2. Reach(c) = Length
      BY <1>6, <2>2, <3>1 DEF Reach, LengthAssumption
    <3> QED BY <1>5, <1>6, <3>2 DEF LengthAssumption
  <2>3. CASE kind = "crc" /\ start <= pos[c] /\ pos[c] <= start + size
    <3>1. Reach(c) = start + size /\ start + size \in 0 .. Length
      BY <1>1, <2>3 DEF Reach, SafeInv, Positions, TypeOK, LengthAssumption
    <3> QED BY <1>5, <1>6, <3>1 DEF LengthAssumption
  <2>4. CASE kind = "crc" /\ ~(start <= pos[c] /\ pos[c] <= start + size)
    <3>1. Reach(c) = Length + 1
      BY <2>4 DEF Reach
    <3>2. ~failed => pos[c] = total
      BY <1>1, <1>3, <2>4
      DEF SafeInv, SharedSafely, SendsItsOwnPart, InBuffer, EndMadeKnown, TypeOK, LengthAssumption
    <3>3. total # MHD_SIZE_UNKNOWN
      BY <1>1, <1>6, <3>2 DEF SafeInv, Positions, TypeOK, LengthAssumption, MHD_SIZE_UNKNOWN
    <3> QED BY <1>5, <1>6, <2>4, <3>1, <3>3 DEF LengthAssumption
  <2> QED BY <1>1, <2>1, <2>2, <2>3, <2>4 DEF TypeOK
<1>8. LockHeld' /\ holder' = NoOne /\ stray' \in BOOLEAN
  BY <1>1, <1>2, <1>3, UnlockSafe DEF Send, Steps
<1>9. TypeOK'
  BY <1>1, <1>2, <1>3, <1>4, <1>5, <1>7, <1>8 DEF TypeOK, Steps
<1>10. Kinds' /\ Positions'
  BY <1>1, <1>2, <1>3, <1>4, <1>5, <1>7 DEF SafeInv, Kinds, Positions, TypeOK
<1>11. SizeStable'
  BY <1>1, <1>2, <1>3, <1>4, <1>5 DEF SafeInv, SizeStable, TypeOK, Active
<1>12. SendsItsOwnPart'
  BY <1>1, <1>2, <1>3, <1>4, <1>5, <1>9
  DEF SafeInv, SharedSafely, SendsItsOwnPart, InBuffer, EndMadeKnown, TypeOK
<1>13. SizeAsPromised'
  BY <1>1, <1>3, <1>4, <1>5 DEF SafeInv, SharedSafely, SizeAsPromised, TypeOK
<1> QED BY <1>2, <1>8, <1>10, <1>11, <1>12, <1>13 DEF SafeInv, SharedSafely

(* A chunk is made ready. *)
LEMMA ChunkReadyStep ==
  ASSUME ConnAssumption, LengthAssumption, SafeInv, FreedByTheLast', NEW c \in Conn,
         NEW n \in Nat, st[c] = "filling", pos[c] + n <= Length, ChunkReady(c, n)
  PROVE  SafeInv'
<1>1. TypeOK /\ LockHeld
  BY DEF SafeInv, SharedSafely, SendsItsOwnPart
<1>2. UNCHANGED <<kind, enforced, rc, total, start, size, freed, appref, promised, chunked, failed>>
  BY DEF ChunkReady
<1>3. LockHeld' /\ holder' = NoOne /\ stray' \in BOOLEAN
  BY <1>1, <1>2, UnlockSafe DEF ChunkReady, Steps
<1>4. st' = [st EXCEPT ![c] = "chunk"] /\ pos' = [pos EXCEPT ![c] = @ + n]
  BY DEF ChunkReady, Goto
<1>5. pos[c] + n \in 0 .. Length
  BY <1>1 DEF TypeOK, LengthAssumption
<1>6. TypeOK'
  <2>1. wbuf' \in [Conn -> 0 .. Length]
    BY <1>1, <1>5 DEF ChunkReady, TypeOK, LengthAssumption
  <2>2. pos' \in [Conn -> 0 .. (Length + 1)]
    BY <1>1, <1>4, <1>5 DEF TypeOK, LengthAssumption
  <2> QED BY <1>1, <1>2, <1>3, <1>4, <2>1, <2>2 DEF TypeOK, Steps
<1>7. Kinds' /\ Positions'
  BY <1>1, <1>2, <1>4, <1>5 DEF TypeOK, SafeInv, Kinds, Positions
<1>8. SizeStable'
  BY <1>1, <1>2, <1>4 DEF TypeOK, SafeInv, SizeStable, Active
<1>9. SendsItsOwnPart' /\ SizeAsPromised'
  BY <1>1, <1>2, <1>4, <1>6
  DEF TypeOK, SafeInv, SharedSafely, SendsItsOwnPart, SizeAsPromised, InBuffer, EndMadeKnown
<1> QED BY <1>3, <1>7, <1>8, <1>9 DEF SafeInv, SharedSafely

(* The chunked body: a chunk is made ready, or the end is found. *)
LEMMA ChunkedBodyStep ==
  ASSUME ConnAssumption, LengthAssumption, SafeInv, NEW c \in Conn, try_ready_chunked_body(c)
  PROVE  SafeInv'
<1>1. FreedByTheLast' /\ TypeOK
  BY ReplyStepsFreed DEF SafeInv, SharedSafely, SendsItsOwnPart
<1>2. st[c] = "filling"
  BY DEF try_ready_chunked_body
<1>3. CASE ChunkGivenUp(c)
  BY <1>1, <1>2, <1>3, GivenUpStep DEF ChunkGivenUp
<1>4. ASSUME NEW n \in 1 .. (start + size - pos[c]), Supplies(c, n), ChunkReady(c, n)
      PROVE  SafeInv'
  <2>1. n \in Nat
    BY <1>1 DEF TypeOK
  <2> QED BY <1>1, <1>2, <1>4, <2>1, ChunkReadyStep DEF Supplies
<1>5. CASE kind = "crc" /\ FillChunk(c)
  <2>1. CASE CallbackEnds(c)
    BY <1>1, <1>2, <1>5, <2>1, CallbackEndsStep
  <2>2. ASSUME NEW n \in 1 .. MaxRead, Supplies(c, n), ChunkReady(c, n)
        PROVE  SafeInv'
    <3>1. n \in Nat
      BY DEF LengthAssumption
    <3> QED BY <1>1, <1>2, <2>2, <3>1, ChunkReadyStep DEF Supplies
  <2>3. CASE /\ Unlock(c) /\ Goto(c, "unready")
             /\ UNCHANGED <<kind, enforced, rc, total, start, size, freed>>
             /\ UNCHANGED <<appref, pos, promised, chunked, wbuf, failed>>
    <3>1. start' = start /\ size' = size
      BY <2>3
    <3> QED BY <1>1, <1>2, <1>5, <2>3, <3>1, NotYetStep
  <2> QED BY <1>3, <1>5, <2>1, <2>2, <2>3 DEF FillChunk
<1> QED BY <1>3, <1>4, <1>5 DEF try_ready_chunked_body

-----------------------------------------------------------------------------
(* The initial state. *)
LEMMA InitSafe ==
  ASSUME ConnAssumption, LengthAssumption, Init
  PROVE  SafeInv
<1>1. Holders = {} /\ Cardinality(Holders) = 0
  BY FS_EmptySet DEF Init, Holders
<1>2. Cardinality(Conn) \in Nat
  BY FS_CardinalityType DEF ConnAssumption
<1>3. TypeOK
  <2>1. rc \in 0 .. (Cardinality(Conn) + 1) /\ total \in (0 .. Length) \cup {MHD_SIZE_UNKNOWN}
    BY <1>2 DEF Init, LengthAssumption
  <2>2. start \in 0 .. Length /\ size \in 0 .. Length
    BY DEF Init, LengthAssumption
  <2>3. /\ pos \in [Conn -> 0 .. (Length + 1)] /\ wbuf \in [Conn -> 0 .. Length]
        /\ promised \in [Conn -> (0 .. Length) \cup {MHD_SIZE_UNKNOWN}]
    BY DEF Init, LengthAssumption
  <2>4. chunked \in [Conn -> BOOLEAN] /\ st \in [Conn -> Steps]
    BY DEF Init, Steps
  <2>5. kind \in {"crc", "buffer", "iov"} /\ enforced \in BOOLEAN
    BY Zenon DEF Init
  <2> QED BY <2>1, <2>2, <2>3, <2>4, <2>5 DEF Init, TypeOK
<1>4. SharedSafely
  BY <1>1, <1>3
  DEF Init, SharedSafely, FreedByTheLast, SendsItsOwnPart, SizeAsPromised, LockHeld, ConnAssumption
<1>5. Kinds
  BY DEF Init, Kinds
<1>6. Positions /\ SizeStable
  BY DEF Init, Positions, SizeStable, LengthAssumption, Active, MHD_SIZE_UNKNOWN
<1> QED BY <1>4, <1>5, <1>6 DEF SafeInv

LEMMA StepSafe ==
  ASSUME ConnAssumption, LengthAssumption, SafeInv, [Next]_vars
  PROVE  SafeInv'
<1>1. CASE UNCHANGED vars
  BY <1>1 DEF vars, resp, SafeInv, SharedSafely, FreedByTheLast, SendsItsOwnPart, SizeAsPromised,
              LockHeld, Kinds, Positions, SizeStable, TypeOK, Holders, InBuffer, EndMadeKnown
<1>2. CASE Next
  BY <1>2, CounterSteps, QuietSteps, HeaderStep, LockSteps, NormalBodyStep, SendStep, ChunkedBodyStep
  DEF Next, ThreadSteps
<1> QED BY <1>1, <1>2

-----------------------------------------------------------------------------
(* However the threads that serve the same response take turns, it is freed *)
(* by the last owner and by nobody before; what a connection sends from the *)
(* buffer they share is its own part of the body, and a reply taken for     *)
(* complete has the announced size, as long as the callback has not failed; *)
(* set apart is the reply of unknown size, not chunked, whose end another   *)
(* connection has made known between its look at total_size and its lock.   *)
(* MHD_destroy_response(), try_ready_normal_body(), try_ready_chunked_body()*)
(* and their callers.                                                       *)
THEOREM SharedResponseSafe ==
  ASSUME ConnAssumption, LengthAssumption
  PROVE  Spec => []SharedSafely
<1>1. Init => SafeInv
  BY InitSafe
<1>2. SafeInv /\ [Next]_vars => SafeInv'
  BY StepSafe
<1>3. SafeInv => SharedSafely
  BY DEF SafeInv
<1> QED BY <1>1, <1>2, <1>3, PTL DEF Spec

(* The mutex of a response with a content reader callback is held exactly  *)
(* between the places where the code locks and unlocks it, by one          *)
(* connection at a time: no path through try_ready_normal_body() (the one  *)
(* of sendfile() is not modelled), try_ready_chunked_body() or their       *)
(* callers leaves it locked or unlocks the lock of another connection.     *)
(* Without a callback nobody locks it here, and the two exits for lack of  *)
(* memory (connection.c 1426 and 1533) unlock what is not locked.          *)
THEOREM MutexHeldByOne ==
  ASSUME ConnAssumption, LengthAssumption
  PROVE  Spec => []LockHeld
<1>1. Init => SafeInv
  BY InitSafe
<1>2. SafeInv /\ [Next]_vars => SafeInv'
  BY StepSafe
<1>3. SafeInv => LockHeld
  BY DEF SafeInv, SharedSafely
<1> QED BY <1>1, <1>2, <1>3, PTL DEF Spec

(***************************************************************************)
(* ResponseData.                                                           *)
(***************************************************************************)
CONSTANTS W, Sizes, Buffers, NULL, MaxIov, FileLen, BlockSize

VARIABLES response, heap, released, given, result

Data == INSTANCE ResponseData

\* NULL is not the record of a response: it does not have the fields of one.
NullAssumption == DOMAIN NULL # DOMAIN Data!Fresh

\* What the library has allocated for a response.
Allocated(r) ==
  {"response", "mutex"} \cup (IF r.crfc = "copy" THEN {"copy"} ELSE {})
  \cup (IF r.iov # << >> THEN {"iov"} ELSE {})

\* The sizes that were accepted for a file.
FileFits(r) == r.off \in Nat /\ r.total \in Nat /\ r.off + r.total <= Data!SSIZE_MAX

\* What an application may hand over.
Handed == {"buffer", "fd", "cls"}

\* What holds while there is a response.
ResponseKept ==
  /\ heap = Allocated(response)
  /\ given.owned = IF response.crfc = "copy" THEN "none" ELSE response.crfc
  /\ result \notin {"none", "NULL", "destroyed"}
  /\ response.crc = "file_reader" => FileFits(response) /\ result # "END_WITH_ERROR"

\* The inductive invariant.
DataInv ==
  /\ response = NULL => heap = {} /\ result \in {"none", "NULL", "destroyed"}
  /\ response # NULL => ResponseKept
  /\ DOMAIN released = Handed
  /\ \A x \in Handed : released[x] = IF result = "destroyed" /\ given.owned = x THEN 1 ELSE 0

\* The largest signed size is half of the range, and what is in the range does not wrap.
LEMMA Halves ==
  ASSUME Data!WidthAssumption
  PROVE  /\ Data!SSIZE_MAX \in Nat /\ 2^W = 2 * (Data!SSIZE_MAX + 1) /\ 2^W \in Nat
         /\ \A n \in 0..2^W - 1 : Data!Wrap(n) = n
<1>. DEFINE m == 2^(W - 1)
            k == 2^W
<1>1. m \in Nat /\ m > 1 /\ k = 2 * m /\ Data!SSIZE_MAX = m - 1
  BY DEF Data!WidthAssumption, Data!SSIZE_MAX
<1>2. \A n \in 0..k - 1 : Data!Wrap(n) = n % k
  BY DEF Data!Wrap
<1>. HIDE DEF m, k
<1>3. k \in Nat /\ k > 0
  BY <1>1
<1>4. \A n \in 0..k - 1 : n % k = n
  BY <1>3
<1>. QED BY <1>1, <1>2, <1>3, <1>4 DEF k

\* The three tests of MHD_create_response_from_fd_at_offset64() leave no sum that wraps.
LEMMA SizesFit ==
  ASSUME Data!WidthAssumption, Data!SizesAssumption, NEW len \in Sizes, NEW off \in Sizes,
         Data!SizesOfFile(len, off)
  PROVE  len \in Nat /\ off \in Nat /\ off + len <= Data!SSIZE_MAX
<1>1. len \in 0..2^W - 1 /\ off \in 0..2^W - 1
  BY DEF Data!SizesAssumption
<1>2. len <= Data!SSIZE_MAX /\ off <= Data!SSIZE_MAX
  BY <1>1, Halves DEF Data!SizesOfFile, Data!AsSigned
<1>3. len + off \in 0..2^W - 1
  BY <1>1, <1>2, Halves
<1>4. Data!Wrap(len + off) = len + off
  BY <1>3, Halves
<1>. QED BY <1>1, <1>3, <1>4, Halves DEF Data!SizesOfFile, Data!AsSigned

LEMMA Refused ==
  ASSUME DataInv, response = NULL, result = "none", NEW g, Data!Refuse(g)
  PROVE  DataInv'
BY DEF DataInv, Data!Refuse

LEMMA Accepted ==
  ASSUME NullAssumption, DataInv, response = NULL, result = "none", NEW g, NEW r,
         Data!Accept(g, r, Allocated(r)), DOMAIN r = DOMAIN Data!Fresh,
         g.owned = IF r.crfc = "copy" THEN "none" ELSE r.crfc,
         r.crc = "file_reader" => FileFits(r)
  PROVE  DataInv'
<1>1. /\ response' = r /\ heap' = Allocated(r) /\ result' = "response"
      /\ released' = released /\ given' = g
  BY DEF Data!Accept, DataInv
<1>2. response' # NULL
  BY <1>1 DEF NullAssumption
<1>3. ResponseKept'
  BY <1>1 DEF ResponseKept, Allocated, FileFits
<1>. QED BY <1>1, <1>2, <1>3 DEF DataInv

LEMMA FromCallbackKeeps ==
  ASSUME NullAssumption, DataInv, response = NULL, result = "none",
         NEW g, NEW len, NEW block, NEW reader, NEW crfc, NEW memory, NEW mutex, NEW more,
         Data!FromCallback(g, len, block, reader, crfc, memory, mutex, more),
         g.owned = crfc, crfc # "copy",
         reader = "file_reader" =>
           more.off \in Nat /\ len \in Nat /\ more.off + len <= Data!SSIZE_MAX
  PROVE  DataInv'
<1>. DEFINE r == [Data!Fresh EXCEPT !.total = len, !.size = 0, !.crc = reader, !.crfc = crfc,
                               !.fd = more.fd, !.off = more.off, !.pipe = more.pipe]
<1>1. /\ DOMAIN r = DOMAIN Data!Fresh /\ r.total = len /\ r.crc = reader /\ r.crfc = crfc
      /\ r.off = more.off /\ r.iov = << >>
  BY DEF Data!Fresh
<1>2. Data!Refuse(g) \/ Data!Accept(g, r, {"response", "mutex"})
  BY DEF Data!FromCallback
<1>. HIDE DEF r
<1>3. Allocated(r) = {"response", "mutex"} /\ (r.crc = "file_reader" => FileFits(r))
  BY <1>1 DEF Allocated, FileFits
<1>. QED BY <1>1, <1>2, <1>3, Refused, Accepted

LEMMA FromBufferKeeps ==
  ASSUME NullAssumption, DataInv, response = NULL, result = "none",
         NEW g, NEW len, NEW buffer, NEW crfc, NEW memory, NEW mutex, NEW also,
         Data!FromBuffer(g, len, buffer, crfc, memory, mutex, also),
         also = IF crfc = "copy" THEN {"copy"} ELSE {},
         g.owned = IF crfc = "copy" THEN "none" ELSE crfc
  PROVE  DataInv'
<1>. DEFINE r == [Data!Fresh EXCEPT !.total = len, !.data = buffer, !.size = len, !.crfc = crfc]
<1>1. DOMAIN r = DOMAIN Data!Fresh /\ r.crfc = crfc /\ r.iov = << >> /\ r.crc = "none"
  BY DEF Data!Fresh
<1>2. Data!Refuse(g) \/ Data!Accept(g, r, {"response", "mutex"} \cup also)
  BY DEF Data!FromBuffer
<1>. HIDE DEF r
<1>3. Allocated(r) = {"response", "mutex"} \cup also
  BY <1>1 DEF Allocated
<1>. QED BY <1>1, <1>2, <1>3, Refused, Accepted

LEMMA IovecKeeps ==
  ASSUME NullAssumption, DataInv, result = "none",
         NEW iov, NEW copied, NEW memory, NEW mutex,
         Data!CreateFromIovec(iov, copied, memory, mutex)
  PROVE  DataInv'
<1>. DEFINE g == [Data!Nothing EXCEPT !.call = "iovec", !.parts = iov, !.owned = "cls"]
            r == [Data!Fresh EXCEPT !.total = Data!SumOf(iov), !.crfc = "cls"]
            parts == Data!NonEmpty(iov)
            r1 == [r EXCEPT !.data = parts[1].base, !.size = r.total]
            r2 == [r EXCEPT !.iov = parts]
<1>1. g.owned = "cls" /\ response = NULL
  BY DEF Data!Nothing, Data!CreateFromIovec, Data!NoResponse
<1>2. DOMAIN r = DOMAIN Data!Fresh /\ r.crfc = "cls" /\ r.iov = << >> /\ r.crc = "none"
  BY DEF Data!Fresh
<1>3. DOMAIN r1 = DOMAIN Data!Fresh /\ r1.crfc = "cls" /\ r1.iov = << >> /\ r1.crc = "none"
  BY DEF Data!Fresh
<1>4. DOMAIN r2 = DOMAIN Data!Fresh /\ r2.crfc = "cls" /\ r2.iov = parts /\ r2.crc = "none"
  BY DEF Data!Fresh
<1>5. \/ Data!Refuse(g) \/ Data!Accept(g, r, {"response", "mutex"})
      \/ Data!Accept(g, r1, {"response", "mutex"})
      \/ Data!Accept(g, r2, {"response", "mutex", "iov"}) /\ Len(parts) # 0
  BY DEF Data!CreateFromIovec
<1>. HIDE DEF g, r, r1, r2, parts
<1>6. Allocated(r) = {"response", "mutex"} /\ Allocated(r1) = {"response", "mutex"}
  BY <1>2, <1>3 DEF Allocated
<1>7. CASE Data!Accept(g, r2, {"response", "mutex", "iov"}) /\ Len(parts) # 0
  <2>1. parts # << >>
    BY <1>7
  <2>2. Allocated(r2) = {"response", "mutex", "iov"}
    BY <1>4, <2>1 DEF Allocated
  <2>. QED BY <1>1, <1>4, <1>7, <2>2, Accepted
<1>. QED BY <1>1, <1>2, <1>3, <1>5, <1>6, <1>7, Refused, Accepted

LEMMA DataInitially ==
  ASSUME Data!Init PROVE DataInv
BY DEF Data!Init, DataInv, Data!NoResponse, Handed

LEMMA CreateKeeps ==
  ASSUME Data!WidthAssumption, Data!SizesAssumption, NullAssumption, DataInv, result = "none",
         NEW memory \in BOOLEAN, NEW mutex \in BOOLEAN, NEW other \in BOOLEAN,
         \/ \E len \in Sizes, block \in {0, BlockSize}, reader \in {"none", "app"} :
              Data!CreateFromCallback(len, block, reader, memory, mutex)
         \/ \E len, off \in Sizes : Data!CreateFromFd(len, off, memory, mutex)
         \/ Data!CreateFromPipe(memory, mutex)
         \/ \E len \in Sizes, b \in Buffers \cup {NULL} :
              Data!CreateFromBuffer(len, b, other, memory, mutex)
         \/ \E len \in Sizes, b \in Buffers \cup {NULL} :
              Data!CreateFromCopy(len, b, other, memory, mutex)
         \/ \E n \in 0..MaxIov : \E iov \in [1..n -> Data!Elements] :
              Data!CreateFromIovec(iov, other, memory, mutex)
         \/ Data!CreateEmpty(memory, mutex)
  PROVE  DataInv'
<1>1. ASSUME NEW len \in Sizes, NEW block \in {0, BlockSize}, NEW reader \in {"none", "app"},
             Data!CreateFromCallback(len, block, reader, memory, mutex)
      PROVE  DataInv'
  <2>. DEFINE g == [Data!Nothing EXCEPT !.call = "callback", !.size = len, !.owned = "cls"]
  <2>1. g.owned = "cls" /\ reader # "file_reader"
    BY DEF Data!Nothing
  <2>2. response = NULL /\ Data!FromCallback(g, len, block, reader, "cls", memory, mutex,
                                        [fd |-> FALSE, off |-> 0, pipe |-> FALSE])
    BY <1>1 DEF Data!CreateFromCallback, Data!NoResponse
  <2>. HIDE DEF g
  <2>. QED BY <2>1, <2>2, FromCallbackKeeps
<1>2. ASSUME NEW len \in Sizes, NEW off \in Sizes, Data!CreateFromFd(len, off, memory, mutex)
      PROVE  DataInv'
  <2>. DEFINE g == [Data!Nothing EXCEPT !.call = "fd", !.size = len, !.off = off, !.owned = "fd"]
              more == [fd |-> TRUE, off |-> off, pipe |-> FALSE]
  <2>1. g.owned = "fd" /\ more.off = off
    BY DEF Data!Nothing
  <2>2. /\ response = NULL
        /\ IF Data!SizesOfFile(len, off)
             THEN Data!FromCallback(g, len, BlockSize, "file_reader", "fd", memory, mutex, more)
             ELSE Data!Refuse(g)
    BY <1>2 DEF Data!CreateFromFd, Data!NoResponse
  <2>. HIDE DEF g, more
  <2>3. CASE Data!SizesOfFile(len, off)
    BY <2>1, <2>2, <2>3, SizesFit, FromCallbackKeeps
  <2>4. CASE ~ Data!SizesOfFile(len, off)
    BY <2>2, <2>4, Refused
  <2>. QED BY <2>3, <2>4
<1>3. ASSUME Data!CreateFromPipe(memory, mutex) PROVE DataInv'
  <2>. DEFINE g == [Data!Nothing EXCEPT !.call = "pipe", !.size = Data!SIZE_UNKNOWN, !.owned = "fd"]
  <2>1. g.owned = "fd"
    BY DEF Data!Nothing
  <2>2. response = NULL /\ Data!FromCallback(g, Data!SIZE_UNKNOWN, BlockSize, "pipe_reader", "fd",
                                             memory, mutex, [fd |-> TRUE, off |-> 0, pipe |-> TRUE])
    BY <1>3 DEF Data!CreateFromPipe, Data!NoResponse
  <2>. HIDE DEF g
  <2>. QED BY <2>1, <2>2, FromCallbackKeeps
<1>4. ASSUME NEW len \in Sizes, NEW b \in Buffers \cup {NULL},
             Data!CreateFromBuffer(len, b, other, memory, mutex)
      PROVE  DataInv'
  <2>. DEFINE owner == IF other THEN "buffer" ELSE "none"
              g == [Data!Nothing EXCEPT !.call = "buffer", !.size = len,
                                   !.parts = <<[base |-> b, len |-> len]>>, !.owned = owner]
  <2>1. g.owned = owner /\ owner # "copy"
    BY DEF Data!Nothing
  <2>2. response = NULL /\ Data!FromBuffer(g, len, b, owner, memory, mutex, {})
    BY <1>4 DEF Data!CreateFromBuffer, Data!NoResponse
  <2>. HIDE DEF g, owner
  <2>. QED BY <2>1, <2>2, FromBufferKeeps
<1>5. ASSUME NEW len \in Sizes, NEW b \in Buffers \cup {NULL},
             Data!CreateFromCopy(len, b, other, memory, mutex)
      PROVE  DataInv'
  <2>. DEFINE g == [Data!Nothing EXCEPT !.call = "copy", !.size = len,
                                   !.parts = <<[base |-> b, len |-> len]>>]
  <2>1. g.owned = "none"
    BY DEF Data!Nothing
  <2>2. /\ response = NULL
        /\ \/ Data!FromBuffer(g, 0, NULL, "none", memory, mutex, {})
           \/ Data!Refuse(g)
           \/ Data!FromBuffer(g, len, b, "copy", memory, mutex, {"copy"})
    BY <1>5 DEF Data!CreateFromCopy, Data!NoResponse
  <2>. HIDE DEF g
  <2>. QED BY <2>1, <2>2, FromBufferKeeps, Refused
<1>6. ASSUME NEW iov, Data!CreateFromIovec(iov, other, memory, mutex) PROVE DataInv'
  BY <1>6, IovecKeeps
<1>7. ASSUME Data!CreateEmpty(memory, mutex) PROVE DataInv'
  <2>. DEFINE g == [Data!Nothing EXCEPT !.call = "empty"]
  <2>1. g.owned = "none"
    BY DEF Data!Nothing
  <2>2. response = NULL /\ (Data!Accept(g, Data!Fresh, {"response", "mutex"}) \/ Data!Refuse(g))
    BY <1>7 DEF Data!CreateEmpty, Data!NoResponse
  <2>3. CASE Data!Accept(g, Data!Fresh, {"response", "mutex"})
    <3>1. /\ Allocated(Data!Fresh) = {"response", "mutex"}
          /\ Data!Fresh.crfc = "none" /\ Data!Fresh.crc = "none"
      BY DEF Data!Fresh, Allocated
    <3>. HIDE DEF g
    <3>. QED BY <2>1, <2>2, <2>3, <3>1, Accepted
  <2>. QED BY <2>2, <2>3, Refused
<1>. QED BY <1>1, <1>2, <1>3, <1>4, <1>5, <1>6, <1>7

LEMMA ReadFileKeeps ==
  ASSUME Data!WidthAssumption, DataInv, NEW at \in 0..(2^W - 1), Data!ReadFile(at)
  PROVE  DataInv'
<1>1. /\ response # NULL /\ response.crc = "file_reader" /\ at < response.total
      /\ UNCHANGED <<response, heap, released, given>>
      /\ \E n : result' = Data!FileReader(response, at, n)
  BY DEF Data!ReadFile, Data!NoResponse
<1>2. ResponseKept /\ FileFits(response)
  BY <1>1 DEF DataInv, ResponseKept
<1>3. at + response.off \in 0..Data!SSIZE_MAX
  BY <1>1, <1>2, Halves DEF FileFits
<1>4. Data!Wrap(at + response.off) = at + response.off
  BY <1>3, Halves
<1>5. result' \in {"END_OF_STREAM", "data"}
  BY <1>1, <1>3, <1>4, Halves DEF Data!FileReader, Data!AsSigned
<1>. QED BY <1>1, <1>2, <1>5 DEF DataInv, ResponseKept, Allocated, FileFits

LEMMA ReadPipeKeeps ==
  ASSUME DataInv, NEW n \in -1..1, Data!ReadPipe(n)
  PROVE  DataInv'
<1>1. /\ response # NULL /\ response.crc = "pipe_reader"
      /\ UNCHANGED <<response, heap, released, given>>
      /\ result' \in {"END_OF_STREAM", "END_WITH_ERROR", "data"}
  BY DEF Data!ReadPipe, Data!NoResponse
<1>. QED BY <1>1 DEF DataInv, ResponseKept, Allocated, FileFits

LEMMA DestroyKeeps ==
  ASSUME DataInv, Data!Destroy
  PROVE  DataInv'
<1>1. /\ response # NULL /\ response' = NULL /\ result' = "destroyed" /\ given' = given
      /\ heap' = heap \ Allocated(response)
      /\ released' = [x \in Handed |-> released[x] + IF x = response.crfc THEN 1 ELSE 0]
  BY DEF Data!Destroy, Data!NoResponse, DataInv, Allocated
<1>2. ResponseKept /\ \A x \in Handed : released[x] = 0
  BY <1>1 DEF DataInv, ResponseKept
<1>3. heap' = {}
  BY <1>1, <1>2 DEF ResponseKept
<1>4. \A x \in Handed : x = response.crfc <=> given.owned = x
  BY <1>2 DEF ResponseKept, Handed
<1>5. \A x \in Handed : released'[x] = IF given'.owned = x THEN 1 ELSE 0
  BY <1>1, <1>2, <1>4
<1>. QED BY <1>1, <1>3, <1>5 DEF DataInv

LEMMA DataStep ==
  ASSUME Data!WidthAssumption, Data!SizesAssumption, NullAssumption, DataInv,
         [Data!Next]_(Data!vars)
  PROVE  DataInv'
<1>1. CASE UNCHANGED Data!vars
  BY <1>1 DEF Data!vars, DataInv, ResponseKept, Allocated, FileFits
<1>. QED BY <1>1, CreateKeeps, ReadFileKeeps, ReadPipeKeeps, DestroyKeeps DEF Data!Next

-----------------------------------------------------------------------------
(* Whatever fails while a response is made, the library keeps memory only  *)
(* while there is a response, and it releases what the application handed  *)
(* over once, with the response, and never after a refusal; and the tests  *)
(* of the size and the offset of a file leave no position of the body at   *)
(* which file_reader() would compute a negative offset, for any width of   *)
(* the integers.                                                           *)
THEOREM DataOwned ==
  ASSUME Data!WidthAssumption, Data!SizesAssumption, NullAssumption
  PROVE  Data!Spec => [](Data!OwnedOnce /\ Data!FileOffsetsValid)
<1>1. Data!Init => DataInv
  BY DataInitially
<1>2. DataInv /\ [Data!Next]_(Data!vars) => DataInv'
  BY DataStep
<1>3. DataInv => Data!OwnedOnce /\ Data!FileOffsetsValid
  BY DEF DataInv, Data!OwnedOnce, Data!FileOffsetsValid, ResponseKept, Data!NoResponse
<1>. QED BY <1>1, <1>2, <1>3, PTL DEF Data!Spec
==============================================================================
