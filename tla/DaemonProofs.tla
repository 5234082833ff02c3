---------------------------- MODULE DaemonProofs ----------------------------
(***************************************************************************)
(* Proofs about Daemon, for any number of connections and addresses and    *)
(* any limits: the type invariant, the exactness of both counters, the     *)
(* agreement of flags and lists, the absence of lost wake-ups and the      *)
(* completeness of a shutdown.  They all follow from one inductive         *)
(* invariant, IInv.                                                        *)
(***************************************************************************)
EXTENDS Daemon, FiniteSetTheorems, TLAPS


(***************************************************************************)
(* The strengthening: which connections are where while the thread shuts   *)
(* down.                                                                   *)
(***************************************************************************)
ExitSteps == {"x_resume", "x_drain", "x_forward", "x_force", "x_mark",
              "x_resume2", "x_close", "x_cleanup", "x_free", "x_count",
              "exited", "panic"}

\* Nothing is prepared or newly suspended once the daemon stops.
StopRequested ==
  /\ pc \in ExitSteps => shutdown
  /\ shutdown => \A c \in Conn :
                   /\ list[c] # "prepared"
                   /\ list[c] = "suspended" => urh[c] \/ resuming[c]

\* Each step of close_all_connections() empties one list, and nothing refills
\* it later.
StopProgress ==
  \A c \in Conn :
    /\ list[c] = "new" => pc \notin (ExitSteps \ {"x_resume", "x_drain"})
    /\ list[c] = "suspended" =>
         /\ pc \notin {"x_close", "x_cleanup", "x_free", "x_count", "exited"}
         /\ pc \in {"x_mark", "x_resume2"} => urh[c]
         /\ pc = "x_resume2" => resuming[c] /\ was_closed[c]
    /\ list[c] = "connections" =>
         pc \notin {"x_cleanup", "x_free", "x_count", "exited"}
    /\ list[c] = "cleanup" => pc # "exited"
    /\ urh_listed[c] => pc \notin {"x_force", "x_mark", "x_resume2"}

\* A connection is in the thread's hands only at the steps that handle it.
HeldByThread ==
  \A c \in Conn :
    /\ list[c] = "local" => pc \in {"newproc", "acceptproc"}
    /\ list[c] = "closing" => pc \in {"free", "x_free"}
    /\ list[c] = "released" => pc \in {"count", "x_count"}
    /\ notified[c] = "started" =>
         list[c] \in {"connections", "suspended", "cleanup", "closing"}
    /\ \A d \in Conn :
         {list[c], list[d]} \subseteq {"closing", "released"} => c = d

\* The handle of an upgraded connection.
UpgradeHandle ==
  \A c \in Conn :
    /\ urh_listed[c] => urh[c]
    /\ urh[c] => AllowUpgrade /\ list[c] \in {"suspended", "cleanup", "closing"}
    /\ urh[c] => (clean_ready[c] <=> ~urh_listed[c])

\* The inductive invariant, in the parts that are proved together.
LoopInv == VisitsLive /\ NoLostWakeup /\ AtLimitClearable

FlagInv ==
  FlagsMatchList /\ ResumeFlagged /\ UpgradeHandle /\ UpgradeReleasedByBoth

StopInv == NoPanic /\ StopRequested /\ StopProgress /\ HeldByThread

IInv == TypeOK /\ CountExact /\ IpCountExact /\ LoopInv /\ FlagInv /\ StopInv

-----------------------------------------------------------------------------
\* Helpers of several actions keep the types of what they change.
\* internal_suspend_connection_().
LEMMA InternalSuspendType ==
  ASSUME TypeOK, NEW c \in Conn, InternalSuspend(c)
  PROVE  /\ list' \in [Conn -> Places]
         /\ suspended' \in [Conn -> BOOLEAN]
         /\ resuming' \in [Conn -> BOOLEAN]
  BY DEF TypeOK, ConnectionTypeOK, InternalSuspend, Places

\* The socket of a visited connection.
LEMMA SocketUsedType ==
  ASSUME TypeOK, NEW c \in Conn, SocketUsed(c)
  PROVE  sock' \in [Conn -> {"idle", "ready", "error"}]
  BY DEF TypeOK, ConnectionTypeOK, SocketUsed

\* resume_suspended_connections().
LEMMA ResumeSuspendedType ==
  ASSUME TypeOK, NEW R, ResumeSuspended(R)
  PROVE  /\ list' \in [Conn -> Places]
         /\ suspended' \in [Conn -> BOOLEAN]
         /\ resuming' \in [Conn -> BOOLEAN]
         /\ d_resuming' \in BOOLEAN
         /\ data_already_pending' \in BOOLEAN
  BY DEF TypeOK, ConnectionTypeOK, DaemonTypeOK, ResumeSuspended, Places

\* Types are kept, given that the two counters stay natural numbers.
LEMMA TypeStep ==
  ASSUME TypeOK, Next, connections' \in Nat, ip_count' \in [Addr -> Nat]
  PROVE  TypeOK'
<1> USE ModeAssumption DEF TypeOK, DaemonTypeOK, ConnectionTypeOK,
        ThreadTypeOK, Places, Infos, Processing, DaemonSteps, Signals, dvars,
        uvars, cvars, lvars, wvars
<1>1. ASSUME NEW c \in Conn, ClientConnect(c) PROVE TypeOK'
  BY <1>1 DEF ClientConnect
<1>2. ASSUME NEW c \in Conn, SocketEvent(c) PROVE TypeOK'
  BY <1>2 DEF SocketEvent
<1>3. ASSUME NEW c \in Conn, AddPrepare(c) PROVE TypeOK'
  BY <1>3 DEF AddPrepare
<1>4. ASSUME NEW c \in Conn, AddInsert(c) PROVE TypeOK'
  BY <1>4 DEF AddInsert, Signal
<1>5. ASSUME NEW c \in Conn, MHD_resume_connection(c) PROVE TypeOK'
  BY <1>5 DEF MHD_resume_connection, Signal
<1>6. ASSUME NEW c \in Conn, MHD_upgraded_connection_mark_app_closed_(c) PROVE TypeOK'
  BY <1>6 DEF MHD_upgraded_connection_mark_app_closed_, Signal
<1>7. ASSUME NEW c \in Conn, NewConnectionProcess(c) PROVE TypeOK'
  <2>1. DaemonTypeOK'
    BY <1>7 DEF NewConnectionProcess
  <2>2. ConnectionTypeOK'
    BY <1>7 DEF NewConnectionProcess
  <2>3. ThreadTypeOK'
    BY <1>7 DEF NewConnectionProcess
  <2>4. QED
    BY <2>1, <2>2, <2>3
<1>8. ASSUME NEW c \in Conn, VisitProgress(c) PROVE TypeOK'
  BY <1>8, SocketUsedType DEF VisitProgress, Advance
<1>9. ASSUME NEW c \in Conn, VisitNothing(c) PROVE TypeOK'
  BY <1>9 DEF VisitNothing, Advance
<1>10. ASSUME NEW c \in Conn, VisitClose(c) PROVE TypeOK'
  BY <1>10 DEF VisitClose, Advance
<1>11. ASSUME NEW c \in Conn, VisitSuspend(c) PROVE TypeOK'
  <2>1. DaemonTypeOK'
    BY <1>11, InternalSuspendType, SocketUsedType DEF VisitSuspend, Advance
  <2>2. ConnectionTypeOK'
    BY <1>11, InternalSuspendType, SocketUsedType DEF VisitSuspend, Advance
  <2>3. ThreadTypeOK'
    BY <1>11, InternalSuspendType, SocketUsedType DEF VisitSuspend, Advance
  <2>4. QED
    BY <2>1, <2>2, <2>3
<1>12. ASSUME NEW c \in Conn, VisitUpgrade(c) PROVE TypeOK'
  <2>1. DaemonTypeOK'
    BY <1>12, InternalSuspendType, SocketUsedType DEF VisitUpgrade, Advance
  <2>2. ConnectionTypeOK'
    BY <1>12, InternalSuspendType, SocketUsedType DEF VisitUpgrade, Advance
  <2>3. ThreadTypeOK'
    BY <1>12, InternalSuspendType, SocketUsedType DEF VisitUpgrade, Advance
  <2>4. QED
    BY <2>1, <2>2, <2>3
<1>13. ASSUME NEW c \in Conn, FinishForward(c) PROVE TypeOK'
  BY <1>13 DEF FinishForward
<1>14. ASSUME NEW c \in Conn, CleanupTake(c) PROVE TypeOK'
  BY <1>14 DEF CleanupTake
<1>15. ASSUME NEW c \in Conn, CleanupFree(c) PROVE TypeOK'
  BY <1>15 DEF CleanupFree
<1>16. ASSUME NEW c \in Conn, CleanupCount(c) PROVE TypeOK'
  <2>1. DaemonTypeOK'
    BY <1>16 DEF CleanupCount
  <2>2. ConnectionTypeOK' /\ ThreadTypeOK'
    BY <1>16 DEF CleanupCount
  <2>3. QED
    BY <2>1, <2>2
<1>17. ASSUME NEW c \in Conn, ExitDrain(c) PROVE TypeOK'
  BY <1>17 DEF ExitDrain
<1>18. ASSUME NEW c \in Conn, ExitClose(c) PROVE TypeOK'
  BY <1>18 DEF ExitClose
<1>19. ASSUME NEW c \in Conn, SuspendAgain(c) PROVE TypeOK'
  BY <1>19, InternalSuspendType DEF SuspendAgain
<1>20. ASSUME Top PROVE TypeOK'
  BY <1>20 DEF Top
<1>21. ASSUME Resume PROVE TypeOK'
  BY <1>21, ResumeSuspendedType DEF Resume
<1>22. ASSUME Fdset PROVE TypeOK'
  <2>1. DaemonTypeOK'
    BY <1>22 DEF Fdset, In
  <2>2. ConnectionTypeOK'
    BY <1>22 DEF Fdset, In
  <2>3. ThreadTypeOK'
    BY <1>22 DEF Fdset, In
  <2>4. QED
    BY <2>1, <2>2, <2>3
<1>23. ASSUME Wait PROVE TypeOK'
  BY <1>23 DEF Wait
<1>24. ASSUME Clear PROVE TypeOK'
  BY <1>24, ZenonT(60) DEF Clear
<1>25. ASSUME New PROVE TypeOK'
  <2>1. DaemonTypeOK'
    BY <1>25 DEF New
  <2>2. ConnectionTypeOK'
    BY <1>25 DEF New
  <2>3. ThreadTypeOK'
    BY <1>25 DEF New
  <2>4. QED
    BY <2>1, <2>2, <2>3
<1>26. ASSUME NewDone PROVE TypeOK'
  <2>1. DaemonTypeOK'
    BY <1>26 DEF NewDone, StartVisits, In
  <2>2. ConnectionTypeOK'
    BY <1>26 DEF NewDone, StartVisits, In
  <2>3. ThreadTypeOK'
    BY <1>26 DEF NewDone, StartVisits, In
  <2>4. QED
    BY <2>1, <2>2, <2>3
<1>27. ASSUME Accept PROVE TypeOK'
  <2>1. DaemonTypeOK'
    BY <1>27 DEF Accept
  <2>2. ConnectionTypeOK'
    BY <1>27 DEF Accept
  <2>3. ThreadTypeOK'
    BY <1>27 DEF Accept
  <2>4. QED
    BY <2>1, <2>2, <2>3
<1>28. ASSUME AcceptNothing PROVE TypeOK'
  BY <1>28, ZenonT(60) DEF AcceptNothing, StartVisits, In
<1>29. ASSUME VisitsDone PROVE TypeOK'
  BY <1>29 DEF VisitsDone
<1>30. ASSUME ForwardDone PROVE TypeOK'
  BY <1>30 DEF ForwardDone
<1>31. ASSUME CleanupDone PROVE TypeOK'
  BY <1>31 DEF CleanupDone
<1>32. ASSUME ExitResume PROVE TypeOK'
  BY <1>32, ResumeSuspendedType DEF ExitResume
<1>33. ASSUME ExitDrained PROVE TypeOK'
  BY <1>33 DEF ExitDrained
<1>34. ASSUME ExitForcedResume PROVE TypeOK'
  <2>1. DaemonTypeOK'
    BY <1>34, ResumeSuspendedType DEF ExitForcedResume
  <2>2. ConnectionTypeOK'
    BY <1>34, ResumeSuspendedType, ZenonT(60) DEF ExitForcedResume
  <2>3. ThreadTypeOK'
    BY <1>34, ResumeSuspendedType DEF ExitForcedResume
  <2>4. QED
    BY <2>1, <2>2, <2>3
<1>35. ASSUME ExitMark PROVE TypeOK'
  <2>1. DaemonTypeOK'
    BY <1>35 DEF ExitMark
  <2>2. /\ was_closed' \in [Conn -> BOOLEAN] /\ urh_listed' \in [Conn -> BOOLEAN]
        /\ resuming' \in [Conn -> BOOLEAN]
    <3>1. CASE UNCHANGED <<urh_listed, was_closed, resuming>>
      BY <3>1
    <3>2. CASE was_closed' = [c \in Conn |-> was_closed[c] \/ list[c] = "suspended"]
               /\ urh_listed' = [c \in Conn |->
                                   urh_listed[c] /\ list[c] # "suspended"]
               /\ resuming' = [c \in Conn |-> resuming[c] \/ list[c] = "suspended"]
      <4>1. was_closed' \in [Conn -> BOOLEAN]
        BY <3>2
      <4>2. urh_listed' \in [Conn -> BOOLEAN]
        BY <3>2
      <4>3. resuming' \in [Conn -> BOOLEAN]
        BY <3>2
      <4>4. QED
        BY <4>1, <4>2, <4>3
    <3>3. QED
      BY <1>35, <3>1, <3>2 DEF ExitMark
  <2>3. ConnectionTypeOK'
    BY <1>35, <2>2 DEF ExitMark
  <2>4. ThreadTypeOK'
    BY <1>35 DEF ExitMark
  <2>5. QED
    BY <2>1, <2>3, <2>4
<1>36. ASSUME ExitClosed PROVE TypeOK'
  BY <1>36 DEF ExitClosed
<1>37. ASSUME MHD_quiesce_daemon PROVE TypeOK'
  BY <1>37 DEF MHD_quiesce_daemon, Signal
<1>38. ASSUME MHD_stop_daemon PROVE TypeOK'
  BY <1>38 DEF MHD_stop_daemon, Signal
<1>39. ASSUME NEW s \in Signals, ItcActivate(s) PROVE TypeOK'
  BY <1>39 DEF ItcActivate
<1>40. QED
  BY <1>1, <1>2, <1>3, <1>4, <1>5, <1>6, <1>7, <1>8, <1>9, <1>10, <1>11,
     <1>12, <1>13, <1>14, <1>15, <1>16, <1>17, <1>18, <1>19, <1>20, <1>21,
     <1>22, <1>23, <1>24, <1>25, <1>26, <1>27, <1>28, <1>29, <1>30, <1>31,
     <1>32, <1>33, <1>34, <1>35, <1>36, <1>37, <1>38, <1>39
  DEF Next, Network, Application, PollingThreadOn, PollingThread

-----------------------------------------------------------------------------
\* What the daemon thread holds while it polls and walks the list.
LEMMA LoopStep ==
  ASSUME TypeOK, LoopInv, Next
  PROVE  LoopInv'
<1> USE ModeAssumption DEF TypeOK, DaemonTypeOK, ConnectionTypeOK,
        ThreadTypeOK, LoopInv, VisitsLive, NoLostWakeup, AtLimitClearable,
        Resumable, In, dvars, uvars, cvars, lvars, wvars
<1>1. ASSUME NEW c \in Conn, ClientConnect(c) PROVE LoopInv'
  BY <1>1 DEF ClientConnect
<1>2. ASSUME NEW c \in Conn, SocketEvent(c) PROVE LoopInv'
  BY <1>2 DEF SocketEvent
<1>3. ASSUME NEW c \in Conn, AddPrepare(c) PROVE LoopInv'
  BY <1>3 DEF AddPrepare
<1>4. ASSUME NEW c \in Conn, AddInsert(c) PROVE LoopInv'
  BY <1>4 DEF AddInsert, Signal
<1>5. ASSUME NEW c \in Conn, MHD_resume_connection(c) PROVE LoopInv'
  BY <1>5 DEF MHD_resume_connection, Signal
<1>6. ASSUME NEW c \in Conn, MHD_upgraded_connection_mark_app_closed_(c) PROVE LoopInv'
  BY <1>6 DEF MHD_upgraded_connection_mark_app_closed_, Signal
<1>7. ASSUME NEW c \in Conn, NewConnectionProcess(c) PROVE LoopInv'
  BY <1>7 DEF NewConnectionProcess
<1>8. ASSUME NEW c \in Conn, VisitProgress(c) PROVE LoopInv'
  BY <1>8 DEF VisitProgress, Advance
<1>9. ASSUME NEW c \in Conn, VisitNothing(c) PROVE LoopInv'
  BY <1>9 DEF VisitNothing, Advance
<1>10. ASSUME NEW c \in Conn, VisitClose(c) PROVE LoopInv'
  BY <1>10 DEF VisitClose, Advance
<1>11. ASSUME NEW c \in Conn, VisitSuspend(c) PROVE LoopInv'
  BY <1>11 DEF VisitSuspend, InternalSuspend, Advance
<1>12. ASSUME NEW c \in Conn, VisitUpgrade(c) PROVE LoopInv'
  BY <1>12 DEF VisitUpgrade, InternalSuspend, Advance
<1>13. ASSUME NEW c \in Conn, FinishForward(c) PROVE LoopInv'
  BY <1>13 DEF FinishForward
<1>14. ASSUME NEW c \in Conn, CleanupTake(c) PROVE LoopInv'
  BY <1>14 DEF CleanupTake
<1>15. ASSUME NEW c \in Conn, CleanupFree(c) PROVE LoopInv'
  BY <1>15 DEF CleanupFree
<1>16. ASSUME NEW c \in Conn, CleanupCount(c) PROVE LoopInv'
  BY <1>16 DEF CleanupCount
<1>17. ASSUME NEW c \in Conn, ExitDrain(c) PROVE LoopInv'
  BY <1>17 DEF ExitDrain
<1>18. ASSUME NEW c \in Conn, ExitClose(c) PROVE LoopInv'
  BY <1>18 DEF ExitClose
<1>19. ASSUME NEW c \in Conn, SuspendAgain(c) PROVE LoopInv'
  BY <1>19 DEF SuspendAgain, InternalSuspend
<1>20. ASSUME Top PROVE LoopInv'
  BY <1>20 DEF Top
<1>21. ASSUME Resume PROVE LoopInv'
  BY <1>21 DEF Resume, ResumeSuspended, ToResume
<1>22. ASSUME Fdset PROVE LoopInv'
  BY <1>22 DEF Fdset
<1>23. ASSUME Wait PROVE LoopInv'
  BY <1>23 DEF Wait
<1>24. ASSUME Clear PROVE LoopInv'
  BY <1>24 DEF Clear
<1>25. ASSUME New PROVE LoopInv'
  BY <1>25 DEF New
<1>26. ASSUME NewDone PROVE LoopInv'
  BY <1>26 DEF NewDone, StartVisits
<1>27. ASSUME Accept PROVE LoopInv'
  BY <1>27 DEF Accept
<1>28. ASSUME AcceptNothing PROVE LoopInv'
  BY <1>28 DEF AcceptNothing, StartVisits
<1>29. ASSUME VisitsDone PROVE LoopInv'
  BY <1>29 DEF VisitsDone
<1>30. ASSUME ForwardDone PROVE LoopInv'
  BY <1>30 DEF ForwardDone
<1>31. ASSUME CleanupDone PROVE LoopInv'
  BY <1>31 DEF CleanupDone
<1>32. ASSUME ExitResume PROVE LoopInv'
  BY <1>32 DEF ExitResume, ResumeSuspended, ToResume
<1>33. ASSUME ExitDrained PROVE LoopInv'
  BY <1>33 DEF ExitDrained
<1>34. ASSUME ExitForcedResume PROVE LoopInv'
  BY <1>34 DEF ExitForcedResume, ResumeSuspended, ToResume
<1>35. ASSUME ExitMark PROVE LoopInv'
  BY <1>35 DEF ExitMark
<1>36. ASSUME ExitClosed PROVE LoopInv'
  BY <1>36 DEF ExitClosed
<1>37. ASSUME MHD_quiesce_daemon PROVE LoopInv'
  BY <1>37 DEF MHD_quiesce_daemon, Signal
<1>38. ASSUME MHD_stop_daemon PROVE LoopInv'
  BY <1>38 DEF MHD_stop_daemon, Signal
<1>39. ASSUME NEW s \in Signals, ItcActivate(s) PROVE LoopInv'
  BY <1>39 DEF ItcActivate
<1>40. QED
  BY <1>1, <1>2, <1>3, <1>4, <1>5, <1>6, <1>7, <1>8, <1>9, <1>10, <1>11,
     <1>12, <1>13, <1>14, <1>15, <1>16, <1>17, <1>18, <1>19, <1>20, <1>21,
     <1>22, <1>23, <1>24, <1>25, <1>26, <1>27, <1>28, <1>29, <1>30, <1>31,
     <1>32, <1>33, <1>34, <1>35, <1>36, <1>37, <1>38, <1>39
  DEF Next, Network, Application, PollingThreadOn, PollingThread

\* resume_suspended_connections(), whether the check is forced or not.
LEMMA ResumeKeepsFlags ==
  ASSUME TypeOK, FlagInv, NEW flag \in BOOLEAN, d_resuming => flag,
         ResumeSuspended(ToResume(flag)), UNCHANGED uvars
  PROVE  FlagInv'
<1> USE DEF FlagInv
<1> DEFINE R == ToResume(flag)
<1>1. R = {c \in Conn : Resumable(c)}
  BY DEF ToResume, ResumeFlagged
<1>2. \A c \in Conn :
        /\ c \in R => list'[c] # "suspended" /\ ~suspended'[c] /\ ~resuming'[c]
        /\ c \notin R => /\ list'[c] = list[c] /\ suspended'[c] = suspended[c]
                        /\ resuming'[c] = resuming[c]
  BY DEF ResumeSuspended, TypeOK, ConnectionTypeOK
<1>3. \A c \in R : list'[c] = IF urh[c] THEN "cleanup" ELSE "connections"
  BY <1>1 DEF ResumeSuspended
<1>4. FlagsMatchList'
  BY <1>1, <1>2 DEF FlagsMatchList, Resumable
<1>5. ResumeFlagged'
  BY <1>1, <1>2 DEF ResumeFlagged, Resumable, uvars
<1>6. UpgradeHandle'
  BY <1>1, <1>2, <1>3 DEF UpgradeHandle, Resumable, uvars
<1>7. UpgradeReleasedByBoth'
  BY <1>1, <1>2, <1>3, SMTT(40)
  DEF UpgradeHandle, UpgradeReleasedByBoth, Resumable, uvars
<1>8. QED
  BY <1>4, <1>5, <1>6, <1>7 DEF FlagInv

\* The flags of suspended and upgraded connections.
LEMMA FlagsStep ==
  ASSUME TypeOK, VisitsLive, FlagInv, StopProgress, Next
  PROVE  FlagInv'
<1> USE ModeAssumption DEF TypeOK, DaemonTypeOK, ConnectionTypeOK, FlagInv,
        FlagsMatchList, ResumeFlagged, UpgradeHandle, UpgradeReleasedByBoth,
        VisitsLive, Resumable, In, dvars, uvars, cvars, lvars, wvars
<1>1. ASSUME NEW c \in Conn, ClientConnect(c) PROVE FlagInv'
  BY <1>1 DEF ClientConnect
<1>2. ASSUME NEW c \in Conn, SocketEvent(c) PROVE FlagInv'
  BY <1>2 DEF SocketEvent
<1>3. ASSUME NEW c \in Conn, AddPrepare(c) PROVE FlagInv'
  BY <1>3 DEF AddPrepare
<1>4. ASSUME NEW c \in Conn, AddInsert(c) PROVE FlagInv'
  BY <1>4 DEF AddInsert
<1>5. ASSUME NEW c \in Conn, MHD_resume_connection(c) PROVE FlagInv'
  BY <1>5 DEF MHD_resume_connection
<1>6. ASSUME NEW c \in Conn, MHD_upgraded_connection_mark_app_closed_(c) PROVE FlagInv'
  BY <1>6 DEF MHD_upgraded_connection_mark_app_closed_
<1>7. ASSUME NEW c \in Conn, NewConnectionProcess(c) PROVE FlagInv'
  BY <1>7 DEF NewConnectionProcess
<1>8. ASSUME NEW c \in Conn, VisitProgress(c) PROVE FlagInv'
  BY <1>8 DEF VisitProgress
<1>9. ASSUME NEW c \in Conn, VisitNothing(c) PROVE FlagInv'
  BY <1>9 DEF VisitNothing
<1>10. ASSUME NEW c \in Conn, VisitClose(c) PROVE FlagInv'
  BY <1>10 DEF VisitClose
<1>11. ASSUME NEW c \in Conn, VisitSuspend(c) PROVE FlagInv'
  BY <1>11 DEF VisitSuspend, InternalSuspend
<1>12. ASSUME NEW c \in Conn, VisitUpgrade(c) PROVE FlagInv'
  <2>1. /\ list[c] = "connections" /\ ~resuming[c]
        /\ list' = [list EXCEPT ![c] = "suspended"]
        /\ suspended' = [suspended EXCEPT ![c] = TRUE]
        /\ UNCHANGED <<resuming, d_resuming>>
    BY <1>12 DEF VisitUpgrade, InternalSuspend
  <2>2. (FlagsMatchList /\ ResumeFlagged)'
    BY <1>12, <2>1 DEF VisitUpgrade
  <2>3. UpgradeHandle'
    BY <1>12, <2>1, ZenonT(60) DEF VisitUpgrade
  <2>4. UpgradeReleasedByBoth'
    BY <1>12, <2>1 DEF VisitUpgrade
  <2>5. QED
    BY <2>2, <2>3, <2>4
<1>13. ASSUME NEW c \in Conn, FinishForward(c) PROVE FlagInv'
  BY <1>13 DEF FinishForward
<1>14. ASSUME NEW c \in Conn, CleanupTake(c) PROVE FlagInv'
  BY <1>14 DEF CleanupTake
<1>15. ASSUME NEW c \in Conn, CleanupFree(c) PROVE FlagInv'
  BY <1>15 DEF CleanupFree
<1>16. ASSUME NEW c \in Conn, CleanupCount(c) PROVE FlagInv'
  BY <1>16 DEF CleanupCount
<1>17. ASSUME NEW c \in Conn, ExitDrain(c) PROVE FlagInv'
  BY <1>17 DEF ExitDrain
<1>18. ASSUME NEW c \in Conn, ExitClose(c) PROVE FlagInv'
  BY <1>18 DEF ExitClose
<1>19. ASSUME NEW c \in Conn, SuspendAgain(c) PROVE FlagInv'
  BY <1>19 DEF SuspendAgain, InternalSuspend
<1>20. ASSUME Top PROVE FlagInv'
  BY <1>20 DEF Top
<1>21. ASSUME Resume PROVE FlagInv'
  BY <1>21, ResumeKeepsFlags DEF Resume
<1>22. ASSUME Fdset PROVE FlagInv'
  BY <1>22 DEF Fdset
<1>23. ASSUME Wait PROVE FlagInv'
  BY <1>23 DEF Wait
<1>24. ASSUME Clear PROVE FlagInv'
  BY <1>24 DEF Clear
<1>25. ASSUME New PROVE FlagInv'
  BY <1>25 DEF New
<1>26. ASSUME NewDone PROVE FlagInv'
  BY <1>26 DEF NewDone
<1>27. ASSUME Accept PROVE FlagInv'
  BY <1>27 DEF Accept
<1>28. ASSUME AcceptNothing PROVE FlagInv'
  BY <1>28 DEF AcceptNothing
<1>29. ASSUME VisitsDone PROVE FlagInv'
  BY <1>29 DEF VisitsDone
<1>30. ASSUME ForwardDone PROVE FlagInv'
  BY <1>30 DEF ForwardDone
<1>31. ASSUME CleanupDone PROVE FlagInv'
  BY <1>31 DEF CleanupDone
<1>32. ASSUME ExitResume PROVE FlagInv'
  BY <1>32, ResumeKeepsFlags DEF ExitResume
<1>33. ASSUME ExitDrained PROVE FlagInv'
  BY <1>33 DEF ExitDrained
<1>34. ASSUME ExitForcedResume PROVE FlagInv'
  <2>1. CASE ResumeSuspended(ToResume(TRUE))
    BY <1>34, <2>1, ResumeKeepsFlags DEF ExitForcedResume
  <2>2. CASE UNCHANGED <<list, suspended, resuming, d_resuming>>
    BY <1>34, <2>2 DEF ExitForcedResume
  <2>3. QED
    BY <1>34, <2>1, <2>2 DEF ExitForcedResume
<1>35. ASSUME ExitMark PROVE FlagInv'
  <2>1. CASE pc' = "panic"
    BY <1>35, <2>1 DEF ExitMark
  <2>2. CASE pc' = "x_resume2"
    <3>1. (FlagsMatchList /\ ResumeFlagged)'
      BY <1>35, <2>2 DEF ExitMark
    <3>2. (UpgradeHandle /\ UpgradeReleasedByBoth)'
      BY <1>35, <2>2 DEF ExitMark, StopProgress
    <3>3. QED
      BY <3>1, <3>2
  <2>3. QED
    BY <1>35, <2>1, <2>2 DEF ExitMark
<1>36. ASSUME ExitClosed PROVE FlagInv'
  BY <1>36 DEF ExitClosed
<1>37. ASSUME MHD_quiesce_daemon PROVE FlagInv'
  BY <1>37 DEF MHD_quiesce_daemon
<1>38. ASSUME MHD_stop_daemon PROVE FlagInv'
  BY <1>38 DEF MHD_stop_daemon
<1>39. ASSUME NEW s \in Signals, ItcActivate(s) PROVE FlagInv'
  BY <1>39, SMTT(40) DEF ItcActivate
<1>40. QED
  BY <1>1, <1>2, <1>3, <1>4, <1>5, <1>6, <1>7, <1>8, <1>9, <1>10, <1>11,
     <1>12, <1>13, <1>14, <1>15, <1>16, <1>17, <1>18, <1>19, <1>20, <1>21,
     <1>22, <1>23, <1>24, <1>25, <1>26, <1>27, <1>28, <1>29, <1>30, <1>31,
     <1>32, <1>33, <1>34, <1>35, <1>36, <1>37, <1>38, <1>39
  DEF Next, Network, Application, PollingThreadOn, PollingThread

\* The way through close_all_connections().
LEMMA StopStep ==
  ASSUME TypeOK, VisitsLive, FlagInv, StopInv, Next
  PROVE  StopInv'
<1> USE ModeAssumption DEF TypeOK, DaemonTypeOK, ConnectionTypeOK,
        ThreadTypeOK, FlagInv, StopInv, VisitsLive, FlagsMatchList,
        UpgradeHandle, ResumeFlagged, NoPanic, StopRequested, StopProgress,
        HeldByThread, ExitSteps, Resumable, In, dvars, uvars, cvars, lvars,
        wvars
<1>1. ASSUME NEW c \in Conn, ClientConnect(c) PROVE StopInv'
  BY <1>1 DEF ClientConnect
<1>2. ASSUME NEW c \in Conn, SocketEvent(c) PROVE StopInv'
  BY <1>2 DEF SocketEvent
<1>3. ASSUME NEW c \in Conn, AddPrepare(c) PROVE StopInv'
  BY <1>3 DEF AddPrepare
<1>4. ASSUME NEW c \in Conn, AddInsert(c) PROVE StopInv'
  BY <1>4 DEF AddInsert, Signal
<1>5. ASSUME NEW c \in Conn, MHD_resume_connection(c) PROVE StopInv'
  BY <1>5 DEF MHD_resume_connection, Signal
<1>6. ASSUME NEW c \in Conn, MHD_upgraded_connection_mark_app_closed_(c) PROVE StopInv'
  BY <1>6 DEF MHD_upgraded_connection_mark_app_closed_, Signal
<1>7. ASSUME NEW c \in Conn, NewConnectionProcess(c) PROVE StopInv'
  BY <1>7 DEF NewConnectionProcess
<1>8. ASSUME NEW c \in Conn, VisitProgress(c) PROVE StopInv'
  BY <1>8 DEF VisitProgress, Advance
<1>9. ASSUME NEW c \in Conn, VisitNothing(c) PROVE StopInv'
  BY <1>9 DEF VisitNothing, Advance
<1>10. ASSUME NEW c \in Conn, VisitClose(c) PROVE StopInv'
  BY <1>10 DEF VisitClose, Advance
<1>11. ASSUME NEW c \in Conn, VisitSuspend(c) PROVE StopInv'
  BY <1>11 DEF VisitSuspend, InternalSuspend, Advance
<1>12. ASSUME NEW c \in Conn, VisitUpgrade(c) PROVE StopInv'
  BY <1>12 DEF VisitUpgrade, InternalSuspend, Advance
<1>13. ASSUME NEW c \in Conn, FinishForward(c) PROVE StopInv'
  BY <1>13 DEF FinishForward
<1>14. ASSUME NEW c \in Conn, CleanupTake(c) PROVE StopInv'
  BY <1>14 DEF CleanupTake
<1>15. ASSUME NEW c \in Conn, CleanupFree(c) PROVE StopInv'
  BY <1>15 DEF CleanupFree
<1>16. ASSUME NEW c \in Conn, CleanupCount(c) PROVE StopInv'
  BY <1>16 DEF CleanupCount
<1>17. ASSUME NEW c \in Conn, ExitDrain(c) PROVE StopInv'
  BY <1>17 DEF ExitDrain
<1>18. ASSUME NEW c \in Conn, ExitClose(c) PROVE StopInv'
  BY <1>18 DEF ExitClose
<1>19. ASSUME NEW c \in Conn, SuspendAgain(c) PROVE StopInv'
  BY <1>19 DEF SuspendAgain, InternalSuspend
<1>20. ASSUME Top PROVE StopInv'
  BY <1>20 DEF Top
<1>21. ASSUME Resume PROVE StopInv'
  BY <1>21 DEF Resume, ResumeSuspended, ToResume
<1>22. ASSUME Fdset PROVE StopInv'
  BY <1>22 DEF Fdset
<1>23. ASSUME Wait PROVE StopInv'
  BY <1>23 DEF Wait
<1>24. ASSUME Clear PROVE StopInv'
  BY <1>24 DEF Clear
<1>25. ASSUME New PROVE StopInv'
  BY <1>25 DEF New
<1>26. ASSUME NewDone PROVE StopInv'
  BY <1>26 DEF NewDone, StartVisits
<1>27. ASSUME Accept PROVE StopInv'
  BY <1>27 DEF Accept
<1>28. ASSUME AcceptNothing PROVE StopInv'
  BY <1>28 DEF AcceptNothing, StartVisits
<1>29. ASSUME VisitsDone PROVE StopInv'
  BY <1>29 DEF VisitsDone
<1>30. ASSUME ForwardDone PROVE StopInv'
  BY <1>30 DEF ForwardDone
<1>31. ASSUME CleanupDone PROVE StopInv'
  BY <1>31 DEF CleanupDone
<1>32. ASSUME ExitResume PROVE StopInv'
  BY <1>32 DEF ExitResume, ResumeSuspended, ToResume
<1>33. ASSUME ExitDrained PROVE StopInv'
  BY <1>33 DEF ExitDrained
<1>34. ASSUME ExitForcedResume PROVE StopInv'
  BY <1>34 DEF ExitForcedResume, ResumeSuspended, ToResume
<1>35. ASSUME ExitMark PROVE StopInv'
  BY <1>35 DEF ExitMark
<1>36. ASSUME ExitClosed PROVE StopInv'
  BY <1>36 DEF ExitClosed
<1>37. ASSUME MHD_quiesce_daemon PROVE StopInv'
  BY <1>37 DEF MHD_quiesce_daemon, Signal
<1>38. ASSUME MHD_stop_daemon PROVE StopInv'
  BY <1>38 DEF MHD_stop_daemon, Signal
<1>39. ASSUME NEW s \in Signals, ItcActivate(s) PROVE StopInv'
  BY <1>39 DEF ItcActivate
<1>40. QED
  BY <1>1, <1>2, <1>3, <1>4, <1>5, <1>6, <1>7, <1>8, <1>9, <1>10, <1>11,
     <1>12, <1>13, <1>14, <1>15, <1>16, <1>17, <1>18, <1>19, <1>20, <1>21,
     <1>22, <1>23, <1>24, <1>25, <1>26, <1>27, <1>28, <1>29, <1>30, <1>31,
     <1>32, <1>33, <1>34, <1>35, <1>36, <1>37, <1>38, <1>39
  DEF Next, Network, Application, PollingThreadOn, PollingThread

-----------------------------------------------------------------------------
\* The connections that daemon->connections counts.
CountedConns == {c \in Conn : list[c] \in Counted}

\* There are finitely many of them.
LEMMA CountedFinite ==
  IsFiniteSet(CountedConns) /\ Cardinality(CountedConns) \in Nat
  BY ConnAssumption, FS_Subset, FS_CardinalityType DEF CountedConns

\* A step that moves connections only between counted lists.
LEMMA CountKept ==
  ASSUME CountExact, connections' = connections,
         \A c \in Conn : list'[c] \in Counted <=> list[c] \in Counted
  PROVE  CountExact'
<1>1. {c \in Conn : list'[c] \in Counted} = {c \in Conn : list[c] \in Counted}
  OBVIOUS
<1>2. QED
  BY <1>1 DEF CountExact

\* daemon->connections is exact in every step.
LEMMA CountStep ==
  ASSUME TypeOK, VisitsLive, FlagsMatchList, CountExact, Next
  PROVE  CountExact' /\ connections' \in Nat
<1> USE DEF TypeOK, DaemonTypeOK, ConnectionTypeOK, VisitsLive, FlagsMatchList,
            Counted, In, dvars, uvars, cvars, lvars, wvars
<1>1. ASSUME NEW c \in Conn, ClientConnect(c) PROVE CountExact'
  BY <1>1, CountKept DEF ClientConnect
<1>2. ASSUME NEW c \in Conn, SocketEvent(c) PROVE CountExact'
  BY <1>2, CountKept DEF SocketEvent
<1>3. ASSUME NEW c \in Conn, AddPrepare(c) PROVE CountExact'
  BY <1>3, CountKept DEF AddPrepare
<1>4. ASSUME NEW c \in Conn, AddInsert(c) PROVE CountExact'
  BY <1>4, CountKept DEF AddInsert
<1>5. ASSUME NEW c \in Conn, MHD_resume_connection(c) PROVE CountExact'
  BY <1>5, CountKept DEF MHD_resume_connection
<1>6. ASSUME NEW c \in Conn, MHD_upgraded_connection_mark_app_closed_(c) PROVE CountExact'
  BY <1>6, CountKept DEF MHD_upgraded_connection_mark_app_closed_
<1>7. ASSUME NEW c \in Conn, NewConnectionProcess(c) PROVE CountExact'
  <2>1. CASE connections' = connections
    BY <1>7, <2>1, CountKept DEF NewConnectionProcess
  <2>2. CASE connections' # connections
    <3>1. /\ FirmLimitAdmits /\ connections' = connections + 1
          /\ list' = [list EXCEPT ![c] = "connections"] /\ list[c] = "local"
      BY <1>7, <2>2 DEF NewConnectionProcess
    <3>2. CountedConns' = CountedConns \cup {c} /\ c \notin CountedConns
      BY <3>1 DEF CountedConns
    <3>3. Cardinality(CountedConns') = Cardinality(CountedConns) + 1
      BY <3>2, CountedFinite, FS_AddElement
    <3>4. QED
      BY <3>1, <3>3, LimitAssumption DEF CountExact, CountedConns, FirmLimitAdmits
  <2>3. QED
    BY <2>1, <2>2
<1>8. ASSUME NEW c \in Conn, VisitProgress(c) PROVE CountExact'
  BY <1>8, CountKept DEF VisitProgress
<1>9. ASSUME NEW c \in Conn, VisitNothing(c) PROVE CountExact'
  BY <1>9, CountKept DEF VisitNothing
<1>10. ASSUME NEW c \in Conn, VisitClose(c) PROVE CountExact'
  BY <1>10, CountKept DEF VisitClose
<1>11. ASSUME NEW c \in Conn, VisitSuspend(c) PROVE CountExact'
  BY <1>11, CountKept DEF VisitSuspend, InternalSuspend
<1>12. ASSUME NEW c \in Conn, VisitUpgrade(c) PROVE CountExact'
  BY <1>12, CountKept DEF VisitUpgrade, InternalSuspend
<1>13. ASSUME NEW c \in Conn, FinishForward(c) PROVE CountExact'
  BY <1>13, CountKept DEF FinishForward
<1>14. ASSUME NEW c \in Conn, CleanupTake(c) PROVE CountExact'
  BY <1>14, CountKept DEF CleanupTake
<1>15. ASSUME NEW c \in Conn, CleanupFree(c) PROVE CountExact'
  BY <1>15, CountKept DEF CleanupFree
<1>16. ASSUME NEW c \in Conn, CleanupCount(c) PROVE CountExact'
  <2>1. /\ connections' = connections - 1
        /\ list' = [list EXCEPT ![c] = "gone"] /\ list[c] = "released"
    BY <1>16 DEF CleanupCount
  <2>2. CountedConns' = CountedConns \ {c} /\ c \in CountedConns
    BY <2>1 DEF CountedConns
  <2>3. Cardinality(CountedConns') = Cardinality(CountedConns) - 1
    BY <2>2, CountedFinite, FS_RemoveElement
  <2>4. QED
    BY <2>1, <2>3, LimitAssumption DEF CountExact, CountedConns
<1>17. ASSUME NEW c \in Conn, ExitDrain(c) PROVE CountExact'
  BY <1>17, CountKept DEF ExitDrain
<1>18. ASSUME NEW c \in Conn, ExitClose(c) PROVE CountExact'
  BY <1>18, CountKept DEF ExitClose
<1>19. ASSUME NEW c \in Conn, SuspendAgain(c) PROVE CountExact'
  BY <1>19, CountKept DEF SuspendAgain, InternalSuspend
<1>20. ASSUME Top PROVE CountExact'
  BY <1>20, CountKept DEF Top
<1>21. ASSUME Resume PROVE CountExact'
  BY <1>21, CountKept DEF Resume, ResumeSuspended, ToResume, Resumable
<1>22. ASSUME Fdset PROVE CountExact'
  BY <1>22, CountKept DEF Fdset
<1>23. ASSUME Wait PROVE CountExact'
  BY <1>23, CountKept DEF Wait
<1>24. ASSUME Clear PROVE CountExact'
  BY <1>24, CountKept DEF Clear
<1>25. ASSUME New PROVE CountExact'
  BY <1>25, CountKept DEF New
<1>26. ASSUME NewDone PROVE CountExact'
  BY <1>26, CountKept DEF NewDone
<1>27. ASSUME Accept PROVE CountExact'
  BY <1>27, CountKept DEF Accept, In
<1>28. ASSUME AcceptNothing PROVE CountExact'
  BY <1>28, CountKept DEF AcceptNothing
<1>29. ASSUME VisitsDone PROVE CountExact'
  BY <1>29, CountKept DEF VisitsDone
<1>30. ASSUME ForwardDone PROVE CountExact'
  BY <1>30, CountKept DEF ForwardDone
<1>31. ASSUME CleanupDone PROVE CountExact'
  BY <1>31, CountKept DEF CleanupDone
<1>32. ASSUME ExitResume PROVE CountExact'
  BY <1>32, CountKept DEF ExitResume, ResumeSuspended, ToResume, Resumable
<1>33. ASSUME ExitDrained PROVE CountExact'
  BY <1>33, CountKept DEF ExitDrained
<1>34. ASSUME ExitForcedResume PROVE CountExact'
  BY <1>34, CountKept DEF ExitForcedResume, ResumeSuspended, ToResume, Resumable
<1>35. ASSUME ExitMark PROVE CountExact'
  BY <1>35, CountKept DEF ExitMark
<1>36. ASSUME ExitClosed PROVE CountExact'
  BY <1>36, CountKept DEF ExitClosed
<1>37. ASSUME MHD_quiesce_daemon PROVE CountExact'
  BY <1>37, CountKept DEF MHD_quiesce_daemon
<1>38. ASSUME MHD_stop_daemon PROVE CountExact'
  BY <1>38, CountKept DEF MHD_stop_daemon
<1>39. ASSUME NEW s \in Signals, ItcActivate(s) PROVE CountExact'
  BY <1>39, CountKept DEF ItcActivate
<1>40. CountExact'
  BY <1>1, <1>2, <1>3, <1>4, <1>5, <1>6, <1>7, <1>8, <1>9, <1>10, <1>11,
     <1>12, <1>13, <1>14, <1>15, <1>16, <1>17, <1>18, <1>19, <1>20, <1>21,
     <1>22, <1>23, <1>24, <1>25, <1>26, <1>27, <1>28, <1>29, <1>30, <1>31,
     <1>32, <1>33, <1>34, <1>35, <1>36, <1>37, <1>38, <1>39
  DEF Next, Network, Application, PollingThreadOn, PollingThread
<1>41. Cardinality(CountedConns') \in Nat
  BY ConnAssumption, FS_Subset, FS_CardinalityType DEF CountedConns
<1>42. QED
  BY <1>40, <1>41 DEF CountExact, CountedConns

\* The connections of address a that per_ip_connection_count counts.
IpConns(a) == {c \in Conn : AddrOf[c] = a /\ list[c] \in IpCounted}

IpInv == IpCountExact /\ ip_count \in [Addr -> Nat]

\* A step that moves connections only between lists that count alike.
LEMMA IpKept ==
  ASSUME IpCountExact, ip_count' = ip_count, ip_count \in [Addr -> Nat],
         \A c \in Conn : list'[c] \in IpCounted <=> list[c] \in IpCounted
  PROVE  IpCountExact' /\ ip_count' \in [Addr -> Nat]
<1>1. ASSUME NEW a
      PROVE  {c \in Conn : AddrOf[c] = a /\ list'[c] \in IpCounted} =
             {c \in Conn : AddrOf[c] = a /\ list[c] \in IpCounted}
  OBVIOUS
<1>2. QED
  BY <1>1 DEF IpCountExact

\* MHD_ip_limit_add() for the connection that becomes counted.
LEMMA IpAdd ==
  ASSUME TypeOK, IpCountExact, NEW c \in Conn, list[c] \notin IpCounted,
         list'[c] \in IpCounted, \A d \in Conn \ {c} : list'[d] = list[d],
         IpLimitAdmits(c), MHD_ip_limit_add(c)
  PROVE  IpCountExact' /\ ip_count' \in [Addr -> Nat]
<1> USE DEF TypeOK, DaemonTypeOK, ConnectionTypeOK
<1>1. CASE PerIpLimit = 0
  BY <1>1 DEF IpCountExact, MHD_ip_limit_add
<1>2. CASE PerIpLimit # 0
  <2>1. ip_count' = [ip_count EXCEPT ![AddrOf[c]] = @ + 1] /\ AddrOf[c] \in Addr
    BY <1>2, AddrAssumption DEF MHD_ip_limit_add
  <2>2. ASSUME NEW a \in Addr, a # AddrOf[c]
        PROVE  ip_count'[a] = Cardinality(IpConns(a)') /\ ip_count'[a] <= PerIpLimit
    <3>1. IpConns(a)' = IpConns(a)
      BY <2>2 DEF IpConns
    <3>2. QED
      BY <1>2, <2>1, <2>2, <3>1 DEF IpCountExact, IpConns
  <2>3. /\ ip_count'[AddrOf[c]] = Cardinality(IpConns(AddrOf[c])')
        /\ ip_count'[AddrOf[c]] <= PerIpLimit
    <3>1. /\ IpConns(AddrOf[c])' = IpConns(AddrOf[c]) \cup {c}
          /\ c \notin IpConns(AddrOf[c])
      BY DEF IpConns
    <3>2. IsFiniteSet(IpConns(AddrOf[c]))
      BY ConnAssumption, FS_Subset DEF IpConns
    <3>3. Cardinality(IpConns(AddrOf[c])') = Cardinality(IpConns(AddrOf[c])) + 1
      BY <3>1, <3>2, FS_AddElement, ZenonT(60)
    <3>4. ip_count[AddrOf[c]] = Cardinality(IpConns(AddrOf[c]))
      BY <1>2, <2>1 DEF IpCountExact, IpConns
    <3>5. QED
      BY <1>2, <2>1, <3>3, <3>4, LimitAssumption DEF IpLimitAdmits
  <2>4. \A a \in Addr : ip_count'[a] = Cardinality(IpConns(a)')
                        /\ ip_count'[a] <= PerIpLimit
    BY <2>2, <2>3
  <2>5. ip_count' \in [Addr -> Nat]
    BY <2>1, <2>3
  <2>6. QED
    BY <2>4, <2>5 DEF IpCountExact, IpConns
<1>3. QED
  BY <1>1, <1>2

\* MHD_ip_limit_del() for the connection that is counted no more.
LEMMA IpDel ==
  ASSUME TypeOK, IpCountExact, NEW c \in Conn, list[c] \in IpCounted,
         list'[c] \notin IpCounted, \A d \in Conn \ {c} : list'[d] = list[d],
         MHD_ip_limit_del(c)
  PROVE  IpCountExact' /\ ip_count' \in [Addr -> Nat]
<1> USE DEF TypeOK, DaemonTypeOK, ConnectionTypeOK
<1>1. CASE PerIpLimit = 0
  BY <1>1 DEF IpCountExact, MHD_ip_limit_del
<1>2. CASE PerIpLimit # 0
  <2>1. ip_count' = [ip_count EXCEPT ![AddrOf[c]] = @ - 1] /\ AddrOf[c] \in Addr
    BY <1>2, AddrAssumption DEF MHD_ip_limit_del
  <2>2. ASSUME NEW a \in Addr, a # AddrOf[c]
        PROVE  ip_count'[a] = Cardinality(IpConns(a)') /\ ip_count'[a] <= PerIpLimit
    <3>1. IpConns(a)' = IpConns(a)
      BY <2>2 DEF IpConns
    <3>2. QED
      BY <1>2, <2>1, <2>2, <3>1 DEF IpCountExact, IpConns
  <2>3. /\ ip_count'[AddrOf[c]] = Cardinality(IpConns(AddrOf[c])')
        /\ ip_count'[AddrOf[c]] <= PerIpLimit /\ ip_count'[AddrOf[c]] \in Nat
    <3>1. /\ IpConns(AddrOf[c])' = IpConns(AddrOf[c]) \ {c}
          /\ c \in IpConns(AddrOf[c])
      BY DEF IpConns
    <3>2. IsFiniteSet(IpConns(AddrOf[c]))
      BY ConnAssumption, FS_Subset DEF IpConns
    <3>3. /\ Cardinality(IpConns(AddrOf[c])') = Cardinality(IpConns(AddrOf[c])) - 1
          /\ Cardinality(IpConns(AddrOf[c])') \in Nat
      BY <3>1, <3>2, FS_RemoveElement, FS_CardinalityType
    <3>4. /\ ip_count[AddrOf[c]] = Cardinality(IpConns(AddrOf[c]))
          /\ ip_count[AddrOf[c]] <= PerIpLimit
      BY <1>2, <2>1 DEF IpCountExact, IpConns
    <3>5. QED
      BY <1>2, <2>1, <3>3, <3>4, LimitAssumption
  <2>4. \A a \in Addr : ip_count'[a] = Cardinality(IpConns(a)')
                        /\ ip_count'[a] <= PerIpLimit
    BY <2>2, <2>3
  <2>5. ip_count' \in [Addr -> Nat]
    BY <2>1, <2>3
  <2>6. QED
    BY <2>4, <2>5 DEF IpCountExact, IpConns
<1>3. QED
  BY <1>1, <1>2

\* The per-address counters are exact in every step.
LEMMA IpStep ==
  ASSUME TypeOK, VisitsLive, FlagsMatchList, IpCountExact, Next
  PROVE  IpInv'
<1> USE DEF TypeOK, DaemonTypeOK, ConnectionTypeOK, VisitsLive, FlagsMatchList,
            IpInv, IpCounted, In, dvars, uvars, cvars, lvars, wvars
<1>1. ASSUME NEW c \in Conn, ClientConnect(c) PROVE IpInv'
  BY <1>1, IpKept DEF ClientConnect
<1>2. ASSUME NEW c \in Conn, SocketEvent(c) PROVE IpInv'
  BY <1>2, IpKept DEF SocketEvent
<1>3. ASSUME NEW c \in Conn, AddPrepare(c) PROVE IpInv'
  <2>1. CASE list' = [list EXCEPT ![c] = "gone"] /\ ip_count' = ip_count
    BY <1>3, <2>1, IpKept DEF AddPrepare
  <2>2. CASE /\ IpLimitAdmits(c) /\ MHD_ip_limit_add(c)
             /\ list' = [list EXCEPT ![c] = "prepared"]
    BY <1>3, <2>2, IpAdd DEF AddPrepare
  <2>3. QED
    BY <1>3, <2>1, <2>2 DEF AddPrepare
<1>4. ASSUME NEW c \in Conn, AddInsert(c) PROVE IpInv'
  BY <1>4, IpKept DEF AddInsert
<1>5. ASSUME NEW c \in Conn, MHD_resume_connection(c) PROVE IpInv'
  BY <1>5, IpKept DEF MHD_resume_connection
<1>6. ASSUME NEW c \in Conn, MHD_upgraded_connection_mark_app_closed_(c) PROVE IpInv'
  BY <1>6, IpKept DEF MHD_upgraded_connection_mark_app_closed_
<1>7. ASSUME NEW c \in Conn, NewConnectionProcess(c) PROVE IpInv'
  <2>1. CASE list' = [list EXCEPT ![c] = "connections"] /\ ip_count' = ip_count
    BY <1>7, <2>1, IpKept DEF NewConnectionProcess
  <2>2. CASE list' = [list EXCEPT ![c] = "gone"] /\ MHD_ip_limit_del(c)
    BY <1>7, <2>2, IpDel DEF NewConnectionProcess
  <2>3. QED
    BY <1>7, <2>1, <2>2 DEF NewConnectionProcess
<1>8. ASSUME NEW c \in Conn, VisitProgress(c) PROVE IpInv'
  BY <1>8, IpKept DEF VisitProgress
<1>9. ASSUME NEW c \in Conn, VisitNothing(c) PROVE IpInv'
  BY <1>9, IpKept DEF VisitNothing
<1>10. ASSUME NEW c \in Conn, VisitClose(c) PROVE IpInv'
  BY <1>10, IpKept DEF VisitClose
<1>11. ASSUME NEW c \in Conn, VisitSuspend(c) PROVE IpInv'
  BY <1>11, IpKept DEF VisitSuspend, InternalSuspend
<1>12. ASSUME NEW c \in Conn, VisitUpgrade(c) PROVE IpInv'
  BY <1>12, IpKept DEF VisitUpgrade, InternalSuspend
<1>13. ASSUME NEW c \in Conn, FinishForward(c) PROVE IpInv'
  BY <1>13, IpKept DEF FinishForward
<1>14. ASSUME NEW c \in Conn, CleanupTake(c) PROVE IpInv'
  BY <1>14, IpKept DEF CleanupTake
<1>15. ASSUME NEW c \in Conn, CleanupFree(c) PROVE IpInv'
  BY <1>15, IpDel DEF CleanupFree
<1>16. ASSUME NEW c \in Conn, CleanupCount(c) PROVE IpInv'
  BY <1>16, IpKept DEF CleanupCount
<1>17. ASSUME NEW c \in Conn, ExitDrain(c) PROVE IpInv'
  BY <1>17, IpDel DEF ExitDrain
<1>18. ASSUME NEW c \in Conn, ExitClose(c) PROVE IpInv'
  BY <1>18, IpKept DEF ExitClose
<1>19. ASSUME NEW c \in Conn, SuspendAgain(c) PROVE IpInv'
  BY <1>19, IpKept DEF SuspendAgain, InternalSuspend
<1>20. ASSUME Top PROVE IpInv'
  BY <1>20, IpKept DEF Top
<1>21. ASSUME Resume PROVE IpInv'
  BY <1>21, IpKept DEF Resume, ResumeSuspended, ToResume, Resumable
<1>22. ASSUME Fdset PROVE IpInv'
  BY <1>22, IpKept DEF Fdset
<1>23. ASSUME Wait PROVE IpInv'
  BY <1>23, IpKept DEF Wait
<1>24. ASSUME Clear PROVE IpInv'
  BY <1>24, IpKept DEF Clear
<1>25. ASSUME New PROVE IpInv'
  BY <1>25, IpKept DEF New
<1>26. ASSUME NewDone PROVE IpInv'
  BY <1>26, IpKept DEF NewDone
<1>27. ASSUME Accept PROVE IpInv'
  <2>1. CASE UNCHANGED <<list, ip_count>>
    BY <2>1, IpKept
  <2>2. CASE \E c \in In("backlog") : /\ list' = [list EXCEPT ![c] = "gone"]
                                    /\ ip_count' = ip_count
    BY <2>2, IpKept
  <2>3. CASE \E c \in In("backlog") : /\ IpLimitAdmits(c) /\ MHD_ip_limit_add(c)
                                    /\ list' = [list EXCEPT ![c] = "local"]
    BY <2>3, IpAdd
  <2>4. QED
    BY <1>27, <2>1, <2>2, <2>3 DEF Accept
<1>28. ASSUME AcceptNothing PROVE IpInv'
  BY <1>28, IpKept DEF AcceptNothing
<1>29. ASSUME VisitsDone PROVE IpInv'
  BY <1>29, IpKept DEF VisitsDone
<1>30. ASSUME ForwardDone PROVE IpInv'
  BY <1>30, IpKept DEF ForwardDone
<1>31. ASSUME CleanupDone PROVE IpInv'
  BY <1>31, IpKept DEF CleanupDone
<1>32. ASSUME ExitResume PROVE IpInv'
  BY <1>32, IpKept DEF ExitResume, ResumeSuspended, ToResume, Resumable
<1>33. ASSUME ExitDrained PROVE IpInv'
  BY <1>33, IpKept DEF ExitDrained
<1>34. ASSUME ExitForcedResume PROVE IpInv'
  BY <1>34, IpKept DEF ExitForcedResume, ResumeSuspended, ToResume, Resumable
<1>35. ASSUME ExitMark PROVE IpInv'
  BY <1>35, IpKept DEF ExitMark
<1>36. ASSUME ExitClosed PROVE IpInv'
  BY <1>36, IpKept DEF ExitClosed
<1>37. ASSUME MHD_quiesce_daemon PROVE IpInv'
  BY <1>37, IpKept DEF MHD_quiesce_daemon
<1>38. ASSUME MHD_stop_daemon PROVE IpInv'
  BY <1>38, IpKept DEF MHD_stop_daemon
<1>39. ASSUME NEW s \in Signals, ItcActivate(s) PROVE IpInv'
  BY <1>39, IpKept DEF ItcActivate
<1>40. QED
  BY <1>1, <1>2, <1>3, <1>4, <1>5, <1>6, <1>7, <1>8, <1>9, <1>10, <1>11,
     <1>12, <1>13, <1>14, <1>15, <1>16, <1>17, <1>18, <1>19, <1>20, <1>21,
     <1>22, <1>23, <1>24, <1>25, <1>26, <1>27, <1>28, <1>29, <1>30, <1>31,
     <1>32, <1>33, <1>34, <1>35, <1>36, <1>37, <1>38, <1>39
  DEF Next, Network, Application, PollingThreadOn, PollingThread

-----------------------------------------------------------------------------
\* The initial state satisfies the inductive invariant.
LEMMA InitInv == Init => IInv
<1> SUFFICES ASSUME Init PROVE IInv
  OBVIOUS
<1> USE DEF Init
<1>1. TypeOK
  BY DEF TypeOK, DaemonTypeOK, ConnectionTypeOK, ThreadTypeOK, Places, Infos,
         DaemonSteps
<1>2. VisitsLive /\ NoLostWakeup /\ AtLimitClearable /\ NoPanic
  BY DEF VisitsLive, NoLostWakeup, AtLimitClearable, NoPanic
<1>3. CountExact
  <2>1. {c \in Conn : list[c] \in Counted} = {}
    BY DEF Counted
  <2>2. QED
    BY <2>1, FS_EmptySet, LimitAssumption DEF CountExact
<1>4. IpCountExact
  <2>1. ASSUME NEW a
        PROVE  {c \in Conn : AddrOf[c] = a /\ list[c] \in IpCounted} = {}
    BY DEF IpCounted
  <2>2. QED
    BY <2>1, FS_EmptySet, LimitAssumption DEF IpCountExact
<1>5. FlagsMatchList /\ ResumeFlagged /\ UpgradeReleasedByBoth /\ UpgradeHandle
  BY DEF FlagsMatchList, ResumeFlagged, Resumable, UpgradeReleasedByBoth,
         UpgradeHandle
<1>6. StopRequested /\ StopProgress /\ HeldByThread
  BY DEF StopRequested, StopProgress, HeldByThread, ExitSteps
<1>7. QED
  BY <1>1, <1>2, <1>3, <1>4, <1>5, <1>6 DEF IInv, LoopInv, FlagInv, StopInv

\* Every step keeps the inductive invariant.
LEMMA StepInv == IInv /\ [Next]_vars => IInv'
<1> SUFFICES ASSUME IInv, [Next]_vars PROVE IInv'
  OBVIOUS
<1>1. CASE Next
  <2>1. CountExact' /\ connections' \in Nat
    BY <1>1, CountStep DEF IInv, LoopInv, FlagInv
  <2>2. IpCountExact' /\ ip_count' \in [Addr -> Nat]
    BY <1>1, IpStep DEF IInv, LoopInv, FlagInv, IpInv
  <2>3. TypeOK'
    BY <1>1, <2>1, <2>2, TypeStep DEF IInv
  <2>4. LoopInv'
    BY <1>1, LoopStep DEF IInv
  <2>5. FlagInv'
    BY <1>1, FlagsStep DEF IInv, LoopInv, StopInv
  <2>6. StopInv'
    BY <1>1, StopStep DEF IInv, LoopInv
  <2>7. QED
    BY <2>1, <2>2, <2>3, <2>4, <2>5, <2>6 DEF IInv
<1>2. CASE UNCHANGED vars
  <2>1. UNCHANGED <<list, connections, ip_count, d_resuming, have_new,
                    data_already_pending, at_limit, was_quiesced, shutdown, itc,
                    suspended, resuming, event_loop_info, idle_due, urh,
                    urh_listed, was_closed, clean_ready, notified, sock, pc,
                    zero_wait, watch_listen, polled, ready, failed, itc_ready,
                    listen_ready, todo, signals>>
    BY <1>2 DEF vars, dvars, cvars, uvars, lvars, wvars
  <2>2. TypeOK' /\ VisitsLive' /\ NoLostWakeup' /\ AtLimitClearable' /\ NoPanic'
    BY <2>1 DEF IInv, LoopInv, StopInv, TypeOK, DaemonTypeOK,
                ConnectionTypeOK, ThreadTypeOK, VisitsLive, NoLostWakeup,
                AtLimitClearable, NoPanic, In
  <2>3. CountExact' /\ IpCountExact'
    BY <2>1 DEF IInv, CountExact, IpCountExact
  <2>4. (FlagsMatchList /\ ResumeFlagged /\ UpgradeHandle /\ UpgradeReleasedByBoth)'
    BY <2>1 DEF IInv, FlagInv, FlagsMatchList, ResumeFlagged, Resumable,
                UpgradeHandle, UpgradeReleasedByBoth
  <2>5. (StopRequested /\ StopProgress /\ HeldByThread)'
    BY <2>1 DEF IInv, StopInv, StopRequested, StopProgress, HeldByThread
  <2>6. QED
    BY <2>2, <2>3, <2>4, <2>5 DEF IInv, LoopInv, FlagInv, StopInv
<1>3. QED
  BY <1>1, <1>2

\* The inductive invariant holds in every reachable state.
THEOREM Invariance == Spec => []IInv
  BY InitInv, StepInv, PTL DEF Spec

\* Every variable keeps its type; no counter goes below zero (TypeOK).
THEOREM TypeCorrect == Spec => []TypeOK
<1>1. IInv => TypeOK
  BY DEF IInv
<1>2. QED
  BY <1>1, Invariance, PTL

\* daemon->connections counts the served connections and stays within
\* connection_limit; per_ip_connection_count counts those of each address and
\* stays within per_ip_connection_limit, so that MHD_ip_limit_del() does not
\* panic.
THEOREM CountersExact == Spec => []CountersRight
<1>1. IInv => CountersRight
  BY DEF IInv, CountersRight
<1>2. QED
  BY <1>1, Invariance, PTL

\* The daemon thread visits only connections of the connections list.
THEOREM VisitsAreLive == Spec => []VisitsLive
<1>1. IInv => VisitsLive
  BY DEF IInv, LoopInv
<1>2. QED
  BY <1>1, Invariance, PTL

\* connection->suspended, connection->resuming and daemon->resuming agree with
\* the lists whatever the application threads do, and an upgraded connection is
\* given up only after both sides are done with it.
THEOREM SuspendResumeConsistent == Spec => []SuspendConsistent
<1>1. IInv => SuspendConsistent
  BY DEF IInv, FlagInv, SuspendConsistent
<1>2. QED
  BY <1>1, Invariance, PTL

\* No request for the daemon thread's attention is lost while it blocks.
THEOREM WakeupsNotLost == Spec => []NoLostWakeup
<1>1. IInv => NoLostWakeup
  BY DEF IInv, LoopInv
<1>2. QED
  BY <1>1, Invariance, PTL

\* A stopped accept() is always started again by some connection's end.
THEOREM AcceptResumes == Spec => []AtLimitClearable
<1>1. IInv => AtLimitClearable
  BY DEF IInv, LoopInv
<1>2. QED
  BY <1>1, Invariance, PTL

\* A request for attention wakes the blocked thread, and a stopped accept() is started again.
THEOREM NothingIsForgotten == Spec => []NothingForgotten
  BY WakeupsNotLost, AcceptResumes, PTL DEF NothingForgotten

\* MHD_stop_daemon() does not panic, and when the thread has ended every
\* connection is released, reported and uncounted.
THEOREM StopComplete == Spec => []StopClean
<1>1. ASSUME IInv, pc = "exited" PROVE StopReleasesAll
  <2>1. \A c \in Conn : list[c] \in {"unused", "backlog", "gone"}
    BY <1>1 DEF IInv, TypeOK, ConnectionTypeOK, Places, StopInv,
                StopRequested, StopProgress, HeldByThread, ExitSteps
  <2>2. \A c \in Conn : notified[c] # "started"
    BY <1>1, <2>1 DEF IInv, StopInv, HeldByThread
  <2>3. connections = 0
    <3>1. {c \in Conn : list[c] \in Counted} = {}
      BY <2>1 DEF Counted
    <3>2. QED
      BY <1>1, <3>1, FS_EmptySet DEF IInv, CountExact
  <2>4. PerIpLimit # 0 => \A a \in Addr : ip_count[a] = 0
    <3>1. ASSUME NEW a
          PROVE  {c \in Conn : AddrOf[c] = a /\ list[c] \in IpCounted} = {}
      BY <2>1 DEF IpCounted
    <3>2. QED
      BY <1>1, <3>1, FS_EmptySet DEF IInv, IpCountExact
  <2>5. QED
    BY <2>1, <2>2, <2>3, <2>4 DEF StopReleasesAll
<1>2. IInv => StopClean
  BY <1>1 DEF IInv, StopInv, StopReleasesAll, StopClean
<1>3. QED
  BY <1>2, Invariance, PTL
=============================================================================
