------------------------------ MODULE StartUp ------------------------------
(***************************************************************************)
(* The start and the stop of a daemon as a part of what acquires and gives *)
(* back resources, next to the memory of a connection.  A behaviour is     *)
(* about one of the parts, and "part" tells which.                         *)
(***************************************************************************)
CONSTANTS
  Apps, MaxOptions, MaxPool, MinPool, DefaultPool, DefaultIncrement, DefaultLimit,
  HAVE_LISTEN_SHUTDOWN

VARIABLES
  part,  \* the component this behaviour is about
  ask, pc, options, daemon, listen, held, twice, fault, worker

Start == INSTANCE DaemonStart WITH d <- daemon, i <- worker

ASSUME StartAssumption == Start!AppsAssumption /\ Start!SizesAssumption

\* Whatever fails, and however a daemon is stopped, nothing is released that is not
\* held: but for the listen socket, and the mutex of a worker whose thread was not
\* created.
\* A daemon that was stopped, or failed to start, has released all it had acquired:
\* but for what Forgotten lists.
\* The increment of a buffer is at most a quarter of the pool, in whatever order the
\* two options came.
\* Every thread that runs waits for something that MHD_stop_daemon() can trigger: the
\* channel, or the listen socket where it can be shut down and was not handed over.
\* The workers' shares of the connection limit are what each gets when the connections
\* are dealt out in turn: they add up to it, and no two differ by more than one.
StartRight == part = "start" => Start!StartRight
============================================================================
