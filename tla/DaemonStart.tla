---------------------------- MODULE DaemonStart ----------------------------
(***************************************************************************)
(* MHD_start_daemon() and MHD_stop_daemon(): what a daemon acquires, in    *)
(* which order, what each failure on the way gives back, and the pool of   *)
(* workers.                                                                *)
(***************************************************************************)
EXTENDS Integers, FiniteSetsExt

CONSTANTS
  Apps,                   \* what an application may ask for: its flags, and the options it may pass
  MaxOptions,             \* bound: how many of them
  MaxPool,                \* bound: the largest pool of workers
  MinPool,                \* 64, the least size of a memory pool
  DefaultPool,            \* MHD_POOL_SIZE_DEFAULT
  DefaultIncrement,       \* MHD_BUF_INC_SIZE
  DefaultLimit,           \* MHD_MAX_CONNECTIONS_DEFAULT
  HAVE_LISTEN_SHUTDOWN    \* does shutdown() of the listen socket wake a thread?

Flags == {"TLS", "THREAD_PER_CONNECTION", "INTERNAL_POLLING_THREAD", "IPv6", "POLL",
          "NO_LISTEN_SOCKET", "EPOLL", "ITC", "ALLOW_SUSPEND_RESUME", "ALLOW_UPGRADE", "AUTO",
          "NO_THREAD_SAFETY"}

\* The options that are numbers, the values of those that are not, and the ones without a value.
NumberOptions == {"CONNECTION_MEMORY_LIMIT", "CONNECTION_MEMORY_INCREMENT", "CONNECTION_LIMIT",
                  "THREAD_POOL_SIZE", "NONCE_NC_SIZE", "LISTENING_ADDRESS_REUSE"}
Randoms == {"none", "given", "copy"}
Sockets == {"none", "app", "invalid"}
Addresses == {"none", "null", "inet", "inet6", "unix", "other"}
AddressLengths == {"unset", "zero", "short", "ok"}
CredTypes == {"CERTIFICATE", "PSK", "other"}
FdSetSizes == {"unset", "bad", "default", "other"}
OtherOptions == {"NOTIFY", "HTTPS_PRIORITIES", "HTTPS_MEM_DHPARAMS", "invalid"}

IsOption(o) ==
  \/ o.opt \in NumberOptions /\ o.val \in Nat /\ (o.opt = "THREAD_POOL_SIZE" => o.val <= MaxPool)
  \/ o.opt = "DIGEST_AUTH_RANDOM" /\ o.val \in Randoms
  \/ o.opt = "LISTEN_SOCKET" /\ o.val \in Sockets
  \/ o.opt = "SOCK_ADDR" /\ o.val \in Addresses
  \/ o.opt = "SOCK_ADDR_LEN" /\ o.val.addr \in Addresses /\ o.val.len \in AddressLengths
  \/ o.opt = "HTTPS_CRED_TYPE" /\ o.val \in CredTypes
  \/ o.opt = "APP_FD_SETSIZE" /\ o.val \in FdSetSizes
  \/ o.opt \in OtherOptions

AppsAssumption == \A a \in Apps : a.flags \subseteq Flags /\ \A o \in a.options : IsOption(o)
SizesAssumption ==
  /\ MinPool \in Nat /\ DefaultPool \in Nat /\ DefaultPool >= MinPool
  /\ DefaultIncrement \in 1..DefaultPool \div 4
  /\ DefaultLimit \in Nat /\ MaxPool \in Nat /\ MaxOptions \in Nat
  /\ HAVE_LISTEN_SHUTDOWN \in BOOLEAN

\* What is acquired: once for the daemon (number 0) or for each worker.
Resources ==
  {<<r, 0>> : r \in {"daemon", "params", "priorities", "dhparams", "random", "nnc", "nnc_lock",
                     "listen", "per_ip", "cred", "pool"}}
  \cup {<<r, w>> : r \in {"itc", "epoll", "epoll_upgrade", "cleanup", "new", "thread"},
                   w \in 0..MaxPool}
Listen == <<"listen", 0>>

VARIABLES
  ask,      \* what the application asks for
  pc,       \* the next step of the call
  options,  \* daemon->options
  d,        \* struct MHD_Daemon and the interim parameters
  listen,   \* the local variable listen_fd: "none", "own" or "app"
  held,     \* how often a resource is held
  twice,    \* resources that were released without being held
  fault,    \* the step that failed
  i         \* the worker being started or stopped

vars == <<ask, pc, options, d, listen, held, twice, fault, i>>

\* The assignments before parse_options_va() is called.
Defaults ==
  [num_opts |-> 0, pool_size |-> DefaultPool, pool_increment |-> DefaultIncrement,
   connection_limit |-> DefaultLimit, worker_pool_size |-> 0, notify |-> FALSE, random |-> "none",
   nonce_nc_size |-> 4, priority_cache |-> FALSE, cred_type |-> "CERTIFICATE", reuse |-> 0,
   fdset_size |-> "unset", param_fd |-> "none", addr |-> "none", addr_len |-> "unset",
   listen_fd |-> "none", was_quiesced |-> FALSE,
   limit |-> [w \in 1..MaxPool |-> 0], polled |-> [w \in 0..MaxPool |-> {}]]

Init ==
  /\ ask \in Apps /\ pc = "flags" /\ options = ask.flags /\ d = Defaults /\ listen = "none"
  /\ held = [r \in Resources |-> 0] /\ twice = {} /\ fault = "none" /\ i = 0

Has(f) == f \in options
UsesThreads == Has("INTERNAL_POLLING_THREAD")
UsesSelect == ~ Has("POLL") /\ ~ Has("EPOLL")

-----------------------------------------------------------------------------
(* Acquiring and releasing *)

\* What a set of resources is released from, and those of them that were not held.
Released(rs) ==
  [held |-> [r \in Resources |-> IF r \in rs /\ held[r] > 0 THEN held[r] - 1 ELSE held[r]],
   twice |-> twice \cup {r \in rs : held[r] = 0}]

Release(rs) == held' = Released(rs).held /\ twice' = Released(rs).twice

\* Resources of which the code keeps track by a pointer or a handle.
IfHeld(rs) == {r \in rs : held[r] > 0}

Acquire(r, next) ==
  held' = [held EXCEPT ![r] = @ + 1] /\ pc' = next /\ UNCHANGED <<twice, fault>>

Skip(next) == pc' = next /\ UNCHANGED <<held, twice, fault>>

Fail(at, rs, next) == fault' = at /\ Release(rs) /\ pc' = next

Same == UNCHANGED <<options, d, listen, i>>
One(r) == <<r, 0>>
TlsPriorities == IF Has("TLS") THEN {One("priorities")} ELSE {}
CloseListen == IF listen = "none" THEN {} ELSE {Listen}

-----------------------------------------------------------------------------
(* MHD_start_daemon_va() *)

\* Combinations of flags that are refused.
BadFlags(f) ==
  \/ {"NO_THREAD_SAFETY", "INTERNAL_POLLING_THREAD"} \subseteq f
  \/ {"POLL", "EPOLL"} \subseteq f
  \/ {"EPOLL", "THREAD_PER_CONNECTION"} \subseteq f
  \/ "POLL" \in f /\ "INTERNAL_POLLING_THREAD" \notin f
  \/ "AUTO" \in f /\ f \cap {"POLL", "EPOLL"} # {}

\* Flags that follow from others, in the order of the code.
WithImplied(f) ==
  LET f1 == IF "THREAD_PER_CONNECTION" \in f THEN f \cup {"INTERNAL_POLLING_THREAD"} ELSE f
      f2 == IF "ALLOW_UPGRADE" \in f1 THEN f1 \cup {"ALLOW_SUSPEND_RESUME"} ELSE f1
  IN IF "ALLOW_SUSPEND_RESUME" \in f2 THEN f2 \cup {"ITC"} ELSE f2

WithAuto(f) ==
  LET f1 == IF "AUTO" \notin f THEN f
            ELSE f \cup {IF "THREAD_PER_CONNECTION" \in f THEN "POLL" ELSE "EPOLL"}
  IN IF "NO_THREAD_SAFETY" \in f1 THEN f1 \ {"ITC"}
     ELSE IF /\ "INTERNAL_POLLING_THREAD" \in f1
             /\ HAVE_LISTEN_SHUTDOWN => "NO_LISTEN_SOCKET" \in f1
       THEN f1 \cup {"ITC"}
     ELSE f1

CheckFlags ==
  /\ pc = "flags"
  /\ LET f == WithImplied(options)
     IN IF BadFlags(f)
          THEN pc' = "failed" /\ UNCHANGED options
          ELSE pc' = "alloc" /\ options' = WithAuto(f)
  /\ UNCHANGED <<d, listen, held, twice, fault, i>>

AllocDaemon ==
  /\ pc = "alloc" /\ Same
  /\ Acquire(One("daemon"), "params") \/ Fail("daemon", {}, "failed")

AllocParams ==
  /\ pc = "params" /\ Same
  /\ Acquire(One("params"), "options") \/ Fail("params", {One("daemon")}, "failed")

\* A slip: an increment given before the limit is not adapted.
MutantMemoryLimit(v) == IF v = 0 THEN d ELSE [d EXCEPT !.pool_size = Max({v, MinPool})]

\* MHD_OPTION_CONNECTION_MEMORY_LIMIT
MemoryLimit(v) ==
  IF v = 0 THEN d
  ELSE LET size == Max({v, MinPool})
       IN [d EXCEPT !.pool_size = size, !.pool_increment = Min({@, size \div 4})]

\* MHD_OPTION_CONNECTION_MEMORY_INCREMENT
MemoryIncrement(v) ==
  IF v = 0 THEN d ELSE [d EXCEPT !.pool_increment = Min({v, d.pool_size \div 4})]

\* What an option changes in the daemon or in the interim parameters.
Parsed(o) ==
  LET v == o.val
  IN CASE o.opt = "CONNECTION_MEMORY_LIMIT" -> MemoryLimit(v)
       [] o.opt = "CONNECTION_MEMORY_INCREMENT" -> MemoryIncrement(v)
       [] o.opt = "CONNECTION_LIMIT" -> [d EXCEPT !.connection_limit = v]
       [] o.opt = "NOTIFY" -> [d EXCEPT !.notify = TRUE]
       [] o.opt = "THREAD_POOL_SIZE" -> [d EXCEPT !.worker_pool_size = IF v = 1 THEN 0 ELSE v]
       [] o.opt = "DIGEST_AUTH_RANDOM" -> [d EXCEPT !.random = v]
       [] o.opt = "NONCE_NC_SIZE" -> [d EXCEPT !.nonce_nc_size = v]
       [] o.opt = "LISTENING_ADDRESS_REUSE" -> [d EXCEPT !.reuse = IF v = 0 THEN -1 ELSE 1]
       [] o.opt = "LISTEN_SOCKET" -> [d EXCEPT !.param_fd = v]
       [] o.opt = "SOCK_ADDR" -> [d EXCEPT !.addr = v, !.addr_len = "unset"]
       [] o.opt = "SOCK_ADDR_LEN" -> [d EXCEPT !.addr = v.addr, !.addr_len = v.len]
       [] o.opt = "HTTPS_CRED_TYPE" -> [d EXCEPT !.cred_type = v]
       [] o.opt = "APP_FD_SETSIZE" -> [d EXCEPT !.fdset_size = v]
       [] o.opt \in {"HTTPS_PRIORITIES", "HTTPS_MEM_DHPARAMS", "invalid"} -> d

\* The pool of workers needs an internal thread, and excludes one per connection.
BadOption(o) ==
  \/ o.opt = "invalid"
  \/ /\ o.opt = "THREAD_POOL_SIZE" /\ o.val > 1
     /\ ~ UsesThreads \/ Has("THREAD_PER_CONNECTION")

\* parse_options_va() returned MHD_NO.
OptionsRefused(at, old) ==
  Fail(at, old \cup {One("params"), One("daemon")}, "failed")

PrioritiesIfSet ==
  IF Has("TLS") /\ d.priority_cache THEN {One("priorities")} ELSE {}

ParseOption(o) ==
  /\ pc = "options" /\ d.num_opts < MaxOptions
  /\ UNCHANGED <<options, listen, i>>
  /\ d' = [Parsed(o) EXCEPT !.num_opts = @ + 1,
                            !.priority_cache = @ \/ (o.opt = "HTTPS_PRIORITIES" /\ Has("TLS"))]
  /\ CASE BadOption(o) -> OptionsRefused("option", PrioritiesIfSet)
       [] o.opt = "HTTPS_MEM_DHPARAMS" /\ Has("TLS") ->
            \/ Acquire(One("dhparams"), pc)
            \/ OptionsRefused("dhparams", PrioritiesIfSet)
       [] o.opt = "HTTPS_PRIORITIES" /\ Has("TLS") ->
            \* the old priorities are released first
            \/ Skip(pc) /\ d.priority_cache
            \/ Acquire(One("priorities"), pc) /\ ~ d.priority_cache
            \/ OptionsRefused("priorities", IfHeld({One("priorities")}))
       [] OTHER -> Skip(pc)

OptionsEnd ==
  /\ pc = "options" /\ Same
  /\ Skip("interim")

\* process_interim_params() refuses; it closes the application's socket in one case.
BadInterim ==
  \/ d.fdset_size = "bad"
  \/ d.fdset_size = "other" /\ ~ UsesThreads /\ ~ Has("POLL")
  \/ d.param_fd = "invalid"
  \/ d.param_fd = "app" /\ Has("NO_LISTEN_SOCKET")
  \/ d.addr = "null" /\ d.addr_len \notin {"unset", "zero"}
  \/ d.addr \notin {"none", "null"} /\ (\/ d.param_fd = "app" \/ Has("NO_LISTEN_SOCKET")
                                         \/ d.addr_len = "zero")

process_interim_params ==
  /\ pc = "interim"
  /\ UNCHANGED <<options, listen, i>>
  /\ IF BadInterim
       THEN UNCHANGED d /\ Fail("interim", {One("params"), One("daemon")}, "failed")
       ELSE /\ d' = [d EXCEPT !.listen_fd = d.param_fd]
            /\ Release({One("params")}) /\ pc' = "priorities" /\ UNCHANGED fault

\* daemon_tls_priorities_init_default(), after which the flags are final.
DefaultPriorities ==
  /\ pc = "priorities" /\ UNCHANGED <<d, listen, i>>
  /\ options' = IF Has("THREAD_PER_CONNECTION") /\ d.notify THEN options \cup {"ITC"} ELSE options
  /\ IF Has("TLS") /\ ~ d.priority_cache
       THEN \/ Acquire(One("priorities"), "itc")
            \/ Fail("priorities", {One("daemon")}, "failed")
       ELSE Skip("itc")

InitItc ==
  /\ pc = "itc" /\ Same
  /\ IF Has("ITC") /\ d.worker_pool_size = 0
       THEN \/ Acquire(One("itc"), "random")
            \/ Fail("itc", IfHeld({One("priorities")}) \cup {One("daemon")}, "failed")
            \/ /\ UsesSelect   \* its descriptor is too large for fd_set: created and destroyed
               /\ Fail("itc", IfHeld({One("priorities")}) \cup {One("daemon")}, "failed")
       ELSE Skip("random")

CopyRandom ==
  /\ pc = "random" /\ Same
  /\ IF d.random = "copy"
       THEN \/ Acquire(One("random"), "nnc")
            \/ Fail("random", TlsPriorities \cup {One("daemon")}, "failed")
       ELSE Skip("nnc")

AllocNonces ==
  /\ pc = "nnc" /\ Same
  /\ IF d.nonce_nc_size > 0
       THEN \/ Acquire(One("nnc"), "nnc_lock")
            \/ Fail("nnc", TlsPriorities \cup IfHeld({One("random")}) \cup {One("daemon")}, "failed")
       ELSE Skip("nnc_lock")

\* A slip: the common clean-up at the end is used too early.
MutantInitNonceLock ==
  /\ pc = "nnc_lock" /\ Same
  /\ Acquire(One("nnc_lock"), "listen") \/ Fail("nnc_lock", {}, "free_and_fail")

InitNonceLock ==
  /\ pc = "nnc_lock" /\ Same
  /\ \/ Acquire(One("nnc_lock"), "listen")
     \/ Fail("nnc_lock", TlsPriorities \cup IfHeld({One("random"), One("nnc")})
                         \cup {One("daemon")}, "failed")

\* The address given by the application, if any, does not fit.
BadAddress ==
  \/ d.addr \in {"inet", "unix", "other"} /\ Has("IPv6")
  \/ d.addr \in {"inet", "inet6"} /\ d.addr_len = "short"
  \/ d.addr \in {"unix", "other"} /\ d.addr_len = "unset"

\* A socket of its own: created, its address reused, bound and listening.
CreateListen ==
  /\ pc = "listen" /\ d.listen_fd = "none" /\ ~ Has("NO_LISTEN_SOCKET")
  /\ UNCHANGED <<d, i>>
  /\ options' = IF ~ BadAddress /\ d.addr = "inet6" THEN options \cup {"IPv6"} ELSE options
  /\ IF BadAddress
       THEN Fail("address", {}, "free_and_fail") /\ UNCHANGED listen
       ELSE \/ Fail("socket", {}, "free_and_fail") /\ UNCHANGED listen
            \/ Acquire(Listen, "reuse") /\ listen' = "own"

ReuseAddress ==
  /\ pc = "reuse" /\ UNCHANGED <<options, i>>
  /\ \/ UsesSelect /\ Fail("fdset", {Listen}, "free_and_fail") /\ listen' = "none" /\ UNCHANGED d
     \/ d.reuse > 0 /\ Fail("reuse", {}, "free_and_fail") /\ UNCHANGED <<listen, d>>
     \/ Skip("bind") /\ d' = [d EXCEPT !.listen_fd = listen] /\ UNCHANGED listen

BindAndListen ==
  /\ pc = "bind" /\ UNCHANGED <<options, d, i>>
  /\ \/ Fail("bind", {Listen}, "free_and_fail") /\ listen' = "none"
     \/ Skip("nonblock") /\ UNCHANGED listen

\* The application's socket, or none.
UseListen ==
  /\ pc = "listen" /\ (d.listen_fd # "none" \/ Has("NO_LISTEN_SOCKET"))
  /\ UNCHANGED <<d, options, i>>
  /\ \/ /\ UsesSelect /\ d.listen_fd # "none"
        /\ fault' = "fdset" /\ pc' = "free_and_fail" /\ UNCHANGED <<listen, twice>>
        /\ held' = [held EXCEPT ![Listen] = 1]
     \/ /\ listen' = d.listen_fd /\ pc' = "nonblock" /\ UNCHANGED <<twice, fault>>
        /\ held' = [held EXCEPT ![Listen] = IF d.listen_fd = "none" THEN 0 ELSE 1]

SetNonblocking ==
  /\ pc = "nonblock" /\ UNCHANGED <<options, d, i>>
  /\ \/ Skip("epoll") /\ UNCHANGED listen
     \/ /\ listen # "none" /\ (Has("EPOLL") \/ d.worker_pool_size > 0)
        /\ Fail("nonblock", {Listen}, "free_and_fail") /\ listen' = "none"

\* setup_epoll_to_listen(): the descriptors it makes, and those it has made when it fails.
EpollSets == {"epoll"} \cup (IF Has("ALLOW_UPGRADE") THEN {"epoll_upgrade"} ELSE {})
EpollBroken == {{}, {"epoll"}, EpollSets}

\* A slip: the inter-thread channel is not added to the set.
MutantPolled(w) == (IF d.listen_fd # "none" THEN {"listen"} ELSE {})

\* The set contains the listen socket and the channel, if there are any by now.
Polled(w) ==
  (IF d.listen_fd # "none" THEN {"listen"} ELSE {}) \cup (IF held[<<"itc", w>>] > 0 THEN {"itc"} ELSE {})

\* Of the resources in h, those that are descriptors of w are made as well (0 is the daemon).
WithEpoll(h, w, made) == [r \in Resources |-> IF r \in {<<e, w>> : e \in made} THEN 1 ELSE h[r]]

SetupEpoll ==
  /\ pc = "epoll" /\ UNCHANGED <<options, listen, i>>
  /\ IF Has("EPOLL") /\ d.worker_pool_size = 0
       THEN \/ /\ held' = WithEpoll(held, 0, EpollSets) /\ pc' = "per_ip"
               /\ d' = [d EXCEPT !.polled[0] = Polled(0)]
               /\ UNCHANGED <<twice, fault>>
            \/ \E made \in EpollBroken :
                 /\ held' = WithEpoll(held, 0, made)
                 /\ fault' = "epoll" /\ pc' = "free_and_fail" /\ UNCHANGED <<d, twice>>
       ELSE /\ Skip("per_ip")
            /\ d' = [d EXCEPT !.polled[0] = IF Has("EPOLL") THEN {} ELSE Polled(0)]

InitPerIp ==
  /\ pc = "per_ip" /\ Same
  /\ Acquire(One("per_ip"), "tls") \/ Fail("per_ip", CloseListen, "free_and_fail")

\* MHD_TLS_init(), MHD_init_daemon_certificate()
InitTls ==
  /\ pc = "tls" /\ Same
  /\ LET undo == CloseListen \cup {One("per_ip")}
         next == IF UsesThreads /\ d.worker_pool_size > 0 THEN "pool" ELSE "cleanup"
     IN IF ~ Has("TLS") THEN Skip(next)
        ELSE IF d.cred_type = "other" THEN Fail("tls", undo, "free_and_fail")
        ELSE \/ Acquire(One("cred"), next)
             \/ Fail("tls", undo, "free_and_fail")
             \/ /\ d.cred_type = "CERTIFICATE"   \* the credentials stay allocated
                /\ fault' = "tls" /\ pc' = "free_and_fail"
                /\ held' = [Released(undo).held EXCEPT ![One("cred")] = 1]
                /\ twice' = Released(undo).twice

\* Without a pool of workers: two mutexes, and perhaps the thread.
InitCleanup ==
  /\ pc = "cleanup" /\ Same
  /\ \/ Acquire(One("cleanup"), "new")
     \/ Fail("cleanup", {One("per_ip")} \cup CloseListen, "free_and_fail")

InitNew ==
  /\ pc = "new" /\ Same
  /\ \/ Acquire(One("new"), IF UsesThreads THEN "thread" ELSE "running")
     \/ Fail("new", {One("per_ip"), One("cleanup")} \cup CloseListen, "free_and_fail")

CreateThread ==
  /\ pc = "thread" /\ Same
  /\ \/ Acquire(One("thread"), "running")
     \/ Fail("thread", {One("new"), One("per_ip"), One("cleanup")} \cup CloseListen, "free_and_fail")

\* With a pool.
AllocPool ==
  /\ pc = "pool" /\ UNCHANGED <<options, d, listen>>
  /\ \/ Acquire(One("pool"), "w_cleanup") /\ i' = 1
     \/ Fail("pool", {}, "thread_failed") /\ i' = 1

WorkerCleanup ==
  /\ pc = "w_cleanup" /\ Same
  /\ Acquire(<<"cleanup", i>>, "w_new") \/ Fail("w_cleanup", {}, "thread_failed")

WorkerNew ==
  /\ pc = "w_new" /\ Same
  /\ Acquire(<<"new", i>>, "w_itc") \/ Fail("w_new", {<<"cleanup", i>>}, "thread_failed")

WorkerItc ==
  /\ pc = "w_itc" /\ Same
  /\ IF Has("ITC")
       THEN \/ Acquire(<<"itc", i>>, "w_epoll")
            \/ Fail("w_itc", {<<"new", i>>, <<"cleanup", i>>}, "thread_failed")
       ELSE Skip("w_epoll")

\* A slip: the threads that are not the first get what is left over, too.
MutantWorkerLimit(w) ==
  d.connection_limit \div d.worker_pool_size
  + (IF w - 1 <= d.connection_limit % d.worker_pool_size THEN 1 ELSE 0)

\* "Divide available connections evenly amongst the threads."
WorkerLimit(w) ==
  d.connection_limit \div d.worker_pool_size
  + (IF w - 1 < d.connection_limit % d.worker_pool_size THEN 1 ELSE 0)

WorkerEpoll ==
  /\ pc = "w_epoll" /\ UNCHANGED <<options, listen, i>>
  /\ d' = [d EXCEPT !.limit[i] = WorkerLimit(i), !.polled[i] = Polled(i)]
  /\ IF Has("EPOLL")
       THEN \/ /\ held' = WithEpoll(held, i, EpollSets) /\ pc' = "w_thread"
               /\ UNCHANGED <<twice, fault>>
            \/ \E made \in EpollBroken :
                 LET undo == Released(IfHeld({<<"itc", i>>}) \cup {<<"new", i>>, <<"cleanup", i>>})
                 IN /\ fault' = "w_epoll" /\ pc' = "thread_failed" /\ twice' = undo.twice
                    /\ held' = WithEpoll(undo.held, i, made)
       ELSE Skip("w_thread")

\* A slip: the loop goes on after the last worker.
MutantWorkerThread ==
  /\ pc = "w_thread" /\ UNCHANGED <<options, d, listen>>
  /\ Acquire(<<"thread", i>>, "w_cleanup") /\ i' = i + 1

\* "Free memory for this worker; cleanup below handles all previously-created workers."
WorkerThread ==
  /\ pc = "w_thread" /\ UNCHANGED <<options, d, listen>>
  /\ \/ /\ i < d.worker_pool_size
        /\ Acquire(<<"thread", i>>, "w_cleanup") /\ i' = i + 1
     \/ i = d.worker_pool_size /\ Acquire(<<"thread", i>>, "running") /\ UNCHANGED i
     \/ LET undo == Released(IfHeld({<<"itc", i>>}) \cup {<<"new", i>>, <<"cleanup", i>>})
        IN /\ fault' = "w_thread" /\ pc' = "thread_failed" /\ UNCHANGED i
           /\ held' = undo.held /\ twice' = undo.twice \cup {<<"cleanup", i>>}   \* once more

\* Either nothing was started, or the workers that were are stopped.
ThreadFailed ==
  /\ pc = "thread_failed" /\ UNCHANGED options
  /\ IF i = 1
       THEN /\ Release(CloseListen \cup {One("per_ip")} \cup IfHeld({One("pool")}))
            /\ listen' = "none" /\ pc' = "free_and_fail" /\ UNCHANGED <<d, fault, i>>
       ELSE /\ d' = [d EXCEPT !.worker_pool_size = i - 1]
            /\ i' = 1 /\ pc' = "stop_worker" /\ UNCHANGED <<listen, held, twice, fault>>

FreeAndFail ==
  /\ pc = "free_and_fail" /\ Same
  /\ Release(IfHeld({One(r) : r \in {"epoll", "epoll_upgrade", "random", "nnc", "cred", "itc"}})
             \cup {One("nnc_lock"), One("daemon")} \cup TlsPriorities
             \cup CloseListen \cup (IF d.listen_fd \notin {"none", listen} THEN {Listen} ELSE {}))
  /\ pc' = "failed" /\ UNCHANGED fault

-----------------------------------------------------------------------------
(* The running daemon and MHD_stop_daemon() *)

\* The caller gets the listen socket and has to close it.
MHD_quiesce_daemon ==
  /\ pc = "running" /\ d.listen_fd # "none" /\ ~ d.was_quiesced
  /\ Has("ITC") \/ ~ UsesThreads
  /\ d' = [d EXCEPT !.was_quiesced = TRUE]
  /\ held' = [held EXCEPT ![Listen] = 0]
  /\ UNCHANGED <<pc, options, listen, twice, fault, i>>

MHD_stop_daemon ==
  /\ pc = "running" /\ UNCHANGED <<options, d, listen>>
  /\ IF held[One("pool")] > 0 THEN Skip("stop_worker") /\ i' = 1
                              ELSE Skip("stop_single") /\ UNCHANGED i

\* The part for a worker, or for a daemon without a pool.
StopOne(w) ==
  IfHeld({<<r, w>> : r \in {"thread", "itc", "epoll", "epoll_upgrade"}})
  \cup {<<"cleanup", w>>, <<"new", w>>}

StopWorker ==
  /\ pc = "stop_worker" /\ UNCHANGED <<options, d, listen, fault>>
  /\ Release(StopOne(i) \cup (IF i = d.worker_pool_size THEN {One("pool")} ELSE {}))
  /\ IF i < d.worker_pool_size THEN pc' = pc /\ i' = i + 1 ELSE pc' = "stop_master" /\ UNCHANGED i

StopSingle ==
  /\ pc = "stop_single" /\ Same /\ UNCHANGED fault
  /\ Release(StopOne(0)) /\ pc' = "stop_master"

\* A slip: the list of nonces is forgotten.
MutantStopMaster ==
  /\ pc = "stop_master" /\ Same /\ UNCHANGED fault
  /\ Release((IF d.listen_fd = "none" \/ d.was_quiesced THEN {} ELSE {Listen})
             \cup TlsPriorities \cup IfHeld({One("dhparams"), One("cred"), One("random")})
             \cup {One("nnc_lock"), One("per_ip"), One("daemon")})
  /\ pc' = IF fault = "none" THEN "stopped" ELSE "failed"

\* "Cleanup that should be done only one time in master/single daemon."
StopMaster ==
  /\ pc = "stop_master" /\ Same /\ UNCHANGED fault
  /\ Release((IF d.listen_fd = "none" \/ d.was_quiesced THEN {} ELSE {Listen})
             \cup TlsPriorities \cup IfHeld({One("dhparams"), One("cred"), One("random"), One("nnc")})
             \cup {One("nnc_lock"), One("per_ip"), One("daemon")})
  /\ pc' = IF fault = "none" THEN "stopped" ELSE "failed"

-----------------------------------------------------------------------------
Start ==
  \/ CheckFlags \/ AllocDaemon \/ AllocParams \/ OptionsEnd \/ process_interim_params
  \/ DefaultPriorities \/ InitItc \/ CopyRandom \/ AllocNonces \/ InitNonceLock
  \/ CreateListen \/ ReuseAddress \/ BindAndListen \/ UseListen \/ SetNonblocking \/ SetupEpoll
  \/ InitPerIp \/ InitTls \/ InitCleanup \/ InitNew \/ CreateThread
  \/ AllocPool \/ WorkerCleanup \/ WorkerNew \/ WorkerItc \/ WorkerEpoll \/ WorkerThread
  \/ ThreadFailed \/ FreeAndFail
  \/ \E o \in ask.options : ParseOption(o)

Stop == MHD_quiesce_daemon \/ MHD_stop_daemon \/ StopWorker \/ StopSingle \/ StopMaster

Next == (Start \/ Stop) /\ UNCHANGED ask

Spec == Init /\ [][Next]_vars

-----------------------------------------------------------------------------
(* Properties *)

TypeOK ==
  /\ options \subseteq Flags /\ held \in [Resources -> Nat]
  /\ twice \subseteq Resources /\ listen \in {"none", "own", "app"} /\ i \in 0..MaxPool

\* Failures after which the listen socket is closed both where they happen and at
\* free_and_fail.
ClosedAgain ==
  {"bind", "nonblock", "per_ip", "tls", "cleanup", "new", "thread", "pool", "w_cleanup", "w_new",
   "w_itc", "w_epoll", "w_thread"}

\* Whatever fails, and however a daemon is stopped, nothing is released that is not
\* held: but for the listen socket, and the mutex of a worker whose thread was not
\* created.
ReleasedOnce ==
  \A r \in twice : \/ r = Listen /\ fault \in ClosedAgain
                   \/ r[1] = "cleanup" /\ fault = "w_thread"

\* What the start leaves behind when it fails.
Forgotten(r) ==
  \/ r = One("dhparams")
  \/ r = One("priorities") /\ fault = "interim"
  \/ r = One("itc") /\ fault \in {"random", "nnc", "nnc_lock"}
  \/ r[1] \in {"epoll", "epoll_upgrade"} /\ r[2] > 0 /\ fault \in {"w_epoll", "w_thread"}

\* A daemon that was stopped, or failed to start, has released all it had acquired:
\* but for what Forgotten lists.
NothingLeft ==
  pc \in {"failed", "stopped"} => \A r \in Resources : held[r] > 0 => Forgotten(r)

\* Every thread that runs waits for something that MHD_stop_daemon() can trigger: the
\* channel, or the listen socket where it can be shut down and was not handed over.
CanBeStopped ==
  pc = "running" =>
    \A w \in 0..MaxPool : held[<<"thread", w>>] > 0 =>
      \/ "itc" \in d.polled[w]
      \/ HAVE_LISTEN_SHUTDOWN /\ "listen" \in d.polled[w] /\ ~ d.was_quiesced

\* What worker w gets when the connections up to the limit are dealt out in turn.
Dealt(w) == {n \in 0..d.connection_limit - 1 : n % d.worker_pool_size = w - 1}

\* The workers' shares of the connection limit are disjoint and make it up, and none is larger
\* than another by more than one.
LimitsShared ==
  pc = "running" /\ held[One("pool")] > 0 =>
    /\ \A w \in 1..d.worker_pool_size : d.limit[w] = Cardinality(Dealt(w))
    /\ \A w, v \in 1..d.worker_pool_size : d.limit[w] <= d.limit[v] + 1

\* The increment of a buffer is at most a quarter of the pool, in whatever order the
\* two options came.
IncrementFits == d.pool_size >= MinPool /\ d.pool_increment <= d.pool_size \div 4

\* What MHD_start_daemon() and MHD_stop_daemon() promise together.
StartRight == ReleasedOnce /\ NothingLeft /\ IncrementFits /\ CanBeStopped /\ LimitsShared
============================================================================
