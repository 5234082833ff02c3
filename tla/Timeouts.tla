------------------------------ MODULE Timeouts ------------------------------
(***************************************************************************)
(* Connection timeouts of libmicrohttpd: the clock values kept per         *)
(* connection, the two timeout lists of the daemon, the time the polling   *)
(* function may wait, and the closing of connections that have timed out.  *)
(*                                                                         *)
(* One turn of the event loop visits the connections one by one while the  *)
(* clock goes on, then computes the time to wait and waits.  Clock values  *)
(* are unsigned words, so a difference wraps around.                       *)
(***************************************************************************)
EXTENDS Integers, Sequences, FiniteSets, SequencesExt

CONSTANTS
  Conn,            \* connections
  DefaultTimeout,  \* daemon->connection_timeout_ms, 0 for none
  CustomTimeouts,  \* what the application sets for a single connection
  MayAdd,          \* does the application use MHD_add_connection()?
  PollFn,          \* "select" or "poll"
  Word,            \* 2^64
  JumpLimit,       \* the jump of the clock that is tolerated: 5000 ms
  RetryWait,       \* the wait when the deadline is now: 100 ms
  MaxJump,         \* bound: how far the clock may jump back
  TimeEnd,         \* bound of the clock
  Infinite         \* the wait when there is no timeout at all

ASSUME WordAssumption ==
  /\ Word \in Nat /\ JumpLimit \in Nat /\ RetryWait \in Nat \ {0}
  /\ MaxJump \in Nat /\ TimeEnd \in Nat /\ Infinite \in Nat
  /\ TimeEnd < Word
ASSUME InfiniteAssumption == Infinite >= Word /\ Infinite > RetryWait
ASSUME TimeoutAssumption ==
  /\ DefaultTimeout \in 0 .. Word - 1
  /\ CustomTimeouts \subseteq 0 .. Word - 1
ASSUME ModeAssumption == MayAdd \in BOOLEAN /\ PollFn \in {"select", "poll"}

VARIABLES
  now,             \* MHD_monotonic_msec_counter()
  place,           \* what has become of each connection
  last_activity,   \* connection->last_activity
  timeout,         \* connection->connection_timeout_ms
  normal,          \* the normal_timeout list, head first
  manual,          \* the manual_timeout list, head first
  phase,           \* "visit" or "poll"
  todo,            \* the connections still to be visited in this turn
  wait,            \* how long the polling function may still wait
  plain            \* history: the clock was never set back, no connection added
                   \* by the application and no timeout of its own set

clock == <<now, plain>>
lists == <<normal, manual>>
vars == <<clock, place, last_activity, timeout, lists, phase, todo, wait>>

Init ==
  /\ now = 0
  /\ place = [c \in Conn |-> "unused"]
  /\ last_activity = [c \in Conn |-> 0]
  /\ timeout = [c \in Conn |-> DefaultTimeout]
  /\ normal = <<>>
  /\ manual = <<>>
  /\ phase = "visit"
  /\ todo = {}
  /\ wait = 0
  /\ plain = TRUE

-----------------------------------------------------------------------------
(***************************************************************************)
(* The arithmetic of timeouts.                                             *)
(***************************************************************************)

\* The difference of two unsigned words.
Minus(a, b) == IF a >= b THEN a - b ELSE a - b + Word

Since(c) == Minus(now, last_activity[c])

\* The clock is behind last_activity by so little that it must have jumped.
JumpedBack(c) ==
  Word \div 2 <= Since(c) /\ Minus(last_activity[c], now) <= JumpLimit

\* connection_check_timedout(), for a connection that is not suspended.
connection_check_timedout(c) ==
  timeout[c] # 0 /\ timeout[c] < Since(c) /\ ~JumpedBack(c)

MutantWaitOutOfSync(c) ==
  IF timeout[c] < Since(c) THEN 0
  ELSE IF timeout[c] = Since(c) THEN RetryWait
  ELSE timeout[c] - Since(c)

\* connection_get_wait(): the time left until the connection has timed out.
connection_get_wait(c) ==
  IF timeout[c] < Since(c) THEN (IF JumpedBack(c) THEN RetryWait ELSE 0)
  ELSE IF timeout[c] = Since(c) THEN RetryWait
  ELSE timeout[c] - Since(c)

Deadline(c) == (last_activity[c] + timeout[c]) % Word

\* Walk the manual list from its tail: a connection replaces the earliest one
\* so far if that one's deadline, counted from its last activity, is farther
\* away than its own timeout.  The set is empty if there is none so far.
Earlier(c, best) ==
  IF timeout[c] = 0 THEN best
  ELSE IF best = {} \/ \E b \in best :
            Minus(Deadline(b), last_activity[c]) > timeout[c]
  THEN {c} ELSE best

MutantOldestHead ==
  IF normal # <<>> /\ timeout[Head(normal)] # 0 THEN {Head(normal)} ELSE {}

\* The tail of the normal list, where the oldest connection is.
Oldest == IF normal # <<>> /\ timeout[Last(normal)] # 0 THEN {Last(normal)} ELSE {}

\* The loop of MHD_get_timeout64() along the manual list: w[i] is the earliest
\* connection, as a set of one or no element, after i connections.
Walks ==
  {w \in [0 .. Len(manual) -> SUBSET Conn] :
     /\ w[0] = Oldest
     /\ \A i \in 1 .. Len(manual) : w[i] = Earlier(manual[Len(manual) + 1 - i], w[i - 1])}

\* The wait for the connection with the earliest deadline.  New connections
\* that are to be processed leave no time to wait.
MHD_get_timeout64(earliest) ==
  IF \E c \in Conn : place[c] = "prepared" THEN 0
  ELSE IF earliest = {} THEN Infinite
  ELSE connection_get_wait(CHOOSE c \in earliest : TRUE)

-----------------------------------------------------------------------------
(***************************************************************************)
(* The timeout lists.                                                      *)
(***************************************************************************)
Insert(c, l) == <<c>> \o l

Without(c, l) ==
  IF c \in ToSet(l) THEN RemoveAt(l, CHOOSE i \in DOMAIN l : l[i] = c) ELSE l

\* XDLL_remove() from the list that the connection's timeout tells.
RemoveX(c) ==
  IF timeout[c] = DefaultTimeout
  THEN normal' = Without(c, normal) /\ UNCHANGED manual
  ELSE manual' = Without(c, manual) /\ UNCHANGED normal

\* MHD_update_last_activity_()
MHD_update_last_activity_(c) ==
  IF timeout[c] = 0 THEN UNCHANGED <<last_activity, lists>>
  ELSE /\ last_activity' = [last_activity EXCEPT ![c] = now]
       /\ IF timeout[c] # DefaultTimeout THEN UNCHANGED lists
          ELSE /\ normal' = Insert(c, Without(c, normal))
               /\ UNCHANGED manual

\* A timeout timer starts when it is set for a connection.
StartTimer(c) ==
  last_activity' = IF timeout[c] = 0 THEN last_activity
                   ELSE [last_activity EXCEPT ![c] = now]

-----------------------------------------------------------------------------
(***************************************************************************)
(* New connections.                                                        *)
(***************************************************************************)

\* new_connection_prepare_() in an application thread, at any time.
Prepare(c) ==
  /\ MayAdd
  /\ place[c] = "unused"
  /\ place' = [place EXCEPT ![c] = "prepared"]
  /\ StartTimer(c)
  /\ plain' = FALSE /\ UNCHANGED <<now, timeout, lists, phase, todo, wait>>

\* new_connection_process_() in the daemon thread.
Process(c) ==
  /\ place[c] = "prepared" /\ phase = "visit"
  /\ place' = [place EXCEPT ![c] = "served"]
  /\ normal' = Insert(c, normal)
  /\ UNCHANGED <<clock, last_activity, timeout, manual, phase, todo, wait>>

\* MHD_accept_connection(): both at once.
Accept(c) ==
  /\ place[c] = "unused" /\ phase = "visit"
  /\ place' = [place EXCEPT ![c] = "served"]
  /\ StartTimer(c)
  /\ normal' = Insert(c, normal)
  /\ UNCHANGED <<clock, timeout, manual, phase, todo, wait>>

-----------------------------------------------------------------------------
(***************************************************************************)
(* A visit of a connection.                                                *)
(***************************************************************************)

\* Data is read or written.
Activity(c) ==
  /\ c \in todo /\ place[c] = "served"
  /\ MHD_update_last_activity_(c)
  /\ todo' = todo \ {c}
  /\ UNCHANGED <<clock, place, timeout, phase, wait>>

\* MHD_connection_handle_idle() without any activity.
Idle(c) ==
  /\ c \in todo /\ place[c] = "served"
  /\ place' = IF connection_check_timedout(c)
              THEN [place EXCEPT ![c] = "closed"] ELSE place
  /\ todo' = todo \ {c}
  /\ UNCHANGED <<clock, last_activity, timeout, lists, phase, wait>>

\* cleanup_connection(): at the visit after the one that closed it, or when
\* the connection has ended in the present one.
Cleanup(c) ==
  /\ c \in todo /\ place[c] \in {"served", "closed"}
  /\ place' = [place EXCEPT ![c] = "gone"]
  /\ RemoveX(c)
  /\ todo' = todo \ {c}
  /\ UNCHANGED <<clock, last_activity, timeout, phase, wait>>

\* internal_suspend_connection_()
Suspend(c) ==
  /\ c \in todo /\ place[c] = "served"
  /\ place' = [place EXCEPT ![c] = "suspended"]
  /\ RemoveX(c)
  /\ todo' = todo \ {c}
  /\ UNCHANGED <<clock, last_activity, timeout, phase, wait>>

\* resume_suspended_connections(), before the next wait is computed.
Resume(c) ==
  /\ place[c] = "suspended" /\ phase = "visit" /\ todo = {}
  /\ place' = [place EXCEPT ![c] = "served"]
  /\ StartTimer(c)
  /\ IF timeout[c] = DefaultTimeout
     THEN normal' = Insert(c, normal) /\ UNCHANGED manual
     ELSE manual' = Insert(c, manual) /\ UNCHANGED normal
  /\ UNCHANGED <<clock, timeout, phase, todo, wait>>

MutantOptionIgnoresSuspend(c, v) ==
  /\ phase = "visit" /\ place[c] \in {"served", "suspended"}
  /\ plain' = FALSE /\ UNCHANGED <<now, place, last_activity, phase, todo, wait>>
  /\ timeout' = [timeout EXCEPT ![c] = v]
  /\ normal' = IF v = DefaultTimeout THEN Insert(c, Without(c, normal))
               ELSE Without(c, normal)
  /\ manual' = IF v # DefaultTimeout THEN Insert(c, Without(c, manual))
               ELSE Without(c, manual)

\* MHD_set_connection_option(MHD_CONNECTION_OPTION_TIMEOUT), which the
\* application calls while a connection is visited.  A suspended connection
\* keeps the timeout it has.
MHD_set_connection_option(c, v) ==
  /\ phase = "visit" /\ place[c] \in {"served", "suspended"}
  /\ last_activity' = IF timeout[c] # 0 THEN last_activity
                      ELSE [last_activity EXCEPT ![c] = now]
  /\ IF place[c] = "suspended" THEN UNCHANGED <<timeout, lists>>
     ELSE /\ timeout' = [timeout EXCEPT ![c] = v]
          /\ normal' = IF v = DefaultTimeout THEN Insert(c, Without(c, normal))
                       ELSE Without(c, normal)
          /\ manual' = IF v # DefaultTimeout THEN Insert(c, Without(c, manual))
                       ELSE Without(c, manual)
  /\ plain' = FALSE /\ UNCHANGED <<now, place, phase, todo, wait>>

-----------------------------------------------------------------------------
(***************************************************************************)
(* The turn of the event loop and the clock.                               *)
(***************************************************************************)

\* Compute the time to wait.  poll() does not wait if a closed connection
\* is still to be cleaned up.
BeginPoll ==
  /\ phase = "visit" /\ todo = {}
  /\ phase' = "poll"
  /\ \E w \in Walks :
       wait' = IF PollFn = "poll" /\ \E c \in Conn : place[c] = "closed"
               THEN 0 ELSE MHD_get_timeout64(w[Len(manual)])
  /\ UNCHANGED <<clock, place, last_activity, timeout, lists, todo>>

\* The wait is over, or there is some event.
EndPoll ==
  /\ phase = "poll"
  /\ phase' = "visit"
  /\ todo' = {c \in Conn : place[c] \in {"served", "closed"}}
  /\ wait' = 0
  /\ UNCHANGED <<clock, place, last_activity, timeout, lists>>

\* Time passes, while connections are visited and while the daemon waits.
Tick ==
  /\ now < TimeEnd
  /\ now' = now + 1
  /\ phase = "poll" => wait > 0
  /\ wait' = IF phase = "poll" /\ wait # Infinite THEN wait - 1 ELSE wait
  /\ UNCHANGED <<plain, place, last_activity, timeout, lists, phase, todo>>

\* The clock is set back.
JumpBack ==
  /\ \E d \in 1 .. MaxJump : d <= now /\ now' = now - d
  /\ plain' = FALSE /\ UNCHANGED <<place, last_activity, timeout, lists, phase, todo, wait>>

Next ==
  \/ BeginPoll \/ EndPoll \/ Tick \/ JumpBack
  \/ \E c \in Conn :
       \/ Prepare(c) \/ Process(c) \/ Accept(c)
       \/ Activity(c) \/ Idle(c) \/ Cleanup(c) \/ Suspend(c) \/ Resume(c)
       \/ \E v \in CustomTimeouts : MHD_set_connection_option(c, v)

Spec == Init /\ [][Next]_vars
-----------------------------------------------------------------------------
Listed == {"served", "closed"}

\* The type invariant.
TypeOK ==
  /\ now \in 0 .. TimeEnd
  /\ place \in [Conn -> {"unused", "prepared", "served", "closed",
                         "suspended", "gone"}]
  /\ last_activity \in [Conn -> 0 .. TimeEnd]
  /\ timeout \in [Conn -> 0 .. Word - 1]
  /\ normal \in Seq(Conn) /\ manual \in Seq(Conn)
  /\ phase \in {"visit", "poll"}
  /\ todo \subseteq Conn
  /\ wait \in Nat /\ plain \in BOOLEAN

\* Every served connection is in one timeout list, once, namely the one its
\* timeout tells, and a suspended connection in none: XDLL_remove() is called
\* for the right list in cleanup_connection(), close_connection() and
\* internal_suspend_connection_(), which all trust connection_timeout_ms.
ListedByTimeout ==
  /\ TypeOK
  /\ IsInjective(normal) /\ IsInjective(manual)
  /\ \A c \in Conn :
       /\ c \in ToSet(normal) <=> place[c] \in Listed /\ timeout[c] = DefaultTimeout
       /\ c \in ToSet(manual) <=> place[c] \in Listed /\ timeout[c] # DefaultTimeout

\* "Keep the next lines in sync": connection_get_wait() returns zero exactly
\* for the connections that connection_check_timedout() closes, also when the
\* clock was set back; otherwise the event loop would spin.
WaitAgrees ==
  \A c \in Conn : timeout[c] # 0 =>
     (connection_get_wait(c) = 0 <=> connection_check_timedout(c))

\* "Normal timeouts are sorted, so we only need to look at the tail (oldest)",
\* as long as nothing has disturbed the order (see plain).
NormalSorted ==
  plain => \A i, j \in DOMAIN normal : i < j =>
             last_activity[normal[i]] >= last_activity[normal[j]]

\* The polling function never waits longer than the time that some served
\* connection has left until it has timed out, or, when some other one had its
\* deadline just then, than the pause of 0.1 seconds that connection_get_wait()
\* makes of it; as long as the normal list is sorted, which it is then, and all
\* the connections have the daemon's timeout.
NoOversleep ==
  /\ NormalSorted
  /\ (phase = "poll" /\ plain) =>
       \A c \in Conn : place[c] \in Listed /\ timeout[c] # 0
                         => wait <= connection_get_wait(c) \/ wait <= RetryWait

\* Every served connection is in the list its timeout tells, and the polling function
\* never waits longer than the time some connection has left, but for the pause of
\* connection_get_wait().  Code: XDLL_insert() and XDLL_remove() of the timeout lists,
\* MHD_get_timeout64().
TimeoutsKept == ListedByTimeout /\ NoOversleep
=============================================================================
