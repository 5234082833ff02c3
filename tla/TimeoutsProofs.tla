-------------------------- MODULE TimeoutsProofs ---------------------------
(***************************************************************************)
(* Proofs about Timeouts for any number of connections, any width of the   *)
(* clock's words, any timeouts and any jumps of the clock.                 *)
(***************************************************************************)
EXTENDS Timeouts, SequenceTheorems, TLAPS

(* The part of the type invariant that the arithmetic needs. *)
ClockType ==
  /\ now \in 0 .. TimeEnd
  /\ last_activity \in [Conn -> 0 .. TimeEnd]
  /\ timeout \in [Conn -> 0 .. Word - 1]

-----------------------------------------------------------------------------
(* The difference of two words is a word. *)
LEMMA MinusIsWord ==
  ASSUME NEW a \in 0 .. Word - 1, NEW b \in 0 .. Word - 1
  PROVE  Minus(a, b) \in 0 .. Word - 1
BY WordAssumption DEF Minus

(* The two functions that have to be kept in sync take the same decision,   *)
(* for any values of the clock, the last activity and the timeout.          *)
LEMMA FunctionsInSync ==
  ASSUME ClockType, NEW c \in Conn, timeout[c] # 0
  PROVE  connection_get_wait(c) = 0 <=> connection_check_timedout(c)
<1>1. Since(c) \in Nat /\ timeout[c] \in Nat /\ RetryWait # 0
  <2>1. now \in 0 .. Word - 1 /\ last_activity[c] \in 0 .. Word - 1
    BY WordAssumption DEF ClockType
  <2>2. Since(c) \in 0 .. Word - 1
    BY <2>1, MinusIsWord DEF Since
  <2> QED BY <2>2, WordAssumption DEF ClockType
<1>2. CASE timeout[c] < Since(c)
  BY <1>1, <1>2 DEF connection_get_wait, connection_check_timedout
<1>3. CASE timeout[c] = Since(c)
  BY <1>1, <1>3 DEF connection_get_wait, connection_check_timedout
<1>4. CASE timeout[c] > Since(c)
  BY <1>1, <1>4 DEF connection_get_wait, connection_check_timedout
<1> QED BY <1>1, <1>2, <1>3, <1>4

(* Whatever step is taken, clock values and timeouts stay words. *)
LEMMA ClockStep == ClockType /\ [Next]_vars => ClockType'
<1> SUFFICES ASSUME ClockType, [Next]_vars PROVE ClockType'
  OBVIOUS
<1> USE WordAssumption, TimeoutAssumption DEF ClockType, clock
<1>1. CASE BeginPoll
  BY <1>1 DEF BeginPoll
<1>2. CASE EndPoll
  BY <1>2 DEF EndPoll
<1>3. CASE Tick
  BY <1>3 DEF Tick
<1>4. CASE JumpBack
  <2>1. PICK d \in 1 .. MaxJump : d <= now /\ now' = now - d
    BY <1>4 DEF JumpBack
  <2>2. now' \in 0 .. TimeEnd
    BY <2>1
  <2> QED BY <1>4, <2>2 DEF JumpBack
<1>5. ASSUME NEW c \in Conn, Prepare(c) PROVE ClockType'
  BY <1>5 DEF Prepare, StartTimer
<1>6. ASSUME NEW c \in Conn, Process(c) PROVE ClockType'
  BY <1>6 DEF Process
<1>7. ASSUME NEW c \in Conn, Accept(c) PROVE ClockType'
  BY <1>7 DEF Accept, StartTimer
<1>8. ASSUME NEW c \in Conn, Activity(c) PROVE ClockType'
  BY <1>8 DEF Activity, MHD_update_last_activity_
<1>9. ASSUME NEW c \in Conn, Idle(c) PROVE ClockType'
  BY <1>9 DEF Idle
<1>10. ASSUME NEW c \in Conn, Cleanup(c) \/ Suspend(c) PROVE ClockType'
  BY <1>10 DEF Cleanup, Suspend
<1>11. ASSUME NEW c \in Conn, Resume(c) PROVE ClockType'
  BY <1>11 DEF Resume, StartTimer
<1>12. ASSUME NEW c \in Conn, NEW v \in CustomTimeouts,
              MHD_set_connection_option(c, v)
       PROVE  ClockType'
  BY <1>12 DEF MHD_set_connection_option
<1>13. CASE UNCHANGED vars
  BY <1>13 DEF vars
<1> QED BY <1>1, <1>2, <1>3, <1>4, <1>5, <1>6, <1>7, <1>8, <1>9, <1>10,
          <1>11, <1>12, <1>13 DEF Next

-----------------------------------------------------------------------------
(* connection_get_wait() tells the event loop not to wait exactly for the   *)
(* connections that connection_check_timedout() closes, so the loop never   *)
(* spins on a connection that is not going to be closed.                    *)
THEOREM FunctionsAgree == Spec => []WaitAgrees
<1>1. Init => ClockType
  BY WordAssumption, TimeoutAssumption DEF Init, ClockType
<1>2. ClockType => WaitAgrees
  BY FunctionsInSync DEF WaitAgrees
<1> QED BY <1>1, <1>2, ClockStep, PTL DEF Spec

-----------------------------------------------------------------------------
(* The timeout lists. *)

Sorted(l, t) == \A i, j \in DOMAIN l : i < j => t[l[i]] >= t[l[j]]

(* What is left when a connection is removed keeps its order. *)
LEMMA WithoutKept ==
  ASSUME NEW l \in Seq(Conn), NEW c \in Conn, IsInjective(l)
  PROVE  /\ Without(c, l) \in Seq(Conn) /\ IsInjective(Without(c, l))
         /\ ToSet(Without(c, l)) = ToSet(l) \ {c}
         /\ \A t : Sorted(l, t) => Sorted(Without(c, l), t)
<1>1. CASE c \notin ToSet(l)
  BY <1>1 DEF Without, Sorted
<1>2. CASE c \in ToSet(l)
  <2> DEFINE p == CHOOSE i \in DOMAIN l : l[i] = c
             w == RemoveAt(l, p)
             m(i) == IF i < p THEN i ELSE i + 1
  <2>1. \E i \in DOMAIN l : l[i] = c
    BY <1>2 DEF ToSet
  <2>2. p \in DOMAIN l /\ l[p] = c
    BY <2>1
  <2>3. w = Without(c, l)
    BY <1>2 DEF Without
  <2> HIDE DEF p
  <2>4. p \in 1 .. Len(l) /\ Len(l) \in Nat /\ DOMAIN l = 1 .. Len(l)
    BY <2>2
  <2>5. w \in Seq(Conn) /\ Len(w) = Len(l) - 1 /\ \A i \in 1 .. Len(w) : w[i] = l[m(i)]
    <3> DEFINE a == SubSeq(l, 1, p - 1)
               b == SubSeq(l, p + 1, Len(l))
    <3>1. a \in Seq(Conn) /\ Len(a) = p - 1 /\ \A i \in 1 .. (p - 1) : a[i] = l[i]
      BY <2>4
    <3>2. b \in Seq(Conn) /\ Len(b) = Len(l) - p /\ \A i \in 1 .. (Len(l) - p) : b[i] = l[p + i]
      <4>1. p + 1 \in Int /\ Len(l) \in Int /\ \A i \in (p + 1) .. Len(l) : l[i] \in Conn
        BY <2>4
      <4>2. /\ b \in Seq(Conn) /\ Len(b) = IF p + 1 <= Len(l) THEN Len(l) - (p + 1) + 1 ELSE 0
            /\ \A i \in 1 .. (Len(l) - (p + 1) + 1) : b[i] = l[p + 1 + i - 1]
        BY <4>1, SubSeqProperties
      <4>3. Len(l) - (p + 1) + 1 = Len(l) - p /\ (p + 1 <= Len(l) \/ Len(l) - p = 0)
        <5>1. \A n, k \in Nat : n - (k + 1) + 1 = n - k /\ (k <= n => k + 1 <= n \/ n - k = 0)
          OBVIOUS
        <5>2. p \in Nat /\ Len(l) \in Nat /\ p <= Len(l)
          BY <2>4
        <5> QED BY <5>1, <5>2
      <4> HIDE DEF b
      <4>4. ASSUME NEW i \in 1 .. (Len(l) - p) PROVE b[i] = l[p + i]
        <5>1. p + 1 + i - 1 = p + i
          BY <2>4
        <5> QED BY <4>2, <4>3, <5>1
      <4> QED BY <4>2, <4>3, <4>4
    <3>3. w = a \o b
      BY DEF RemoveAt
    <3> HIDE DEF a, b, w
    <3>4. w \in Seq(Conn) /\ Len(w) = Len(a) + Len(b)
          /\ \A i \in 1 .. (Len(a) + Len(b)) : w[i] = IF i <= Len(a) THEN a[i] ELSE b[i - Len(a)]
      BY <3>1, <3>2, <3>3, ConcatProperties
    <3>5. Len(w) = Len(l) - 1
      BY <2>4, <3>1, <3>2, <3>4
    <3>6. ASSUME NEW i \in 1 .. Len(w) PROVE w[i] = l[m(i)]
      <4>1. CASE i < p
        BY <2>4, <3>1, <3>4, <3>5, <4>1
      <4>2. CASE ~(i < p)
        <5>1. i - (p - 1) \in 1 .. (Len(l) - p) /\ p + (i - (p - 1)) = i + 1
          BY <2>4, <3>5, <4>2
        <5>2. w[i] = b[i - (p - 1)]
          BY <2>4, <3>1, <3>4, <3>5, <4>2
        <5> QED BY <3>2, <4>2, <5>1, <5>2
      <4> QED BY <4>1, <4>2
    <3> QED BY <3>4, <3>5, <3>6
  <2>6. DOMAIN w = 1 .. Len(w)
    BY <2>5
  <2>7. \A i \in 1 .. Len(w) : m(i) \in DOMAIN l /\ m(i) # p
    BY <2>4, <2>5
  <2>8. \A i, j \in 1 .. Len(w) : (i < j => m(i) < m(j)) /\ (m(i) = m(j) => i = j)
    BY <2>4, <2>5
  <2>9. \A k \in DOMAIN l : k # p => \E i \in 1 .. Len(w) : m(i) = k
    <3> SUFFICES ASSUME NEW k \in DOMAIN l, k # p PROVE \E i \in 1 .. Len(w) : m(i) = k
      OBVIOUS
    <3>1. CASE k < p
      BY <2>4, <2>5, <3>1
    <3>2. CASE k > p
      <4>1. k - 1 \in 1 .. Len(w) /\ m(k - 1) = k
        BY <2>4, <2>5, <3>2
      <4> QED BY <4>1
    <3> QED BY <2>4, <3>1, <3>2
  <2> HIDE DEF m, w
  <2>10. IsInjective(w)
    <3>1. \A i, j \in 1 .. Len(w) : w[i] = w[j] => m(i) = m(j)
      BY <2>5, <2>7 DEF IsInjective
    <3> QED BY <2>6, <2>8, <3>1 DEF IsInjective
  <2>11. ToSet(w) = ToSet(l) \ {c}
    <3>1. \A i \in 1 .. Len(w) : w[i] \in ToSet(l) /\ w[i] # c
      BY <2>2, <2>5, <2>7 DEF IsInjective, ToSet
    <3>2. ASSUME NEW x \in ToSet(l), x # c PROVE x \in ToSet(w)
      <4>1. PICK k \in DOMAIN l : l[k] = x
        BY DEF ToSet
      <4>2. PICK i \in 1 .. Len(w) : m(i) = k
        BY <2>2, <2>9, <3>2, <4>1
      <4> QED BY <2>5, <2>6, <4>1, <4>2 DEF ToSet
    <3> QED BY <2>6, <3>1, <3>2 DEF ToSet
  <2>12. ASSUME NEW t, Sorted(l, t) PROVE Sorted(w, t)
    BY <2>5, <2>6, <2>7, <2>8, <2>12, SMTT(40) DEF Sorted
  <2> QED BY <2>3, <2>5, <2>10, <2>11, <2>12
<1> QED BY <1>1, <1>2

LEMMA InsertKept ==
  ASSUME NEW l \in Seq(Conn), NEW c \in Conn, IsInjective(l), c \notin ToSet(l)
  PROVE  /\ Insert(c, l) \in Seq(Conn) /\ IsInjective(Insert(c, l))
         /\ ToSet(Insert(c, l)) = ToSet(l) \cup {c}
         /\ \A t, u : (Sorted(l, t) /\ \A x \in ToSet(l) : u[x] = t[x] /\ u[c] >= u[x])
                        => Sorted(Insert(c, l), u)
<1> DEFINE w == Insert(c, l)
<1>0. <<c>> \in Seq(Conn) /\ Len(<<c>>) = 1 /\ <<c>>[1] = c
  OBVIOUS
<1>1. /\ w \in Seq(Conn) /\ Len(w) = 1 + Len(l)
      /\ \A i \in 1 .. (1 + Len(l)) : w[i] = IF i <= 1 THEN <<c>>[i] ELSE l[i - 1]
  BY <1>0, ConcatProperties DEF Insert
<1>2. Len(l) \in Nat /\ DOMAIN l = 1 .. Len(l) /\ DOMAIN w = 1 .. (1 + Len(l))
  BY <1>1
<1>3. w[1] = c /\ \A i \in 2 .. (1 + Len(l)) : w[i] = l[i - 1] /\ i - 1 \in DOMAIN l
  BY <1>0, <1>1, <1>2
<1>4. \A i \in 2 .. (1 + Len(l)) : w[i] # c /\ w[i] \in ToSet(l)
  BY <1>3 DEF ToSet
<1> HIDE DEF w
<1>5. IsInjective(w)
  <2> SUFFICES ASSUME NEW i \in DOMAIN w, NEW j \in DOMAIN w, w[i] = w[j] PROVE i = j
    BY DEF IsInjective
  <2>1. CASE i = 1 \/ j = 1
    BY <1>2, <1>3, <1>4, <2>1
  <2>2. CASE i # 1 /\ j # 1
    <3>1. i \in 2 .. (1 + Len(l)) /\ j \in 2 .. (1 + Len(l))
      BY <1>2, <2>2
    <3>2. i - 1 = j - 1
      BY <1>3, <3>1 DEF IsInjective
    <3> QED BY <3>1, <3>2
  <2> QED BY <2>1, <2>2
<1>6. ToSet(w) = ToSet(l) \cup {c}
  <2>1. \A i \in DOMAIN w : w[i] \in ToSet(l) \cup {c}
    BY <1>2, <1>3, <1>4
  <2>2. c \in ToSet(w)
    BY <1>2, <1>3 DEF ToSet
  <2>3. ASSUME NEW k \in DOMAIN l PROVE l[k] \in ToSet(w)
    <3>1. k + 1 \in 2 .. (1 + Len(l)) /\ (k + 1) - 1 = k
      BY <1>2
    <3>2. k + 1 \in DOMAIN w /\ w[k + 1] = l[k]
      BY <1>2, <1>3, <3>1
    <3> QED BY <3>2 DEF ToSet
  <2> QED BY <2>1, <2>2, <2>3 DEF ToSet
<1>7. ASSUME NEW t, NEW u, Sorted(l, t), \A x \in ToSet(l) : u[x] = t[x] /\ u[c] >= u[x]
      PROVE  Sorted(w, u)
  <2> SUFFICES ASSUME NEW i \in DOMAIN w, NEW j \in DOMAIN w, i < j PROVE u[w[i]] >= u[w[j]]
    BY DEF Sorted
  <2>1. j \in 2 .. (1 + Len(l))
    BY <1>2
  <2>2. CASE i = 1
    BY <1>3, <1>4, <1>7, <2>1, <2>2
  <2>3. CASE i # 1
    <3>1. i \in 2 .. (1 + Len(l)) /\ i - 1 < j - 1
      BY <1>2, <2>3
    <3>2. t[l[i - 1]] >= t[l[j - 1]]
      BY <1>3, <1>7, <2>1, <3>1 DEF Sorted
    <3> QED BY <1>3, <1>4, <1>7, <2>1, <3>1, <3>2
  <2> QED BY <2>2, <2>3
<1> QED BY <1>1, <1>5, <1>6, <1>7 DEF w

-----------------------------------------------------------------------------
(* Which connection is in which list. *)

\* A connection whose timeout can have been changed has been served.
Fresh == \A c \in Conn : place[c] \in {"unused", "prepared"} => timeout[c] = DefaultTimeout

ListInv == ListedByTimeout /\ Fresh

\* The members of the two lists, for lists n and m, places p and timeouts t.
Members(n, m, p, t) ==
  \A c \in Conn :
    /\ c \in ToSet(n) <=> p[c] \in Listed /\ t[c] = DefaultTimeout
    /\ c \in ToSet(m) <=> p[c] \in Listed /\ t[c] # DefaultTimeout

Places == {"unused", "prepared", "served", "closed", "suspended", "gone"}

LEMMA ListFacts ==
  ASSUME ListInv
  PROVE  /\ ClockType /\ place \in [Conn -> Places] /\ normal \in Seq(Conn) /\ manual \in Seq(Conn)
         /\ IsInjective(normal) /\ IsInjective(manual) /\ Members(normal, manual, place, timeout)
         /\ phase \in {"visit", "poll"} /\ todo \subseteq Conn /\ wait \in Nat /\ plain \in BOOLEAN
BY DEF ListInv, ListedByTimeout, TypeOK, ClockType, Places, Members

LEMMA ListAssemble ==
  ASSUME ClockType', place' \in [Conn -> Places], normal' \in Seq(Conn), manual' \in Seq(Conn),
         IsInjective(normal'), IsInjective(manual'), Members(normal', manual', place', timeout'),
         Fresh', phase' \in {"visit", "poll"}, todo' \subseteq Conn, wait' \in Nat, plain' \in BOOLEAN
  PROVE  ListInv'
<1>1. TypeOK'
  BY DEF TypeOK, ClockType, Places
<1> QED BY <1>1 DEF ListInv, ListedByTimeout, Members, IsInjective, ToSet, Listed

(* A connection enters the list its timeout tells. *)
LEMMA EnterList ==
  ASSUME ListInv, NEW c \in Conn, place[c] \notin Listed,
         place' = [place EXCEPT ![c] = "served"], UNCHANGED timeout,
         IF timeout[c] = DefaultTimeout THEN normal' = Insert(c, normal) /\ UNCHANGED manual
         ELSE manual' = Insert(c, manual) /\ UNCHANGED normal
  PROVE  /\ normal' \in Seq(Conn) /\ manual' \in Seq(Conn) /\ IsInjective(normal') /\ IsInjective(manual')
         /\ place' \in [Conn -> Places] /\ Members(normal', manual', place', timeout')
<1>1. c \notin ToSet(normal) /\ c \notin ToSet(manual)
  BY ListFacts DEF Members
<1>2. /\ normal' \in Seq(Conn) /\ IsInjective(normal') /\ manual' \in Seq(Conn) /\ IsInjective(manual')
      /\ ToSet(normal') = ToSet(normal) \cup IF timeout[c] = DefaultTimeout THEN {c} ELSE {}
      /\ ToSet(manual') = ToSet(manual) \cup IF timeout[c] = DefaultTimeout THEN {} ELSE {c}
  BY <1>1, ListFacts, InsertKept
<1>3. place' \in [Conn -> Places]
  BY ListFacts DEF Places
<1>4. Members(normal', manual', place', timeout')
  BY <1>2, ListFacts DEF Members, Listed, Places
<1> QED BY <1>2, <1>3, <1>4

(* A connection leaves the list its timeout tells. *)
LEMMA LeaveList ==
  ASSUME ListInv, NEW c \in Conn, NEW s \in {"gone", "suspended"},
         place' = [place EXCEPT ![c] = s], UNCHANGED timeout, RemoveX(c)
  PROVE  /\ normal' \in Seq(Conn) /\ manual' \in Seq(Conn) /\ IsInjective(normal') /\ IsInjective(manual')
         /\ place' \in [Conn -> Places] /\ Members(normal', manual', place', timeout')
<1>1. (timeout[c] # DefaultTimeout => c \notin ToSet(normal)) /\ (timeout[c] = DefaultTimeout => c \notin ToSet(manual))
  BY ListFacts DEF Members
<1>2. /\ normal' \in Seq(Conn) /\ IsInjective(normal') /\ manual' \in Seq(Conn) /\ IsInjective(manual')
      /\ ToSet(normal') = ToSet(normal) \ {c} /\ ToSet(manual') = ToSet(manual) \ {c}
  BY <1>1, ListFacts, WithoutKept DEF RemoveX
<1>3. place' \in [Conn -> Places]
  BY ListFacts DEF Places
<1>4. Members(normal', manual', place', timeout')
  BY <1>2, ListFacts DEF Members, Listed, Places
<1> QED BY <1>2, <1>3, <1>4

(* The lists do not change, and no connection enters or leaves them. *)
LEMMA SameLists ==
  ASSUME ListInv, UNCHANGED <<lists, timeout>>, place' \in [Conn -> Places],
         \A c \in Conn : place'[c] \in Listed <=> place[c] \in Listed
  PROVE  /\ normal' \in Seq(Conn) /\ manual' \in Seq(Conn) /\ IsInjective(normal') /\ IsInjective(manual')
         /\ Members(normal', manual', place', timeout')
BY ListFacts DEF lists, Members

(* What connection_get_wait() returns is a time. *)
LEMMA WaitTyped ==
  ASSUME ClockType, NEW c \in Conn
  PROVE  connection_get_wait(c) \in Nat /\ connection_get_wait(c) < Infinite
<1>1. now \in 0 .. Word - 1 /\ last_activity[c] \in 0 .. Word - 1
  BY WordAssumption DEF ClockType
<1>2. Since(c) \in 0 .. Word - 1
  BY <1>1, MinusIsWord DEF Since
<1>3. timeout[c] \in 0 .. Word - 1
  BY DEF ClockType
<1> QED BY <1>2, <1>3, WordAssumption, InfiniteAssumption DEF connection_get_wait

LEMMA PollWait ==
  ASSUME ListInv, NEW w \in Walks
  PROVE  MHD_get_timeout64(w[Len(manual)]) \in Nat
<1>1. Len(manual) \in 0 .. Len(manual)
  BY ListFacts
<1>2. w[Len(manual)] \in SUBSET Conn
  BY <1>1 DEF Walks
<1>3. w[Len(manual)] # {} => (CHOOSE c \in w[Len(manual)] : TRUE) \in Conn
  BY <1>2
<1> QED BY <1>3, ListFacts, WaitTyped, WordAssumption DEF MHD_get_timeout64

LEMMA ListStep == ListInv /\ [Next]_vars => ListInv'
<1> SUFFICES ASSUME ListInv, [Next]_vars PROVE ListInv'
  OBVIOUS
<1>0. ClockType'
  BY ListFacts, ClockStep
<1>t. place \in [Conn -> Places] /\ phase \in {"visit", "poll"} /\ todo \subseteq Conn /\ wait \in Nat
      /\ plain \in BOOLEAN /\ timeout \in [Conn -> 0 .. Word - 1]
  BY ListFacts DEF ClockType
<1>1. CASE BeginPoll
  <2>1. UNCHANGED <<place, timeout, lists, todo, plain>> /\ phase' = "poll"
    BY <1>1 DEF BeginPoll, clock
  <2>2. wait' \in Nat
    BY <1>1, PollWait DEF BeginPoll
  <2>3. Fresh'
    BY <2>1 DEF ListInv, Fresh
  <2> QED BY <1>0, <1>t, <2>1, <2>2, <2>3, SameLists, ListAssemble
<1>2. CASE EndPoll \/ Tick \/ JumpBack
  <2>1. UNCHANGED <<place, timeout, lists>> /\ phase' \in {"visit", "poll"} /\ todo' \subseteq Conn /\ plain' \in BOOLEAN
    BY <1>2, <1>t DEF EndPoll, Tick, JumpBack, clock
  <2>2. wait' \in Nat
    BY <1>2, <1>t DEF EndPoll, Tick, JumpBack
  <2>3. Fresh'
    BY <2>1 DEF ListInv, Fresh
  <2> QED BY <1>0, <1>t, <2>1, <2>2, <2>3, SameLists, ListAssemble
<1>3. ASSUME NEW c \in Conn, Prepare(c) PROVE ListInv'
  <2>1. /\ place' = [place EXCEPT ![c] = "prepared"] /\ place[c] = "unused"
        /\ UNCHANGED <<timeout, lists, phase, todo, wait>> /\ plain' = FALSE
    BY <1>3 DEF Prepare
  <2>2. place' \in [Conn -> Places] /\ \A x \in Conn : place'[x] \in Listed <=> place[x] \in Listed
    BY <1>t, <2>1 DEF Places, Listed
  <2>3. Fresh'
    BY <1>t, <2>1 DEF ListInv, Fresh
  <2> QED BY <1>0, <1>t, <2>1, <2>2, <2>3, SameLists, ListAssemble
<1>4. ASSUME NEW c \in Conn, Process(c) \/ Accept(c) PROVE ListInv'
  <2>1. /\ place' = [place EXCEPT ![c] = "served"] /\ place[c] \in {"unused", "prepared"}
        /\ UNCHANGED <<timeout, manual, phase, todo, wait, plain>> /\ normal' = Insert(c, normal)
    BY <1>4 DEF Process, Accept, clock
  <2>2. timeout[c] = DefaultTimeout /\ place[c] \notin Listed
    BY <2>1 DEF ListInv, Fresh, Listed
  <2>3. Fresh'
    BY <1>t, <2>1 DEF ListInv, Fresh
  <2> QED BY <1>0, <1>t, <2>1, <2>2, <2>3, EnterList, ListAssemble
<1>5. ASSUME NEW c \in Conn, Activity(c) PROVE ListInv'
  <2>1. /\ UNCHANGED <<place, timeout, manual, phase, wait, plain>> /\ todo' \subseteq Conn /\ place[c] = "served"
    BY <1>5, <1>t DEF Activity, clock, MHD_update_last_activity_, lists
  <2>2. CASE UNCHANGED normal
    <3>1. Fresh'
      BY <2>1 DEF ListInv, Fresh
    <3>2. UNCHANGED lists
      BY <2>1, <2>2 DEF lists
    <3> QED BY <1>0, <1>t, <2>1, <3>1, <3>2, SameLists, ListAssemble
  <2>3. CASE normal' = Insert(c, Without(c, normal)) /\ timeout[c] = DefaultTimeout
    <3> DEFINE w == Without(c, normal)
    <3>1. w \in Seq(Conn) /\ IsInjective(w) /\ ToSet(w) = ToSet(normal) \ {c}
      BY ListFacts, WithoutKept
    <3> HIDE DEF w
    <3>2. normal' \in Seq(Conn) /\ IsInjective(normal') /\ ToSet(normal') = ToSet(w) \cup {c}
      BY <2>3, <3>1, InsertKept DEF w
    <3>3. Members(normal', manual', place', timeout')
      BY <2>1, <2>3, <3>1, <3>2, ListFacts DEF Members, Listed
    <3>4. Fresh'
      BY <2>1 DEF ListInv, Fresh
    <3> QED BY <1>0, <1>t, <2>1, <3>2, <3>3, <3>4, ListFacts, ListAssemble
  <2> QED BY <1>5, <2>2, <2>3 DEF Activity, MHD_update_last_activity_, lists
<1>6. ASSUME NEW c \in Conn, Idle(c) PROVE ListInv'
  <2>1. /\ place' = place \/ place' = [place EXCEPT ![c] = "closed"]
        /\ UNCHANGED <<timeout, lists, phase, wait, plain>> /\ todo' \subseteq Conn /\ place[c] = "served"
    BY <1>6, <1>t DEF Idle, clock
  <2>2. place' \in [Conn -> Places] /\ \A x \in Conn : place'[x] \in Listed <=> place[x] \in Listed
    BY <1>t, <2>1 DEF Places, Listed
  <2>3. Fresh'
    BY <1>t, <2>1 DEF ListInv, Fresh
  <2> QED BY <1>0, <1>t, <2>1, <2>2, <2>3, SameLists, ListAssemble
<1>7. ASSUME NEW c \in Conn, Cleanup(c) \/ Suspend(c) PROVE ListInv'
  <2>1. PICK s \in {"gone", "suspended"} : place' = [place EXCEPT ![c] = s]
    BY <1>7 DEF Cleanup, Suspend
  <2>2. RemoveX(c) /\ UNCHANGED <<timeout, phase, wait, plain>> /\ todo' \subseteq Conn
    BY <1>7, <1>t DEF Cleanup, Suspend, clock
  <2>3. Fresh'
    BY <1>t, <2>1, <2>2 DEF ListInv, Fresh
  <2> QED BY <1>0, <1>t, <2>1, <2>2, <2>3, LeaveList, ListAssemble
<1>8. ASSUME NEW c \in Conn, Resume(c) PROVE ListInv'
  <2>1. /\ place' = [place EXCEPT ![c] = "served"] /\ place[c] = "suspended"
        /\ UNCHANGED <<timeout, phase, todo, wait, plain>>
        /\ IF timeout[c] = DefaultTimeout THEN normal' = Insert(c, normal) /\ UNCHANGED manual
           ELSE manual' = Insert(c, manual) /\ UNCHANGED normal
    BY <1>8 DEF Resume, clock
  <2>2. place[c] \notin Listed
    BY <2>1 DEF Listed
  <2>3. Fresh'
    BY <1>t, <2>1 DEF ListInv, Fresh
  <2> QED BY <1>0, <1>t, <2>1, <2>2, <2>3, EnterList, ListAssemble
<1>9. ASSUME NEW c \in Conn, NEW v \in CustomTimeouts, MHD_set_connection_option(c, v) PROVE ListInv'
  <2>1. UNCHANGED <<place, phase, todo, wait>> /\ plain' = FALSE /\ place[c] \in {"served", "suspended"}
    BY <1>9 DEF MHD_set_connection_option
  <2>2. CASE place[c] = "suspended"
    <3>1. UNCHANGED <<timeout, lists>>
      BY <1>9, <2>2 DEF MHD_set_connection_option
    <3>2. Fresh'
      BY <2>1, <3>1 DEF ListInv, Fresh
    <3> QED BY <1>0, <1>t, <2>1, <3>1, <3>2, SameLists, ListAssemble
  <2>3. CASE place[c] = "served"
    <3> DEFINE a == Without(c, normal)
               b == Without(c, manual)
    <3>1. a \in Seq(Conn) /\ IsInjective(a) /\ ToSet(a) = ToSet(normal) \ {c}
      BY ListFacts, WithoutKept
    <3>2. b \in Seq(Conn) /\ IsInjective(b) /\ ToSet(b) = ToSet(manual) \ {c}
      BY ListFacts, WithoutKept
    <3>3. /\ timeout' = [timeout EXCEPT ![c] = v]
          /\ normal' = (IF v = DefaultTimeout THEN Insert(c, a) ELSE a)
          /\ manual' = (IF v # DefaultTimeout THEN Insert(c, b) ELSE b)
      BY <1>9, <2>3 DEF MHD_set_connection_option
    <3> HIDE DEF a, b
    <3>4. /\ normal' \in Seq(Conn) /\ IsInjective(normal')
          /\ ToSet(normal') = (IF v = DefaultTimeout THEN ToSet(a) \cup {c} ELSE ToSet(a))
      BY <3>1, <3>3, InsertKept
    <3>5. /\ manual' \in Seq(Conn) /\ IsInjective(manual')
          /\ ToSet(manual') = (IF v # DefaultTimeout THEN ToSet(b) \cup {c} ELSE ToSet(b))
      BY <3>2, <3>3, InsertKept
    <3>6. Members(normal', manual', place', timeout')
      BY <1>t, <2>1, <2>3, <3>1, <3>2, <3>3, <3>4, <3>5, ListFacts DEF Members, Listed
    <3>7. Fresh'
      BY <1>t, <2>1, <2>3, <3>3 DEF ListInv, Fresh
    <3> QED BY <1>0, <1>t, <2>1, <3>4, <3>5, <3>6, <3>7, ListAssemble
  <2> QED BY <2>1, <2>2, <2>3
<1>10. CASE UNCHANGED vars
  <2>1. UNCHANGED <<place, timeout, lists, phase, todo, wait, plain>>
    BY <1>10 DEF vars, clock
  <2>2. Fresh'
    BY <2>1 DEF ListInv, Fresh
  <2> QED BY <1>0, <1>t, <2>1, <2>2, SameLists, ListAssemble
<1> QED BY <1>1, <1>2, <1>3, <1>4, <1>5, <1>6, <1>7, <1>8, <1>9, <1>10 DEF Next

-----------------------------------------------------------------------------
(***************************************************************************)
(* The time to wait.  As long as the clock has not been set back and every *)
(* connection has the daemon's timeout, the normal list is sorted, the     *)
(* manual list is empty and the tail of the normal list has the earliest   *)
(* deadline.                                                               *)
(***************************************************************************)

\* The clock, in milliseconds, has not reached half of its words: no interval
\* is mistaken for a jump of the clock.
ShortUptime == TimeEnd < Word \div 2

\* What holds of each connection as long as nothing has disturbed the order.
PlainConn(c) ==
  /\ timeout[c] = DefaultTimeout
  /\ place[c] # "prepared"
  /\ last_activity[c] <= now
  /\ DefaultTimeout = 0 => last_activity[c] = 0

\* The connection does not time out during the wait.
WaitShort(c) ==
  place[c] \in Listed /\ timeout[c] # 0 => wait <= connection_get_wait(c) \/ wait <= RetryWait

WaitInv ==
  /\ phase = "poll" => todo = {}
  /\ plain => Sorted(normal, last_activity) /\ \A c \in Conn : PlainConn(c)
  /\ phase = "poll" /\ plain => \A c \in Conn : WaitShort(c)

LEMMA MinusPlain ==
  ASSUME ShortUptime, NEW a \in 0 .. TimeEnd, NEW b \in 0 .. TimeEnd, b <= a
  PROVE  Minus(a, b) = a - b /\ ~(Word \div 2 <= Minus(a, b))
<1>1. Word \div 2 \in Int
  BY WordAssumption
<1>2. a - b <= TimeEnd
  BY WordAssumption
<1> QED BY <1>1, <1>2, WordAssumption DEF Minus, ShortUptime

(* The wait for a connection whose last activity is not ahead of the clock. *)
LEMMA WaitPlain ==
  ASSUME ShortUptime, ClockType, NEW c \in Conn, last_activity[c] <= now
  PROVE  connection_get_wait(c) = IF timeout[c] < now - last_activity[c] THEN 0
                                  ELSE IF timeout[c] = now - last_activity[c] THEN RetryWait
                                  ELSE timeout[c] - (now - last_activity[c])
<1>1. Since(c) = now - last_activity[c] /\ ~JumpedBack(c)
  BY MinusPlain DEF ClockType, Since, JumpedBack
<1> QED BY <1>1 DEF connection_get_wait

(* The same in the next state. *)
LEMMA WaitPlainNext ==
  ASSUME ShortUptime, ClockType', NEW c \in Conn, last_activity'[c] <= now'
  PROVE  connection_get_wait(c)' = IF timeout'[c] < now' - last_activity'[c] THEN 0
                                   ELSE IF timeout'[c] = now' - last_activity'[c] THEN RetryWait
                                   ELSE timeout'[c] - (now' - last_activity'[c])
<1>1. Since(c)' = now' - last_activity'[c] /\ ~JumpedBack(c)'
  BY MinusPlain DEF ClockType, Since, JumpedBack
<1> QED BY <1>1 DEF connection_get_wait

(* The oldest connection's wait is long enough for none of the others. *)
LEMMA OldestFirst ==
  ASSUME ShortUptime, ListInv, plain, Sorted(normal, last_activity), \A c \in Conn : PlainConn(c),
         NEW w \in Walks, NEW c \in Conn, place[c] \in Listed, timeout[c] # 0
  PROVE  MHD_get_timeout64(w[Len(manual)]) <= connection_get_wait(c) \/ MHD_get_timeout64(w[Len(manual)]) <= RetryWait
<1>1. \A x \in Conn : x \notin ToSet(manual)
  BY ListFacts DEF Members, PlainConn
<1>2. Len(manual) = 0
  <2> SUFFICES ASSUME Len(manual) # 0 PROVE FALSE
    OBVIOUS
  <2>1. 1 \in DOMAIN manual /\ manual[1] \in Conn
    BY ListFacts
  <2> QED BY <1>1, <2>1 DEF ToSet
<1>3. w[Len(manual)] = Oldest
  BY <1>2 DEF Walks
<1>4. c \in ToSet(normal)
  BY ListFacts DEF Members, PlainConn
<1>5. PICK i \in DOMAIN normal : normal[i] = c
  BY <1>4 DEF ToSet
<1>6. i \in 1 .. Len(normal) /\ Len(normal) \in Nat /\ DOMAIN normal = 1 .. Len(normal)
  BY ListFacts
<1> DEFINE o == normal[Len(normal)]
<1>7. o \in Conn /\ Last(normal) = o /\ normal # <<>>
  BY <1>6, ListFacts DEF Last
<1>8. timeout[o] = DefaultTimeout /\ timeout[c] = DefaultTimeout
  BY <1>7 DEF PlainConn
<1>9. Oldest = {o}
  BY <1>7, <1>8 DEF Oldest
<1>10. MHD_get_timeout64(w[Len(manual)]) = connection_get_wait(o)
  BY <1>3, <1>9 DEF MHD_get_timeout64, PlainConn
<1>11. last_activity[o] <= last_activity[c]
  <2>1. CASE i = Len(normal)
    BY <1>5, <1>7, <2>1, ListFacts DEF ClockType
  <2>2. CASE i # Len(normal)
    <3>1. i < Len(normal) /\ Len(normal) \in DOMAIN normal
      BY <1>6, <2>2
    <3>2. last_activity[normal[i]] >= last_activity[normal[Len(normal)]]
      BY <3>1 DEF Sorted
    <3> QED BY <1>5, <1>7, <3>2, ListFacts DEF ClockType
  <2> QED BY <2>1, <2>2
<1> HIDE DEF o
<1>12. last_activity[o] <= now /\ last_activity[c] <= now
  BY <1>7 DEF PlainConn
<1>13. /\ connection_get_wait(o) = IF DefaultTimeout < now - last_activity[o] THEN 0
                                   ELSE IF DefaultTimeout = now - last_activity[o] THEN RetryWait
                                   ELSE DefaultTimeout - (now - last_activity[o])
       /\ connection_get_wait(c) = IF DefaultTimeout < now - last_activity[c] THEN 0
                                   ELSE IF DefaultTimeout = now - last_activity[c] THEN RetryWait
                                   ELSE DefaultTimeout - (now - last_activity[c])
  BY <1>7, <1>8, <1>12, ListFacts, WaitPlain
<1>14. now \in Int /\ last_activity[o] \in Int /\ last_activity[c] \in Int /\ DefaultTimeout \in Int /\ RetryWait \in Nat
  BY <1>7, ListFacts, WordAssumption, TimeoutAssumption DEF ClockType
<1> QED BY <1>10, <1>11, <1>13, <1>14

(* A connection that has just been active goes to the head of the list. *)
LEMMA HeadKept ==
  ASSUME ListInv, \A x \in Conn : PlainConn(x), NEW c \in Conn,
         NEW l \in Seq(Conn), IsInjective(l), c \notin ToSet(l), Sorted(l, last_activity),
         last_activity' = IF DefaultTimeout = 0 THEN last_activity
                          ELSE [last_activity EXCEPT ![c] = now]
  PROVE  /\ Sorted(Insert(c, l), last_activity')
         /\ \A x \in Conn : last_activity'[x] <= now /\ (DefaultTimeout = 0 => last_activity'[x] = 0)
<1>1. last_activity \in [Conn -> 0 .. TimeEnd] /\ now \in 0 .. TimeEnd
  BY ListFacts DEF ClockType
<1>2. ToSet(l) \subseteq Conn
  BY DEF ToSet
<1>3. ASSUME NEW x \in ToSet(l) PROVE last_activity'[x] = last_activity[x] /\ last_activity'[c] >= last_activity'[x]
  <2>1. x \in Conn /\ x # c /\ last_activity[x] <= now /\ (DefaultTimeout = 0 => last_activity[x] = 0 /\ last_activity[c] = 0)
    BY <1>2 DEF PlainConn
  <2> QED BY <1>1, <2>1
<1>4. \A x \in Conn : last_activity'[x] <= now /\ (DefaultTimeout = 0 => last_activity'[x] = 0)
  BY <1>1 DEF PlainConn
<1>5. Sorted(Insert(c, l), last_activity')
  BY <1>3, InsertKept
<1> QED BY <1>4, <1>5

(* While the daemon waits the wait gets shorter as the time left does. *)
LEMMA TickKept ==
  ASSUME ShortUptime, ListInv, ListInv', Tick, phase = "poll", NEW c \in Conn, PlainConn(c), WaitShort(c)
  PROVE  WaitShort(c)'
<1> SUFFICES ASSUME place'[c] \in Listed, timeout'[c] # 0
             PROVE  wait' <= connection_get_wait(c)' \/ wait' <= RetryWait
  BY DEF WaitShort, Listed
<1>1. /\ now' = now + 1 /\ wait > 0 /\ wait' = (IF wait # Infinite THEN wait - 1 ELSE wait)
      /\ UNCHANGED <<place, last_activity, timeout>>
  BY DEF Tick
<1>2. place[c] \in Listed /\ timeout[c] # 0
  BY <1>1
<1>3. wait <= connection_get_wait(c) \/ wait <= RetryWait
  BY <1>2 DEF WaitShort
<1>4. ClockType /\ ClockType' /\ wait \in Nat
  <2>1. ClockType'
    BY DEF ListInv, ListedByTimeout, TypeOK, ClockType
  <2> QED BY <2>1, ListFacts
<1>5. wait < Infinite
  <2>1. connection_get_wait(c) \in Nat /\ connection_get_wait(c) < Infinite
    BY <1>4, WaitTyped
  <2> QED BY <1>3, <1>4, <2>1, InfiniteAssumption, WordAssumption
<1>6. wait' = wait - 1
  BY <1>1, <1>4, <1>5, WordAssumption
<1>7. last_activity[c] <= now /\ last_activity[c] \in Int /\ now \in Int /\ timeout[c] \in Nat /\ RetryWait \in Nat
  BY <1>4, WordAssumption DEF PlainConn, ClockType
<1>8. last_activity'[c] <= now'
  BY <1>1, <1>7
<1>9. connection_get_wait(c) = IF timeout[c] < now - last_activity[c] THEN 0
                               ELSE IF timeout[c] = now - last_activity[c] THEN RetryWait
                               ELSE timeout[c] - (now - last_activity[c])
  BY <1>4, <1>7, WaitPlain
<1>10. connection_get_wait(c)' = IF timeout[c] < now + 1 - last_activity[c] THEN 0
                                 ELSE IF timeout[c] = now + 1 - last_activity[c] THEN RetryWait
                                 ELSE timeout[c] - (now + 1 - last_activity[c])
  <2>1. connection_get_wait(c)' = IF timeout'[c] < now' - last_activity'[c] THEN 0
                                  ELSE IF timeout'[c] = now' - last_activity'[c] THEN RetryWait
                                  ELSE timeout'[c] - (now' - last_activity'[c])
    BY <1>4, <1>8, WaitPlainNext
  <2>2. timeout'[c] = timeout[c] /\ last_activity'[c] = last_activity[c] /\ now' = now + 1
    BY <1>1
  <2>3. now' - last_activity'[c] = now + 1 - last_activity[c]
    BY <1>7, <2>2
  <2> QED BY <2>1, <2>2, <2>3
<1> QED BY <1>1, <1>3, <1>4, <1>6, <1>7, <1>9, <1>10

LEMMA WaitStep == ShortUptime /\ ListInv /\ ListInv' /\ WaitInv /\ [Next]_vars => WaitInv'
<1> SUFFICES ASSUME ShortUptime, ListInv, ListInv', WaitInv, [Next]_vars PROVE WaitInv'
  OBVIOUS
<1>t. /\ now \in 0 .. TimeEnd /\ last_activity \in [Conn -> 0 .. TimeEnd] /\ place \in [Conn -> Places]
      /\ normal \in Seq(Conn) /\ IsInjective(normal)
  BY ListFacts DEF ClockType
<1>w. /\ phase = "poll" => todo = {}
      /\ plain => Sorted(normal, last_activity) /\ \A c \in Conn : PlainConn(c)
      /\ (phase = "poll" /\ plain) => \A c \in Conn : WaitShort(c)
  BY DEF WaitInv
<1>1. CASE BeginPoll
  <2>1. UNCHANGED <<now, plain, place, last_activity, timeout, normal, manual, todo>> /\ todo = {} /\ phase' = "poll"
    BY <1>1 DEF BeginPoll, clock, lists
  <2>2. plain => Sorted(normal', last_activity') /\ \A c \in Conn : PlainConn(c)'
    BY <1>w, <2>1 DEF PlainConn
  <2>3. ASSUME plain, NEW c \in Conn, place[c] \in Listed, timeout[c] # 0
        PROVE  wait' <= connection_get_wait(c)' \/ wait' <= RetryWait
    <3>1. connection_get_wait(c)' = connection_get_wait(c)
      BY <2>1 DEF connection_get_wait, JumpedBack, Since
    <3>2. PICK w \in Walks : wait' = (IF PollFn = "poll" /\ \E x \in Conn : place[x] = "closed"
                                      THEN 0 ELSE MHD_get_timeout64(w[Len(manual)]))
      BY <1>1 DEF BeginPoll
    <3>3. CASE wait' = 0
      BY <3>3, WordAssumption
    <3>4. CASE wait' = MHD_get_timeout64(w[Len(manual)])
      BY <1>w, <2>3, <3>1, <3>4, OldestFirst
    <3> QED BY <3>2, <3>3, <3>4
  <2> QED BY <2>1, <2>2, <2>3 DEF WaitInv, WaitShort
<1>2. CASE EndPoll
  BY <1>2, <1>w DEF EndPoll, WaitInv, clock, lists, PlainConn
<1>3. CASE Tick
  <2>1. UNCHANGED <<plain, place, last_activity, timeout, normal, phase, todo>> /\ now' = now + 1
    BY <1>3 DEF Tick, lists
  <2>2. plain => Sorted(normal', last_activity') /\ \A c \in Conn : PlainConn(c)'
    <3>1. ASSUME NEW c \in Conn, PlainConn(c) PROVE PlainConn(c)'
      <4>1. last_activity[c] \in Int /\ now \in Int
        BY <1>t
      <4> QED BY <2>1, <3>1, <4>1 DEF PlainConn
    <3> QED BY <1>w, <2>1, <3>1
  <2>3. (phase' = "poll" /\ plain') => \A c \in Conn : WaitShort(c)'
    BY <1>3, <1>w, <2>1, TickKept
  <2> QED BY <1>w, <2>1, <2>2, <2>3 DEF WaitInv
<1>4. CASE JumpBack
  BY <1>4, <1>w DEF JumpBack, WaitInv
<1>5. ASSUME NEW c \in Conn, Prepare(c) PROVE WaitInv'
  BY <1>5, <1>w DEF Prepare, WaitInv
<1>6. ASSUME NEW c \in Conn, Process(c) PROVE WaitInv'
  <2>1. place[c] = "prepared" /\ phase = "visit" /\ UNCHANGED <<plain, phase, todo>>
    BY <1>6 DEF Process, clock
  <2>2. ~plain
    BY <1>w, <2>1 DEF PlainConn
  <2> QED BY <1>w, <2>1, <2>2 DEF WaitInv
<1>7. ASSUME NEW c \in Conn, Accept(c) \/ Resume(c) PROVE WaitInv'
  <2>1. /\ phase = "visit" /\ UNCHANGED <<now, plain, phase, todo, timeout>> /\ place[c] \notin Listed
        /\ place' = [place EXCEPT ![c] = "served"] /\ StartTimer(c)
        /\ (timeout[c] = DefaultTimeout => normal' = Insert(c, normal))
    <3>1. CASE Accept(c)
      BY <3>1 DEF Accept, clock, Listed
    <3>2. CASE Resume(c)
      BY <3>2 DEF Resume, clock, Listed
    <3> QED BY <1>7, <3>1, <3>2
  <2>2. ASSUME plain PROVE Sorted(normal', last_activity') /\ \A x \in Conn : PlainConn(x)'
    <3>1. \A x \in Conn : PlainConn(x)
      BY <1>w, <2>2
    <3>2. timeout[c] = DefaultTimeout
      BY <3>1 DEF PlainConn
    <3>3. c \notin ToSet(normal)
      BY <2>1, ListFacts DEF Members
    <3>4. last_activity' = IF DefaultTimeout = 0 THEN last_activity ELSE [last_activity EXCEPT ![c] = now]
      BY <2>1, <3>2 DEF StartTimer
    <3>5. /\ Sorted(normal', last_activity')
          /\ \A x \in Conn : last_activity'[x] <= now /\ (DefaultTimeout = 0 => last_activity'[x] = 0)
      BY <1>t, <1>w, <2>1, <2>2, <3>1, <3>2, <3>3, <3>4, HeadKept
    <3> QED BY <1>t, <2>1, <3>1, <3>5 DEF PlainConn
  <2> QED BY <1>w, <2>1, <2>2 DEF WaitInv
<1>8. ASSUME NEW c \in Conn, Activity(c) PROVE WaitInv'
  <2>1. phase # "poll" /\ UNCHANGED <<now, plain, phase, place, timeout>> /\ MHD_update_last_activity_(c)
    BY <1>8, <1>w DEF Activity, clock
  <2>2. ASSUME plain PROVE Sorted(normal', last_activity') /\ \A x \in Conn : PlainConn(x)'
    <3>1. \A x \in Conn : PlainConn(x)
      BY <1>w, <2>2
    <3>2. timeout[c] = DefaultTimeout
      BY <3>1 DEF PlainConn
    <3>3. CASE DefaultTimeout = 0
      <4>1. UNCHANGED <<last_activity, normal>>
        BY <2>1, <3>2, <3>3 DEF MHD_update_last_activity_, lists
      <4> QED BY <1>w, <2>1, <2>2, <3>1, <4>1 DEF PlainConn
    <3>4. CASE DefaultTimeout # 0
      <4> DEFINE l == Without(c, normal)
      <4>1. l \in Seq(Conn) /\ IsInjective(l) /\ c \notin ToSet(l) /\ Sorted(l, last_activity)
        BY <1>t, <1>w, <2>2, WithoutKept
      <4>2. normal' = Insert(c, l) /\ last_activity' = [last_activity EXCEPT ![c] = now]
        BY <2>1, <3>2, <3>4 DEF MHD_update_last_activity_
      <4> HIDE DEF l
      <4>3. /\ Sorted(normal', last_activity')
            /\ \A x \in Conn : last_activity'[x] <= now /\ (DefaultTimeout = 0 => last_activity'[x] = 0)
        BY <3>1, <3>4, <4>1, <4>2, HeadKept
      <4> QED BY <2>1, <3>1, <4>3 DEF PlainConn
    <3> QED BY <3>3, <3>4
  <2> QED BY <2>1, <2>2 DEF WaitInv
<1>9. ASSUME NEW c \in Conn, Idle(c) \/ Cleanup(c) \/ Suspend(c) PROVE WaitInv'
  <2>1. /\ phase # "poll" /\ UNCHANGED <<now, plain, phase, timeout, last_activity>>
        /\ \A x \in Conn : place[x] # "prepared" => place'[x] # "prepared"
        /\ normal' = normal \/ normal' = Without(c, normal)
    <3>1. CASE Idle(c)
      BY <1>t, <1>w, <3>1 DEF Idle, clock, lists
    <3>2. CASE Cleanup(c)
      BY <1>t, <1>w, <3>2 DEF Cleanup, clock, RemoveX
    <3>3. CASE Suspend(c)
      BY <1>t, <1>w, <3>3 DEF Suspend, clock, RemoveX
    <3> QED BY <1>9, <3>1, <3>2, <3>3
  <2>2. plain => Sorted(normal', last_activity)
    BY <1>t, <1>w, <2>1, WithoutKept
  <2> QED BY <1>w, <2>1, <2>2 DEF WaitInv, PlainConn
<1>10. ASSUME NEW c \in Conn, NEW v \in CustomTimeouts, MHD_set_connection_option(c, v) PROVE WaitInv'
  BY <1>10, <1>w DEF MHD_set_connection_option, WaitInv
<1>11. CASE UNCHANGED vars
  BY <1>11, <1>w DEF vars, clock, lists, WaitInv, PlainConn, WaitShort, connection_get_wait, JumpedBack, Since
<1> QED BY <1>1, <1>2, <1>3, <1>4, <1>5, <1>6, <1>7, <1>8, <1>9, <1>10, <1>11 DEF Next

-----------------------------------------------------------------------------
LEMMA ListInit == Init => ListInv
<1> SUFFICES ASSUME Init PROVE ListInv
  OBVIOUS
<1>1. TypeOK
  BY WordAssumption, TimeoutAssumption DEF Init, TypeOK
<1>2. ToSet(normal) = {} /\ ToSet(manual) = {} /\ IsInjective(normal) /\ IsInjective(manual)
  BY DEF Init, ToSet, IsInjective
<1>3. \A c \in Conn : place[c] \notin Listed
  BY DEF Init, Listed
<1> QED BY <1>1, <1>2, <1>3 DEF ListInv, ListedByTimeout, Fresh, Init

(* Whatever the application sets as timeouts, and however the clock jumps, a *)
(* served connection is in one timeout list, once, namely the one from which *)
(* cleanup_connection() and internal_suspend_connection_() will remove it,   *)
(* and a suspended connection is in none.                                    *)
THEOREM ListsByTimeout == Spec => []ListedByTimeout
<1>1. ListInv => ListedByTimeout
  BY DEF ListInv
<1> QED BY <1>1, ListInit, ListStep, PTL DEF Spec

(* The lists are right and, as long as nothing has disturbed their order,   *)
(* sorted, and MHD_get_timeout64() never lets the daemon wait longer than   *)
(* any connection has left, but for the pause of connection_get_wait().     *)
THEOREM TimeoutsAreKept == ShortUptime => (Spec => []TimeoutsKept)
<1> SUFFICES ASSUME ShortUptime PROVE Spec => []TimeoutsKept
  OBVIOUS
<1>1. Init => WaitInv
  BY WordAssumption DEF Init, WaitInv, Sorted, PlainConn
<1>2. ListInv /\ WaitInv => TimeoutsKept
  BY DEF ListInv, WaitInv, TimeoutsKept, NoOversleep, NormalSorted, Sorted, WaitShort
<1>3. ListInv /\ ListInv' /\ WaitInv /\ [Next]_vars => WaitInv'
  BY WaitStep
<1> QED BY <1>1, <1>2, <1>3, ListInit, ListStep, PTL DEF Spec
=============================================================================
