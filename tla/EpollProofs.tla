---------------------------- MODULE EpollProofs ----------------------------
(***************************************************************************)
(* Proofs about Epoll for any number of sockets, any connection limits and *)
(* any number of events per call of epoll_wait().                          *)
(*                                                                         *)
(* Nearly all that is to be kept is a property of a single connection, so  *)
(* most of the lemmas are about one connection k and what a function of    *)
(* the thread makes of it.                                                 *)
(***************************************************************************)
EXTENDS Epoll, FiniteSetTheorems, TLAPS

Infos == EventLoopInfo \cup {CLEANUP}

(* What the values of event_loop_info ask for. *)
LEMMA InfoFacts ==
  /\ \A i \in Infos : /\ "read" \in i <=> i \in {READ, PROCESS_READ}
                      /\ "process" \in i <=> i \in {PROCESS, PROCESS_READ}
  /\ READ # WRITE /\ READ # PROCESS /\ READ # PROCESS_READ /\ READ # CLEANUP
  /\ WRITE # PROCESS /\ WRITE # PROCESS_READ /\ WRITE # CLEANUP
  /\ PROCESS # CLEANUP /\ PROCESS_READ # CLEANUP
<1>1. /\ "read" \in READ /\ "read" \in PROCESS_READ
      /\ "read" \notin WRITE /\ "read" \notin PROCESS /\ "read" \notin CLEANUP
  BY DEF READ, WRITE, PROCESS, PROCESS_READ, CLEANUP
<1>2. /\ "process" \in PROCESS /\ "process" \in PROCESS_READ
      /\ "process" \notin WRITE /\ "process" \notin READ /\ "process" \notin CLEANUP
  BY DEF READ, WRITE, PROCESS, PROCESS_READ, CLEANUP
<1>3. "write" \in WRITE /\ "write" \notin CLEANUP
  BY DEF WRITE, CLEANUP
<1> QED BY <1>1, <1>2, <1>3 DEF Infos, EventLoopInfo

-----------------------------------------------------------------------------
(***************************************************************************)
(* One connection.                                                         *)
(***************************************************************************)

\* Of what a socket in the epoll set is ready for, MHD knows or will be told.
EdgeKnown(k) ==
  /\ k.err => "error" \in k.ready \/ k.edge
  /\ ~k.err => /\ k.data => "read" \in k.ready \/ k.edge
               /\ k.space => "write" \in k.ready \/ k.edge

\* What holds also in the middle of a visit.
Mid(k) ==
  /\ k \in ConnType /\ k.place \in {"active", "suspended", "cleanup"}
  /\ k.place # "suspended" => ~k.resuming
  /\ k.place = "suspended" => ~k.eready /\ ~k.inset /\ ~k.left
  /\ k.place = "active" /\ k.inset => EdgeKnown(k)
  /\ k.place = "active" /\ k.left => k.info \in {READ, CLEANUP}

\* What MHD_connection_handle_idle() has seen to, for a connection that goes on.
Settled(k) ==
  /\ k.info = CLEANUP => k.late
  /\ "read" \in k.info => k.inset \/ "read" \in k.ready
  /\ k.info = WRITE => k.inset \/ "write" \in k.ready
  /\ "process" \in k.info => k.eready
  /\ ~k.stale /\ (k.left => k.info = READ)

\* What the functions of a visit do not take away from a connection that goes on.
Follows(k, r) ==
  /\ r.place = "active" =>
       /\ k.place = "active" /\ (k.eready => r.eready)
       /\ "error" \notin k.ready => "error" \notin r.ready
  /\ r.resuming => k.resuming

LEMMA FollowsTrans ==
  ASSUME NEW a, NEW b, NEW c, Follows(a, b), Follows(b, c)
  PROVE  Follows(a, c)
BY DEF Follows

(* Putting a connection into eready and into the epoll set. *)
LEMMA UpdateKept ==
  ASSUME NEW k, Mid(k), k.place = "active", k.info \in EventLoopInfo, ~k.stale, k.left => k.info = READ,
         NEW r \in MHD_connection_epoll_update_(k)
  PROVE  /\ Mid(r) /\ Follows(k, r) /\ (r.place = "active" => Settled(r))
         /\ r.ready = k.ready /\ r.info = k.info /\ (k.inset => r.inset)
         /\ ({"read", "write"} \subseteq k.ready) => r.inset = k.inset
<1> DEFINE a == [k EXCEPT !.eready = @ \/ "process" \in k.info]
           needs == /\ ~k.inset
                    /\ \/ k.info = WRITE /\ "write" \notin k.ready
                       \/ "read" \in k.info /\ "read" \notin k.ready
           b == [a EXCEPT !.inset = TRUE, !.edge = Reportable(k)]
           d == [a EXCEPT !.place = "cleanup"]
<1>1. (~needs /\ r = a) \/ (needs /\ (r = b \/ r = d))
  BY DEF MHD_connection_epoll_update_
<1>2. k \in ConnType /\ k.info \in Infos
  BY DEF Mid, Infos
<1>3. Reportable(k) \in BOOLEAN
  BY <1>2 DEF ConnType, Reportable
<1>4. CASE ~needs /\ r = a
  <2>1. r \in ConnType
    BY <1>2, <1>4 DEF ConnType
  <2>2. /\ r.place = k.place /\ r.info = k.info /\ r.ready = k.ready /\ r.inset = k.inset /\ r.edge = k.edge
        /\ r.stale = k.stale /\ r.left = k.left /\ r.late = k.late /\ r.resuming = k.resuming
        /\ r.data = k.data /\ r.space = k.space /\ r.err = k.err /\ r.eready = (k.eready \/ "process" \in k.info)
    BY <1>2, <1>4 DEF ConnType
  <2>3. Mid(r)
    BY <2>1, <2>2 DEF Mid, EdgeKnown
  <2>4. Settled(r)
    BY <1>2, <1>4, <2>2, InfoFacts DEF Settled, EventLoopInfo
  <2> QED BY <2>2, <2>3, <2>4 DEF Follows
<1>5. CASE needs /\ r = b
  <2>1. r \in ConnType
    BY <1>2, <1>3, <1>5 DEF ConnType
  <2>2. /\ r.place = k.place /\ r.info = k.info /\ r.ready = k.ready /\ r.inset = TRUE /\ r.edge = Reportable(k)
        /\ r.stale = k.stale /\ r.left = k.left /\ r.late = k.late /\ r.resuming = k.resuming
        /\ r.data = k.data /\ r.space = k.space /\ r.err = k.err /\ r.eready = (k.eready \/ "process" \in k.info)
    BY <1>2, <1>3, <1>5 DEF ConnType
  <2>3. EdgeKnown(r)
    BY <2>2 DEF EdgeKnown, Reportable
  <2>4. Mid(r)
    BY <2>1, <2>2, <2>3 DEF Mid
  <2>5. Settled(r)
    BY <1>2, <2>2, InfoFacts DEF Settled, EventLoopInfo
  <2> QED BY <1>5, <2>2, <2>4, <2>5 DEF Follows
<1>6. CASE needs /\ r = d
  <2>1. r \in ConnType
    BY <1>2, <1>6 DEF ConnType
  <2>2. r.place = "cleanup" /\ r.info = k.info /\ r.ready = k.ready /\ r.inset = k.inset /\ r.resuming = k.resuming
    BY <1>2, <1>6 DEF ConnType
  <2> QED BY <2>1, <2>2 DEF Mid, Follows
<1> QED BY <1>1, <1>4, <1>5, <1>6

(* The end of MHD_connection_handle_idle(). *)
LEMMA IdleEndKept ==
  ASSUME NEW k, Mid(k), k.place = "active", k.info \in EventLoopInfo, ~k.stale, k.left => k.info = READ,
         NEW r \in IdleEnd(k)
  PROVE  /\ Mid(r) /\ Follows(k, r) /\ (r.place = "active" => Settled(r))
         /\ r.ready = k.ready /\ r.info \in {k.info, CLEANUP} /\ (k.inset => r.inset)
         /\ ({"read", "write"} \subseteq k.ready) => r.inset = k.inset
<1>1. k \in ConnType
  BY DEF Mid
<1>2. CASE k.late
  <2>1. r = [k EXCEPT !.info = CLEANUP, !.left = FALSE]
    BY <1>2 DEF IdleEnd
  <2>2. r \in ConnType
    BY <1>1, <2>1 DEF ConnType
  <2>3. /\ r.place = k.place /\ r.info = CLEANUP /\ r.ready = k.ready /\ r.inset = k.inset /\ r.edge = k.edge
        /\ r.stale = k.stale /\ r.left = FALSE /\ r.late = k.late /\ r.resuming = k.resuming
        /\ r.data = k.data /\ r.space = k.space /\ r.err = k.err /\ r.eready = k.eready
    BY <1>1, <2>1 DEF ConnType
  <2>4. Mid(r)
    BY <2>2, <2>3 DEF Mid, EdgeKnown
  <2>5. Settled(r)
    BY <1>2, <2>3, InfoFacts DEF Settled, Infos
  <2> QED BY <2>3, <2>4, <2>5 DEF Follows
<1>3. CASE ~k.late
  <2>1. r \in MHD_connection_epoll_update_(k)
    BY <1>3 DEF IdleEnd
  <2> QED BY <2>1, UpdateKept
<1> QED BY <1>2, <1>3

(* A connection that is closed or suspended. *)
LEMMA ClosedKept ==
  ASSUME NEW k, Mid(k), k.place = "active"
  PROVE  /\ Mid(CloseConn(k)) /\ CloseConn(k).place = "cleanup"
         /\ Mid(SuspendConn(k)) /\ SuspendConn(k).place = "suspended"
         /\ ~CloseConn(k).resuming /\ ~SuspendConn(k).resuming
<1>1. k \in ConnType /\ ~k.resuming
  BY DEF Mid
<1>2. CloseConn(k) \in ConnType /\ CloseConn(k).place = "cleanup" /\ ~CloseConn(k).resuming
  BY <1>1, ZenonT(60) DEF CloseConn, Unused, ConnType, EventLoopInfo
<1>3. SuspendConn(k) \in ConnType
  BY <1>1 DEF SuspendConn, ConnType
<1>4. /\ SuspendConn(k).place = "suspended" /\ ~SuspendConn(k).eready /\ ~SuspendConn(k).inset
      /\ ~SuspendConn(k).left /\ ~SuspendConn(k).resuming
  BY <1>1 DEF SuspendConn, ConnType
<1> QED BY <1>2, <1>3, <1>4 DEF Mid

\* The connection MHD_connection_handle_idle() goes on with, in the event loop state i.
Asked(k, i, l) == [k EXCEPT !.info = i, !.left = l, !.stale = FALSE]

LEMMA AskedKept ==
  ASSUME NEW k, Mid(k), k.place = "active", NEW i \in EventLoopInfo, NEW l \in BOOLEAN, l => i = READ
  PROVE  /\ Mid(Asked(k, i, l)) /\ Asked(k, i, l).place = "active" /\ Asked(k, i, l).info = i
         /\ ~Asked(k, i, l).stale /\ Asked(k, i, l).left = l /\ Asked(k, i, l).ready = k.ready
         /\ Asked(k, i, l).inset = k.inset /\ Asked(k, i, l).eready = k.eready
         /\ Asked(k, i, l).resuming = k.resuming
<1> DEFINE r == Asked(k, i, l)
<1>1. k \in ConnType
  BY DEF Mid
<1>2. r \in ConnType
  BY <1>1 DEF Asked, ConnType
<1>3. /\ r.place = k.place /\ r.info = i /\ r.ready = k.ready /\ r.inset = k.inset /\ r.edge = k.edge
      /\ r.stale = FALSE /\ r.left = l /\ r.late = k.late /\ r.resuming = k.resuming
      /\ r.data = k.data /\ r.space = k.space /\ r.err = k.err /\ r.eready = k.eready
  BY <1>1 DEF Asked, ConnType
<1> HIDE DEF r
<1>4. Mid(r)
  BY <1>2, <1>3 DEF Mid, EdgeKnown
<1>5. r.place = "active" /\ r.info = i /\ ~r.stale /\ r.left = l /\ r.ready = k.ready /\ r.inset = k.inset
      /\ r.eready = k.eready /\ r.resuming = k.resuming
  BY <1>3
<1> QED BY <1>4, <1>5 DEF r

(* MHD_connection_handle_idle(): a connection that goes on is settled. *)
LEMMA IdleKept ==
  ASSUME NEW k, Mid(k), NEW got \in BOOLEAN, NEW r \in MHD_connection_handle_idle(k, got)
  PROVE  /\ Mid(r) /\ Follows(k, r)
         /\ r.place = "active" =>
              /\ Settled(r) /\ r.ready = k.ready /\ (k.inset => r.inset) /\ k.info # CLEANUP
              /\ ({"read", "write"} \subseteq k.ready) => r.inset = k.inset
              /\ (~got /\ ~k.left /\ ~k.stale /\ k.info = WRITE) => r.info \in {WRITE, CLEANUP}
<1>0. k \in ConnType /\ k.info \in Infos
  BY DEF Mid, ConnType, Infos
<1>1. CASE k.place # "active"
  <2>1. r = k
    BY <1>1 DEF MHD_connection_handle_idle
  <2> QED BY <1>1, <2>1 DEF Follows
<1>2. CASE k.place = "active" /\ (r = CloseConn(k) \/ r = SuspendConn(k))
  <2>1. Mid(r) /\ r.place # "active" /\ ~r.resuming
    BY <1>2, ClosedKept
  <2> QED BY <2>1 DEF Follows
<1>3. ASSUME k.place = "active", k.info # CLEANUP, NEW i \in EventLoopInfo, NEW l \in BOOLEAN, l => i = READ,
             r \in IdleEnd(Asked(k, i, l)), got \/ k.left \/ k.stale \/ "process" \in k.info
      PROVE  /\ Mid(r) /\ Follows(k, r)
             /\ r.place = "active" =>
                  /\ Settled(r) /\ r.ready = k.ready /\ (k.inset => r.inset) /\ k.info # CLEANUP
                  /\ ({"read", "write"} \subseteq k.ready) => r.inset = k.inset
                  /\ (~got /\ ~k.left /\ ~k.stale /\ k.info = WRITE) => r.info \in {WRITE, CLEANUP}
  <2> DEFINE a == Asked(k, i, l)
  <2>1. Mid(a) /\ a.place = "active" /\ a.info = i /\ ~a.stale /\ a.left = l /\ a.ready = k.ready
        /\ a.inset = k.inset /\ a.eready = k.eready /\ a.resuming = k.resuming
    BY <1>3, AskedKept
  <2> HIDE DEF a
  <2>2. /\ Mid(r) /\ Follows(a, r) /\ (r.place = "active" => Settled(r))
        /\ r.ready = a.ready /\ (a.inset => r.inset)
        /\ ({"read", "write"} \subseteq a.ready) => r.inset = a.inset
    BY <1>3, <2>1, IdleEndKept DEF a
  <2>3. ~(~got /\ ~k.left /\ ~k.stale /\ k.info = WRITE)
    BY <1>0, <1>3, InfoFacts
  <2> QED BY <1>3, <2>1, <2>2, <2>3 DEF Follows
<1>4. CASE k.place = "active" /\ k.info # CLEANUP /\ (got \/ k.left \/ k.stale \/ "process" \in k.info)
           /\ ~(r = CloseConn(k) \/ r = SuspendConn(k))
  <2>1. \/ \E i \in EventLoopInfo : r \in IdleEnd(Asked(k, i, FALSE))
        \/ r \in IdleEnd(Asked(k, READ, TRUE))
    <3>1. MHD_connection_handle_idle(k, got)
            = {CloseConn(k)} \cup (IF opt.calm THEN {} ELSE {SuspendConn(k)})
              \cup (UNION {IdleEnd(Asked(k, i, FALSE)) : i \in EventLoopInfo})
              \cup IdleEnd(Asked(k, READ, TRUE))
      BY <1>4, Zenon DEF MHD_connection_handle_idle, Asked
    <3>2. \A A, B, C, D : (r \in A \cup B \cup C \cup D) => r \in A \/ r \in B \/ r \in C \/ r \in D
      OBVIOUS
    <3>3. \/ r \in {CloseConn(k)} \/ r \in (IF opt.calm THEN {} ELSE {SuspendConn(k)})
          \/ r \in UNION {IdleEnd(Asked(k, i, FALSE)) : i \in EventLoopInfo}
          \/ r \in IdleEnd(Asked(k, READ, TRUE))
      BY <3>1, <3>2, Zenon
    <3>4. r \in UNION {IdleEnd(Asked(k, i, FALSE)) : i \in EventLoopInfo}
            => \E i \in EventLoopInfo : r \in IdleEnd(Asked(k, i, FALSE))
      OBVIOUS
    <3> QED BY <1>4, <3>3, <3>4
  <2> QED BY <1>3, <1>4, <2>1 DEF EventLoopInfo
<1>5. CASE k.place = "active" /\ k.info # CLEANUP /\ ~(got \/ k.left \/ k.stale \/ "process" \in k.info)
  <2>1. r \in IdleEnd(k)
    BY <1>5 DEF MHD_connection_handle_idle
  <2>2. k.info \in EventLoopInfo
    BY <1>0, <1>5 DEF Infos
  <2> QED BY <1>5, <2>1, <2>2, IdleEndKept
<1>6. CASE k.place = "active" /\ k.info = CLEANUP
  BY <1>2, <1>6 DEF MHD_connection_handle_idle
<1> QED BY <1>1, <1>2, <1>4, <1>5, <1>6

(* A read or a write changes little. *)
LEMMA ReadKept ==
  ASSUME NEW k, Mid(k), NEW p \in MHD_connection_handle_read(k)
  PROVE  Mid(p[1]) /\ Follows(k, p[1]) /\ p[2] \in BOOLEAN
<1>0. k \in ConnType
  BY DEF Mid
<1> DEFINE unready == [k EXCEPT !.ready = @ \ {"read"}]
           q == p[1]
<1>1. CASE p = <<k, FALSE>>
  BY <1>1 DEF Follows
<1>2. ASSUME k.place = "active", p = <<[k EXCEPT !.info = CLEANUP], FALSE>> PROVE Mid(q) /\ Follows(k, q) /\ p[2] \in BOOLEAN
  <2>1. q \in ConnType
    BY <1>0, <1>2 DEF ConnType
  <2>2. /\ q.place = k.place /\ q.info = CLEANUP /\ q.ready = k.ready /\ q.inset = k.inset /\ q.edge = k.edge
        /\ q.left = k.left /\ q.resuming = k.resuming
        /\ q.data = k.data /\ q.space = k.space /\ q.err = k.err /\ q.eready = k.eready
    BY <1>0, <1>2 DEF ConnType
  <2>3. Mid(q)
    BY <2>1, <2>2 DEF Mid, EdgeKnown
  <2> QED BY <1>2, <2>2, <2>3 DEF Follows
<1>3. ASSUME k.place = "active", NEW d \in BOOLEAN, p = <<[k EXCEPT !.late = FALSE, !.data = d], TRUE>>, d => k.data
      PROVE  Mid(q) /\ Follows(k, q) /\ p[2] \in BOOLEAN
  <2>1. q \in ConnType
    BY <1>0, <1>3 DEF ConnType
  <2>2. /\ q.place = k.place /\ q.info = k.info /\ q.ready = k.ready /\ q.inset = k.inset /\ q.edge = k.edge
        /\ q.left = k.left /\ q.resuming = k.resuming
        /\ q.data = d /\ q.space = k.space /\ q.err = k.err /\ q.eready = k.eready
    BY <1>0, <1>3 DEF ConnType
  <2>3. Mid(q)
    BY <1>3, <2>1, <2>2 DEF Mid, EdgeKnown
  <2> QED BY <1>3, <2>2, <2>3 DEF Follows
<1>4. ASSUME k.place = "active", q = [unready EXCEPT !.late = FALSE, !.data = FALSE] \/ (~k.data /\ q = unready),
             p[2] \in BOOLEAN
      PROVE  Mid(q) /\ Follows(k, q)
  <2>0. unready \in ConnType
    BY <1>0 DEF ConnType
  <2>1. q \in ConnType
    <3> HIDE DEF unready, q
    <3> QED BY <1>4, <2>0, ZenonT(60) DEF ConnType
  <2>2. /\ q.place = k.place /\ q.info = k.info /\ q.ready = k.ready \ {"read"} /\ q.inset = k.inset /\ q.edge = k.edge
        /\ q.left = k.left /\ q.resuming = k.resuming
        /\ ~q.data /\ q.space = k.space /\ q.err = k.err /\ q.eready = k.eready
    BY <1>0, <1>4 DEF ConnType
  <2>3. Mid(q)
    BY <2>1, <2>2 DEF Mid, EdgeKnown
  <2> QED BY <1>4, <2>2, <2>3 DEF Follows
<1>5. CASE k.place = "active" /\ k.data /\ p = <<[k EXCEPT !.late = FALSE], TRUE>>
  <2>1. [k EXCEPT !.late = FALSE, !.data = TRUE] = [k EXCEPT !.late = FALSE]
    BY <1>0, <1>5 DEF ConnType
  <2> QED BY <1>3, <1>5, <2>1
<1>6. \/ p = <<k, FALSE>>
      \/ k.place = "active" /\ p = <<[k EXCEPT !.info = CLEANUP], FALSE>>
      \/ k.place = "active" /\ k.data /\ p = <<[k EXCEPT !.late = FALSE], TRUE>>
      \/ k.place = "active" /\ p = <<[k EXCEPT !.late = FALSE, !.data = FALSE], TRUE>>
      \/ k.place = "active" /\ p = <<[unready EXCEPT !.late = FALSE, !.data = FALSE], TRUE>>
      \/ k.place = "active" /\ ~k.data /\ p = <<unready, FALSE>>
  BY DEF MHD_connection_handle_read
<1>7. CASE k.place = "active" /\ p = <<[k EXCEPT !.late = FALSE, !.data = FALSE], TRUE>>
  BY <1>3, <1>7
<1> HIDE DEF unready
<1>8. CASE k.place = "active" /\ p = <<[unready EXCEPT !.late = FALSE, !.data = FALSE], TRUE>>
  BY <1>4, <1>8
<1>9. CASE k.place = "active" /\ ~k.data /\ p = <<unready, FALSE>>
  BY <1>4, <1>9
<1> QED BY <1>1, <1>2, <1>5, <1>6, <1>7, <1>8, <1>9

LEMMA WriteKept ==
  ASSUME NEW k, Mid(k), NEW p \in MHD_connection_handle_write(k)
  PROVE  Mid(p[1]) /\ Follows(k, p[1]) /\ p[2] \in BOOLEAN
<1>0. k \in ConnType
  BY DEF Mid
<1> DEFINE unready == [k EXCEPT !.ready = @ \ {"write"}, !.space = FALSE]
           q == p[1]
<1>1. CASE p = <<k, FALSE>>
  BY <1>1 DEF Follows
<1>2. ASSUME k.place = "active", p = <<[k EXCEPT !.info = CLEANUP], FALSE>> PROVE Mid(q) /\ Follows(k, q) /\ p[2] \in BOOLEAN
  <2>1. q \in ConnType
    BY <1>0, <1>2 DEF ConnType
  <2>2. /\ q.place = k.place /\ q.info = CLEANUP /\ q.ready = k.ready /\ q.inset = k.inset /\ q.edge = k.edge
        /\ q.left = k.left /\ q.resuming = k.resuming
        /\ q.data = k.data /\ q.space = k.space /\ q.err = k.err /\ q.eready = k.eready
    BY <1>0, <1>2 DEF ConnType
  <2>3. Mid(q)
    BY <2>1, <2>2 DEF Mid, EdgeKnown
  <2> QED BY <1>2, <2>2, <2>3 DEF Follows
<1>3. ASSUME k.place = "active", k.space, NEW s \in BOOLEAN, p = <<[k EXCEPT !.late = FALSE, !.space = s], TRUE>>
      PROVE  Mid(q) /\ Follows(k, q) /\ p[2] \in BOOLEAN
  <2>1. q \in ConnType
    BY <1>0, <1>3 DEF ConnType
  <2>2. /\ q.place = k.place /\ q.info = k.info /\ q.ready = k.ready /\ q.inset = k.inset /\ q.edge = k.edge
        /\ q.left = k.left /\ q.resuming = k.resuming
        /\ q.data = k.data /\ q.space = s /\ q.err = k.err /\ q.eready = k.eready
    BY <1>0, <1>3 DEF ConnType
  <2>3. Mid(q)
    BY <1>3, <2>1, <2>2 DEF Mid, EdgeKnown
  <2> QED BY <1>3, <2>2, <2>3 DEF Follows
<1>4. ASSUME k.place = "active", q = unready \/ q = [unready EXCEPT !.late = FALSE], p[2] \in BOOLEAN
      PROVE  Mid(q) /\ Follows(k, q)
  <2>0. unready \in ConnType
    BY <1>0 DEF ConnType
  <2>1. q \in ConnType
    <3> HIDE DEF unready, q
    <3> QED BY <1>4, <2>0, ZenonT(60) DEF ConnType
  <2>2. /\ q.place = k.place /\ q.info = k.info /\ q.ready = k.ready \ {"write"} /\ q.inset = k.inset /\ q.edge = k.edge
        /\ q.left = k.left /\ q.resuming = k.resuming
        /\ q.data = k.data /\ ~q.space /\ q.err = k.err /\ q.eready = k.eready
    BY <1>0, <1>4 DEF ConnType
  <2>3. Mid(q)
    BY <2>1, <2>2 DEF Mid, EdgeKnown
  <2> QED BY <1>4, <2>2, <2>3 DEF Follows
<1>5. \/ p = <<k, FALSE>>
      \/ k.place = "active" /\ p = <<[k EXCEPT !.info = CLEANUP], FALSE>>
      \/ k.place = "active" /\ k.space /\ \E s \in BOOLEAN : p = <<[k EXCEPT !.late = FALSE, !.space = s], TRUE>>
      \/ k.place = "active" /\ p = <<[unready EXCEPT !.late = FALSE], FALSE>>
      \/ k.place = "active" /\ p = <<unready, FALSE>>
  BY DEF MHD_connection_handle_write
<1> HIDE DEF unready
<1>6. CASE k.place = "active" /\ p = <<[unready EXCEPT !.late = FALSE], FALSE>>
  BY <1>4, <1>6
<1>7. CASE k.place = "active" /\ p = <<unready, FALSE>>
  BY <1>4, <1>7
<1> QED BY <1>1, <1>2, <1>3, <1>5, <1>6, <1>7

\* Where a function of the visit has come to its end.
Ended(k, r) == Mid(r) /\ Follows(k, r) /\ (r.place = "active" => Settled(r))

LEMMA EndedTrans ==
  ASSUME NEW a, NEW b, NEW c, Follows(a, b), Ended(b, c)
  PROVE  Ended(a, c)
BY FollowsTrans DEF Ended

LEMMA WriteAndIdleKept ==
  ASSUME NEW k, Mid(k), NEW r \in WriteAndIdle(k)
  PROVE  Ended(k, r)
<1>1. PICK p \in MHD_connection_handle_write(k) : r \in MHD_connection_handle_idle(p[1], p[2])
  BY DEF WriteAndIdle, Idled
<1>2. Mid(p[1]) /\ Follows(k, p[1]) /\ p[2] \in BOOLEAN
  BY WriteKept
<1>3. Ended(p[1], r)
  BY <1>1, <1>2, IdleKept DEF Ended
<1> QED BY <1>2, <1>3, EndedTrans

LEMMA ReadAndIdleKept ==
  ASSUME NEW k, Mid(k), NEW r \in Idled(MHD_connection_handle_read(k))
  PROVE  Ended(k, r)
<1>1. PICK p \in MHD_connection_handle_read(k) : r \in MHD_connection_handle_idle(p[1], p[2])
  BY DEF Idled
<1>2. Mid(p[1]) /\ Follows(k, p[1]) /\ p[2] \in BOOLEAN
  BY ReadKept
<1>3. Ended(p[1], r)
  BY <1>1, <1>2, IdleKept DEF Ended
<1> QED BY <1>2, <1>3, EndedTrans

LEMMA FastTrackKept ==
  ASSUME NEW k, NEW a, Ended(k, a), NEW r \in FastTrack(a)
  PROVE  Ended(k, r)
<1>1. ASSUME NEW b, Ended(k, b), NEW c \in WriteAndIdle(b) PROVE Ended(k, c)
  <2>1. Ended(b, c)
    BY <1>1, WriteAndIdleKept DEF Ended
  <2> QED BY <1>1, <2>1, EndedTrans DEF Ended
<1> DEFINE answered(ks) == UNION {WriteAndIdle(x) : x \in {b \in ks : b.info = WRITE}}
<1>2. \A b \in answered({a}) : Ended(k, b)
  BY <1>1
<1>3. \A b \in answered(answered({a})) : Ended(k, b)
  BY <1>1, <1>2
<1>4. r \in {a} \cup answered({a}) \cup answered(answered({a}))
  BY DEF FastTrack
<1> HIDE DEF answered
<1> QED BY <1>2, <1>3, <1>4

(* A visit of a connection without an error on its socket. *)
LEMMA CallKept ==
  ASSUME NEW k, Mid(k), "error" \notin k.ready, NEW r \in call_handlers(k)
  PROVE  Ended(k, r)
<1> DEFINE reading == "read" \in k.info /\ "read" \in k.ready
           afterRead == IF reading THEN Idled(MHD_connection_handle_read(k)) ELSE {k}
           writes(a) == a.info = WRITE /\ "write" \in k.ready
           afterWrite == UNION {IF writes(a) THEN WriteAndIdle(a) ELSE {a} : a \in afterRead}
<1>1. CASE ~reading /\ ~writes(k)
  <2>1. r \in MHD_connection_handle_idle(k, FALSE)
    BY <1>1 DEF call_handlers
  <2> QED BY <2>1, IdleKept DEF Ended
<1>2. CASE reading \/ writes(k)
  <2>1. r \in afterWrite \/ \E a \in afterWrite : r \in FastTrack(a)
    BY <1>2 DEF call_handlers
  <2>2. ASSUME NEW a \in afterWrite PROVE Ended(k, a)
    <3>1. PICK b \in afterRead : a \in (IF writes(b) THEN WriteAndIdle(b) ELSE {b})
      OBVIOUS
    <3>2. CASE reading
      <4>1. Ended(k, b)
        BY <3>1, <3>2, ReadAndIdleKept
      <4>2. CASE writes(b)
        <5>1. Ended(b, a)
          BY <3>1, <4>1, <4>2, WriteAndIdleKept DEF Ended
        <5> QED BY <4>1, <5>1, EndedTrans DEF Ended
      <4> QED BY <3>1, <4>1, <4>2
    <3>3. CASE ~reading
      BY <1>2, <3>1, <3>3, WriteAndIdleKept
    <3> QED BY <3>2, <3>3
  <2> HIDE DEF afterWrite
  <2> QED BY <2>1, <2>2, FastTrackKept
<1> QED BY <1>1, <1>2

-----------------------------------------------------------------------------
(***************************************************************************)
(* What holds of a connection between two steps of the thread.             *)
(***************************************************************************)

\* A connection outside eready waits for its edge; one that was just resumed is in
\* eready; after an error it is in eready until it is closed.
Waiting(k) ==
  /\ k.left => k.info = READ
  /\ k.stale => ~k.inset /\ k.eready /\ {"read", "write"} \subseteq k.ready
  /\ ~k.eready => AwaitsItsEdge(k)
  /\ "error" \in k.ready => k.eready \/ (~k.inset /\ k.info = CLEANUP)

ConnInv(k) ==
  /\ k \in ConnType
  /\ k.place \in {"unused", "backlog"} => k = [Unused EXCEPT !.place = k.place]
  /\ k.place \notin {"unused", "backlog"} => Mid(k)
  /\ k.place = "active" => Waiting(k)

(* A settled connection outside eready waits for its edge. *)
LEMMA SettledWaits ==
  ASSUME NEW k, Mid(k), k.place = "active", Settled(k), "error" \notin k.ready, ~k.eready,
         k.info = READ => "read" \notin k.ready,
         k.info = WRITE => k.stuck \/ "write" \notin k.ready
  PROVE  AwaitsItsEdge(k)
<1>1. k.info \in Infos
  BY DEF Mid, ConnType, Infos
<1>2. k.info \in {READ, WRITE} \/ (k.info = CLEANUP /\ k.late)
  BY <1>1, InfoFacts DEF Settled, Infos, EventLoopInfo
<1>3. k.info = READ => k.inset /\ "read" \notin k.ready
  BY <1>1, InfoFacts DEF Settled
<1>4. k.info = WRITE => k.stuck \/ (k.inset /\ "write" \notin k.ready)
  BY DEF Settled
<1>5. k.inset => EdgeKnown(k)
  BY DEF Mid
<1> QED BY <1>2, <1>3, <1>4, <1>5 DEF AwaitsItsEdge, EdgeKnown

(* The field of the history variable stuck is of no consequence to the rest. *)
LEMMA StuckOnly ==
  ASSUME NEW k, Mid(k), NEW s \in BOOLEAN
  PROVE  LET r == [k EXCEPT !.stuck = s]
         IN /\ Mid(r) /\ r.place = k.place /\ r.info = k.info /\ r.ready = k.ready /\ r.inset = k.inset
            /\ r.eready = k.eready /\ r.stale = k.stale /\ r.left = k.left /\ r.late = k.late /\ r.stuck = s
            /\ r.resuming = k.resuming /\ (Settled(k) => Settled(r))
<1> DEFINE r == [k EXCEPT !.stuck = s]
<1>1. k \in ConnType
  BY DEF Mid
<1>2. r \in ConnType
  BY <1>1 DEF ConnType
<1>3. /\ r.place = k.place /\ r.info = k.info /\ r.ready = k.ready /\ r.inset = k.inset /\ r.edge = k.edge
      /\ r.stale = k.stale /\ r.left = k.left /\ r.late = k.late /\ r.resuming = k.resuming /\ r.stuck = s
      /\ r.data = k.data /\ r.space = k.space /\ r.err = k.err /\ r.eready = k.eready
  BY <1>1 DEF ConnType
<1> HIDE DEF r
<1>4. Mid(r) /\ (Settled(k) => Settled(r))
  BY <1>2, <1>3 DEF Mid, EdgeKnown, Settled
<1>5. /\ Mid(r) /\ r.place = k.place /\ r.info = k.info /\ r.ready = k.ready /\ r.inset = k.inset
      /\ r.eready = k.eready /\ r.stale = k.stale /\ r.left = k.left /\ r.late = k.late /\ r.stuck = s
      /\ r.resuming = k.resuming /\ (Settled(k) => Settled(r))
  BY <1>3, <1>4
<1> QED BY <1>5 DEF r

(* MHD_connection_handle_idle() for the timeouts. *)
LEMMA TimeoutKept ==
  ASSUME NEW k, ConnInv(k), k.place = "active", NEW r \in MHD_connection_handle_idle(k, FALSE)
  PROVE  LET q == [r EXCEPT !.stuck = @ \/ (r.info = WRITE /\ ~r.eready /\ "write" \in r.ready)]
         IN ConnInv(q) /\ q.place \in {"active", "suspended", "cleanup"} /\ ~q.resuming
<1> DEFINE s == r.stuck \/ (r.info = WRITE /\ ~r.eready /\ "write" \in r.ready)
           q == [r EXCEPT !.stuck = s]
<1>0. Mid(k) /\ Waiting(k)
  BY DEF ConnInv
<1>1. /\ Mid(r) /\ Follows(k, r)
      /\ r.place = "active" =>
           /\ Settled(r) /\ r.ready = k.ready /\ (k.inset => r.inset) /\ k.info # CLEANUP
           /\ (~k.left /\ ~k.stale /\ k.info = WRITE) => r.info \in {WRITE, CLEANUP}
  BY <1>0, IdleKept
<1>2. r \in ConnType /\ s \in BOOLEAN
  BY <1>1 DEF Mid, ConnType
<1>3. /\ Mid(q) /\ q.place = r.place /\ q.info = r.info /\ q.ready = r.ready /\ q.inset = r.inset
      /\ q.eready = r.eready /\ q.stale = r.stale /\ q.left = r.left /\ q.late = r.late /\ q.stuck = s
      /\ q.resuming = r.resuming /\ (Settled(r) => Settled(q))
  BY <1>1, <1>2, StuckOnly
<1> HIDE DEF q
<1>4. ASSUME q.place = "active" PROVE Waiting(q)
  <2>1. Settled(q) /\ q.ready = k.ready /\ k.info # CLEANUP /\ (k.eready => q.eready)
        /\ ((~k.left /\ ~k.stale /\ k.info = WRITE) => q.info \in {WRITE, CLEANUP})
    BY <1>1, <1>3, <1>4 DEF Follows
  <2>2. "error" \in q.ready => q.eready
    BY <1>0, <2>1 DEF Waiting
  <2>3. ASSUME ~q.eready PROVE AwaitsItsEdge(q)
    <3>1. AwaitsItsEdge(k) /\ ~k.stale /\ k.info \in {READ, WRITE}
      BY <1>0, <2>1, <2>3 DEF Waiting, AwaitsItsEdge
    <3>2. q.info = READ => "read" \notin q.ready
      <4>1. CASE k.info = READ
        BY <2>1, <3>1, <4>1 DEF AwaitsItsEdge
      <4>2. CASE k.info = WRITE
        <5>1. ~k.left
          BY <1>0, <4>2, InfoFacts DEF Waiting
        <5> QED BY <2>1, <3>1, <4>2, <5>1, InfoFacts
      <4> QED BY <3>1, <4>1, <4>2
    <3>3. q.info = WRITE => q.stuck \/ "write" \notin q.ready
      BY <1>3, <2>3
    <3> QED BY <1>3, <1>4, <2>1, <2>2, <2>3, <3>2, <3>3, SettledWaits
  <2> QED BY <2>1, <2>2, <2>3 DEF Waiting, Settled
<1>5. q.place \in {"active", "suspended", "cleanup"} /\ q \in ConnType /\ ~q.resuming
  BY <1>0, <1>1, <1>3 DEF Mid, Follows
<1>6. ConnInv(q)
  BY <1>3, <1>4, <1>5 DEF ConnInv
<1> QED BY <1>5, <1>6 DEF q

(* The end of the visit of a connection. *)
LEMMA LeaveFacts ==
  ASSUME NEW k, Mid(k)
  PROVE  LET r == LeaveEready(k)
         IN /\ Mid(r) /\ r.place = k.place /\ r.info = k.info /\ r.ready = k.ready /\ r.inset = k.inset
            /\ r.stale = k.stale /\ r.left = k.left /\ r.late = k.late /\ r.resuming = k.resuming
            /\ r.eready \/ ~k.eready \/ (k.info = READ /\ "read" \notin k.ready)
                 \/ (k.info = WRITE /\ "write" \notin k.ready) \/ k.info = CLEANUP
            /\ (Settled(k) => Settled(r))
<1> DEFINE r == LeaveEready(k)
<1>1. k \in ConnType /\ k.info \in Infos
  BY DEF Mid, ConnType, Infos
<1>2. r = k \/ (r = [k EXCEPT !.eready = FALSE] /\ k.info \in {READ, WRITE, CLEANUP})
  BY DEF LeaveEready
<1>3. r \in ConnType
  BY <1>1, <1>2 DEF ConnType
<1>4. /\ r.place = k.place /\ r.info = k.info /\ r.ready = k.ready /\ r.inset = k.inset /\ r.edge = k.edge
      /\ r.stale = k.stale /\ r.left = k.left /\ r.late = k.late /\ r.resuming = k.resuming
      /\ r.data = k.data /\ r.space = k.space /\ r.err = k.err
      /\ r.eready = k.eready \/ (~r.eready /\ k.info \in {READ, WRITE, CLEANUP})
  BY <1>1, <1>2 DEF ConnType
<1>5. \/ r.eready \/ ~k.eready \/ (k.info = READ /\ "read" \notin k.ready)
      \/ (k.info = WRITE /\ "write" \notin k.ready) \/ k.info = CLEANUP
  BY <1>1 DEF LeaveEready, ConnType
<1> HIDE DEF r
<1>6. Mid(r)
  BY <1>3, <1>4 DEF Mid, EdgeKnown
<1>7. Settled(k) => Settled(r)
  BY <1>1, <1>4, InfoFacts DEF Settled
<1>8. /\ Mid(r) /\ r.place = k.place /\ r.info = k.info /\ r.ready = k.ready /\ r.inset = k.inset
      /\ r.stale = k.stale /\ r.left = k.left /\ r.late = k.late /\ r.resuming = k.resuming
      /\ r.eready \/ ~k.eready \/ (k.info = READ /\ "read" \notin k.ready)
           \/ (k.info = WRITE /\ "write" \notin k.ready) \/ k.info = CLEANUP
      /\ (Settled(k) => Settled(r))
  BY <1>4, <1>5, <1>6, <1>7
<1> QED BY <1>8 DEF r

(* One turn of the loop over eready. *)
LEMMA VisitKept ==
  ASSUME NEW k, ConnInv(k), k.place \in {"active", "cleanup"}, k.eready, NEW r \in call_handlers(k)
  PROVE  LET q == [LeaveEready(r) EXCEPT !.stuck = FALSE]
         IN ConnInv(q) /\ q.place \in {"active", "suspended", "cleanup"} /\ ~q.resuming
<1> DEFINE q == [LeaveEready(r) EXCEPT !.stuck = FALSE]
<1>0. Mid(k)
  BY DEF ConnInv
<1>1. /\ Ended(k, r)
      /\ (r.place = "active" /\ "error" \in k.ready) =>
            r.ready = k.ready /\ ~r.inset /\ {"read", "write"} \subseteq r.ready
  <2>1. CASE "error" \notin k.ready
    BY <1>0, <2>1, CallKept
  <2>2. CASE "error" \in k.ready /\ r = (IF k.place = "active" THEN CloseConn(k) ELSE k)
    <3>1. CASE k.place = "active"
      BY <1>0, <2>2, <3>1, ClosedKept DEF Ended, Follows
    <3>2. CASE k.place # "active"
      BY <1>0, <2>2, <3>2 DEF Ended, Follows
    <3> QED BY <3>1, <3>2
  <2>3. CASE "error" \in k.ready /\ k.stale /\ r \in MHD_connection_handle_idle(k, FALSE)
    <3>1. Ended(k, r)
      BY <1>0, <2>3, IdleKept DEF Ended
    <3>2. ASSUME r.place = "active" PROVE r.ready = k.ready /\ ~r.inset /\ {"read", "write"} \subseteq r.ready
      <4>1. k.place = "active"
        BY <3>1, <3>2 DEF Ended, Follows
      <4>2. ~k.inset /\ {"read", "write"} \subseteq k.ready
        BY <2>3, <4>1 DEF ConnInv, Waiting
      <4> QED BY <1>0, <2>3, <3>2, <4>2, IdleKept
    <3> QED BY <3>1, <3>2
  <2> QED BY <2>1, <2>2, <2>3 DEF call_handlers
<1>2. Mid(r)
  BY <1>1 DEF Ended
<1> DEFINE a == LeaveEready(r)
<1>3. /\ Mid(a) /\ a.place = r.place /\ a.info = r.info /\ a.ready = r.ready /\ a.inset = r.inset
      /\ a.stale = r.stale /\ a.left = r.left /\ a.late = r.late /\ a.resuming = r.resuming
      /\ a.eready \/ ~r.eready \/ (r.info = READ /\ "read" \notin r.ready)
           \/ (r.info = WRITE /\ "write" \notin r.ready) \/ r.info = CLEANUP
      /\ (Settled(r) => Settled(a))
  BY <1>2, LeaveFacts
<1> HIDE DEF a
<1>4. /\ Mid(q) /\ q.place = a.place /\ q.info = a.info /\ q.ready = a.ready /\ q.inset = a.inset
      /\ q.eready = a.eready /\ q.stale = a.stale /\ q.left = a.left /\ q.late = a.late
      /\ q.resuming = a.resuming /\ (Settled(a) => Settled(q))
  BY <1>3, StuckOnly DEF a
<1> HIDE DEF q
<1>5. ASSUME q.place = "active" PROVE Waiting(q)
  <2>1. Settled(q) /\ r.eready /\ k.place = "active"
    BY <1>1, <1>3, <1>4, <1>5 DEF Ended, Follows
  <2>2. q.eready \/ (q.info = READ /\ "read" \notin q.ready) \/ (q.info = WRITE /\ "write" \notin q.ready) \/ q.info = CLEANUP
    BY <1>3, <1>4, <2>1
  <2>3. CASE "error" \in k.ready
    <3>1. ~q.inset /\ {"read", "write"} \subseteq q.ready
      BY <1>1, <1>3, <1>4, <1>5, <2>3
    <3>2. q.eready \/ (q.info = CLEANUP /\ q.late)
      BY <2>1, <2>2, <3>1 DEF Settled
    <3>3. ~q.eready => AwaitsItsEdge(q)
      BY <3>1, <3>2, InfoFacts DEF AwaitsItsEdge
    <3> QED BY <2>1, <3>1, <3>2, <3>3 DEF Waiting, Settled
  <2>4. CASE "error" \notin k.ready
    <3>1. "error" \notin q.ready
      BY <1>1, <1>3, <1>4, <1>5, <2>4 DEF Ended, Follows
    <3>2. ~q.eready => AwaitsItsEdge(q)
      BY <1>4, <1>5, <2>1, <2>2, <3>1, SettledWaits, InfoFacts
    <3> QED BY <2>1, <3>1, <3>2 DEF Waiting, Settled
  <2> QED BY <2>3, <2>4
<1>6. q.place \in {"active", "suspended", "cleanup"} /\ q \in ConnType /\ ~q.resuming
  BY <1>0, <1>1, <1>3, <1>4 DEF Mid, Ended, Follows
<1>7. ConnInv(q)
  BY <1>4, <1>5, <1>6 DEF ConnInv
<1> QED BY <1>6, <1>7 DEF q

(* An event that epoll_wait() reports. *)
LEMMA ReportedKept ==
  ASSUME NEW k, ConnInv(k), k.inset, NEW room \in BOOLEAN
  PROVE  LET r == Reported(k, room)
         IN /\ ConnInv(r) /\ r.place = k.place /\ r.place \in {"active", "cleanup"}
            /\ r.resuming = k.resuming /\ (k.eready => r.eready)
<1> DEFINE r == Reported(k, room)
           readable == k.data \/ k.eof
<1>1. k \in ConnType /\ k.place \in {"active", "cleanup"} /\ Mid(k)
  <2>1. k.place \notin {"unused", "backlog"}
    BY DEF ConnInv, Unused
  <2> QED BY <2>1 DEF ConnInv, Mid
<1>2. r \in ConnType
  <2> DEFINE a == k.ready \cup (IF readable THEN {"read"} ELSE {}) \cup (IF k.space THEN {"write"} ELSE {})
             b == k.eready \/ (readable /\ ("read" \in k.info \/ room)) \/ (k.space /\ k.info = WRITE)
             x == [k EXCEPT !.ready = k.ready \cup {"error"}, !.eready = TRUE, !.edge = FALSE]
             y == [k EXCEPT !.ready = a, !.eready = b, !.edge = FALSE]
  <2>1. k.ready \cup {"error"} \in SUBSET {"read", "write", "error"}
    BY <1>1 DEF ConnType
  <2>2. a \in SUBSET {"read", "write", "error"} /\ b \in BOOLEAN
    BY <1>1 DEF ConnType
  <2>3. x \in ConnType
    BY <1>1, <2>1 DEF ConnType
  <2>4. y \in ConnType
    <3> HIDE DEF a, b
    <3> QED BY <1>1, <2>2 DEF ConnType
  <2>5. r = IF k.err THEN x ELSE y
    BY <1>1 DEF Reported, ConnType
  <2> HIDE DEF x, y, r
  <2> QED BY <2>3, <2>4, <2>5
<1>3. /\ r.place = k.place /\ r.info = k.info /\ r.inset = k.inset /\ r.edge = FALSE
      /\ r.stale = k.stale /\ r.left = k.left /\ r.late = k.late /\ r.resuming = k.resuming /\ r.stuck = k.stuck
      /\ r.data = k.data /\ r.space = k.space /\ r.err = k.err
  BY <1>1 DEF Reported, ConnType
<1>4. k.err => r.ready = k.ready \cup {"error"} /\ r.eready
  BY <1>1 DEF Reported, ConnType
<1>5. ~k.err => /\ r.ready = k.ready \cup (IF readable THEN {"read"} ELSE {})
                               \cup (IF k.space THEN {"write"} ELSE {})
                /\ r.eready = (k.eready \/ (readable /\ ("read" \in k.info \/ room))
                                \/ (k.space /\ k.info = WRITE))
  BY <1>1 DEF Reported, ConnType
<1> HIDE DEF r
<1>6. Mid(r)
  <2>1. EdgeKnown(r)
    BY <1>3, <1>4, <1>5 DEF EdgeKnown
  <2> QED BY <1>1, <1>2, <1>3, <2>1 DEF Mid
<1>7. ASSUME k.place = "active" PROVE Waiting(r)
  <2>1. Waiting(k)
    BY <1>7 DEF ConnInv
  <2>2. ~r.stale
    BY <1>3, <2>1 DEF Waiting
  <2>3. ASSUME ~r.eready PROVE AwaitsItsEdge(r)
    <3>1. ~k.err /\ ~k.eready /\ ~(readable /\ "read" \in k.info) /\ ~(k.space /\ k.info = WRITE)
      BY <1>4, <1>5, <2>3
    <3>2. AwaitsItsEdge(k)
      BY <2>1, <3>1 DEF Waiting
    <3>3. "read" \in READ
      BY DEF READ
    <3>4. k.info = READ => ~readable /\ "read" \notin r.ready
      BY <1>5, <3>1, <3>2, <3>3 DEF AwaitsItsEdge
    <3>5. k.info = WRITE => ~k.space /\ (k.stuck \/ (k.inset /\ "write" \notin r.ready))
      BY <1>5, <3>1, <3>2 DEF AwaitsItsEdge
    <3>6. r.info \in {READ, WRITE} \/ (r.info = CLEANUP /\ r.late)
      BY <1>3, <3>2 DEF AwaitsItsEdge
    <3>7. r.info = READ => r.inset /\ "read" \notin r.ready /\ ~r.data
      BY <1>3, <3>4
    <3>8. r.info = WRITE => r.stuck \/ (r.inset /\ "write" \notin r.ready /\ ~r.space)
      BY <1>3, <3>5
    <3>9. ~r.err
      BY <1>3, <3>1
    <3> QED BY <3>6, <3>7, <3>8, <3>9 DEF AwaitsItsEdge
  <2>4. "error" \in r.ready => r.eready
    <3>1. "error" \in k.ready => k.eready
      BY <2>1 DEF Waiting
    <3>2. ~k.err /\ "error" \in r.ready => "error" \in k.ready
      BY <1>5
    <3>3. ~k.err /\ k.eready => r.eready
      BY <1>5
    <3> QED BY <1>4, <3>1, <3>2, <3>3
  <2> QED BY <1>3, <2>1, <2>2, <2>3, <2>4 DEF Waiting
<1>8. ConnInv(r)
  BY <1>1, <1>2, <1>3, <1>6, <1>7 DEF ConnInv
<1>9. k.eready => r.eready
  BY <1>4, <1>5
<1>10. /\ ConnInv(r) /\ r.place = k.place /\ r.place \in {"active", "cleanup"}
       /\ r.resuming = k.resuming /\ (k.eready => r.eready)
  BY <1>1, <1>3, <1>8, <1>9
<1> QED BY <1>10 DEF r

(* What the socket, the clock or the application may change. *)
LEMMA OutsideKept ==
  ASSUME NEW k, ConnInv(k), k.place \in {"active", "suspended"}, NEW r \in ConnType,
         r.place = k.place, r.info = k.info, r.ready = k.ready, r.inset = k.inset, r.eready = k.eready,
         r.stale = k.stale, r.left = k.left, r.stuck = k.stuck, k.late => r.late,
         k.place = "active" => r.resuming = k.resuming,
         k.inset => \/ r.edge
                    \/ r.edge = k.edge /\ r.data = k.data /\ r.space = k.space /\ r.err = k.err
  PROVE  ConnInv(r)
<1>1. Mid(k) /\ (k.place = "active" => Waiting(k))
  BY DEF ConnInv
<1>2. Mid(r)
  BY <1>1 DEF Mid, EdgeKnown
<1>3. ASSUME k.place = "active", ~r.eready PROVE AwaitsItsEdge(r)
  <2>1. AwaitsItsEdge(k)
    BY <1>1, <1>3 DEF Waiting
  <2> QED BY <2>1 DEF AwaitsItsEdge
<1>4. k.place = "active" => Waiting(r)
  BY <1>1, <1>3 DEF Waiting
<1> QED BY <1>2, <1>4 DEF ConnInv

\* A connection whose socket has changed.
Changed(k, d, e, s, x) ==
  [k EXCEPT !.data = d, !.eof = e, !.space = s, !.err = x, !.edge = k.edge \/ k.inset]

(* An event of the socket. *)
LEMMA EventKept ==
  ASSUME NEW k, ConnInv(k), k.place \in {"active", "suspended"},
         NEW d \in BOOLEAN, NEW e \in BOOLEAN, NEW s \in BOOLEAN, NEW x \in BOOLEAN,
         NEW r, r = Changed(k, d, e, s, x)
  PROVE  ConnInv(r) /\ r.place = k.place /\ r.eready = k.eready /\ r.resuming = k.resuming
<1>1. k \in ConnType
  BY DEF ConnInv
<1>2. /\ r.place = k.place /\ r.info = k.info /\ r.ready = k.ready /\ r.inset = k.inset
      /\ r.eready = k.eready /\ r.stale = k.stale /\ r.left = k.left /\ r.stuck = k.stuck
      /\ r.late = k.late /\ r.resuming = k.resuming /\ r.edge = (k.edge \/ k.inset)
  BY <1>1 DEF Changed, ConnType
<1>3. r \in ConnType
  <2> DEFINE b == k.edge \/ k.inset
  <2>1. b \in BOOLEAN /\ r = [k EXCEPT !.data = d, !.eof = e, !.space = s, !.err = x, !.edge = b]
    BY <1>1 DEF Changed, ConnType
  <2> HIDE DEF b
  <2> QED BY <1>1, <2>1, ZenonT(60) DEF ConnType
<1>4. ConnInv(r)
  BY <1>2, <1>3, OutsideKept
<1> QED BY <1>2, <1>4

(* A connection that is resumed. *)
LEMMA ResumedKept ==
  ASSUME NEW k, ConnInv(k), k.place = "suspended"
  PROVE  ConnInv(ResumeConn(k)) /\ ResumeConn(k).place = "active" /\ ~ResumeConn(k).resuming
<1> DEFINE r == ResumeConn(k)
<1>1. k \in ConnType /\ ~k.eready /\ ~k.inset /\ ~k.left
  BY DEF ConnInv, Mid
<1>2. r \in ConnType
  BY <1>1 DEF ResumeConn, ConnType
<1>3. /\ r.place = "active" /\ r.resuming = FALSE /\ r.eready = TRUE /\ r.ready = k.ready \cup {"read", "write"}
      /\ r.inset = k.inset /\ r.left = k.left
  BY <1>1 DEF ResumeConn, ConnType
<1> HIDE DEF r
<1>4. Mid(r)
  BY <1>1, <1>2, <1>3 DEF Mid
<1>5. Waiting(r)
  BY <1>1, <1>3 DEF Waiting
<1>6. ConnInv(r) /\ r.place = "active" /\ ~r.resuming
  BY <1>2, <1>3, <1>4, <1>5 DEF ConnInv
<1> QED BY <1>6 DEF r

(* A socket nobody uses. *)
LEMMA UnusedKept ==
  /\ ConnInv(Unused) /\ Unused.place = "unused"
  /\ ConnInv([Unused EXCEPT !.place = "backlog"]) /\ [Unused EXCEPT !.place = "backlog"].place = "backlog"
<1> DEFINE b == [Unused EXCEPT !.place = "backlog"]
<1>1. Unused \in ConnType /\ Unused.place = "unused"
  BY DEF Unused, ConnType, EventLoopInfo
<1>2. b \in ConnType /\ b.place = "backlog"
  BY <1>1 DEF ConnType
<1>3. ConnInv(Unused)
  <2>1. Unused = [Unused EXCEPT !.place = Unused.place]
    BY <1>1 DEF ConnType
  <2> QED BY <1>1, <2>1 DEF ConnInv
<1>4. ConnInv(b)
  <2> HIDE DEF b
  <2>1. b = [Unused EXCEPT !.place = b.place]
    BY <1>2 DEF b
  <2> QED BY <1>2, <2>1 DEF ConnInv
<1> QED BY <1>1, <1>2, <1>3, <1>4

(* A connection that was accepted. *)
LEMMA AddedKept ==
  ASSUME NEW k, ConnInv(k), k.place = "backlog", NEW r \in AddedConn(k)
  PROVE  ConnInv(r) /\ r.place \in {"active", "unused"} /\ ~r.resuming
<1>1. k = [Unused EXCEPT !.place = "backlog"]
  BY DEF ConnInv
<1>2. k \in ConnType
  BY DEF ConnInv
<1>3. CASE r = [k EXCEPT !.place = "active", !.ready = {"read", "write"}, !.eready = TRUE]
  <2>1. r \in ConnType
    BY <1>2, <1>3 DEF ConnType
  <2>2. /\ r.place = "active" /\ r.ready = {"read", "write"} /\ r.eready /\ ~r.inset /\ ~r.left /\ ~r.resuming
    BY <1>1, <1>3 DEF Unused
  <2>3. Mid(r) /\ Waiting(r)
    BY <2>1, <2>2 DEF Mid, Waiting
  <2> QED BY <2>1, <2>2, <2>3 DEF ConnInv
<1>4. CASE r = [k EXCEPT !.place = "active", !.inset = TRUE, !.edge = TRUE]
  <2>1. r \in ConnType
    BY <1>2, <1>4 DEF ConnType
  <2>2. /\ r.place = "active" /\ r.ready = {} /\ ~r.eready /\ r.inset /\ r.edge /\ ~r.left /\ ~r.resuming
        /\ ~r.stale /\ r.info = READ
    BY <1>1, <1>4 DEF Unused
  <2>3. Mid(r)
    BY <2>1, <2>2 DEF Mid, EdgeKnown
  <2>4. AwaitsItsEdge(r)
    BY <2>2, InfoFacts DEF AwaitsItsEdge
  <2>5. Waiting(r)
    BY <2>2, <2>4 DEF Waiting
  <2> QED BY <2>1, <2>2, <2>3, <2>5 DEF ConnInv
<1>5. CASE r = Unused
  BY <1>5, UnusedKept DEF Unused
<1> QED BY <1>3, <1>4, <1>5 DEF AddedConn

-----------------------------------------------------------------------------
(***************************************************************************)
(* The thread and its surroundings.                                        *)
(***************************************************************************)

ConnsKept == \A c \in Conns : ConnInv(conn[c])

\* The closed connections are freed before the thread waits.
NoneClosed ==
  pc \in {"listen", "resume", "timeout", "wait"} => \A c \in Conns : conn[c].place # "cleanup"

\* The list that is walked through.
ListKept ==
  /\ pc \notin {"timeouts", "visit"} => todo = {}
  /\ pc = "timeouts" => \A c \in todo : conn[c].place = "active"
  /\ pc = "visit" => \A c \in todo : conn[c].eready

\* A resume is known to the daemon, and signalled when the thread may block.
ResumeKnown ==
  /\ \A c \in Conns : conn[c].place = "suspended" /\ conn[c].resuming => d_resuming
  /\ pc = "wait" /\ ~zero /\ ~again => (d_resuming => itc \/ signalling # {})

\* The thread blocks only with nothing in eready.
NoneReady == pc = "wait" /\ ~zero /\ ~again => \A c \in Conns : ~conn[c].eready

\* Below the limit the listen socket is in the set, if there are descriptors.
Listens ==
  pc \in {"resume", "timeout", "wait"} /\ Cardinality(Held) < opt.limit /\ ~at_limit => listening

\* Who waits for descriptors has a connection whose end gives one back.
LimitEnds == at_limit => Held # {}

EInv ==
  /\ TypeOK /\ ConnsKept /\ NoneClosed /\ ListKept /\ ResumeKnown /\ NoneReady /\ Listens
  /\ LimitEnds

LEMMA EInvImplies == EInv => EpollSeesAll
<1> SUFFICES ASSUME EInv PROVE EpollSeesAll
  OBVIOUS
<1> USE DEF EInv
<1>1. ASSUME NEW c \in Conns, conn[c].eready \/ conn[c].inset
      PROVE  conn[c].place \in {"active", "cleanup"}
  <2>1. ConnInv(conn[c])
    BY DEF ConnsKept
  <2>2. conn[c].place \notin {"unused", "backlog"}
    BY <1>1, <2>1 DEF ConnInv, Unused
  <2> QED BY <1>1, <2>1, <2>2 DEF ConnInv, Mid
<1>2. ASSUME NEW c \in todo PROVE conn[c].place \in {"active", "cleanup"}
  <2>1. c \in Conns
    BY DEF TypeOK
  <2>2. CASE pc = "timeouts"
    BY <2>2 DEF ListKept
  <2>3. CASE pc = "visit"
    BY <1>1, <2>1, <2>3 DEF ListKept
  <2> QED BY <2>2, <2>3 DEF ListKept
<1>3. ReadySetsLive
  <2>1. pc \in {"listen", "resume", "timeout", "wait"} => In("cleanup") = {}
    BY DEF NoneClosed, In
  <2> QED BY <1>1, <1>2, <2>1 DEF ReadySetsLive, ListKept
<1>4. ASSUME pc = "wait" /\ ~zero /\ ~again PROVE NoEdgeLost
  <2>1. Eready = {}
    BY <1>4 DEF NoneReady, Eready
  <2>2. \A c \in In("active") : AwaitsItsEdge(conn[c])
    BY <1>4 DEF NoneReady, In, ConnsKept, ConnInv, Waiting
  <2>3. \A c \in In("suspended") : conn[c].resuming => d_resuming /\ (itc \/ signalling # {})
    BY <1>4 DEF ResumeKnown, In
  <2>4. Cardinality(Held) < opt.limit => listening \/ (at_limit /\ Held # {})
    BY <1>4 DEF Listens, LimitEnds
  <2> QED BY <2>1, <2>2, <2>3, <2>4 DEF NoEdgeLost
<1>5. NoEdgeLost
  BY <1>4 DEF NoEdgeLost
<1> QED BY <1>3, <1>5 DEF EpollSeesAll

LEMMA EInit == Init => EInv
<1> SUFFICES ASSUME Init PROVE EInv
  OBVIOUS
<1>1. \A c \in Conns : conn[c] = Unused
  BY DEF Init
<1>2. Unused \in ConnType /\ ConnInv(Unused) /\ Unused.place = "unused"
  BY UnusedKept DEF ConnInv
<1>3. TypeOK
  BY <1>2 DEF Init, TypeOK
<1>4. ConnsKept /\ NoneClosed
  BY <1>1, <1>2 DEF ConnsKept, NoneClosed
<1>5. ListKept /\ NoneReady /\ Listens /\ LimitEnds
  BY DEF Init, ListKept, NoneReady, Listens, LimitEnds
<1>6. ResumeKnown
  BY <1>1, <1>2 DEF Init, ResumeKnown
<1> QED BY <1>3, <1>4, <1>5, <1>6 DEF EInv

(* A step that leaves every connection as it is, or holds on to the same ones. *)
LEMMA HeldSame ==
  ASSUME \A c \in Conns : conn'[c].place \in {"active", "suspended", "cleanup"}
                            <=> conn[c].place \in {"active", "suspended", "cleanup"}
  PROVE  Held' = Held
BY DEF Held

(* The thread looks at its listen socket, at the resumed connections and at the *)
(* time it may wait. *)
LEMMA BeforeWaitStep ==
  ASSUME EInv, ListenSocket \/ resume_suspended_connections \/ GetTimeout
  PROVE  EInv'
<1> USE DEF EInv
<1>0. TypeOK
  OBVIOUS
<1>1. CASE ListenSocket
  <2>0. conn' = conn /\ pc = "listen" /\ pc' = "resume" /\ todo' = todo /\ opt' = opt /\ d_resuming' = d_resuming
        /\ at_limit' = at_limit
    BY <1>1 DEF ListenSocket, options
  <2>1. Held' = Held
    BY <2>0, HeldSame
  <2>2. opt.limit \in Nat /\ Cardinality(Held) \in Nat
    <3>1. IsFiniteSet(Held)
      BY EpollAssumption, FS_Subset DEF Held
    <3> QED BY <3>1, EpollAssumption, FS_CardinalityType DEF TypeOK
  <2> DEFINE below == Cardinality(Held) < opt.limit
             at == Cardinality(Held) = opt.limit
  <2>3. /\ listening' = (IF listening THEN ~at /\ ~at_limit ELSE below /\ ~at_limit)
        /\ ~(below /\ at) /\ at_limit \in BOOLEAN
    BY <1>1, <2>2 DEF ListenSocket, TypeOK
  <2>4. TypeOK'
    <3>1. listening' = TRUE \/ listening' = FALSE
      <4>1. (below = TRUE \/ below = FALSE) /\ (~at = TRUE \/ ~at = FALSE)
        BY <2>2
      <4> HIDE DEF below, at
      <4> QED BY <2>3, <4>1
    <3> QED BY <1>1, <2>0, <3>1 DEF ListenSocket, TypeOK, options
  <2>6. Listens'
    <3>1. Cardinality(Held)' = Cardinality(Held)
      BY <2>1
    <3>2. below /\ ~at_limit => listening'
      <4> HIDE DEF below, at
      <4> QED BY <2>3
    <3> QED BY <2>0, <3>1, <3>2 DEF Listens
  <2>5. ConnsKept' /\ NoneClosed' /\ ListKept' /\ ResumeKnown' /\ NoneReady' /\ LimitEnds'
    BY <2>0, <2>1 DEF LimitEnds, ConnsKept, NoneClosed, ListKept, ResumeKnown, NoneReady
  <2> QED BY <2>4, <2>5, <2>6
<1>2. CASE resume_suspended_connections
  <2> DEFINE resumed == {c \in In("suspended") : d_resuming /\ conn[c].resuming}
  <2>0. /\ pc = "resume" /\ pc' = "timeout" /\ todo' = todo /\ opt' = opt /\ ~d_resuming' /\ listening' = listening
        /\ at_limit' = at_limit
        /\ conn' = [c \in Conns |-> IF c \in resumed THEN ResumeConn(conn[c]) ELSE conn[c]]
    BY <1>2 DEF resume_suspended_connections, options
  <2>1. ASSUME NEW c \in Conns
        PROVE  /\ ConnInv(conn'[c]) /\ conn'[c].place # "cleanup"
               /\ conn'[c].place \in {"active", "suspended", "cleanup"}
                    <=> conn[c].place \in {"active", "suspended", "cleanup"}
               /\ ~(conn'[c].place = "suspended" /\ conn'[c].resuming)
    <3>0. ConnInv(conn[c]) /\ conn[c].place # "cleanup"
      BY <2>0 DEF ConnsKept, NoneClosed
    <3>1. CASE c \in resumed
      <4>1. conn[c].place = "suspended" /\ conn'[c] = ResumeConn(conn[c])
        BY <2>0, <3>1 DEF In
      <4> QED BY <3>0, <4>1, ResumedKept
    <3>2. CASE c \notin resumed
      <4>1. conn'[c] = conn[c]
        BY <2>0, <3>2
      <4>2. ~(conn[c].place = "suspended" /\ conn[c].resuming)
        BY <3>2 DEF In, ResumeKnown
      <4> QED BY <3>0, <4>1, <4>2
    <3> QED BY <3>1, <3>2
  <2> HIDE DEF resumed
  <2>2. Held' = Held
    BY <2>1, HeldSame
  <2>3. conn' \in [Conns -> ConnType]
    <3>1. \A c \in Conns : conn'[c] \in ConnType
      BY <2>1 DEF ConnInv
    <3> QED BY <2>0, <3>1
  <2>4. TypeOK'
    BY <1>2, <2>0, <2>3 DEF resume_suspended_connections, TypeOK, options
  <2>5. ConnsKept' /\ NoneClosed' /\ ResumeKnown'
    BY <2>0, <2>1 DEF ConnsKept, NoneClosed, ResumeKnown
  <2>6. ListKept' /\ NoneReady' /\ Listens' /\ LimitEnds'
    BY <2>0, <2>2 DEF ListKept, NoneReady, Listens, LimitEnds
  <2> QED BY <2>4, <2>5, <2>6
<1>3. CASE GetTimeout
  <2>0. /\ pc = "timeout" /\ pc' = "wait" /\ conn' = conn /\ todo' = todo /\ opt' = opt /\ listening' = listening
        /\ at_limit' = at_limit /\ d_resuming' = d_resuming /\ (~zero' => ~d_resuming /\ Eready = {})
    BY <1>3 DEF GetTimeout, options
  <2>1. Held' = Held
    BY <2>0, HeldSame
  <2>2. TypeOK'
    BY <1>3, <2>0 DEF GetTimeout, TypeOK, options
  <2>3. ConnsKept' /\ NoneClosed' /\ ResumeKnown' /\ ListKept'
    BY <2>0 DEF ConnsKept, NoneClosed, ResumeKnown, ListKept
  <2>4. NoneReady' /\ Listens' /\ LimitEnds'
    BY <2>0, <2>1 DEF NoneReady, Listens, LimitEnds, Eready
  <2> QED BY <2>2, <2>3, <2>4
<1> QED BY <1>1, <1>2, <1>3

(* The thread has waited. *)
LEMMA WaitStep ==
  ASSUME EInv, EpollWait
  PROVE  EInv'
<1> USE DEF EInv
<1>1. PICK got \in SUBSET Sources, room \in [Conns -> BOOLEAN] :
        /\ conn' = [c \in Conns |-> IF c \in got THEN Reported(conn[c], room[c]) ELSE conn[c]]
        /\ itc' = (itc /\ "itc" \notin got) /\ accept' = (accept \/ "listen" \in got) /\ again' = TRUE
        /\ pc' = IF Cardinality(got) = MaxEvents THEN "wait" ELSE "accept"
  BY DEF EpollWait
<1>2. /\ pc = "wait" /\ pc' \in {"wait", "accept"} /\ todo' = todo /\ opt' = opt /\ listening' = listening
      /\ at_limit' = at_limit /\ d_resuming' = d_resuming /\ signalling' = signalling
  BY <1>1 DEF EpollWait, options
<1>3. ASSUME NEW c \in Conns
      PROVE  ConnInv(conn'[c]) /\ conn'[c].place = conn[c].place /\ conn'[c].resuming = conn[c].resuming
  <2>1. ConnInv(conn[c])
    BY DEF ConnsKept
  <2>2. CASE c \in got
    <3>1. conn'[c] = Reported(conn[c], room[c]) /\ room[c] \in BOOLEAN
      BY <1>1, <2>2
    <3>2. CASE conn[c].inset
      BY <2>1, <3>1, <3>2, ReportedKept
    <3>3. CASE ~conn[c].inset
      \* a socket has no name of the other sources
      <4>1. FALSE
        BY <2>2, <3>3, EpollAssumption DEF Sources
      <4> QED BY <4>1
    <3> QED BY <3>2, <3>3
  <2>3. CASE c \notin got
    BY <1>1, <2>1, <2>3
  <2> QED BY <2>2, <2>3
<1>4. Held' = Held
  BY <1>3, HeldSame
<1>5. conn' \in [Conns -> ConnType]
  <2>1. \A c \in Conns : conn'[c] \in ConnType
    BY <1>3 DEF ConnInv
  <2> QED BY <1>1, <2>1
<1>6. TypeOK'
  BY <1>1, <1>2, <1>5 DEF EpollWait, TypeOK, options
<1>7. ConnsKept' /\ NoneClosed' /\ ResumeKnown'
  BY <1>1, <1>2, <1>3 DEF ConnsKept, NoneClosed, ResumeKnown
<1>8. ListKept' /\ NoneReady' /\ Listens' /\ LimitEnds'
  BY <1>1, <1>2, <1>4 DEF ListKept, NoneReady, Listens, LimitEnds
<1> QED BY <1>6, <1>7, <1>8

(* A step of a single connection. *)
LEMMA OneConn ==
  ASSUME EInv, NEW c \in Conns, NEW k, ConnInv(k), conn' = [conn EXCEPT ![c] = k]
  PROVE  /\ conn' \in [Conns -> ConnType] /\ ConnsKept'
         /\ conn'[c] = k /\ \A d \in Conns : d # c => conn'[d] = conn[d]
<1>1. conn \in [Conns -> ConnType] /\ k \in ConnType
  BY DEF EInv, TypeOK, ConnInv
<1>2. conn'[c] = k /\ \A d \in Conns : d # c => conn'[d] = conn[d]
  BY <1>1
<1>3. \A d \in Conns : ConnInv(conn'[d])
  BY <1>2 DEF EInv, ConnsKept
<1> QED BY <1>1, <1>2, <1>3 DEF ConnsKept

(* The thread accepts a client, handles a timeout, or visits a connection. *)
LEMMA HandleStep ==
  ASSUME EInv, NEW c \in Conns, MHD_accept_connection(c) \/ HandleTimeout(c) \/ VisitReady(c)
  PROVE  EInv'
<1> USE DEF EInv
<1>0. ConnInv(conn[c])
  BY DEF ConnsKept
<1>1. ASSUME NEW k, ConnInv(k), conn' = [conn EXCEPT ![c] = k], ~(k.place = "suspended" /\ k.resuming),
             pc \in {"accept", "timeouts", "visit"}, pc' = pc, todo' \in SUBSET todo,
             pc = "accept" \/ c \notin todo',
             d_resuming' = d_resuming, opt' = opt, turbo' = turbo, listening' = listening, pending' \in BOOLEAN,
             itc' = itc, signalling' = signalling, zero' = zero, again' = again, accept' \in BOOLEAN,
             at_limit' = at_limit,
             conn[c].place = "backlog" \/ k.place \in {"active", "suspended", "cleanup"}
      PROVE  EInv'
  <2>1. /\ conn' \in [Conns -> ConnType] /\ ConnsKept'
        /\ conn'[c] = k /\ \A d \in Conns : d # c => conn'[d] = conn[d]
    BY <1>1, OneConn
  <2>2. TypeOK'
    BY <1>1, <2>1 DEF TypeOK
  <2>3. ResumeKnown'
    BY <1>1, <2>1 DEF ResumeKnown
  <2>4. ListKept'
    <3>1. pc = "accept" => todo' = {}
      BY <1>1 DEF ListKept
    <3>2. ASSUME NEW d \in todo' PROVE conn'[d] = conn[d] /\ d \in todo
      BY <1>1, <2>1, <3>1, <3>2 DEF TypeOK
    <3> QED BY <1>1, <3>1, <3>2 DEF ListKept
  <2>5. NoneClosed' /\ NoneReady' /\ Listens'
    BY <1>1 DEF NoneClosed, NoneReady, Listens
  <2>6. LimitEnds'
    <3>1. Held \subseteq Held'
      BY <1>1, <2>1 DEF Held
    <3> QED BY <1>1, <3>1 DEF LimitEnds
  <2> QED BY <2>1, <2>2, <2>3, <2>4, <2>5, <2>6
<1>2. CASE MHD_accept_connection(c)
  <2>1. PICK k \in AddedConn(conn[c]) : conn' = [conn EXCEPT ![c] = k]
    BY <1>2 DEF MHD_accept_connection
  <2>2. ConnInv(k) /\ ~k.resuming
    BY <1>0, <1>2, AddedKept DEF MHD_accept_connection
  <2>3. accept' \in BOOLEAN
    <3>1. IsFiniteSet(Held')
      BY EpollAssumption, FS_Subset DEF Held
    <3>2. Cardinality(Held') \in Nat /\ opt.limit \in Nat
      BY <3>1, EpollAssumption, FS_CardinalityType DEF TypeOK
    <3>3. (Cardinality(Held') < opt.limit) \in BOOLEAN
      BY <3>2
    <3>4. accept' = FALSE \/ accept' = (Cardinality(Held') < opt.limit)
      BY <1>2 DEF MHD_accept_connection
    <3> HIDE DEF Held
    <3> QED BY <3>3, <3>4, Zenon
  <2> QED BY <1>1, <1>2, <2>1, <2>2, <2>3 DEF MHD_accept_connection, options, dvars, TypeOK
<1>3. CASE HandleTimeout(c)
  <2> DEFINE q(r) == [r EXCEPT !.stuck = @ \/ (r.info = WRITE /\ ~r.eready /\ "write" \in r.ready)]
  <2>1. PICK r \in MHD_connection_handle_idle(conn[c], FALSE) : conn' = [conn EXCEPT ![c] = q(r)]
    BY <1>3 DEF HandleTimeout
  <2>2. conn[c].place = "active"
    BY <1>3 DEF HandleTimeout, ListKept
  <2>3. ConnInv(q(r)) /\ ~q(r).resuming /\ q(r).place \in {"active", "suspended", "cleanup"}
    BY <1>0, <2>2, TimeoutKept
  <2> HIDE DEF q
  <2> QED BY <1>1, <1>3, <2>1, <2>3 DEF HandleTimeout, options, dvars, TypeOK
<1>4. CASE VisitReady(c)
  <2> DEFINE q(r) == [LeaveEready(r) EXCEPT !.stuck = FALSE]
  <2>1. PICK r \in call_handlers(conn[c]) : conn' = [conn EXCEPT ![c] = q(r)] /\ pending' = (pending \/ "process" \in r.info)
    BY <1>4 DEF VisitReady
  <2>2. conn[c].place \in {"active", "cleanup"} /\ conn[c].eready
    BY <1>4, EInvImplies DEF VisitReady, ListKept, EpollSeesAll, ReadySetsLive
  <2>3. ConnInv(q(r)) /\ ~q(r).resuming /\ q(r).place \in {"active", "suspended", "cleanup"}
    BY <1>0, <2>2, VisitKept
  <2> HIDE DEF q
  <2> QED BY <1>1, <1>4, <2>1, <2>3 DEF VisitReady, options, TypeOK
<1> QED BY <1>2, <1>3, <1>4

(* The thread goes from one list to the next, and frees the closed connections. *)
LEMMA BetweenListsStep ==
  ASSUME EInv, AcceptFails \/ AcceptDone \/ TimeoutsDone \/ MHD_cleanup_connections
  PROVE  EInv'
<1> USE DEF EInv
<1>1. CASE AcceptDone
  <2>0. /\ pc = "accept" /\ pc' = "timeouts" /\ conn' = conn /\ d_resuming' = d_resuming
        /\ at_limit' = at_limit /\ todo' \in SUBSET In("active")
    BY <1>1 DEF AcceptDone, dvars
  <2>1. TypeOK'
    BY <1>1, <2>0 DEF AcceptDone, TypeOK, options, dvars, In
  <2>2. ListKept'
    BY <2>0 DEF ListKept, In
  <2>3. ConnsKept' /\ NoneClosed' /\ ResumeKnown' /\ NoneReady' /\ Listens' /\ LimitEnds'
    BY <2>0, HeldSame DEF ConnsKept, NoneClosed, ResumeKnown, NoneReady, Listens, LimitEnds
  <2> QED BY <2>1, <2>2, <2>3
<1>2. CASE TimeoutsDone
  <2>0. pc' = "visit" /\ conn' = conn /\ d_resuming' = d_resuming /\ todo' = Eready
        /\ at_limit' = at_limit
    BY <1>2 DEF TimeoutsDone, dvars
  <2>1. TypeOK'
    BY <1>2, <2>0 DEF TimeoutsDone, TypeOK, options, dvars, Eready
  <2>2. ListKept'
    BY <2>0 DEF ListKept, Eready
  <2>3. ConnsKept' /\ NoneClosed' /\ ResumeKnown' /\ NoneReady' /\ Listens' /\ LimitEnds'
    BY <2>0, HeldSame DEF ConnsKept, NoneClosed, ResumeKnown, NoneReady, Listens, LimitEnds
  <2> QED BY <2>1, <2>2, <2>3
<1>3. CASE MHD_cleanup_connections
  <2>0. /\ pc' = "listen" /\ d_resuming' = d_resuming /\ todo' = {}
        /\ conn' = [c \in Conns |-> IF conn[c].place = "cleanup" THEN Unused ELSE conn[c]]
    BY <1>3 DEF MHD_cleanup_connections, dvars
  <2>1. ASSUME NEW c \in Conns
        PROVE  /\ ConnInv(conn'[c]) /\ conn'[c].place # "cleanup"
               /\ conn'[c].place = "suspended" => conn'[c] = conn[c]
    <3>1. ConnInv(conn[c])
      BY DEF ConnsKept
    <3>2. conn'[c] = IF conn[c].place = "cleanup" THEN Unused ELSE conn[c]
      BY <2>0
    <3> QED BY <3>1, <3>2, UnusedKept
  <2>2. conn' \in [Conns -> ConnType]
    <3>1. \A c \in Conns : conn'[c] \in ConnType
      BY <2>1 DEF ConnInv
    <3> QED BY <2>0, <3>1
  <2>3. TypeOK'
    BY <1>3, <2>0, <2>2 DEF MHD_cleanup_connections, TypeOK, options, dvars
  <2>4. ConnsKept' /\ NoneClosed' /\ ResumeKnown'
    BY <2>0, <2>1 DEF ConnsKept, NoneClosed, ResumeKnown
  <2>5. ListKept' /\ NoneReady' /\ Listens'
    BY <2>0 DEF ListKept, NoneReady, Listens
  <2>6. LimitEnds'
    <3>1. at_limit' => at_limit /\ In("cleanup") = {}
      BY <1>3 DEF MHD_cleanup_connections
    <3>2. In("cleanup") = {} => Held' = Held
      BY <2>0, HeldSame DEF In
    <3> QED BY <3>1, <3>2 DEF LimitEnds
  <2> QED BY <2>3, <2>4, <2>5, <2>6
<1>4. CASE AcceptFails
  <2>0. /\ pc = "accept" /\ pc' = pc /\ conn' = conn /\ d_resuming' = d_resuming /\ todo' = todo
        /\ at_limit' \in {at_limit, at_limit \/ Held # {}}
    BY <1>4 DEF AcceptFails
  <2>1. at_limit' \in BOOLEAN
    BY <2>0 DEF TypeOK
  <2>2. TypeOK'
    BY <1>4, <2>0, <2>1 DEF AcceptFails, TypeOK, options
  <2>3. ConnsKept' /\ NoneClosed' /\ ListKept' /\ ResumeKnown' /\ NoneReady' /\ Listens'
    BY <2>0 DEF ConnsKept, NoneClosed, ListKept, ResumeKnown, NoneReady, Listens
  <2>4. LimitEnds'
    <3>1. Held' = Held
      BY <2>0, HeldSame
    <3> QED BY <2>0, <3>1 DEF LimitEnds
  <2> QED BY <2>2, <2>3, <2>4
<1> QED BY <1>1, <1>2, <1>3, <1>4

(* A step from outside that changes one connection and not where it is. *)
LEMMA OutsideStep ==
  ASSUME EInv, NEW c \in Conns, NEW k, ConnInv(k), conn' = [conn EXCEPT ![c] = k],
         k.eready = conn[c].eready,
         k.place = conn[c].place \/ (conn[c].place = "unused" /\ k.place = "backlog"),
         k.place = "suspended" /\ k.resuming => d_resuming',
         d_resuming' \in BOOLEAN, signalling' \in SUBSET Conns,
         d_resuming => d_resuming', d_resuming' => d_resuming \/ signalling' # {}, signalling \subseteq signalling',
         itc' = itc, pending' = pending, opt' = opt, turbo' = turbo, listening' = listening, UNCHANGED tvars,
         at_limit' = at_limit
  PROVE  EInv'
<1> USE DEF EInv
<1>1. /\ conn' \in [Conns -> ConnType] /\ ConnsKept'
      /\ conn'[c] = k /\ \A d \in Conns : d # c => conn'[d] = conn[d]
  BY OneConn
<1>2. \A d \in Conns : /\ conn'[d].eready = conn[d].eready
                       /\ conn'[d].place = conn[d].place \/ (conn[d].place = "unused" /\ conn'[d].place = "backlog")
  BY <1>1
<1>3. Held' = Held
  BY <1>2, HeldSame
<1>4. pc' = pc /\ zero' = zero /\ again' = again /\ accept' = accept /\ todo' = todo
  BY DEF tvars
<1>5. TypeOK'
  BY <1>1, <1>4 DEF TypeOK
<1>6. NoneClosed' /\ NoneReady'
  BY <1>2, <1>4 DEF NoneClosed, NoneReady
<1>7. ListKept'
  BY <1>2, <1>4 DEF ListKept, TypeOK
<1>8. ResumeKnown'
  BY <1>1, <1>4 DEF ResumeKnown
<1>9. Listens' /\ LimitEnds'
  BY <1>3, <1>4 DEF Listens, LimitEnds
<1> QED BY <1>1, <1>5, <1>6, <1>7, <1>8, <1>9

LEMMA EnvironmentStep ==
  ASSUME EInv, Environment
  PROVE  EInv'
<1> USE DEF EInv
<1>1. PICK c \in Conns : \/ MHD_resume_connection(c) \/ ActivateItc(c) \/ ClientConnects(c)
                         \/ ClientSends(c) \/ ClientCloses(c) \/ ClientReads(c) \/ ClientResets(c)
                         \/ TimePasses(c)
  BY DEF Environment
<1>2. ConnInv(conn[c]) /\ conn[c] \in ConnType
  BY DEF ConnsKept, ConnInv
<1> DEFINE k == conn[c]
<1>3. CASE MHD_resume_connection(c)
  <2> DEFINE r == [k EXCEPT !.resuming = TRUE]
  <2>1. r \in ConnType
    BY <1>2 DEF ConnType
  <2>2. /\ r.place = k.place /\ r.info = k.info /\ r.ready = k.ready /\ r.inset = k.inset /\ r.eready = k.eready
        /\ r.stale = k.stale /\ r.left = k.left /\ r.stuck = k.stuck /\ r.late = k.late /\ r.edge = k.edge
        /\ r.data = k.data /\ r.space = k.space /\ r.err = k.err
    BY <1>2 DEF ConnType
  <2>3. k.place = "suspended" /\ conn' = [conn EXCEPT ![c] = r]
    BY <1>3 DEF MHD_resume_connection
  <2> HIDE DEF r
  <2>4. ConnInv(r)
    BY <1>2, <2>1, <2>2, <2>3, OutsideKept
  <2>5. /\ d_resuming' = TRUE /\ signalling' = signalling \cup {c} /\ signalling \subseteq Conns
        /\ itc' = itc /\ pending' = pending /\ opt' = opt /\ turbo' = turbo /\ listening' = listening /\ at_limit' = at_limit /\ UNCHANGED tvars
    BY <1>3 DEF MHD_resume_connection, options, TypeOK
  <2> QED BY <2>2, <2>3, <2>4, <2>5, OutsideStep
<1>4. CASE ActivateItc(c)
  <2>1. /\ itc' = TRUE /\ conn' = conn /\ d_resuming' = d_resuming /\ opt' = opt /\ turbo' = turbo
        /\ listening' = listening /\ at_limit' = at_limit /\ pending' = pending /\ signalling' = signalling \ {c}
        /\ pc' = pc /\ zero' = zero /\ again' = again /\ accept' = accept /\ todo' = todo
    BY <1>4 DEF ActivateItc, options, tvars
  <2>2. TypeOK'
    BY <2>1 DEF TypeOK
  <2>3. Held' = Held
    BY <2>1, HeldSame
  <2>4. ConnsKept' /\ NoneClosed' /\ ListKept' /\ ResumeKnown' /\ NoneReady' /\ Listens' /\ LimitEnds'
    BY <2>1, <2>3 DEF ConnsKept, NoneClosed, ListKept, ResumeKnown, NoneReady, Listens, LimitEnds
  <2> QED BY <2>2, <2>4
<1>5. CASE ClientConnects(c)
  <2> DEFINE r == [Unused EXCEPT !.place = "backlog"]
  <2>1. k.place = "unused" /\ conn' = [conn EXCEPT ![c] = [k EXCEPT !.place = "backlog"]]
    BY <1>5 DEF ClientConnects
  <2>2. k = [Unused EXCEPT !.place = "unused"]
    BY <1>2, <2>1 DEF ConnInv
  <2>3. [k EXCEPT !.place = "backlog"] = r /\ r.eready = k.eready
    BY <2>2 DEF Unused
  <2>4. ConnInv(r) /\ r.place = "backlog"
    BY UnusedKept
  <2> HIDE DEF r
  <2>5. /\ d_resuming' = d_resuming /\ signalling' = signalling /\ d_resuming \in BOOLEAN /\ signalling \subseteq Conns
        /\ itc' = itc /\ pending' = pending /\ opt' = opt /\ turbo' = turbo /\ listening' = listening /\ at_limit' = at_limit /\ UNCHANGED tvars
    BY <1>5 DEF ClientConnects, options, dvars, TypeOK
  <2>6. conn' = [conn EXCEPT ![c] = r]
    BY <2>1, <2>3
  <2> QED BY <2>1, <2>3, <2>4, <2>5, <2>6, OutsideStep
<1>6. CASE TimePasses(c)
  <2> DEFINE r == [k EXCEPT !.late = TRUE]
  <2>1. r \in ConnType
    BY <1>2 DEF ConnType
  <2>2. /\ r.place = k.place /\ r.info = k.info /\ r.ready = k.ready /\ r.inset = k.inset /\ r.eready = k.eready
        /\ r.stale = k.stale /\ r.left = k.left /\ r.stuck = k.stuck /\ r.late = TRUE /\ r.edge = k.edge
        /\ r.data = k.data /\ r.space = k.space /\ r.err = k.err /\ r.resuming = k.resuming
    BY <1>2 DEF ConnType
  <2>3. k.place = "active" /\ conn' = [conn EXCEPT ![c] = r]
    BY <1>6 DEF TimePasses
  <2> HIDE DEF r
  <2>4. ConnInv(r)
    BY <1>2, <2>1, <2>2, <2>3, OutsideKept
  <2>5. /\ d_resuming' = d_resuming /\ signalling' = signalling /\ d_resuming \in BOOLEAN /\ signalling \subseteq Conns
        /\ itc' = itc /\ pending' = pending /\ opt' = opt /\ turbo' = turbo /\ listening' = listening /\ at_limit' = at_limit /\ UNCHANGED tvars
    BY <1>6 DEF TimePasses, options, dvars, TypeOK
  <2> QED BY <2>2, <2>3, <2>4, <2>5, OutsideStep
<1>7. ASSUME NEW d \in BOOLEAN, NEW e \in BOOLEAN, NEW s \in BOOLEAN, NEW x \in BOOLEAN, NEW a,
             a = [k EXCEPT !.data = d, !.eof = e, !.space = s, !.err = x], SocketEvent(c, a)
      PROVE  EInv'
  <2> DEFINE r == Changed(k, d, e, s, x)
  <2>1. a.edge = k.edge /\ a.inset = k.inset
    BY <1>2, <1>7 DEF ConnType
  <2>2. [a EXCEPT !.edge = @ \/ a.inset] = r
    BY <1>2, <1>7, <2>1 DEF Changed, ConnType
  <2>3. k.place \in {"active", "suspended"} /\ conn' = [conn EXCEPT ![c] = r]
    BY <1>7, <2>2 DEF SocketEvent
  <2>4. ConnInv(k) /\ k.place \in {"active", "suspended"} /\ d \in BOOLEAN /\ e \in BOOLEAN
        /\ s \in BOOLEAN /\ x \in BOOLEAN
    BY <1>2, <1>7, <2>3
  <2>5. ConnInv(r) /\ r.place = k.place /\ r.eready = k.eready /\ r.resuming = k.resuming
    <3> HIDE DEF k
    <3> QED BY <2>4, EventKept
  <2> HIDE DEF r
  <2>6. /\ d_resuming' = d_resuming /\ signalling' = signalling /\ d_resuming \in BOOLEAN /\ signalling \subseteq Conns
        /\ itc' = itc /\ pending' = pending /\ opt' = opt /\ turbo' = turbo /\ listening' = listening /\ at_limit' = at_limit /\ UNCHANGED tvars
    BY <1>7 DEF SocketEvent, options, dvars, TypeOK
  <2>7. k.place = "suspended" /\ k.resuming => d_resuming
    BY DEF ResumeKnown
  <2> QED BY <2>3, <2>5, <2>6, <2>7, OutsideStep
<1>8. k.data \in BOOLEAN /\ k.eof \in BOOLEAN /\ k.space \in BOOLEAN /\ k.err \in BOOLEAN
  BY <1>2 DEF ConnType
<1>9. /\ [k EXCEPT !.data = TRUE]
           = [k EXCEPT !.data = TRUE, !.eof = k.eof, !.space = k.space, !.err = k.err]
      /\ [k EXCEPT !.eof = TRUE]
           = [k EXCEPT !.data = k.data, !.eof = TRUE, !.space = k.space, !.err = k.err]
      /\ [k EXCEPT !.space = TRUE]
           = [k EXCEPT !.data = k.data, !.eof = k.eof, !.space = TRUE, !.err = k.err]
      /\ [k EXCEPT !.err = TRUE, !.data = FALSE, !.eof = FALSE, !.space = TRUE]
           = [k EXCEPT !.data = FALSE, !.eof = FALSE, !.space = TRUE, !.err = TRUE]
  BY <1>2 DEF ConnType
<1>10. CASE ClientSends(c)
  BY <1>7, <1>8, <1>9, <1>10 DEF ClientSends
<1>11. CASE ClientCloses(c)
  BY <1>7, <1>8, <1>9, <1>11 DEF ClientCloses
<1>12. CASE ClientReads(c)
  BY <1>7, <1>8, <1>9, <1>12 DEF ClientReads
<1>13. CASE ClientResets(c)
  BY <1>7, <1>8, <1>9, <1>13 DEF ClientResets
<1> QED BY <1>1, <1>3, <1>4, <1>5, <1>6, <1>10, <1>11, <1>12, <1>13

(***************************************************************************)
(* However the clients, the application and the clock interleave with the  *)
(* thread: the ready list, the epoll set and the walk of MHD_epoll() hold  *)
(* only live connections, and when the thread blocks in epoll_wait(),      *)
(* everything it has to know of will still be reported.  For any number of *)
(* connections, any connection limit and any MAX_EVENTS, whenever accept() *)
(* finds no descriptor left.                                               *)
(***************************************************************************)
THEOREM EpollSeesAllEvents == Spec => []EpollSeesAll
<1>1. Init => EInv
  BY EInit
<1>2. EInv /\ [Next]_vars => EInv'
  <2> SUFFICES ASSUME EInv, [Next]_vars PROVE EInv'
    OBVIOUS
  <2>1. CASE Thread
    <3>1. CASE ListenSocket \/ resume_suspended_connections \/ GetTimeout
      BY <3>1, BeforeWaitStep
    <3>2. CASE EpollWait
      BY <3>2, WaitStep
    <3>3. CASE AcceptFails \/ AcceptDone \/ TimeoutsDone \/ MHD_cleanup_connections
      BY <3>3, BetweenListsStep
    <3>4. CASE \E c \in Conns : MHD_accept_connection(c) \/ HandleTimeout(c) \/ VisitReady(c)
      BY <3>4, HandleStep
    <3> QED BY <2>1, <3>1, <3>2, <3>3, <3>4 DEF Thread
  <2>2. CASE Environment
    BY <2>2, EnvironmentStep
  <2>3. CASE UNCHANGED vars
    <3>1. /\ conn' = conn /\ turbo' = turbo /\ opt' = opt /\ listening' = listening /\ at_limit' = at_limit /\ pending' = pending
          /\ d_resuming' = d_resuming /\ itc' = itc /\ signalling' = signalling
          /\ pc' = pc /\ zero' = zero /\ again' = again /\ accept' = accept /\ todo' = todo
      BY <2>3 DEF vars, options, dvars, tvars
    <3>2. Held' = Held
      BY <3>1, HeldSame
    <3> QED BY <3>1, <3>2 DEF EInv, TypeOK, ConnsKept, NoneClosed, ListKept, ResumeKnown, NoneReady, Listens,
                          LimitEnds
  <2> QED BY <2>1, <2>2, <2>3 DEF Next
<1>3. EInv => EpollSeesAll
  BY EInvImplies
<1> QED BY <1>1, <1>2, <1>3, PTL DEF Spec
=============================================================================
