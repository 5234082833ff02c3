---------------------------- MODULE DigestProofs ----------------------------
(***************************************************************************)
(* Proofs about digest authentication: DigestNonce, for any number of      *)
(* clients and slots, any assignment of nonces to slots and any width of   *)
(* the mask; and DigestCheck, for any headers, any sizes of values and     *)
(* buffers, any options of the application and any failures.               *)
(***************************************************************************)
EXTENDS DigestNonce, HeaderCheck, SequenceTheorems, WellFoundedInduction, TLAPS

(***************************************************************************)
(* DigestNonce.                                                            *)
(***************************************************************************)

(* What a slot keeps about the counts accepted since it was taken.  For one *)
(* slot: the mask m, the largest count l and the record a of acceptances.   *)
SlotInv(m, l, a) ==
  /\ l # 0 => l \in Counts /\ a[l] = 1
  /\ \A k \in Counts : a[k] \in {0, 1}
  /\ \A k \in Counts : k > l => a[k] = 0
  /\ \A k \in Counts : k < l /\ l <= k + MaskBits => (a[k] = 1 <=> l - k \in m)

(* AcceptedOnce and MaskExact together are inductive. *)
IInv == TypeOK /\ \A s \in Slot : SlotInv(nmask[s], nc[s], accepted[s])

-----------------------------------------------------------------------------
(* The mask after a jump has no bit beyond its width. *)
LEMMA ShiftType ==
  ASSUME NEW m \in SUBSET (1 .. MaskBits), NEW jump \in Nat \ {0}
  PROVE  ShiftedMask(m, jump) \in SUBSET (1 .. MaskBits)
BY WidthAssumption DEF ShiftedMask

(* What the shifted mask says about a distance within its width. *)
LEMMA ShiftMeaning ==
  ASSUME NEW m \in SUBSET (1 .. MaskBits), NEW jump \in Nat \ {0},
         NEW d \in 1 .. MaskBits
  PROVE  d \in ShiftedMask(m, jump) <=> d = jump \/ d - jump \in m
<1>1. CASE jump < MaskBits
  <2>1. ShiftedMask(m, jump) = ({e + jump : e \in m} \cap (1 .. MaskBits)) \cup {jump}
    BY <1>1, WidthAssumption DEF ShiftedMask
  <2>2. d \in {e + jump : e \in m} <=> d - jump \in m
    <3>1. ASSUME d - jump \in m PROVE d \in {e + jump : e \in m}
      <4>1. d = (d - jump) + jump
        BY WidthAssumption
      <4> QED BY <3>1, <4>1
    <3>2. ASSUME NEW e \in m, d = e + jump PROVE d - jump \in m
      <4>1. d - jump = e
        BY <3>2, WidthAssumption
      <4> QED BY <4>1
    <3> QED BY <3>1, <3>2
  <2> QED BY <2>1, <2>2
<1>2. CASE jump = MaskBits
  <2>1. ShiftedMask(m, jump) = {MaskBits}
    BY <1>2, WidthAssumption DEF ShiftedMask
  <2>2. d - jump \notin m
    BY <1>2, WidthAssumption
  <2> QED BY <1>2, <2>1, <2>2
<1>3. CASE jump > MaskBits
  <2>1. ShiftedMask(m, jump) = {}
    BY <1>3, WidthAssumption DEF ShiftedMask
  <2>2. d # jump /\ d - jump \notin m
    BY <1>3, WidthAssumption
  <2> QED BY <2>1, <2>2
<1> QED BY <1>1, <1>2, <1>3, WidthAssumption

(* A larger count than any before keeps the slot's record exact. *)
LEMMA JumpKeepsSlot ==
  ASSUME NEW m \in SUBSET (1 .. MaskBits), NEW l \in Nat,
         NEW a \in [Counts -> Nat], NEW k \in Counts, k > l,
         SlotInv(m, l, a)
  PROVE  SlotInv(ShiftedMask(m, k - l), k, [a EXCEPT ![k] = @ + 1])
<1> DEFINE jump == k - l
           b == [a EXCEPT ![k] = @ + 1]
<1>0. jump \in Nat \ {0} /\ k \in Nat /\ Counts \subseteq Nat
  BY WidthAssumption DEF Counts
<1>1. b[k] = 1 /\ \A j \in Counts : j # k => b[j] = a[j]
  BY DEF SlotInv
<1>2. \A j \in Counts : b[j] \in {0, 1}
  BY <1>1 DEF SlotInv
<1>3. \A j \in Counts : j > k => b[j] = 0
  BY <1>0, <1>1 DEF SlotInv
<1>4. ASSUME NEW j \in Counts, j < k, k <= j + MaskBits
      PROVE  b[j] = 1 <=> k - j \in ShiftedMask(m, jump)
  <2> DEFINE d == k - j
  <2>1. d \in 1 .. MaskBits /\ j \in Nat \ {0}
    BY <1>0, <1>4, WidthAssumption DEF Counts
  <2>2. d \in ShiftedMask(m, jump) <=> d = jump \/ d - jump \in m
    BY <1>0, <2>1, ShiftMeaning
  <2>3. b[j] = a[j]
    BY <1>0, <1>1, <1>4
  <2>4. d - jump = l - j /\ (d = jump <=> j = l)
    BY <1>0, <2>1
  <2>5. CASE j > l
    <3>1. a[j] = 0
      BY <2>5 DEF SlotInv
    <3>2. l - j \notin m /\ j # l
      BY <2>5, <1>0, <2>1, WidthAssumption
    <3> QED BY <2>2, <2>3, <2>4, <3>1, <3>2
  <2>6. CASE j = l
    BY <2>1, <2>2, <2>3, <2>4, <2>6 DEF SlotInv
  <2>7. CASE j < l
    <3>1. l <= j + MaskBits
      BY <1>0, <1>4, <2>1, WidthAssumption
    <3>2. a[j] = 1 <=> l - j \in m
      BY <2>7, <3>1 DEF SlotInv
    <3>3. j # l
      BY <2>7, <2>1
    <3> QED BY <2>2, <2>3, <2>4, <3>2, <3>3
  <2> QED BY <2>5, <2>6, <2>7, <2>1
<1> HIDE DEF jump, b
<1>5. SlotInv(ShiftedMask(m, jump), k, b)
  BY <1>1, <1>2, <1>3, <1>4 DEF SlotInv
<1> QED BY <1>5 DEF jump, b

(* A count that arrives late, within the mask and with its bit not set. *)
LEMMA LateKeepsSlot ==
  ASSUME NEW m \in SUBSET (1 .. MaskBits), NEW l \in Nat,
         NEW a \in [Counts -> Nat], NEW k \in Counts,
         k < l, l <= k + MaskBits, l - k \notin m,
         SlotInv(m, l, a)
  PROVE  /\ SlotInv(m \cup {l - k}, l, [a EXCEPT ![k] = @ + 1])
         /\ l - k \in 1 .. MaskBits
<1> DEFINE b == [a EXCEPT ![k] = @ + 1]
<1>0. k \in Nat /\ Counts \subseteq Nat /\ l - k \in 1 .. MaskBits
  BY WidthAssumption DEF Counts
<1>1. a[k] = 0
  BY DEF SlotInv
<1>2. b[k] = 1 /\ \A j \in Counts : j # k => b[j] = a[j]
  BY <1>1
<1>3. ASSUME NEW j \in Counts, j < l, l <= j + MaskBits
      PROVE  b[j] = 1 <=> l - j \in m \cup {l - k}
  <2>1. j \in Nat /\ (l - j = l - k <=> j = k)
    BY <1>0
  <2>2. a[j] = 1 <=> l - j \in m
    BY <1>3 DEF SlotInv
  <2> QED BY <1>2, <2>1, <2>2
<1>4. l # 0 => l \in Counts /\ b[l] = 1
  BY <1>0, <1>2 DEF SlotInv
<1>5. \A j \in Counts : b[j] \in {0, 1} /\ (j > l => b[j] = 0)
  BY <1>0, <1>2 DEF SlotInv
<1> HIDE DEF b
<1>6. SlotInv(m \cup {l - k}, l, b)
  BY <1>3, <1>4, <1>5 DEF SlotInv
<1> QED BY <1>0, <1>6 DEF b

-----------------------------------------------------------------------------
LEMMA InitIInv == Init => IInv
<1> SUFFICES ASSUME Init PROVE IInv
  OBVIOUS
<1>1. TypeOK
  BY TimeAssumption DEF Init, TypeOK
<1>2. ASSUME NEW s \in Slot PROVE SlotInv(nmask[s], nc[s], accepted[s])
  BY WidthAssumption DEF Init, SlotInv, Counts
<1> QED BY <1>1, <1>2 DEF IInv

(* Recording a nonce starts the slot's history anew. *)
LEMMA RecordKeepsIInv ==
  ASSUME NEW s \in Slot, NEW n \in Nonces, IInv, Record(s, n)
  PROVE  /\ nonce' \in [Slot -> Nonces \cup {NoNonce}]
         /\ nc' \in [Slot -> Nat]
         /\ nmask' \in [Slot -> SUBSET (1 .. MaskBits)]
         /\ accepted' \in [Slot -> [Counts -> Nat]]
         /\ \A r \in Slot : SlotInv(nmask'[r], nc'[r], accepted'[r])
<1>1. /\ nonce' \in [Slot -> Nonces \cup {NoNonce}]
      /\ nc' \in [Slot -> Nat]
      /\ nmask' \in [Slot -> SUBSET (1 .. MaskBits)]
      /\ accepted' \in [Slot -> [Counts -> Nat]]
  BY DEF IInv, TypeOK, Record
<1>2. ASSUME NEW r \in Slot PROVE SlotInv(nmask'[r], nc'[r], accepted'[r])
  <2>1. CASE r = s
    <3>1. nmask'[r] = {} /\ nc'[r] = 0 /\ accepted'[r] = [k \in Counts |-> 0]
      BY <2>1 DEF IInv, TypeOK, Record
    <3>2. SlotInv({}, 0, [k \in Counts |-> 0])
      BY WidthAssumption DEF SlotInv, Counts
    <3> QED BY <3>1, <3>2
  <2>2. CASE r # s
    <3>1. nmask'[r] = nmask[r] /\ nc'[r] = nc[r] /\ accepted'[r] = accepted[r]
      BY <2>2 DEF IInv, TypeOK, Record
    <3>2. SlotInv(nmask[r], nc[r], accepted[r])
      BY DEF IInv
    <3> QED BY <3>1, <3>2
  <2> QED BY <2>1, <2>2
<1> QED BY <1>1, <1>2

(* The timestamp of a nonce is a timestamp. *)
LEMMA NonceType ==
  ASSUME NEW c \in Client, NEW t \in Int
  PROVE  <<c, Trim(t)>> \in Nonces /\ SlotOf[<<c, Trim(t)>>] \in Slot
<1>1. Trim(t) \in 0 .. TsMod - 1
  BY TimeAssumption DEF Trim
<1>2. <<c, Trim(t)>> \in Nonces
  BY <1>1 DEF Nonces
<1> QED BY <1>2, SlotAssumption

LEMMA NextIInv == IInv /\ [Next]_vars => IInv'
<1> SUFFICES ASSUME IInv, [Next]_vars PROVE IInv'
  OBVIOUS
<1> USE TimeAssumption
<1>1. CASE UNCHANGED vars
  BY <1>1 DEF IInv, TypeOK, vars, slotvars, clientvars
<1>2. CASE Tick
  BY <1>2 DEF IInv, TypeOK, Tick, slotvars, clientvars
<1>3. ASSUME NEW c \in Client, Challenge(c) PROVE IInv'
  BY <1>3 DEF IInv, TypeOK, Challenge, slotvars
<1>4. ASSUME NEW c \in Client, AddFirst(c) PROVE IInv'
  <2> DEFINE n == <<c, Trim(ts[c])>>
  <2>1. n \in Nonces /\ SlotOf[n] \in Slot
    BY NonceType DEF IInv, TypeOK
  <2>2. now' = now /\ ts' = ts /\ verdict' = verdict
        /\ pc' \in [Client -> {"idle", "first", "clock", "again"}]
        /\ fresh' \in [Client -> BOOLEAN]
        /\ held' \in [Client -> Nonces \cup {NoNonce}]
    BY <1>4, <2>1 DEF IInv, TypeOK, AddFirst
  <2>3. CASE is_slot_available(n, ts[c])
    BY <1>4, <2>1, <2>2, <2>3, RecordKeepsIInv DEF IInv, TypeOK, AddFirst
  <2>4. CASE ~is_slot_available(n, ts[c])
    BY <1>4, <2>2, <2>4 DEF IInv, TypeOK, AddFirst, slotvars
  <2> QED BY <2>3, <2>4
<1>5. ASSUME NEW c \in Client, Again(c) PROVE IInv'
  <2>1. \A d \in 1 .. JumpBack : now - d \in Int
    BY DEF IInv, TypeOK
  <2> QED BY <1>5, <2>1 DEF IInv, TypeOK, Again, slotvars
<1>6. ASSUME NEW c \in Client, AddAgain(c) PROVE IInv'
  <2> DEFINE n == <<c, Trim(ts[c])>>
  <2>1. n \in Nonces /\ SlotOf[n] \in Slot
    BY NonceType DEF IInv, TypeOK
  <2>2. now' = now /\ ts' = ts /\ verdict' = verdict
        /\ pc' \in [Client -> {"idle", "first", "clock", "again"}]
    BY <1>6 DEF IInv, TypeOK, AddAgain
  <2>3. CASE is_slot_available(n, ts[c])
    <3>1. fresh' \in [Client -> BOOLEAN] /\ held' \in [Client -> Nonces \cup {NoNonce}]
      BY <1>6, <2>1, <2>3 DEF IInv, TypeOK, AddAgain
    <3> QED BY <1>6, <2>1, <2>2, <2>3, <3>1, RecordKeepsIInv DEF IInv, TypeOK, AddAgain
  <2>4. CASE ~is_slot_available(n, ts[c])
    BY <1>6, <2>2, <2>4 DEF IInv, TypeOK, AddAgain, slotvars
  <2> QED BY <2>3, <2>4
<1>7. ASSUME NEW c \in Client, NEW k \in Counts, CheckRefused(c, k) PROVE IInv'
  BY <1>7 DEF IInv, TypeOK, CheckRefused, slotvars
<1>8. ASSUME NEW c \in Client, NEW k \in Counts, CheckSlot(c, k) PROVE IInv'
  <2> DEFINE s == SlotOf[held[c]]
  <2>1. held[c] \in Nonces /\ s \in Slot
    BY <1>8, SlotAssumption DEF IInv, TypeOK, CheckSlot
  <2>2. /\ now' = now /\ pc' = pc /\ ts' = ts /\ held' = held
        /\ fresh' \in [Client -> BOOLEAN]
    BY <1>8 DEF IInv, TypeOK, CheckSlot
  <2>3. CASE nonce[s] # held[c]
    <3>1. Mismatch(s, held[c]) \in {"STALE", "WRONG"}
      BY DEF Mismatch
    <3>2. UNCHANGED slotvars /\ verdict' \in [Client -> {"none", "OK", "STALE", "WRONG"}]
      BY <1>8, <2>3, <3>1 DEF IInv, TypeOK, CheckSlot
    <3> QED BY <2>2, <3>2 DEF IInv, TypeOK, slotvars
  <2>4. CASE nonce[s] = held[c] /\ ~CountAdmitted(s, k)
    <3>1. UNCHANGED slotvars /\ verdict' \in [Client -> {"none", "OK", "STALE", "WRONG"}]
      BY <1>8, <2>4 DEF IInv, TypeOK, CheckSlot
    <3> QED BY <2>2, <3>1 DEF IInv, TypeOK, slotvars
  <2>5. CASE nonce[s] = held[c] /\ CountAdmitted(s, k)
    <3>1. /\ verdict' \in [Client -> {"none", "OK", "STALE", "WRONG"}]
          /\ nonce' = nonce
          /\ accepted' = [accepted EXCEPT ![s] = [accepted[s] EXCEPT ![k] = @ + 1]]
      BY <1>8, <2>5 DEF IInv, TypeOK, CheckSlot
    <3>2. accepted' \in [Slot -> [Counts -> Nat]]
          /\ accepted'[s] = [accepted[s] EXCEPT ![k] = @ + 1]
          /\ \A r \in Slot : r # s => accepted'[r] = accepted[r]
      <4>1. accepted[s] \in [Counts -> Nat] /\ accepted \in [Slot -> [Counts -> Nat]]
        BY <2>1 DEF IInv, TypeOK
      <4>2. [accepted[s] EXCEPT ![k] = @ + 1] \in [Counts -> Nat]
        BY <4>1
      <4> QED BY <2>1, <3>1, <4>1, <4>2
    <3>3. /\ SlotInv(nmask[s], nc[s], accepted[s])
          /\ nmask[s] \in SUBSET (1 .. MaskBits) /\ nc[s] \in Nat
          /\ accepted[s] \in [Counts -> Nat]
          /\ k \in Nat
      BY <2>1 DEF IInv, TypeOK, Counts
    <3>4. CASE k > nc[s]
      <4>1. /\ nmask' = [nmask EXCEPT ![s] = ShiftedMask(@, k - nc[s])]
            /\ nc' = [nc EXCEPT ![s] = k]
        BY <1>8, <2>5, <3>4 DEF CheckSlot
      <4>2. ShiftedMask(nmask[s], k - nc[s]) \in SUBSET (1 .. MaskBits)
        <5>1. k - nc[s] \in Nat \ {0}
          BY <3>3, <3>4
        <5> QED BY <3>3, <5>1, ShiftType
      <4>3. SlotInv(nmask'[s], nc'[s], accepted'[s])
        <5>1. nmask'[s] = ShiftedMask(nmask[s], k - nc[s]) /\ nc'[s] = k
          BY <2>1, <4>1 DEF IInv, TypeOK
        <5> QED BY <3>2, <3>3, <3>4, <5>1, JumpKeepsSlot
      <4>4. nmask' \in [Slot -> SUBSET (1 .. MaskBits)] /\ nc' \in [Slot -> Nat]
            /\ \A r \in Slot : r # s => nmask'[r] = nmask[r] /\ nc'[r] = nc[r]
        BY <2>1, <3>3, <4>1, <4>2 DEF IInv, TypeOK
      <4> QED BY <2>2, <3>1, <3>2, <4>3, <4>4 DEF IInv, TypeOK
    <3>5. CASE ~(k > nc[s])
      <4>1. /\ nmask' = [nmask EXCEPT ![s] = @ \cup {nc[s] - k}]
            /\ nc' = nc
        BY <1>8, <2>5, <3>5 DEF CheckSlot
      <4>2. k < nc[s] /\ nc[s] <= k + MaskBits /\ (nc[s] - k) \notin nmask[s]
        BY <2>5, <3>5 DEF CountAdmitted
      <4>3. /\ SlotInv(nmask[s] \cup {nc[s] - k}, nc[s], [accepted[s] EXCEPT ![k] = @ + 1])
            /\ nc[s] - k \in 1 .. MaskBits
        BY <3>3, <4>2, LateKeepsSlot
      <4>4. nmask' \in [Slot -> SUBSET (1 .. MaskBits)]
            /\ nmask'[s] = nmask[s] \cup {nc[s] - k}
            /\ \A r \in Slot : r # s => nmask'[r] = nmask[r]
        BY <2>1, <4>1, <4>3 DEF IInv, TypeOK
      <4> QED BY <2>2, <3>1, <3>2, <4>1, <4>3, <4>4 DEF IInv, TypeOK
    <3> QED BY <3>4, <3>5
  <2> QED BY <2>3, <2>4, <2>5
<1> QED BY <1>1, <1>2, <1>3, <1>4, <1>5, <1>6, <1>7, <1>8 DEF Next

-----------------------------------------------------------------------------
(* The inductive invariant holds of every behaviour. *)
THEOREM Invariance == Spec => []IInv
BY InitIInv, NextIInv, PTL DEF Spec

(* Type correctness: the mask of check_nonce_nc() never has a bit beyond its *)
(* width, whatever jumps the nonce counts of a client make.                 *)
THEOREM TypeCorrect == Spec => []TypeOK
<1>1. IInv => TypeOK
  BY DEF IInv
<1> QED BY <1>1, Invariance, PTL

(* check_nonce_nc() accepts every count of a recorded nonce at most once.   *)
THEOREM CountsAcceptedOnce == Spec => []AcceptedOnce
<1>1. IInv => AcceptedOnce
  BY DEF IInv, SlotInv, AcceptedOnce
<1> QED BY <1>1, Invariance, PTL

(* The mask tells exactly which counts within its width were accepted: none *)
(* of the client's counts that are still acceptable is refused.             *)
THEOREM MaskIsExact == Spec => []MaskExact
<1>1. IInv => MaskExact
  BY DEF IInv, SlotInv, MaskExact
<1> QED BY <1>1, Invariance, PTL

-----------------------------------------------------------------------------
(***************************************************************************)
(* A nonce that was recorded keeps its slot until its first use.           *)
(***************************************************************************)

\* The clock has not reached the wrap of the timestamps.
NoWrap == TimeEnd < TsMod

\* What is known about a client: its clock values are not ahead of the clock,
\* the nonce it holds was made for it, and the slot of a nonce that it has not
\* used yet has not seen any count.
ClientInv(c) ==
  /\ ts[c] \in 0 .. now
  /\ held[c] # NoNonce => held[c][1] = c /\ held[c][2] <= now
  /\ fresh[c] => held[c] # NoNonce
  /\ (fresh[c] /\ nonce[SlotOf[held[c]]] = held[c]) => nc[SlotOf[held[c]]] = 0

FreshInv == JumpBack <= now /\ \A c \in Client : ClientInv(c)

LEMMA TrimSmall ==
  ASSUME NEW x \in 0 .. TsMod - 1
  PROVE  Trim(x) = x
BY TimeAssumption, Z3 DEF Trim

(* Recording the nonce of one client leaves the others' unused nonces alone *)
(* or takes their slot.                                                     *)
LEMMA RecordKeepsFresh ==
  ASSUME IInv, FreshInv, NoWrap, NEW c \in Client, NEW n \in Nonces, n = <<c, Trim(ts[c])>>,
         Record(SlotOf[n], n), held' = [held EXCEPT ![c] = n],
         fresh' = [fresh EXCEPT ![c] = TRUE], UNCHANGED <<now, ts>>
  PROVE  FreshInv'
<1> DEFINE s == SlotOf[n]
<1>1. s \in Slot
  BY SlotAssumption
<1>2. nonce'[s] = n /\ nc'[s] = 0 /\ \A r \in Slot : r # s => nonce'[r] = nonce[r] /\ nc'[r] = nc[r]
  BY <1>1 DEF IInv, TypeOK, Record
<1>3. now \in 0 .. TimeEnd /\ ts[c] \in 0 .. now
  BY DEF IInv, TypeOK, FreshInv, ClientInv
<1>4. Trim(ts[c]) = ts[c]
  <2>1. ts[c] \in 0 .. TsMod - 1
    BY <1>3, TimeAssumption DEF NoWrap
  <2> QED BY <2>1, TrimSmall
<1>5. n[1] = c /\ n[2] = ts[c] /\ n # NoNonce
  BY <1>4, SlotAssumption
<1>6. ASSUME NEW x \in Client PROVE ClientInv(x)'
  <2>1. CASE x = c
    <3>1. held'[x] = n
      BY <2>1 DEF IInv, TypeOK
    <3> QED BY <1>2, <1>3, <1>5, <2>1, <3>1 DEF ClientInv
  <2>2. CASE x # c
    <3>1. held'[x] = held[x] /\ fresh'[x] = fresh[x] /\ ClientInv(x)
      BY <2>2 DEF IInv, TypeOK, FreshInv
    <3>2. (fresh[x] /\ nonce'[SlotOf[held[x]]] = held[x]) => nc'[SlotOf[held[x]]] = 0
      <4> SUFFICES ASSUME fresh[x], nonce'[SlotOf[held[x]]] = held[x] PROVE nc'[SlotOf[held[x]]] = 0
        OBVIOUS
      <4>1. held[x] \in Nonces /\ SlotOf[held[x]] \in Slot
        BY <3>1, SlotAssumption DEF ClientInv, IInv, TypeOK
      <4> QED BY <1>2, <3>1, <4>1 DEF ClientInv
    <3> QED BY <3>1, <3>2 DEF ClientInv
  <2> QED BY <2>1, <2>2
<1> QED BY <1>6 DEF FreshInv

LEMMA FreshStep == NoWrap /\ IInv /\ FreshInv /\ [Next]_vars => FreshInv'
<1> SUFFICES ASSUME NoWrap, IInv, FreshInv, [Next]_vars PROVE FreshInv'
  OBVIOUS
<1>t. /\ now \in 0 .. TimeEnd /\ JumpBack \in Nat /\ JumpBack <= now /\ TimeEnd \in Nat
      /\ held \in [Client -> Nonces \cup {NoNonce}] /\ fresh \in [Client -> BOOLEAN]
      /\ ts \in [Client -> Int] /\ nonce \in [Slot -> Nonces \cup {NoNonce}] /\ nc \in [Slot -> Nat]
  BY TimeAssumption DEF IInv, TypeOK, FreshInv
<1>n. \A c \in Client : ClientInv(c)
  BY DEF FreshInv
<1>1. CASE UNCHANGED vars
  BY <1>1, <1>t, <1>n DEF FreshInv, ClientInv, vars, slotvars, clientvars
<1>2. CASE Tick
  <2>1. now' = now + 1 /\ UNCHANGED <<nonce, nc, ts, held, fresh>>
    BY <1>2 DEF Tick, slotvars, clientvars
  <2>2. ASSUME NEW c \in Client PROVE ClientInv(c)'
    <3>1. ts'[c] \in 0 .. now'
      BY <1>t, <1>n, <2>1 DEF ClientInv
    <3>2. held[c] # NoNonce => held[c][2] <= now'
      <4>1. held[c] # NoNonce => held[c][2] \in Int
        BY <1>t, TimeAssumption DEF Nonces
      <4> QED BY <1>t, <1>n, <2>1, <4>1 DEF ClientInv
    <3> QED BY <1>n, <2>1, <3>1, <3>2 DEF ClientInv
  <2> QED BY <1>t, <2>1, <2>2 DEF FreshInv
<1>3. ASSUME NEW c \in Client, Challenge(c) PROVE FreshInv'
  <2>1. ts' = [ts EXCEPT ![c] = now] /\ UNCHANGED <<now, nonce, nc, held, fresh>>
    BY <1>3 DEF Challenge, slotvars
  <2>2. \A x \in Client : ts'[x] \in 0 .. now
    BY <1>t, <1>n, <2>1 DEF ClientInv
  <2> QED BY <1>t, <1>n, <2>1, <2>2 DEF FreshInv, ClientInv
<1>4. ASSUME NEW c \in Client, AddFirst(c) \/ AddAgain(c) PROVE FreshInv'
  <2> DEFINE n == <<c, Trim(ts[c])>>
  <2>1. n \in Nonces /\ UNCHANGED <<now, ts>>
    BY <1>4, <1>t, NonceType DEF AddFirst, AddAgain
  <2>2. CASE is_slot_available(n, ts[c])
    <3>1. Record(SlotOf[n], n) /\ held' = [held EXCEPT ![c] = n] /\ fresh' = [fresh EXCEPT ![c] = TRUE]
      BY <1>4, <2>2 DEF AddFirst, AddAgain
    <3> QED BY <2>1, <3>1, RecordKeepsFresh
  <2>3. CASE ~is_slot_available(n, ts[c])
    <3>1. CASE AddFirst(c)
      <4>1. held' = [held EXCEPT ![c] = n] /\ fresh' = [fresh EXCEPT ![c] = FALSE] /\ UNCHANGED <<nonce, nc>>
        BY <2>3, <3>1 DEF AddFirst, slotvars
      <4>2. n # NoNonce /\ n[1] = c /\ n[2] <= now
        <5>1. ts[c] \in 0 .. TsMod - 1
          BY <1>t, <1>n, TimeAssumption DEF NoWrap, ClientInv
        <5>2. n[2] = ts[c]
          BY <5>1, TrimSmall
        <5> QED BY <1>n, <2>1, <5>2, SlotAssumption DEF ClientInv
      <4> HIDE DEF n
      <4>3. ASSUME NEW x \in Client PROVE ClientInv(x)'
        <5>1. CASE x = c
          <6>1. held'[x] = n /\ fresh'[x] = FALSE
            BY <1>t, <4>1, <5>1
          <6> QED BY <1>n, <2>1, <4>2, <5>1, <6>1 DEF ClientInv
        <5>2. CASE x # c
          <6>1. held'[x] = held[x] /\ fresh'[x] = fresh[x]
            BY <1>t, <4>1, <5>2
          <6> QED BY <1>n, <2>1, <4>1, <6>1 DEF ClientInv
        <5> QED BY <5>1, <5>2
      <4> QED BY <1>t, <2>1, <4>3 DEF FreshInv
    <3>2. CASE AddAgain(c)
      <4>1. UNCHANGED <<nonce, nc, held, fresh>>
        BY <2>3, <3>2 DEF AddAgain, slotvars
      <4> QED BY <1>t, <1>n, <2>1, <4>1 DEF FreshInv, ClientInv
    <3> QED BY <1>4, <3>1, <3>2
  <2> QED BY <2>2, <2>3
<1>5. ASSUME NEW c \in Client, Again(c) PROVE FreshInv'
  <2>1. PICK t \in (IF now # ts[c] THEN {now} ELSE {now - d : d \in 1 .. JumpBack}) : ts' = [ts EXCEPT ![c] = t]
    BY <1>5 DEF Again
  <2>2. t \in 0 .. now
    BY <1>t, <2>1
  <2>3. UNCHANGED <<now, nonce, nc, held, fresh>>
    BY <1>5 DEF Again, slotvars
  <2>4. \A x \in Client : ts'[x] \in 0 .. now
    BY <1>t, <1>n, <2>1, <2>2 DEF ClientInv
  <2> QED BY <1>t, <1>n, <2>3, <2>4 DEF FreshInv, ClientInv
<1>6. ASSUME NEW c \in Client, NEW k \in Counts, CheckRefused(c, k) PROVE FreshInv'
  BY <1>6, <1>t, <1>n DEF CheckRefused, FreshInv, ClientInv, slotvars
<1>7. ASSUME NEW c \in Client, NEW k \in Counts, CheckSlot(c, k) PROVE FreshInv'
  <2> DEFINE s == SlotOf[held[c]]
  <2>1. held[c] \in Nonces /\ s \in Slot
    BY <1>7, <1>t, SlotAssumption DEF CheckSlot
  <2>2. UNCHANGED <<now, ts, held>> /\ fresh' = [fresh EXCEPT ![c] = FALSE]
    BY <1>7 DEF CheckSlot
  <2>3. nonce' = nonce /\ (nonce[s] = held[c] \/ nc' = nc) /\ \A r \in Slot : r # s => nc'[r] = nc[r]
    <3>1. nonce' = nonce /\ (nonce[s] = held[c] \/ nc' = nc)
      BY <1>7 DEF CheckSlot, slotvars
    <3>2. nc' = nc \/ nc' = [nc EXCEPT ![s] = k]
      BY <1>7 DEF CheckSlot, slotvars
    <3> QED BY <1>t, <3>1, <3>2
  <2>4. ASSUME NEW x \in Client PROVE ClientInv(x)'
    <3>1. CASE x = c
      <4>1. fresh'[x] = FALSE
        BY <1>t, <2>2, <3>1
      <4> QED BY <1>n, <2>2, <4>1 DEF ClientInv
    <3>2. CASE x # c
      <4>1. fresh'[x] = fresh[x]
        BY <1>t, <2>2, <3>2
      <4>2. (fresh[x] /\ nonce[SlotOf[held[x]]] = held[x]) => nc'[SlotOf[held[x]]] = 0
        <5> SUFFICES ASSUME fresh[x], nonce[SlotOf[held[x]]] = held[x] PROVE nc'[SlotOf[held[x]]] = 0
          OBVIOUS
        <5>1. held[x] # NoNonce /\ nc[SlotOf[held[x]]] = 0 /\ held[x][1] = x
          BY <1>n DEF ClientInv
        <5>2. SlotOf[held[x]] \in Slot
          BY <1>t, <5>1, SlotAssumption
        <5>3. held[c] # held[x]
          <6>1. held[c] # NoNonce
            BY <2>1, SlotAssumption
          <6> QED BY <1>n, <3>2, <5>1, <6>1 DEF ClientInv
        <5> QED BY <2>3, <5>1, <5>2, <5>3
      <4> QED BY <1>n, <2>2, <2>3, <4>1, <4>2 DEF ClientInv
    <3> QED BY <3>1, <3>2
  <2> QED BY <1>t, <2>2, <2>4 DEF FreshInv
<1> QED BY <1>1, <1>2, <1>3, <1>4, <1>5, <1>6, <1>7 DEF Next

(* Only a nonce for which is_slot_available() finds the old one too old, or  *)
(* one made with an earlier clock value, takes the slot of an unused nonce.  *)
LEMMA TakenRightly ==
  ASSUME NoWrap, IInv, FreshInv, NEW c \in Client, NEW d \in Client, AddFirst(d) \/ AddAgain(d),
         fresh[c], nonce[SlotOf[held[c]]] = held[c], nonce'[SlotOf[held[c]]] # held[c]
  PROVE  \/ Trim(now - held[c][2]) > ReuseTimeout
         \/ nonce'[SlotOf[held[c]]][2] < held[c][2]
<1> DEFINE n == <<d, Trim(ts[d])>>
           kept == held[c]
           s == SlotOf[kept]
<1>1. /\ kept \in Nonces /\ kept # NoNonce /\ s \in Slot /\ nc[s] = 0 /\ kept[2] <= now /\ ts[d] \in 0 .. now
      /\ now \in 0 .. TimeEnd
  <2>1. kept # NoNonce /\ nc[s] = 0 /\ kept[2] <= now
    BY DEF FreshInv, ClientInv
  <2>2. kept \in Nonces /\ now \in 0 .. TimeEnd
    BY <2>1 DEF IInv, TypeOK
  <2>3. ts[d] \in 0 .. now
    BY DEF FreshInv, ClientInv
  <2> QED BY <2>1, <2>2, <2>3, SlotAssumption
<1>2. n \in Nonces /\ SlotOf[n] \in Slot
  <2>1. ts[d] \in Int
    BY DEF IInv, TypeOK
  <2> QED BY <2>1, NonceType
<1>3. is_slot_available(n, ts[d]) /\ Record(SlotOf[n], n)
  BY DEF AddFirst, AddAgain, slotvars
<1>4. SlotOf[n] = s /\ nonce'[s] = n
  BY <1>1, <1>2, <1>3 DEF Record, IInv, TypeOK
<1>5. ReuseTimeout < Trim(ts[d] - kept[2])
  BY <1>1, <1>3, <1>4 DEF is_slot_available
<1>6. kept[2] \in 0 .. TsMod - 1
  BY <1>1 DEF Nonces
<1>7. n[2] = ts[d]
  <2>1. ts[d] \in 0 .. TsMod - 1
    BY <1>1, TimeAssumption DEF NoWrap
  <2> QED BY <2>1, TrimSmall
<1> HIDE DEF n, kept, s
<1>8. CASE kept[2] <= ts[d]
  <2>1. ts[d] - kept[2] \in 0 .. TsMod - 1 /\ now - kept[2] \in 0 .. TsMod - 1 /\ ts[d] - kept[2] <= now - kept[2]
    BY <1>1, <1>6, <1>8, TimeAssumption DEF NoWrap
  <2>2. Trim(ts[d] - kept[2]) = ts[d] - kept[2] /\ Trim(now - kept[2]) = now - kept[2]
    BY <2>1, TrimSmall
  <2>3. Trim(now - kept[2]) > ReuseTimeout
    BY <1>1, <1>5, <1>6, <2>1, <2>2, TimeAssumption
  <2> QED BY <2>3 DEF kept
<1>9. CASE ts[d] < kept[2]
  BY <1>4, <1>7, <1>9 DEF kept, s
<1> QED BY <1>1, <1>6, <1>8, <1>9, TimeAssumption

(* A nonce that was recorded keeps its slot until its first use, whatever    *)
(* other clients sharing the slot do, until it is older than REUSE_TIMEOUT   *)
(* or a nonce made with an earlier clock value takes the slot.               *)
THEOREM FreshNoncesKept == NoWrap => (Spec => FreshKept)
<1> SUFFICES ASSUME NoWrap PROVE Spec => FreshKept
  OBVIOUS
<1> DEFINE Kept(c) == (fresh[c] /\ nonce[SlotOf[held[c]]] = held[c] /\ nonce'[SlotOf[held[c]]] # held[c])
                        => \/ Trim(now - held[c][2]) > ReuseTimeout
                           \/ nonce'[SlotOf[held[c]]][2] < held[c][2]
           Step == \A c \in Client : Kept(c)
<1>1. Init => FreshInv
  BY TimeAssumption DEF Init, FreshInv, ClientInv
<1>2. IInv /\ FreshInv /\ [Next]_vars => FreshInv'
  BY FreshStep
<1>3. ASSUME IInv, FreshInv, Next PROVE Step
  <2>1. CASE UNCHANGED nonce
    BY <2>1
  <2>2. ASSUME NEW d \in Client, AddFirst(d) \/ AddAgain(d) PROVE Step
    BY <1>3, <2>2, TakenRightly
  <2>3. ASSUME NEW d \in Client, NEW k \in Counts, CheckSlot(d, k) PROVE UNCHANGED nonce
    BY <2>3 DEF CheckSlot, slotvars
  <2> QED BY <1>3, <2>1, <2>2, <2>3 DEF Next, Tick, Challenge, Again, CheckRefused, slotvars
<1>4. IInv /\ FreshInv /\ [Next]_vars => [Step]_vars
  BY <1>3
<1>5. Spec => [][Step]_vars
  BY <1>1, <1>2, <1>4, InitIInv, NextIInv, PTL DEF Spec
<1>6. FreshKept <=> [][Step]_vars
  BY DEF FreshKept
<1> QED BY <1>5, <1>6

(***************************************************************************)
(* DigestCheck: the invariant.                                             *)
(***************************************************************************)

Steps ==
  {"idle", "setup", "presence", "username", "count", "nonce", "uri", "a1", "response",
   "hash_nonce", "hash_nc", "hash_cnonce", "hash_qop", "compare", "bind"}
AfterPresence == Steps \ {"idle", "setup", "presence"}
AfterName == AfterPresence \ {"username"}
AfterCount == AfterName \ {"count"}
AfterNonce == AfterCount \ {"nonce"}
AfterUri == AfterNonce \ {"uri"}
AfterResponse == AfterUri \ {"a1", "response"}

\* A buffer from malloc(), or none, and how many there are.
Allocated(t, n) ==
  /\ t \in {NULL} \cup [size : 0 .. MaxParam, text : Check!Texts]
  /\ n = IF t = NULL THEN 0 ELSE 1

CheckTyped ==
  /\ app \in Apps /\ (h # NULL => Check!Parsed(h)) /\ requests \in Nat
  /\ check_pc \in Steps /\ result \in Check!Results \cup {NULL}
  /\ luck \in BOOLEAN /\ spent \in BOOLEAN /\ outside = FALSE
  /\ Allocated(tmp2, heap) /\ (check_pc = "idle" => tmp2 = NULL)
  /\ hash \in [one : Seq(Check!Texts), two : Seq(Check!Texts)]

\* What the quick checks of presence and size have established.
Present ==
  /\ Check!Has("username") # Check!Has("username_ext")
  /\ Check!Has("username_ext") => Check!P("username_ext").len >= ExtMin
  /\ h.userhash => Check!Has("username") /\ Check!P("username").len \in 2 * DigestSize..4 * DigestSize
  /\ Check!Has("realm") /\ ~ Check!Wrong("realm") /\ Check!P("realm").len > 0
  /\ h.qop # "NONE" => /\ Check!Has("nc") /\ Check!P("nc").len \in 1..4 * NcLen
                       /\ Check!Has("cnonce") /\ Check!P("cnonce").len > 0 /\ Check!P("cnonce").len <= MaxParam
  /\ Check!Has("uri") /\ Check!P("uri").len > 0 /\ Check!P("uri").len <= MaxParam
  /\ Check!Has("nonce") /\ Check!P("nonce").len \in 1..2 * StdLen
  /\ Check!Has("response") /\ Check!P("response").len \in 1..4 * DigestSize
  /\ Check!Has("username") /\ ~ h.userhash => ~ Check!Wrong("username") /\ Check!P("username").len > 0

\* What has been found to be right when a step is reached.
Found ==
  /\ check_pc # "idle" => result = NULL /\ (spent <=> check_pc \in AfterNonce)
  /\ check_pc \notin {"idle", "setup"} =>
       /\ h # NULL /\ h.algo = "BASE" /\ "BASE" \in app.algos
       /\ h.qop = "INVALID" \/ (h.qop \in app.qops /\ h.qop # "AUTH_INT")
  /\ check_pc \in AfterPresence => Present
  /\ check_pc \in AfterName =>
       ~ Check!Wrong("username") /\ (Check!Has("username_ext") => ~ Check!Wrong("ext_notation"))
  /\ check_pc \in AfterCount /\ h.qop # "NONE" =>
       ~ Check!Wrong("nc") /\ (app.max_nc = 0 \/ h.count <= app.max_nc)
  /\ check_pc \in AfterNonce => ~ Check!Wrong("nonce_form") /\ ~ Check!Wrong("nonce_age") /\ ~ Check!Wrong("nonce")
  /\ check_pc \in AfterUri => ~ Check!Wrong("uri") /\ h.args = app.args
  /\ check_pc \in AfterResponse => ~ Check!Wrong("response_hex")
  /\ check_pc = "bind" => ~ Check!Wrong("response")
  /\ check_pc \in {"hash_nc", "hash_cnonce", "hash_qop"} => h.qop # "NONE"

Clean == [ready |-> TRUE, hashing |-> FALSE, input |-> <<>>]
AtEnd == [ready |-> ~ app.has_finish, hashing |-> FALSE, input |-> <<>>]
Fed(s) == [ready |-> TRUE, hashing |-> TRUE, input |-> s]
FedNonce == <<"H(A1)">> \o <<"nonce">>
FedNc == FedNonce \o <<"nc">>
FedCnonce == FedNc \o <<"cnonce">>
FedQop == FedCnonce \o <<"qop">>

\* What has been given to the digest, and what is in the two buffers for hashes.
Feeding ==
  /\ check_pc \in {"presence", "username", "count", "nonce", "uri"} => da = Clean
  /\ check_pc \in {"a1", "bind"} => da = AtEnd
  /\ check_pc \in {"response", "hash_nonce"} => da = Fed(<<"H(A1)">>)
  /\ check_pc = "hash_nc" => da = Fed(FedNonce)
  /\ check_pc = "hash_cnonce" => da = Fed(FedNc)
  /\ check_pc = "hash_qop" => da = Fed(FedCnonce)
  /\ check_pc = "compare" => da = Fed(IF h.qop = "NONE" THEN FedNonce ELSE FedQop)
  /\ check_pc \in AfterUri \ {"bind"} => hash.two = <<"method", "uri">>
  /\ check_pc \in AfterResponse => hash.one = <<"response">>
  /\ failed \subseteq Check!KnownFailures

CheckInv == CheckTyped /\ Found /\ Feeding /\ Check!Authentic /\ Check!CountSpentLate

-----------------------------------------------------------------------------
(* Sequences of texts.                                                     *)

\* A set of natural numbers has a least member.
LEMMA LeastOf == ASSUME NEW T, T \subseteq Nat, T # {} PROVE \E x \in T : \A y \in T : x <= y
<1>1. PICK x \in T : \A y \in T : ~ (<<y, x>> \in OpToRel(<, Nat))
  BY WFMin, NatLessThanWellFounded
<1>2. \A y \in T : ~ (y < x)
  BY <1>1 DEF OpToRel
<1> QED  BY <1>2

LEMMA OneText == ASSUME NEW S, NEW a \in S PROVE <<a>> \in Seq(S) /\ <<>> \o <<a>> = <<a>>
<1>1. <<a>> \in Seq(S)
  OBVIOUS
<1> QED  BY <1>1, ConcatEmptySeq

LEMMA TwoTexts ==
  ASSUME NEW S, NEW a \in S, NEW b \in S
  PROVE  <<a, b>> \in Seq(S) /\ <<>> \o <<a, b>> = <<a, b>> /\ <<a>> \o <<b>> = <<a, b>>
<1>1. <<a, b>> \in Seq(S) /\ <<a>> \in Seq(S) /\ <<b>> \in Seq(S)
  OBVIOUS
<1>2. <<a>> \o <<b>> \in Seq(S) /\ Len(<<a>> \o <<b>>) = Len(<<a, b>>)
  BY <1>1
<1>3. ASSUME NEW i \in 1 .. Len(<<a>> \o <<b>>) PROVE (<<a>> \o <<b>>)[i] = <<a, b>>[i]
  <2>1. i = 1 \/ i = 2
    BY <1>1
  <2> QED  BY <1>1, <2>1
<1>4. <<a>> \o <<b>> = <<a, b>>
  BY <1>1, <1>2, <1>3, SeqEqual
<1> QED  BY <1>1, <1>4, ConcatEmptySeq

LEMMA ThreeTexts ==
  ASSUME NEW S, NEW a \in S, NEW b \in S, NEW c \in S
  PROVE  <<a, b, c>> \in Seq(S) /\ <<>> \o <<a, b, c>> = <<a, b, c>>
         /\ (<<a>> \o <<b>>) \o <<c>> = <<a, b, c>>
<1>1. <<a, b, c>> \in Seq(S) /\ <<a, b>> \in Seq(S) /\ <<c>> \in Seq(S)
  OBVIOUS
<1>2. <<a, b>> \o <<c>> \in Seq(S) /\ Len(<<a, b>> \o <<c>>) = Len(<<a, b, c>>)
  BY <1>1
<1>3. ASSUME NEW i \in 1 .. Len(<<a, b>> \o <<c>>) PROVE (<<a, b>> \o <<c>>)[i] = <<a, b, c>>[i]
  <2>1. i = 1 \/ i = 2 \/ i = 3
    BY <1>1
  <2> QED  BY <1>1, <2>1
<1>4. <<a, b>> \o <<c>> = <<a, b, c>>
  BY <1>1, <1>2, <1>3, SeqEqual
<1> QED  BY <1>1, <1>4, TwoTexts, ConcatEmptySeq

\* Nonce, count, client nonce and qop have been fed one by one, and nothing else.
LEMMA AsExpected ==
  /\ FedNonce \in Seq(Check!Texts) /\ FedQop \in Seq(Check!Texts)
  /\ h.qop = "NONE" => FedNonce \o <<"H(A2)">> = Check!Expected
  /\ h.qop # "NONE" => FedQop \o <<"H(A2)">> = Check!Expected
<1> DEFINE a == <<"H(A1)">>
           n == <<"nonce">>
           c == <<"nc">>
           d == <<"cnonce">>
           q == <<"qop">>
<1>1. a \in Seq(Check!Texts) /\ n \in Seq(Check!Texts) /\ c \in Seq(Check!Texts) /\ d \in Seq(Check!Texts) /\ q \in Seq(Check!Texts)
  <2>1. "H(A1)" \in Check!Texts /\ "nonce" \in Check!Texts /\ "nc" \in Check!Texts /\ "cnonce" \in Check!Texts /\ "qop" \in Check!Texts
    BY DEF Check!Texts
  <2> QED  BY <2>1, OneText
<1>2. a \o n = <<"H(A1)", "nonce">> /\ (c \o d) \o q = <<"nc", "cnonce", "qop">>
  <2>1. "H(A1)" \in Check!Texts /\ "nonce" \in Check!Texts /\ "nc" \in Check!Texts /\ "cnonce" \in Check!Texts /\ "qop" \in Check!Texts
    BY DEF Check!Texts
  <2> QED  BY <2>1, TwoTexts, ThreeTexts
<1>3. FedNonce = a \o n /\ FedQop = (((a \o n) \o c) \o d) \o q
  BY DEF FedNonce, FedNc, FedCnonce, FedQop
<1> HIDE DEF a, n, c, d, q
<1>4. a \o n \in Seq(Check!Texts)
  BY <1>1, ConcatProperties
<1> DEFINE an == a \o n
<1>5. an \in Seq(Check!Texts)
  BY <1>4
<1> HIDE DEF an
<1>6. ((an \o c) \o d) \o q = an \o ((c \o d) \o q)
  <2>1. an \o c \in Seq(Check!Texts) /\ c \o d \in Seq(Check!Texts)
    BY <1>1, <1>5, ConcatProperties
  <2>2. \A s1, s2, s3 \in Seq(Check!Texts) : (s1 \o s2) \o s3 = s1 \o (s2 \o s3)
    BY ConcatAssociative
  <2> DEFINE cd == c \o d
  <2>3. cd \in Seq(Check!Texts)
    BY <2>1
  <2>4. (an \o c) \o d = an \o cd
    <3>1. c \in Seq(Check!Texts) /\ d \in Seq(Check!Texts)
      BY <1>1
    <3> QED  BY <1>5, <2>2, <3>1, ZenonT(60)
  <2> HIDE DEF cd
  <2>5. (an \o cd) \o q = an \o (cd \o q)
    <3>1. q \in Seq(Check!Texts)
      BY <1>1
    <3> QED  BY <1>5, <2>2, <2>3, <3>1, ZenonT(60)
  <2> QED  BY <2>4, <2>5 DEF cd
<1>7. FedQop = <<"H(A1)", "nonce">> \o <<"nc", "cnonce", "qop">> /\ FedNonce = <<"H(A1)", "nonce">>
  BY <1>2, <1>3, <1>6 DEF an
<1>8. FedQop \in Seq(Check!Texts)
  <2>1. (c \o d) \o q \in Seq(Check!Texts)
    BY <1>1, ConcatProperties
  <2> QED  BY <2>1, <1>2, <1>7, <1>4, <1>3, ConcatProperties
<1>9. <<"H(A1)", "nonce">> \o <<>> = <<"H(A1)", "nonce">>
  BY <1>2, <1>4, ConcatEmptySeq
<1> QED  BY <1>3, <1>4, <1>7, <1>8, <1>9 DEF Check!Expected

-----------------------------------------------------------------------------
(* Buffers.                                                                *)

LEMMA NullIsNone ==
  ASSUME Check!NullAssumption
  PROVE  /\ "tmp1" # NULL /\ "tmp2" # NULL /\ \A r \in Check!Results : r # NULL
         /\ \A t \in [size : 0 .. MaxParam, text : Check!Texts] : t # NULL
BY DEF Check!NullAssumption

\* What get_buffer_for_size() gives: a buffer that is large enough, or none.
Fits(b, size) ==
  /\ b.at \in {NULL, "tmp1", "tmp2"} /\ Allocated(b.tmp2, b.heap)
  /\ b.at = "tmp2" => b.tmp2 # NULL
  /\ b.at # NULL => size <= Check!SizeOf(b)
  /\ b.at = NULL => size > StaticSize

LEMMA BufferFits ==
  ASSUME Check!SizeAssumption, Check!NullAssumption, CheckTyped, NEW size \in Nat,
         NEW b \in Check!get_buffer_for_size(size)
  PROVE  Fits(b, size)
<1>1. StaticSize \in Nat /\ MaxParam \in Nat /\ StaticSize < MaxParam
  BY DEF Check!SizeAssumption
<1>2. Allocated(tmp2, heap)
  BY DEF CheckTyped
<1>3. tmp2 # NULL => tmp2.size \in 0 .. MaxParam
  BY <1>2 DEF Allocated
<1>4. CASE size <= StaticSize
  BY <1>1, <1>2, <1>4, NullIsNone DEF Check!get_buffer_for_size, Fits, Check!SizeOf
<1>5. CASE size > StaticSize /\ tmp2 # NULL /\ size <= tmp2.size
  <2>1. b = [at |-> "tmp2", tmp2 |-> tmp2, heap |-> heap]
    BY <1>1, <1>5 DEF Check!get_buffer_for_size
  <2> QED  BY <1>2, <1>5, <2>1, NullIsNone DEF Fits, Check!SizeOf
<1>6. CASE size > StaticSize /\ ~ (tmp2 # NULL /\ size <= tmp2.size) /\ size > MaxParam
  <2>1. b = [at |-> NULL, tmp2 |-> tmp2, heap |-> heap]
    BY <1>1, <1>6 DEF Check!get_buffer_for_size
  <2> QED  BY <1>2, <1>6, <2>1, NullIsNone DEF Fits
<1>7. CASE size > StaticSize /\ ~ (tmp2 # NULL /\ size <= tmp2.size) /\ size <= MaxParam
  <2> DEFINE rest == IF tmp2 = NULL THEN heap ELSE heap - 1
             new == [size |-> size, text |-> "none"]
  <2>1. rest = 0
    BY <1>2 DEF Allocated
  <2>2. \/ b = [at |-> NULL, tmp2 |-> NULL, heap |-> rest]
        \/ b = [at |-> "tmp2", tmp2 |-> new, heap |-> rest + 1]
    BY <1>1, <1>7 DEF Check!get_buffer_for_size
  <2>3. new \in [size : 0 .. MaxParam, text : Check!Texts] /\ new.size = size
    BY <1>1, <1>7 DEF Check!Texts
  <2>4. new # NULL
    BY <2>3, NullIsNone
  <2> HIDE DEF new, rest
  <2>5. CASE b = [at |-> NULL, tmp2 |-> NULL, heap |-> rest]
    BY <1>7, <2>1, <2>5, NullIsNone DEF Fits, Allocated
  <2>6. CASE b = [at |-> "tmp2", tmp2 |-> new, heap |-> rest + 1]
    <3>1. b.at = "tmp2" /\ b.tmp2 = new /\ b.heap = 1
      BY <2>1, <2>6
    <3>2. Allocated(b.tmp2, b.heap)
      BY <3>1, <2>3, <2>4 DEF Allocated
    <3>3. Check!SizeOf(b) = size
      BY <3>1, <2>3 DEF Check!SizeOf
    <3> QED  BY <3>1, <3>2, <3>3, <2>4, NullIsNone DEF Fits
  <2> QED  BY <2>2, <2>5, <2>6
<1> QED  BY <1>1, <1>3, <1>4, <1>5, <1>6, <1>7

\* The text is written within the buffer, and read again from where it is.
LEMMA Written ==
  ASSUME Check!NullAssumption, NEW b, NEW size, Fits(b, size), b.at # NULL, outside = FALSE,
         NEW n, n <= Check!SizeOf(b), Check!SizeOf(b) \in Nat, n \in Int, NEW text \in Check!Texts, Check!Write(b, text, n)
  PROVE  /\ Allocated(tmp2', heap') /\ outside' = FALSE /\ Check!ReadAt(ref', text) = text
<1>1. b.at = "tmp1" \/ b.at = "tmp2"
  BY DEF Fits
<1>2. outside' = FALSE
  <2>1. ~ (n > Check!SizeOf(b))
    OBVIOUS
  <2>2. outside' = (outside \/ n > Check!SizeOf(b))
    BY DEF Check!Write
  <2> QED  BY <2>1, <2>2, Zenon
<1>3. CASE b.at = "tmp1"
  BY <1>2, <1>3 DEF Check!Write, Fits, Check!ReadAt
<1>4. CASE b.at = "tmp2"
  <2>1. b.tmp2 \in [size : 0 .. MaxParam, text : Check!Texts] /\ b.heap = 1
    BY <1>4 DEF Fits, Allocated
  <2>2. tmp2' = [b.tmp2 EXCEPT !.text = text] /\ heap' = b.heap /\ ref' = "tmp2"
    BY <1>4 DEF Check!Write
  <2>3. tmp2' \in [size : 0 .. MaxParam, text : Check!Texts] /\ tmp2'.text = text
    BY <2>1, <2>2
  <2>4. tmp2' # NULL
    BY <2>3, NullIsNone
  <2> QED  BY <1>2, <2>1, <2>2, <2>3, <2>4 DEF Allocated, Check!ReadAt
<1> QED  BY <1>1, <1>3, <1>4

\* get_unquoted_param(): a value is read as it was sent, from the header or from the
\* buffer it has been written to.
LEMMA UnquoteFits ==
  ASSUME Check!SizeAssumption, Check!NullAssumption, CheckTyped, NEW p, Check!P(p).len \in Nat, Check!P(p).quoted \in BOOLEAN,
         NEW b \in Check!UnquoteBuffers(p)
  PROVE  /\ Check!P(p).quoted => Fits(b, Check!P(p).len)
         /\ ~ Check!P(p).quoted => b = [at |-> "tmp1", tmp2 |-> tmp2, heap |-> heap]
         /\ Allocated(b.tmp2, b.heap) /\ b.at \in {NULL, "tmp1", "tmp2"}
         /\ b.at = NULL => Check!P(p).len > StaticSize
<1>1. CASE Check!P(p).quoted
  <2>1. b \in Check!get_buffer_for_size(Check!P(p).len)
    BY <1>1 DEF Check!UnquoteBuffers
  <2>2. Fits(b, Check!P(p).len)
    BY <2>1, BufferFits
  <2> QED  BY <1>1, <2>2 DEF Fits
<1>2. CASE ~ Check!P(p).quoted
  <2>1. b = [at |-> "tmp1", tmp2 |-> tmp2, heap |-> heap]
    BY <1>2 DEF Check!UnquoteBuffers
  <2> QED  BY <1>2, <2>1, NullIsNone DEF CheckTyped
<1> QED  BY <1>1, <1>2

LEMMA SizesKnown ==
  ASSUME Check!SizeAssumption, NEW b, Allocated(b.tmp2, b.heap), b.at = "tmp2" => b.tmp2 # NULL,
         b.at \in {"tmp1", "tmp2"}
  PROVE  Check!SizeOf(b) \in Nat
BY DEF Check!SizeAssumption, Allocated, Check!SizeOf

LEMMA Unquoted ==
  ASSUME Check!SizeAssumption, Check!NullAssumption, CheckTyped, NEW p \in Check!Texts, Check!P(p).len \in Nat,
         Check!P(p).quoted \in BOOLEAN, NEW b \in Check!UnquoteBuffers(p), b.at # NULL, Check!get_unquoted_param(p, b)
  PROVE  Allocated(tmp2', heap') /\ outside' = FALSE /\ Check!ReadAt(ref', p) = p
<1>1. CASE Check!P(p).quoted
  <2>1. Fits(b, Check!P(p).len)
    BY <1>1, UnquoteFits
  <2>2. Check!SizeOf(b) \in Nat /\ Check!P(p).len <= Check!SizeOf(b)
    BY <2>1, SizesKnown DEF Fits
  <2>3. Check!Write(b, p, Check!P(p).len - 1)
    BY <1>1 DEF Check!get_unquoted_param
  <2>4. outside = FALSE
    BY DEF CheckTyped
  <2> DEFINE n == Check!P(p).len - 1
  <2>5. n <= Check!SizeOf(b) /\ n \in Int /\ Check!Write(b, p, n)
    BY <2>2, <2>3
  <2> HIDE DEF n
  <2> QED  BY <2>1, <2>2, <2>4, <2>5, Written
<1>2. CASE ~ Check!P(p).quoted
  <2>1. ref' = "header" /\ UNCHANGED <<tmp2, heap, outside>>
    BY <1>2 DEF Check!get_unquoted_param
  <2> QED  BY <2>1 DEF CheckTyped, Check!ReadAt, Allocated
<1> QED  BY <1>1, <1>2

-----------------------------------------------------------------------------
(* The end of a call.                                                      *)

\* The values that are there have lengths.
LEMMA ParamsTyped ==
  ASSUME CheckTyped, h # NULL,
         NEW p \in {"username", "username_ext", "realm", "nc", "cnonce", "uri", "nonce", "response", "qop"},
         Check!Has(p)
  PROVE  Check!P(p).len \in Nat /\ Check!P(p).quoted \in BOOLEAN
BY DEF CheckTyped, Check!Parsed, Check!Has, Check!P

\* What the answer r may be, with the luck l and the counts u, when the count has been
\* spent or not.
Verdict(r, l, s, u) ==
  /\ r = "OK" => Check!RightHeader /\ s
  /\ Check!RightHeader /\ l /\ r # "OK" => Check!Excused(r, u)
  /\ s => r \in {"OK", "WRONG_URI", "RESPONSE_WRONG", "NONCE_OTHER_COND", "ERROR"}

\* What the predicates on the request say stays.
LEMMA SameRequest ==
  ASSUME UNCHANGED <<app, h>>
  PROVE  /\ Check!RightHeader' <=> Check!RightHeader
         /\ Present' <=> Present
         /\ Check!Count' = Check!Count /\ h'.nonce = h.nonce
         /\ \A p : (Check!Has(p)' <=> Check!Has(p)) /\ Check!P(p)' = Check!P(p)
         /\ \A w : Check!Wrong(w)' <=> Check!Wrong(w)
<1>1. Check!RightHeader' <=> Check!RightHeader
  BY DEF Check!RightHeader, Check!Has, Check!P
<1>2. Present' <=> Present
  BY DEF Present, Check!Has, Check!P, Check!Wrong
<1> QED  BY <1>1, <1>2 DEF Check!Has, Check!P, Check!Wrong, Check!Count

\* What the other variables are when a call returns.
Settled ==
  /\ hash' \in [one : Seq(Check!Texts), two : Seq(Check!Texts)] /\ luck' \in BOOLEAN /\ spent' \in BOOLEAN
  /\ outside' = FALSE /\ failed' \subseteq Check!KnownFailures
  /\ UNCHANGED Check!call

LEMMA Returns ==
  ASSUME Check!NullAssumption, CheckInv, NEW b, Allocated(b.tmp2, b.heap), NEW r \in Check!Results,
         Check!ReturnWith(b, r), Settled, Verdict(r, luck', spent', used')
  PROVE  CheckInv'
<1>1. check_pc' = "idle" /\ result' = r /\ tmp2' = NULL /\ heap' = 0
  BY DEF Check!ReturnWith, Allocated
<1>2. UNCHANGED <<app, h, requests>>
  BY DEF Settled, Check!call
<1>3. Allocated(tmp2', heap')
  BY <1>1 DEF Allocated
<1>4. CheckTyped'
  <2>1. (h # NULL => Check!Parsed(h))'
    BY <1>2 DEF CheckInv, CheckTyped, Check!Parsed
  <2> QED  BY <1>1, <1>2, <1>3, <2>1 DEF CheckInv, CheckTyped, Settled, Steps, Allocated
<1>5. Found'
  BY <1>1 DEF Found, AfterPresence, AfterName, AfterCount, AfterNonce, AfterUri, AfterResponse
<1>6. Feeding'
  BY <1>1 DEF Feeding, Settled, AfterPresence, AfterName, AfterCount, AfterNonce, AfterUri, AfterResponse
<1>7. Check!Authentic' /\ Check!CountSpentLate'
  <2>1. Check!RightHeader' <=> Check!RightHeader
    BY <1>2, SameRequest
  <2>2. Check!Excused(r, used') => Check!Excused(result, used)'
    BY <1>1, <1>2, SameRequest DEF Check!Excused
  <2> QED  BY <1>1, <2>1, <2>2 DEF Verdict, Check!Authentic, Check!CountSpentLate
<1> QED  BY <1>4, <1>5, <1>6, <1>7 DEF CheckInv

\* There was no buffer.
LEMMA ReturnsWithout ==
  ASSUME Check!NullAssumption, CheckInv, NEW b, Allocated(b.tmp2, b.heap), NEW size \in Nat, NEW r \in Check!Results,
         Check!NoBuffer(b, size, r), UNCHANGED Check!call, spent' = spent, failed' \subseteq Check!KnownFailures, MaxParam \in Nat,
         r # "OK", spent => r = "ERROR",
         size > MaxParam /\ Check!RightHeader => Check!Excused(r, used')
  PROVE  CheckInv'
<1>1. luck' = (luck /\ size > MaxParam) /\ Check!ReturnWith(b, r) /\ UNCHANGED <<hash, outside>>
  BY DEF Check!NoBuffer
<1>2. luck' \in BOOLEAN /\ (luck' => size > MaxParam)
  BY <1>1, Zenon
<1>3. Settled
  BY <1>1, <1>2 DEF Settled, CheckInv, CheckTyped, Feeding
<1>4. Verdict(r, luck', spent', used')
  BY <1>2 DEF Verdict
<1> QED  BY <1>1, <1>3, <1>4, Returns

\* A refusal that changes nothing else.
LEMMA RefusalReturns ==
  ASSUME Check!NullAssumption, CheckInv, NEW b, Allocated(b.tmp2, b.heap), NEW r \in Check!Results,
         Check!ReturnWith(b, r), UNCHANGED <<hash, luck, spent, failed, outside>>, UNCHANGED Check!call,
         Verdict(r, luck, spent, used')
  PROVE  CheckInv'
<1>1. Settled
  BY DEF Settled, CheckInv, CheckTyped, Feeding
<1>2. luck' = luck /\ spent' = spent
  OBVIOUS
<1> QED  BY <1>1, <1>2, Returns

LEMMA BuffersAllocated ==
  ASSUME CheckInv PROVE Allocated(Check!Buffers.tmp2, Check!Buffers.heap)
BY DEF CheckInv, CheckTyped, Check!Buffers, Allocated

-----------------------------------------------------------------------------
(* The steps.                                                              *)

\* Nothing is wrong with a right header.
LEMMA RightMeans ==
  ASSUME Check!RightHeader
  PROVE  /\ \A w \in Check!Wrongs \ {"conditions", "nc", "ext_notation"} : ~ Check!Wrong(w)
         /\ app.bind => ~ Check!Wrong("conditions")
         /\ h.qop # "NONE" => ~ Check!Wrong("nc")
         /\ Check!Has("username_ext") => ~ Check!Wrong("ext_notation")
BY DEF Check!RightHeader, Check!Wrongs, Check!Wrong

\* A call that goes on.
Goes(s) ==
  /\ check_pc' = s /\ s \in Steps \ {"idle"} /\ UNCHANGED Check!call /\ result' = NULL
  /\ luck' \in BOOLEAN /\ spent' \in BOOLEAN /\ outside' = FALSE /\ Allocated(tmp2', heap')
  /\ hash' \in [one : Seq(Check!Texts), two : Seq(Check!Texts)]

LEMMA GoesOn ==
  ASSUME CheckInv, NEW s, Goes(s), Found', Feeding'
  PROVE  CheckInv'
<1>1. CheckTyped'
  <2>1. UNCHANGED <<app, h, requests>>
    BY DEF Goes, Check!call
  <2>2. (h # NULL => Check!Parsed(h))'
    BY <2>1 DEF CheckInv, CheckTyped, Check!Parsed
  <2> QED  BY <2>1, <2>2 DEF Goes, CheckInv, CheckTyped, Allocated
<1>2. Check!Authentic' /\ Check!CountSpentLate'
  BY DEF Goes, Check!Authentic, Check!CountSpentLate, Check!Answered
<1> QED  BY <1>1, <1>2 DEF CheckInv

LEMMA InitChecks ==
  ASSUME Check!NullAssumption, Check!SizeAssumption, Check!Init
  PROVE  CheckInv
<1>1. hash \in [one : Seq(Check!Texts), two : Seq(Check!Texts)]
  BY DEF Check!Init
<1>2. CheckTyped
  BY <1>1 DEF Check!Init, CheckTyped, Allocated, Steps
<1>3. Found /\ Feeding
  BY DEF Check!Init, Found, Feeding, Steps, AfterPresence, AfterName, AfterCount,
     AfterNonce, AfterUri, AfterResponse
<1>4. Check!Authentic /\ Check!CountSpentLate
  BY DEF Check!Init, Check!Authentic, Check!CountSpentLate, Check!Answered
<1> QED  BY <1>2, <1>3, <1>4 DEF CheckInv

LEMMA RequestChecks ==
  ASSUME Check!HeadersAssumption, CheckInv, Check!Request
  PROVE  CheckInv'
<1>1. /\ check_pc = "idle" /\ check_pc' = "setup" /\ luck' = TRUE /\ spent' = FALSE /\ result' = NULL
      /\ requests' = requests + 1 /\ UNCHANGED <<app, tmp2, heap, da, hash, failed, outside>>
  BY DEF Check!Request
<1>2. requests \in Nat /\ requests + 1 \in 1 .. Len(Headers)
  BY DEF CheckInv, CheckTyped, Check!Request, Check!HeadersAssumption
<1>3. h' \in Headers[requests + 1]
  BY DEF Check!Request
<1>4. (h # NULL => Check!Parsed(h))'
  <2>1. h' # NULL => Check!Parsed(h')
    BY <1>2, <1>3 DEF Check!HeadersAssumption
  <2> QED  BY <2>1 DEF Check!Parsed
<1>5. CheckTyped'
  <2>1. Allocated(tmp2, heap)' /\ tmp2' = NULL
    BY <1>1 DEF CheckInv, CheckTyped, Allocated
  <2>2. app' \in Apps /\ requests' \in Nat /\ check_pc' \in Steps /\ result' \in Check!Results \cup {NULL}
    BY <1>1, <1>2 DEF CheckInv, CheckTyped, Steps
  <2>3. luck' \in BOOLEAN /\ spent' \in BOOLEAN /\ outside' = FALSE
    BY <1>1, Zenon DEF CheckInv, CheckTyped
  <2>4. hash' \in [one : Seq(Check!Texts), two : Seq(Check!Texts)]
    BY <1>1 DEF CheckInv, CheckTyped
  <2> QED  BY <1>4, <2>1, <2>2, <2>3, <2>4, Zenon DEF CheckTyped
<1>6. Found' /\ Feeding'
  BY <1>1 DEF CheckInv, Found, Feeding, Steps, AfterPresence, AfterName, AfterCount,
     AfterNonce, AfterUri, AfterResponse
<1>7. Check!Authentic' /\ Check!CountSpentLate'
  BY <1>1 DEF Check!Authentic, Check!CountSpentLate, Check!Answered
<1> QED  BY <1>5, <1>6, <1>7 DEF CheckInv

LEMMA SetupChecks ==
  ASSUME Check!NullAssumption, CheckInv, Check!CheckSetup
  PROVE  CheckInv'
<1>1. check_pc = "setup" /\ ~ spent /\ result = NULL
  BY DEF Check!CheckSetup, CheckInv, Found, Steps, AfterPresence, AfterName, AfterCount, AfterNonce
<1>2. CASE Check!Refusal1 # NULL /\ Check!Refuse(Check!Refusal1)
  <2>1. Check!Refusal1 \in Check!Results \ {"OK"} /\ ~ Check!RightHeader
    BY <1>2 DEF Check!Refusal1, Check!Results, Check!RightHeader
  <2>2. /\ Check!ReturnWith(Check!Buffers, Check!Refusal1) /\ UNCHANGED <<hash, luck, spent, failed, outside>>
        /\ UNCHANGED Check!call
    BY <1>2 DEF Check!Refuse, Check!Return
  <2>3. Verdict(Check!Refusal1, luck, spent, used')
    BY <1>1, <2>1 DEF Verdict
  <2> QED  BY <2>1, <2>2, <2>3, BuffersAllocated, RefusalReturns
<1>3. CASE /\ Check!Refusal1 = NULL /\ check_pc' = "presence" /\ da' = [Check!NoDigest EXCEPT !.ready = TRUE]
           /\ UNCHANGED <<tmp1, tmp2, heap, ref, hash, used, result, luck, spent, failed, outside>>
           /\ UNCHANGED Check!call
  <2>1. /\ h # NULL /\ h.algo = "BASE" /\ "BASE" \in app.algos
        /\ h.qop = "INVALID" \/ (h.qop \in app.qops /\ h.qop # "AUTH_INT")
    <3>1. h # NULL => h.algo \in {"BASE", "SESSION", "INVALID"}
      BY DEF CheckInv, CheckTyped, Check!Parsed
    <3>2. /\ "WRONG_HEADER" # NULL /\ "WRONG_ALGO" # NULL /\ "PANIC" # NULL /\ "WRONG_QOP" # NULL
      BY NullIsNone DEF Check!Results
    <3>3. h # NULL
      BY <1>3, <3>2 DEF Check!Refusal1
    <3>4. h.algo = "BASE" /\ "BASE" \in app.algos
      BY <1>3, <3>1, <3>2, <3>3 DEF Check!Refusal1
    <3> QED  BY <1>3, <3>2, <3>3, <3>4 DEF Check!Refusal1
  <2>2. Goes("presence")
    BY <1>1, <1>3 DEF Goes, CheckInv, CheckTyped, Steps, Allocated
  <2>3. Found'
    BY <1>1, <1>3, <2>1 DEF Check!call, Found, Steps, AfterPresence, AfterName, AfterCount,
     AfterNonce, AfterUri, AfterResponse
  <2>4. Feeding'
    BY <1>1, <1>3 DEF CheckInv, Feeding, Clean, Check!NoDigest, Steps, AfterPresence, AfterName, AfterCount,
     AfterNonce, AfterUri, AfterResponse
  <2> QED  BY <2>2, <2>3, <2>4, GoesOn
<1> QED  BY <1>2, <1>3 DEF Check!CheckSetup

-----------------------------------------------------------------------------
(* Presence and size.                                                      *)

\* The quick checks one by one.
LEMMA ChecksAre ==
  /\ DOMAIN Check!Checks = 1 .. 16
  /\ (Check!Checks[1][1] <=> (~ Check!Has("username") /\ ~ Check!Has("username_ext"))) /\ Check!Checks[1][2] = "WRONG_USERNAME"
  /\ (Check!Checks[2][1] <=> (Check!Has("username") /\ Check!Has("username_ext"))) /\ Check!Checks[2][2] = "WRONG_USERNAME"
  /\ (Check!Checks[3][1] <=> (Check!Has("username_ext") /\ Check!P("username_ext").len < ExtMin)) /\ Check!Checks[3][2] = "WRONG_USERNAME"
  /\ (Check!Checks[4][1] <=> (h.userhash /\ ~ Check!Has("username"))) /\ Check!Checks[4][2] = "WRONG_USERNAME"
  /\ (Check!Checks[5][1] <=> (h.userhash /\ Check!Has("username") /\ Check!P("username").len \notin 2 * DigestSize..4 * DigestSize)) /\ Check!Checks[5][2] = "WRONG_USERNAME"
  /\ (Check!Checks[6][1] <=> (~ Check!Has("realm"))) /\ Check!Checks[6][2] = "WRONG_REALM"
  /\ (Check!Checks[7][1] <=> ((~ app.userdigest \/ h.userhash) /\ Check!Has("realm") /\ Check!P("realm").len > MaxParam)) /\ Check!Checks[7][2] = "TOO_LARGE"
  /\ (Check!Checks[8][1] <=> (h.qop # "NONE" /\ (~ Check!Has("nc") \/ Check!P("nc").len \notin 1..4 * NcLen))) /\ Check!Checks[8][2] = "WRONG_HEADER"
  /\ (Check!Checks[9][1] <=> (h.qop # "NONE" /\ (~ Check!Has("cnonce") \/ Check!P("cnonce").len = 0))) /\ Check!Checks[9][2] = "WRONG_HEADER"
  /\ (Check!Checks[10][1] <=> (h.qop # "NONE" /\ Check!Has("cnonce") /\ Check!P("cnonce").len > MaxParam)) /\ Check!Checks[10][2] = "TOO_LARGE"
  /\ (Check!Checks[11][1] <=> (~ Check!Has("uri") \/ Check!P("uri").len = 0)) /\ Check!Checks[11][2] = "WRONG_URI"
  /\ (Check!Checks[12][1] <=> (Check!Has("uri") /\ Check!P("uri").len > MaxParam)) /\ Check!Checks[12][2] = "TOO_LARGE"
  /\ (Check!Checks[13][1] <=> (~ Check!Has("nonce") \/ Check!P("nonce").len \notin 1..2 * StdLen)) /\ Check!Checks[13][2] = "NONCE_WRONG"
  /\ (Check!Checks[14][1] <=> (~ Check!Has("response") \/ Check!P("response").len \notin 1..4 * DigestSize)) /\ Check!Checks[14][2] = "RESPONSE_WRONG"
  /\ (Check!Checks[15][1] <=> (Check!Has("realm") /\ (Check!Wrong("realm") \/ Check!P("realm").len = 0))) /\ Check!Checks[15][2] = "WRONG_REALM"
  /\ (Check!Checks[16][1] <=> (Check!Has("username") /\ ~ h.userhash /\ (Check!Wrong("username") \/ Check!P("username").len = 0))) /\ Check!Checks[16][2] = "WRONG_USERNAME"
<1>1. DOMAIN Check!Checks = 1 .. 16
  BY DEF Check!Checks
<1>2. (Check!Checks[1][1] <=> (~ Check!Has("username") /\ ~ Check!Has("username_ext"))) /\ Check!Checks[1][2] = "WRONG_USERNAME"
  BY DEF Check!Checks
<1>3. (Check!Checks[2][1] <=> (Check!Has("username") /\ Check!Has("username_ext"))) /\ Check!Checks[2][2] = "WRONG_USERNAME"
  BY DEF Check!Checks
<1>4. (Check!Checks[3][1] <=> (Check!Has("username_ext") /\ Check!P("username_ext").len < ExtMin)) /\ Check!Checks[3][2] = "WRONG_USERNAME"
  BY DEF Check!Checks
<1>5. (Check!Checks[4][1] <=> (h.userhash /\ ~ Check!Has("username"))) /\ Check!Checks[4][2] = "WRONG_USERNAME"
  BY DEF Check!Checks
<1>6. (Check!Checks[5][1] <=> (h.userhash /\ Check!Has("username") /\ Check!P("username").len \notin 2 * DigestSize..4 * DigestSize)) /\ Check!Checks[5][2] = "WRONG_USERNAME"
  BY DEF Check!Checks
<1>7. (Check!Checks[6][1] <=> (~ Check!Has("realm"))) /\ Check!Checks[6][2] = "WRONG_REALM"
  BY DEF Check!Checks
<1>8. (Check!Checks[7][1] <=> ((~ app.userdigest \/ h.userhash) /\ Check!Has("realm") /\ Check!P("realm").len > MaxParam)) /\ Check!Checks[7][2] = "TOO_LARGE"
  BY DEF Check!Checks
<1>9. (Check!Checks[8][1] <=> (h.qop # "NONE" /\ (~ Check!Has("nc") \/ Check!P("nc").len \notin 1..4 * NcLen))) /\ Check!Checks[8][2] = "WRONG_HEADER"
  BY DEF Check!Checks
<1>10. (Check!Checks[9][1] <=> (h.qop # "NONE" /\ (~ Check!Has("cnonce") \/ Check!P("cnonce").len = 0))) /\ Check!Checks[9][2] = "WRONG_HEADER"
  BY DEF Check!Checks
<1>11. (Check!Checks[10][1] <=> (h.qop # "NONE" /\ Check!Has("cnonce") /\ Check!P("cnonce").len > MaxParam)) /\ Check!Checks[10][2] = "TOO_LARGE"
  BY DEF Check!Checks
<1>12. (Check!Checks[11][1] <=> (~ Check!Has("uri") \/ Check!P("uri").len = 0)) /\ Check!Checks[11][2] = "WRONG_URI"
  BY DEF Check!Checks
<1>13. (Check!Checks[12][1] <=> (Check!Has("uri") /\ Check!P("uri").len > MaxParam)) /\ Check!Checks[12][2] = "TOO_LARGE"
  BY DEF Check!Checks
<1>14. (Check!Checks[13][1] <=> (~ Check!Has("nonce") \/ Check!P("nonce").len \notin 1..2 * StdLen)) /\ Check!Checks[13][2] = "NONCE_WRONG"
  BY DEF Check!Checks
<1>15. (Check!Checks[14][1] <=> (~ Check!Has("response") \/ Check!P("response").len \notin 1..4 * DigestSize)) /\ Check!Checks[14][2] = "RESPONSE_WRONG"
  BY DEF Check!Checks
<1>16. (Check!Checks[15][1] <=> (Check!Has("realm") /\ (Check!Wrong("realm") \/ Check!P("realm").len = 0))) /\ Check!Checks[15][2] = "WRONG_REALM"
  BY DEF Check!Checks
<1>17. (Check!Checks[16][1] <=> (Check!Has("username") /\ ~ h.userhash /\ (Check!Wrong("username") \/ Check!P("username").len = 0))) /\ Check!Checks[16][2] = "WRONG_USERNAME"
  BY DEF Check!Checks
<1> QED  BY <1>1, <1>2, <1>3, <1>4, <1>5, <1>6, <1>7, <1>8, <1>9, <1>10, <1>11, <1>12, <1>13, <1>14, <1>15, <1>16, <1>17, Zenon

LEMMA ChecksRefuse == \A x \in 1 .. 16 : Check!Checks[x][2] \in Check!Results \ {"OK"}
<1> SUFFICES ASSUME NEW x \in 1 .. 16 PROVE Check!Checks[x][2] \in Check!Results \ {"OK"}
  OBVIOUS
<1>1. x = 1 \/ x = 2 \/ x = 3 \/ x = 4 \/ x = 5 \/ x = 6 \/ x = 7 \/ x = 8 \/ x = 9 \/ x = 10 \/ x = 11 \/ x = 12 \/ x = 13 \/ x = 14 \/ x = 15 \/ x = 16
  OBVIOUS
<1> QED  BY <1>1, ChecksAre DEF Check!Results

Failing == {x \in 1 .. 16 : Check!Checks[x][1]}

LEMMA FirstIs ==
  /\ Failing = {} => Check!FirstFailing(Check!Checks) = NULL
  /\ Failing # {} => \E x \in Failing : Check!FirstFailing(Check!Checks) = Check!Checks[x][2]
<1> DEFINE least == CHOOSE x \in Failing : \A y \in Failing : x <= y
<1>1. Check!FirstFailing(Check!Checks) = IF Failing = {} THEN NULL ELSE Check!Checks[least][2]
  <2>1. DOMAIN Check!Checks = 1 .. 16
    BY ChecksAre
  <2> QED  BY <2>1 DEF Check!FirstFailing, Failing
<1>2. Failing # {} => least \in Failing
  <2>1. Failing \subseteq Nat
    BY DEF Failing
  <2>2. Failing # {} => \E x \in Failing : \A y \in Failing : x <= y
    BY <2>1, LeastOf
  <2> QED  BY <2>2
<1> HIDE DEF least
<1> QED  BY <1>1, <1>2

LEMMA NoneFailing ==
  ASSUME Check!NullAssumption, Check!FirstFailing(Check!Checks) = NULL
  PROVE  \A x \in 1 .. 16 : ~ Check!Checks[x][1]
<1>1. Failing = {}
  <2>1. ASSUME NEW x \in Failing PROVE Check!Checks[x][2] # NULL
    BY ChecksRefuse, NullIsNone DEF Failing
  <2> QED  BY <2>1, FirstIs
<1> QED  BY <1>1 DEF Failing

LEMMA PresentThen ==
  ASSUME Check!SizeAssumption, Check!NullAssumption, CheckTyped, h # NULL, Check!FirstFailing(Check!Checks) = NULL
  PROVE  Present
<1>1. \A x \in 1 .. 16 : ~ Check!Checks[x][1]
  BY NoneFailing
<1>2. \A p \in {"username", "username_ext", "realm", "nc", "cnonce", "uri", "nonce", "response", "qop"} :
        Check!Has(p) => Check!P(p).len \in Nat
  BY ParamsTyped
<1>3. h.userhash \in BOOLEAN
  BY DEF CheckTyped, Check!Parsed
<1>4. /\ Check!Has("username") # Check!Has("username_ext")
      /\ Check!Has("username_ext") => Check!P("username_ext").len >= ExtMin
      /\ h.userhash => Check!Has("username") /\ Check!P("username").len \in 2 * DigestSize..4 * DigestSize
  BY <1>1, <1>2, <1>3, ChecksAre DEF Check!SizeAssumption, Check!Has
<1>5. /\ Check!Has("realm") /\ ~ Check!Wrong("realm") /\ Check!P("realm").len > 0
      /\ Check!Has("username") /\ ~ h.userhash => ~ Check!Wrong("username") /\ Check!P("username").len > 0
  BY <1>1, <1>2, ChecksAre
<1>6. h.qop # "NONE" => /\ Check!Has("nc") /\ Check!P("nc").len \in 1..4 * NcLen
                        /\ Check!Has("cnonce") /\ Check!P("cnonce").len > 0 /\ Check!P("cnonce").len <= MaxParam
  BY <1>1, <1>2, ChecksAre DEF Check!SizeAssumption
<1>7. /\ Check!Has("uri") /\ Check!P("uri").len > 0 /\ Check!P("uri").len <= MaxParam
      /\ Check!Has("nonce") /\ Check!P("nonce").len \in 1..2 * StdLen
      /\ Check!Has("response") /\ Check!P("response").len \in 1..4 * DigestSize
  BY <1>1, <1>2, ChecksAre DEF Check!SizeAssumption
<1> QED  BY <1>4, <1>5, <1>6, <1>7 DEF Present

\* A right header fails here only if a value is too large.
LEMMA RightTooLarge ==
  ASSUME Check!SizeAssumption, CheckTyped, Check!RightHeader, Check!FirstFailing(Check!Checks) # NULL
  PROVE  /\ Check!FirstFailing(Check!Checks) = "TOO_LARGE"
         /\ \E p \in {"realm", "cnonce", "uri", "username_ext"} : Check!Has(p) /\ Check!P(p).len > MaxParam
<1>1. \A p \in {"username", "username_ext", "realm", "nc", "cnonce", "uri", "nonce", "response", "qop"} :
        Check!Has(p) => Check!P(p).len \in Nat
  BY ParamsTyped DEF Check!RightHeader
<1>2. /\ ~ Check!Wrong("realm") /\ ~ Check!Wrong("username") /\ h.userhash \in BOOLEAN
      /\ Check!Has("username") \in BOOLEAN /\ Check!Has("username_ext") \in BOOLEAN
  BY RightMeans DEF Check!Wrongs, CheckTyped, Check!Parsed, Check!RightHeader, Check!Has
<1>3. ~ Check!Checks[1][1] /\ ~ Check!Checks[2][1] /\ ~ Check!Checks[3][1] /\ ~ Check!Checks[4][1] /\ ~ Check!Checks[5][1]
  BY <1>1, <1>2, ChecksAre DEF Check!RightHeader, Check!SizeAssumption
<1>4. ~ Check!Checks[6][1] /\ ~ Check!Checks[8][1] /\ ~ Check!Checks[9][1] /\ ~ Check!Checks[11][1]
  BY <1>1, ChecksAre DEF Check!RightHeader
<1>5. ~ Check!Checks[13][1] /\ ~ Check!Checks[14][1]
  BY <1>1, ChecksAre DEF Check!RightHeader, Check!SizeAssumption
<1>6. ~ Check!Checks[15][1] /\ ~ Check!Checks[16][1]
  BY <1>1, <1>2, ChecksAre DEF Check!RightHeader
<1>7. \A x \in Failing : x = 7 \/ x = 10 \/ x = 12
  <2> SUFFICES ASSUME NEW x \in 1 .. 16, Check!Checks[x][1] PROVE x = 7 \/ x = 10 \/ x = 12
    BY DEF Failing
  <2> QED  BY <1>3, <1>4, <1>5, <1>6
<1>8. PICK x \in Failing : Check!FirstFailing(Check!Checks) = Check!Checks[x][2]
  BY FirstIs
<1>9. Check!Checks[x][1] /\ (x = 7 \/ x = 10 \/ x = 12)
  BY <1>7, <1>8 DEF Failing
<1>10. Check!FirstFailing(Check!Checks) = "TOO_LARGE"
  BY <1>8, <1>9, ChecksAre
<1>11. \/ Check!Has("realm") /\ Check!P("realm").len > MaxParam
       \/ Check!Has("cnonce") /\ Check!P("cnonce").len > MaxParam
       \/ Check!Has("uri") /\ Check!P("uri").len > MaxParam
  BY <1>9, ChecksAre
<1> QED  BY <1>10, <1>11

LEMMA PresenceChecks ==
  ASSUME Check!SizeAssumption, Check!NullAssumption, CheckInv, Check!CheckPresence
  PROVE  CheckInv'
<1> USE DEF Steps, AfterPresence, AfterName, AfterCount, AfterNonce, AfterUri, AfterResponse
<1>1. /\ check_pc = "presence" /\ ~ spent /\ result = NULL /\ h # NULL
      /\ h.algo = "BASE" /\ "BASE" \in app.algos
      /\ h.qop = "INVALID" \/ (h.qop \in app.qops /\ h.qop # "AUTH_INT")
  BY DEF Check!CheckPresence, CheckInv, Found
<1>2. failed' \subseteq Check!KnownFailures
  BY DEF Check!CheckPresence, Check!EmptyCompared, Check!KnownFailures, CheckInv, Feeding
<1>3. UNCHANGED <<hash, luck, spent, outside>> /\ UNCHANGED Check!call
  BY DEF Check!CheckPresence
<1> DEFINE r == Check!FirstFailing(Check!Checks)
<1>4. CASE r # NULL /\ Check!Return(r)
  <2>1. r \in Check!Results \ {"OK"}
    BY <1>4, FirstIs, ChecksRefuse DEF Failing
  <2>2. Check!RightHeader => Check!Excused(r, used')
    BY <1>4, RightTooLarge DEF CheckInv, Check!Excused
  <2>3. Check!ReturnWith(Check!Buffers, r)
    BY <1>4 DEF Check!Return
  <2> HIDE DEF r
  <2>4. Settled
    BY <1>2, <1>3 DEF Settled, CheckInv, CheckTyped
  <2>5. Verdict(r, luck', spent', used')
    BY <1>1, <1>3, <2>1, <2>2 DEF Verdict
  <2> QED  BY <2>1, <2>3, <2>4, <2>5, BuffersAllocated, Returns
<1>5. CASE r = NULL /\ check_pc' = "username" /\ UNCHANGED <<result, tmp2, heap, da>>
  <2>1. Present
    BY <1>1, <1>5, PresentThen DEF CheckInv
  <2>2. Goes("username")
    BY <1>1, <1>3, <1>5 DEF Goes, CheckInv, CheckTyped, Allocated
  <2>3. Found'
    <3>1. Present'
      BY <1>3, <2>1, SameRequest DEF Check!call
    <3> QED  BY <1>1, <1>3, <1>5, <3>1 DEF Check!call, Found
  <2>4. Feeding'
    BY <1>1, <1>2, <1>3, <1>5 DEF CheckInv, Feeding
  <2> QED  BY <2>2, <2>3, <2>4, GoesOn
<1> QED  BY <1>4, <1>5 DEF Check!CheckPresence

-----------------------------------------------------------------------------
(* User name and count.                                                    *)

LEMMA RecordOf ==
  \A x, y, z : \A d \in [ready : {x}, hashing : {y}, input : {z}] :
    d = [ready |-> x, hashing |-> y, input |-> z]
OBVIOUS

LEMMA DigestSteps ==
  ASSUME Check!AppsAssumption, CheckTyped
  PROVE  /\ \A t : Check!Finished(Check!Updated(Clean, t)) = AtEnd
         /\ \A s : Check!Finished(Fed(s)) = AtEnd
         /\ Check!Reset(AtEnd) = Clean
         /\ \A t : Check!Updated(Clean, t) = Fed(<<>> \o t)
         /\ \A s, t : Check!Updated(Fed(s), t) = Fed(s \o t)
         /\ Check!UpdateAsserts(Clean) = {} /\ Check!ResetAsserts(AtEnd) = {}
         /\ \A s : Check!UpdateAsserts(Fed(s)) = {}
<1>1. app.has_finish \in BOOLEAN
  BY DEF Check!AppsAssumption, CheckTyped
<1>2. \A t : Check!Finished(Check!Updated(Clean, t)) = AtEnd
  <2>1. \A t : Check!Finished(Check!Updated(Clean, t)) \in [ready : {~ app.has_finish}, hashing : {FALSE}, input : {<<>>}]
    BY DEF Check!Finished, Check!Updated, Clean
  <2> QED  BY <2>1, RecordOf DEF AtEnd
<1>3. \A s : Check!Finished(Fed(s)) = AtEnd
  <2>1. \A s : Check!Finished(Fed(s)) \in [ready : {~ app.has_finish}, hashing : {FALSE}, input : {<<>>}]
    BY DEF Check!Finished, Fed
  <2> QED  BY <2>1, RecordOf DEF AtEnd
<1>4. Check!Reset(AtEnd) = Clean
  <2>1. Check!Reset(AtEnd) \in [ready : {TRUE}, hashing : {FALSE}, input : {<<>>}]
    BY DEF Check!Reset, AtEnd
  <2> QED  BY <2>1, RecordOf DEF Clean
<1>5. \A t : Check!Updated(Clean, t) = Fed(<<>> \o t)
  <2>1. \A t : Check!Updated(Clean, t) \in [ready : {TRUE}, hashing : {TRUE}, input : {<<>> \o t}]
    BY DEF Check!Updated, Clean
  <2> QED  BY <2>1, RecordOf DEF Fed
<1>6. \A s, t : Check!Updated(Fed(s), t) = Fed(s \o t)
  <2>1. \A s, t : Check!Updated(Fed(s), t) \in [ready : {TRUE}, hashing : {TRUE}, input : {s \o t}]
    BY DEF Check!Updated, Fed
  <2> QED  BY <2>1, RecordOf DEF Fed
<1>7. Check!UpdateAsserts(Clean) = {} /\ Check!ResetAsserts(AtEnd) = {} /\ \A s : Check!UpdateAsserts(Fed(s)) = {}
  BY <1>1 DEF Check!UpdateAsserts, Check!ResetAsserts, Clean, AtEnd, Fed
<1> QED  BY <1>2, <1>3, <1>4, <1>5, <1>6, <1>7, Zenon

\* An external hash calculation fails.
LEMMA HashFails ==
  ASSUME Check!NullAssumption, CheckInv, luck' = FALSE, Check!Return("ERROR"),
         UNCHANGED <<hash, spent, failed, outside>>, UNCHANGED Check!call
  PROVE  CheckInv'
<1>1. Settled
  BY DEF Settled, CheckInv, CheckTyped, Feeding
<1>2. Verdict("ERROR", luck', spent', used') /\ "ERROR" \in Check!Results
  BY DEF Verdict, Check!Results
<1>3. Check!ReturnWith(Check!Buffers, "ERROR")
  BY DEF Check!Return
<1> QED  BY <1>1, <1>2, <1>3, BuffersAllocated, Returns

\* Before the count is spent, a call may end with anything for a header that is not right.
LEMMA EarlyVerdict ==
  ASSUME NEW r \in Check!Results \ {"OK"}, NEW u, ~ Check!RightHeader \/ Check!Excused(r, u)
  PROVE  \A l, s : ~ s => Verdict(r, l, s, u)
BY DEF Verdict

LEMMA PlainNameChecks ==
  ASSUME Check!NullAssumption, CheckInv, Check!CheckPlainName
  PROVE  CheckInv'
<1> USE DEF Steps, AfterPresence, AfterName, AfterCount, AfterNonce, AfterUri, AfterResponse
<1>1. check_pc = "username" /\ check_pc' = "count" /\ Present /\ result = NULL /\ ~ spent
      /\ ~ h.userhash /\ Check!Has("username")
  BY DEF CheckInv, Found, Check!CheckPlainName
<1>2. /\ UNCHANGED <<tmp2, heap, da, hash, result, luck, spent, failed, outside>> /\ UNCHANGED Check!call
  BY DEF Check!CheckPlainName
<1>3. Present' /\ ~ Check!Wrong("username")' /\ ~ Check!Has("username_ext")'
  <2>1. Present /\ ~ Check!Wrong("username") /\ ~ Check!Has("username_ext")
    BY <1>1 DEF Present, Check!Has
  <2> QED  BY <1>2, <2>1, SameRequest DEF Check!call
<1>4. Goes("count")
  BY <1>1, <1>2 DEF Goes, CheckInv, CheckTyped, Allocated
<1>5. Found'
  BY <1>1, <1>2, <1>3 DEF CheckInv, Found, Check!call
<1>6. Feeding'
  BY <1>1, <1>2 DEF CheckInv, Feeding
<1> QED  BY <1>4, <1>5, <1>6, GoesOn

LEMMA ExtendedChecks ==
  ASSUME Check!SizeAssumption, Check!NullAssumption, CheckInv, Check!CheckExtended
  PROVE  CheckInv'
<1> USE DEF Steps, AfterPresence, AfterName, AfterCount, AfterNonce, AfterUri, AfterResponse
<1> DEFINE size == Check!P("username_ext").len + 1 - ExtMin
           refusal == IF Check!Wrong("ext_notation") THEN "WRONG_HEADER"
                      ELSE IF Check!Wrong("username") THEN "WRONG_USERNAME" ELSE NULL
<1>1. check_pc = "username" /\ Present /\ result = NULL /\ ~ spent /\ h # NULL
      /\ ~ h.userhash /\ Check!Has("username_ext")
  BY DEF CheckInv, Found, Check!CheckExtended
<1>2. UNCHANGED <<spent, failed>> /\ UNCHANGED Check!call
  BY DEF Check!CheckExtended
<1>3. MaxParam \in Nat /\ ExtMin \in Nat
  BY DEF Check!SizeAssumption
<1>4. size \in Nat
  <2>1. Check!P("username_ext").len \in Nat /\ Check!P("username_ext").len >= ExtMin
    BY <1>1, ParamsTyped DEF Present, CheckInv
  <2> QED  BY <1>3, <2>1
<1>5. PICK b \in Check!get_buffer_for_size(size) :
          \/ Check!NoBuffer(b, size, IF size > MaxParam THEN "TOO_LARGE" ELSE "ERROR")
          \/ /\ b.at # NULL /\ refusal # NULL /\ Check!ReturnWith(b, refusal)
             /\ UNCHANGED <<tmp1, ref, hash, luck, outside>>
          \/ /\ b.at # NULL /\ refusal = NULL
             /\ Check!Write(b, "username", size) /\ check_pc' = "count" /\ UNCHANGED <<da, result, luck, hash>>
  BY DEF Check!CheckExtended
<1> HIDE DEF size
<1>6. Fits(b, size) /\ Allocated(b.tmp2, b.heap)
  BY <1>4, BufferFits DEF CheckInv, Fits
<1>7. CASE Check!NoBuffer(b, size, IF size > MaxParam THEN "TOO_LARGE" ELSE "ERROR")
  <2> DEFINE r == IF size > MaxParam THEN "TOO_LARGE" ELSE "ERROR"
  <2>1. Check!NoBuffer(b, size, r) /\ r \in Check!Results /\ r # "OK" /\ (size > MaxParam => r = "TOO_LARGE")
    BY <1>7 DEF Check!Results
  <2> HIDE DEF r
  <2>2. size > MaxParam => Check!P("username_ext").len > MaxParam
    <3>1. Check!P("username_ext").len \in Nat /\ ExtMin > 0
      BY <1>1, ParamsTyped DEF CheckInv, Check!SizeAssumption
    <3> QED  BY <1>3, <3>1 DEF size
  <2>3. size > MaxParam => Check!Excused(r, used')
    BY <1>1, <2>1, <2>2 DEF Check!Excused
  <2>4. failed' \subseteq Check!KnownFailures
    BY <1>2 DEF CheckInv, Feeding
  <2> QED  BY <1>1, <1>2, <1>3, <1>4, <1>6, <2>1, <2>3, <2>4, ReturnsWithout
<1>8. CASE /\ b.at # NULL /\ refusal # NULL /\ Check!ReturnWith(b, refusal)
           /\ UNCHANGED <<tmp1, ref, hash, luck, outside>>
  <2>1. refusal \in Check!Results \ {"OK"} /\ ~ Check!RightHeader
    BY <1>1, <1>8, RightMeans DEF Check!Results, Check!Wrongs
  <2> HIDE DEF refusal
  <2>2. Verdict(refusal, luck, spent, used')
    BY <1>1, <2>1, EarlyVerdict
  <2> QED  BY <1>2, <1>6, <1>8, <2>1, <2>2, RefusalReturns
<1>9. CASE /\ b.at # NULL /\ refusal = NULL
           /\ Check!Write(b, "username", size) /\ check_pc' = "count" /\ UNCHANGED <<da, result, luck, hash>>
  <2>1. ~ Check!Wrong("ext_notation") /\ ~ Check!Wrong("username")
    <3>1. "WRONG_HEADER" # NULL /\ "WRONG_USERNAME" # NULL
      BY NullIsNone DEF Check!Results
    <3> QED  BY <1>9, <3>1
  <2>2. Check!SizeOf(b) \in Nat /\ size <= Check!SizeOf(b) /\ outside = FALSE /\ "username" \in Check!Texts
    BY <1>6, <1>9, SizesKnown DEF Fits, CheckInv, CheckTyped, Check!Texts
  <2>3. Allocated(tmp2', heap') /\ outside' = FALSE
    <3>1. b.at # NULL /\ Check!Write(b, "username", size) /\ size \in Int
      BY <1>4, <1>9
    <3> QED  BY <1>6, <2>2, <3>1, Written, Zenon
  <2>4. Goes("count")
    BY <1>1, <1>2, <1>9, <2>3 DEF Goes, CheckInv, CheckTyped
  <2>5. Found'
    <3>1. Present' /\ ~ Check!Wrong("username")' /\ ~ Check!Wrong("ext_notation")'
      BY <1>1, <1>2, <2>1, SameRequest DEF Check!call
    <3> QED  BY <1>1, <1>2, <1>9, <3>1 DEF CheckInv, Found, Check!call
  <2>6. Feeding'
    BY <1>1, <1>2, <1>9 DEF CheckInv, Feeding
  <2> QED  BY <2>4, <2>5, <2>6, GoesOn
<1> QED  BY <1>5, <1>7, <1>8, <1>9

LEMMA UserhashChecks ==
  ASSUME Check!NullAssumption, Check!AppsAssumption, CheckInv, Check!CheckUserhash
  PROVE  CheckInv'
<1> USE DEF Steps, AfterPresence, AfterName, AfterCount, AfterNonce, AfterUri, AfterResponse
<1>1. check_pc = "username" /\ Present /\ result = NULL /\ ~ spent /\ h.userhash /\ da = Clean
  BY DEF CheckInv, Found, Feeding, Check!CheckUserhash
<1>2. UNCHANGED <<hash, spent, outside>> /\ UNCHANGED Check!call
  BY DEF Check!CheckUserhash
<1> DEFINE d == Check!Finished(Check!Updated(da, <<"username", "realm">>))
<1>3. CASE app.ext_error /\ luck' = FALSE /\ Check!Return("ERROR") /\ UNCHANGED <<tmp1, failed>>
  BY <1>2, <1>3, HashFails
<1>4. CASE Check!Wrong("username") /\ Check!Return("WRONG_USERNAME") /\ UNCHANGED <<tmp1, luck, failed>>
  <2>1. ~ Check!RightHeader /\ "WRONG_USERNAME" \in Check!Results \ {"OK"}
    BY <1>4, RightMeans DEF Check!Wrongs, Check!Results
  <2>2. Verdict("WRONG_USERNAME", luck, spent, used')
    BY <1>1, <2>1, EarlyVerdict
  <2>3. Check!ReturnWith(Check!Buffers, "WRONG_USERNAME")
    BY <1>4 DEF Check!Return
  <2> QED  BY <1>2, <1>4, <2>1, <2>2, <2>3, BuffersAllocated, RefusalReturns
<1>5. CASE /\ ~ Check!Wrong("username") /\ check_pc' = "count" /\ da' = Check!Reset(d) /\ tmp1' = "hex"
           /\ failed' = failed \cup Check!UpdateAsserts(da) \cup Check!ResetAsserts(d)
           /\ UNCHANGED <<result, luck, tmp2, heap>>
  <2>1. d = AtEnd
    BY <1>1, DigestSteps DEF CheckInv
  <2> HIDE DEF d
  <2>2. da' = Clean /\ failed' = failed
    BY <1>1, <1>5, <2>1, DigestSteps DEF CheckInv
  <2>3. Goes("count")
    BY <1>1, <1>2, <1>5 DEF Goes, CheckInv, CheckTyped, Allocated
  <2>4. Found'
    <3>1. Present' /\ ~ Check!Wrong("username")' /\ ~ Check!Has("username_ext")'
      <4>1. ~ Check!Has("username_ext")
        BY <1>1 DEF Present, Check!Has
      <4> QED  BY <1>1, <1>2, <1>5, <4>1, SameRequest DEF Check!call
    <3> QED  BY <1>1, <1>2, <1>5, <3>1 DEF CheckInv, Found, Check!call
  <2>5. Feeding'
    BY <1>1, <1>2, <1>5, <2>2 DEF CheckInv, Feeding, Clean
  <2> QED  BY <2>3, <2>4, <2>5, GoesOn
<1> QED  BY <1>3, <1>4, <1>5 DEF Check!CheckUserhash

LEMMA CountChecks ==
  ASSUME Check!SizeAssumption, Check!NullAssumption, Check!AppsAssumption, CheckInv, Check!CheckCount
  PROVE  CheckInv'
<1> USE DEF Steps, AfterPresence, AfterName, AfterCount, AfterNonce, AfterUri, AfterResponse
<1>1. check_pc = "count" /\ Present /\ result = NULL /\ ~ spent /\ h # NULL
  BY DEF CheckInv, Found, Check!CheckCount
<1>2. UNCHANGED <<hash, luck, spent, failed, outside>> /\ UNCHANGED Check!call
  <2>1. h.qop # "NONE" => Check!UnquoteAsserts("nc") = {}
    BY <1>1 DEF Present, Check!UnquoteAsserts
  <2> QED  BY <2>1 DEF Check!CheckCount
<1>3. CASE Check!CountRefusal # NULL /\ Check!Return(Check!CountRefusal)
  <2>1. /\ Check!CountRefusal \in Check!Results \ {"OK"}
        /\ ~ Check!RightHeader
    <3>1. app.max_nc \in Nat /\ h.count \in Nat
      BY <1>1 DEF CheckInv, CheckTyped, Check!AppsAssumption, Check!Parsed
    <3>2. Check!RightHeader => (h.qop # "NONE" => ~ Check!Wrong("nc")) /\ (app.max_nc = 0 \/ h.qop = "NONE" \/ h.count <= app.max_nc)
      BY RightMeans DEF Check!RightHeader
    <3> QED  BY <1>3, <3>1, <3>2 DEF Check!CountRefusal, Check!Results
  <2>2. Verdict(Check!CountRefusal, luck, spent, used')
    BY <1>1, <2>1, EarlyVerdict
  <2>3. Check!ReturnWith(Check!Buffers, Check!CountRefusal)
    BY <1>3 DEF Check!Return
  <2> QED  BY <1>2, <2>1, <2>2, <2>3, BuffersAllocated, RefusalReturns
<1>4. CASE Check!CountRefusal = NULL /\ check_pc' = "nonce" /\ UNCHANGED <<da, result, tmp2, heap>>
  <2>1. h.qop # "NONE" => ~ Check!Wrong("nc") /\ (app.max_nc = 0 \/ h.count <= app.max_nc)
    <3>1. "WRONG_HEADER" # NULL /\ "NONCE_STALE" # NULL
      BY NullIsNone DEF Check!Results
    <3>2. app.max_nc \in Nat /\ h.count \in Nat
      BY <1>1 DEF CheckInv, CheckTyped, Check!AppsAssumption, Check!Parsed
    <3> QED  BY <1>4, <3>1, <3>2 DEF Check!CountRefusal
  <2>2. Goes("nonce")
    BY <1>1, <1>2, <1>4 DEF Goes, CheckInv, CheckTyped, Allocated
  <2>3. Found'
    <3>1. UNCHANGED <<app, h>>
      BY <1>2 DEF Check!call
    <3>2. Present' /\ (Check!Wrong("nc")' <=> Check!Wrong("nc")) /\ (Check!Wrong("username")' <=> Check!Wrong("username"))
          /\ (Check!Has("username_ext")' <=> Check!Has("username_ext")) /\ (Check!Wrong("ext_notation")' <=> Check!Wrong("ext_notation"))
      BY <1>1, <3>1, SameRequest
    <3> QED  BY <1>1, <1>2, <1>4, <2>1, <3>1, <3>2 DEF CheckInv, Found
  <2>4. Feeding'
    BY <1>1, <1>2, <1>4 DEF CheckInv, Feeding
  <2> QED  BY <2>2, <2>3, <2>4, GoesOn
<1> QED  BY <1>3, <1>4 DEF Check!CheckCount

-----------------------------------------------------------------------------
(* Nonce and URI.                                                          *)

LEMMA NonceChecks ==
  ASSUME Check!SizeAssumption, Check!NullAssumption, CheckInv, Check!CheckNonce
  PROVE  CheckInv'
<1> USE DEF Steps, AfterPresence, AfterName, AfterCount, AfterNonce, AfterUri, AfterResponse
<1>1. check_pc = "nonce" /\ Present /\ result = NULL /\ ~ spent /\ h # NULL
  BY DEF CheckInv, Found, Check!CheckNonce
<1>2. UNCHANGED failed /\ UNCHANGED Check!call
  <2>1. Check!UnquoteAsserts("nonce") = {}
    BY <1>1 DEF Present, Check!UnquoteAsserts
  <2> QED  BY <2>1 DEF Check!CheckNonce
<1>3. MaxParam \in Nat /\ 2 * StdLen <= MaxParam /\ StdLen \in Nat
  BY DEF Check!SizeAssumption
<1>4. Check!P("nonce").len \in Nat /\ Check!P("nonce").quoted \in BOOLEAN /\ Check!P("nonce").len <= 2 * StdLen
  BY <1>1, ParamsTyped DEF Present, CheckInv
<1>5. PICK b \in Check!UnquoteBuffers("nonce") :
       \/ Check!NoBuffer(b, Check!P("nonce").len, "ERROR") /\ UNCHANGED <<used, spent>>
       \/ /\ b.at # NULL
          /\ used' = IF Check!TakesCount THEN used \cup {<<h.nonce, Check!Count>>} ELSE used
          /\ spent' = Check!TakesCount
          /\ \/ /\ Check!NonceRefusal # NULL /\ Check!ReturnWith(b, Check!NonceRefusal)
                /\ UNCHANGED <<tmp1, ref, hash, luck, outside>>
             \/ /\ Check!NonceRefusal = NULL /\ Check!get_unquoted_param("nonce", b)
                /\ check_pc' = "uri" /\ UNCHANGED <<da, result, luck, hash>>
  BY DEF Check!CheckNonce
<1>6. Allocated(b.tmp2, b.heap)
  BY <1>4, UnquoteFits DEF CheckInv
<1>7. CASE Check!NoBuffer(b, Check!P("nonce").len, "ERROR") /\ UNCHANGED <<used, spent>>
  <2>1. "ERROR" \in Check!Results /\ ~ (Check!P("nonce").len > MaxParam)
    BY <1>3, <1>4 DEF Check!Results
  <2>2. failed' \subseteq Check!KnownFailures
    BY <1>2 DEF CheckInv, Feeding
  <2> QED  BY <1>2, <1>3, <1>4, <1>6, <1>7, <2>1, <2>2, ReturnsWithout
<1>8. CASE /\ Check!NonceRefusal # NULL /\ Check!ReturnWith(b, Check!NonceRefusal) /\ spent' = Check!TakesCount
           /\ used' = IF Check!TakesCount THEN used \cup {<<h.nonce, Check!Count>>} ELSE used
           /\ UNCHANGED <<tmp1, ref, hash, luck, outside>>
  <2>1. /\ Check!NonceRefusal \in Check!Results \ {"OK"}
        /\ ~ Check!RightHeader \/ Check!Excused(Check!NonceRefusal, used')
    <3>1. Check!NonceRefusal \in Check!Results \ {"OK"}
      BY <1>8 DEF Check!NonceRefusal, Check!Results
    <3>2. ~ Check!TakesCount
      BY <1>8 DEF Check!TakesCount
    <3>3. used' = used
      BY <1>8, <3>2
    <3>4. Check!RightHeader => ~ Check!Wrong("nonce_form") /\ ~ Check!Wrong("nonce_age") /\ ~ Check!Wrong("nonce")
      BY RightMeans DEF Check!Wrongs
    <3>5. Check!RightHeader => Check!NonceRefusal = "NONCE_STALE" /\ <<h.nonce, Check!Count>> \in used
      BY <1>8, <3>4 DEF Check!NonceRefusal
    <3> QED  BY <3>1, <3>3, <3>5 DEF Check!Excused
  <2>2. spent' \in BOOLEAN /\ ~ spent'
    BY <1>8, Zenon DEF Check!TakesCount
  <2>3. Settled
    BY <1>2, <1>8, <2>2 DEF Settled, CheckInv, CheckTyped, Feeding
  <2>4. Verdict(Check!NonceRefusal, luck', spent', used')
    BY <2>1, <2>2, EarlyVerdict
  <2> QED  BY <1>6, <1>8, <2>1, <2>3, <2>4, Returns
<1>9. CASE /\ b.at # NULL /\ Check!NonceRefusal = NULL /\ Check!get_unquoted_param("nonce", b) /\ spent' = Check!TakesCount
           /\ check_pc' = "uri" /\ UNCHANGED <<da, result, luck, hash>>
  <2>1. ~ Check!Wrong("nonce_form") /\ ~ Check!Wrong("nonce_age") /\ ~ Check!Wrong("nonce")
    <3>1. "NONCE_WRONG" # NULL /\ "NONCE_STALE" # NULL
      BY NullIsNone DEF Check!Results
    <3> QED  BY <1>9, <3>1 DEF Check!NonceRefusal
  <2>2. spent' \in BOOLEAN /\ spent'
    BY <1>9, Zenon DEF Check!TakesCount
  <2>3. Allocated(tmp2', heap') /\ outside' = FALSE
    <3>1. "nonce" \in Check!Texts /\ CheckTyped
      BY DEF Check!Texts, CheckInv
    <3> QED  BY <1>4, <1>9, <3>1, Unquoted
  <2>4. Goes("uri")
    BY <1>1, <1>2, <1>9, <2>2, <2>3 DEF Goes, CheckInv, CheckTyped
  <2>5. Found'
    <3>1. UNCHANGED <<app, h>>
      BY <1>2 DEF Check!call
    <3>2. Present'
      BY <1>1, <3>1, SameRequest
    <3> QED  BY <1>1, <1>9, <2>1, <2>2, <3>1, <3>2 DEF CheckInv, Found, Check!Wrong, Check!Has, Check!P
  <2>6. Feeding'
    BY <1>1, <1>2, <1>9 DEF CheckInv, Feeding
  <2> QED  BY <2>4, <2>5, <2>6, GoesOn
<1> QED  BY <1>5, <1>7, <1>8, <1>9

\* test_header() is called for every argument: they match exactly if they are the same.
LEMMA SameArguments ==
  ASSUME Check!AppsAssumption, CheckTyped, h # NULL
  PROVE  Check!ArgumentsMatch <=> h.args = app.args
<1>1. h.args \in Seq(STRING) /\ app.args \in Seq(STRING)
  BY DEF Check!AppsAssumption, CheckTyped, Check!Parsed
<1> DEFINE s == h.args
           t == app.args
<1>2. s \in Seq(STRING) /\ t \in Seq(STRING)
  BY <1>1
<1>3. Check!ArgumentsMatch <=> (\A k \in DOMAIN s : k <= Len(t) /\ s[k] = t[k]) /\ Len(s) = Len(t)
  BY DEF Check!ArgumentsMatch
<1> HIDE DEF s, t
<1>4. (\A k \in 1 .. Len(s) : s[k] = t[k]) /\ Len(s) = Len(t) => s = t
  BY <1>2, SeqEqual
<1>5. DOMAIN s = 1 .. Len(s) /\ Len(s) \in Nat
  BY <1>2
<1>6. Check!ArgumentsMatch <=> s = t
  BY <1>3, <1>4, <1>5
<1> QED  BY <1>6 DEF s, t

LEMMA UriChecks ==
  ASSUME Check!SizeAssumption, Check!NullAssumption, Check!AppsAssumption, CheckInv, Check!CheckUri
  PROVE  CheckInv'
<1> USE DEF Steps, AfterPresence, AfterName, AfterCount, AfterNonce, AfterUri, AfterResponse
<1> DEFINE size == Check!CopySize("uri")
           written == Check!P("uri").len + (IF Check!P("uri").quoted THEN 0 ELSE 1)
<1>1. check_pc = "uri" /\ Present /\ result = NULL /\ spent /\ h # NULL /\ da = Clean
  BY DEF CheckInv, Found, Feeding, Check!CheckUri
<1>2. spent' = spent /\ UNCHANGED Check!call
  BY DEF Check!CheckUri
<1>3. MaxParam \in Nat
  BY DEF Check!SizeAssumption
<1>4. Check!P("uri").len \in Nat /\ Check!P("uri").quoted \in BOOLEAN /\ Check!P("uri").len <= MaxParam
  BY <1>1, ParamsTyped DEF Present, CheckInv
<1>5. size \in Nat /\ written \in Nat /\ written <= size /\ size = Check!P("uri").len + 1
  BY <1>4 DEF Check!CopySize
<1>5a. Check!UnquoteAsserts("uri") = {}
  BY <1>1, <1>4 DEF Present, Check!UnquoteAsserts
<1>6. PICK b \in Check!get_buffer_for_size(size) :
       \/ Check!NoBuffer(b, size, "ERROR") /\ UNCHANGED failed
       \/ /\ b.at # NULL /\ failed' = failed \cup Check!UpdateAsserts(da) \cup (IF da.hashing THEN {"hashing"} ELSE {})
          /\ \/ /\ ~ Check!UriMatches /\ Check!ReturnWith(b, "WRONG_URI")
                /\ outside' = (outside \/ written > Check!SizeOf(b))
                /\ UNCHANGED <<tmp1, ref, hash, luck>>
             \/ /\ Check!UriMatches /\ Check!Write(b, "uri cut", written)
                /\ hash' = [hash EXCEPT !.two = <<"method", Check!UriText>>]
                /\ da' = Check!Finished(Check!Updated(da, <<"method", Check!UriText>>))
                /\ check_pc' = "a1" /\ UNCHANGED <<result, luck>>
  BY <1>5a DEF Check!CheckUri
<1> HIDE DEF size, written
<1>7. Fits(b, size) /\ Allocated(b.tmp2, b.heap)
  BY <1>5, BufferFits DEF CheckInv, Fits
<1>8. CASE Check!NoBuffer(b, size, "ERROR") /\ UNCHANGED failed
  <2>1. "ERROR" \in Check!Results /\ (size > MaxParam => Check!P("uri").len = MaxParam)
    BY <1>3, <1>4, <1>5 DEF Check!Results
  <2>2. size > MaxParam => Check!Excused("ERROR", used')
    BY <2>1 DEF Check!Excused
  <2>4. failed' \subseteq Check!KnownFailures
    BY <1>2, <1>8 DEF CheckInv, Feeding
  <2> QED  BY <1>2, <1>3, <1>5, <1>7, <1>8, <2>1, <2>2, <2>4, ReturnsWithout
<1>9. ASSUME b.at # NULL, failed' = failed \cup Check!UpdateAsserts(da) \cup (IF da.hashing THEN {"hashing"} ELSE {})
      PROVE  /\ failed' \subseteq Check!KnownFailures
             /\ Check!SizeOf(b) \in Nat /\ written <= Check!SizeOf(b) /\ outside = FALSE /\ "uri cut" \in Check!Texts
  <2>1. Check!UpdateAsserts(da) = {} /\ ~ da.hashing
    BY <1>1, DigestSteps DEF CheckInv, Clean
  <2>2. failed' \subseteq Check!KnownFailures
    BY <1>9, <2>1 DEF CheckInv, Feeding
  <2>3. Check!SizeOf(b) \in Nat /\ size <= Check!SizeOf(b)
    BY <1>7, <1>9, SizesKnown DEF Fits
  <2>4. written <= Check!SizeOf(b)
    <3>1. size \in Nat /\ written \in Nat /\ written <= size
      BY <1>5
    <3> QED  BY <2>3, <3>1
  <2>5. outside = FALSE /\ "uri cut" \in Check!Texts
    BY DEF CheckInv, CheckTyped, Check!Texts
  <2> QED  BY <2>2, <2>3, <2>4, <2>5, Zenon
<1>10. CASE /\ b.at # NULL /\ failed' = failed \cup Check!UpdateAsserts(da) \cup (IF da.hashing THEN {"hashing"} ELSE {})
            /\ ~ Check!UriMatches /\ Check!ReturnWith(b, "WRONG_URI")
            /\ outside' = (outside \/ written > Check!SizeOf(b))
            /\ UNCHANGED <<tmp1, ref, hash, luck>>
  <2>1. ~ Check!RightHeader
    <3>1. Check!RightHeader => ~ Check!Wrong("uri") /\ h.args = app.args
      BY RightMeans DEF Check!Wrongs, Check!RightHeader
    <3> QED  BY <1>1, <1>10, <3>1, SameArguments DEF Check!UriMatches, CheckInv
  <2>2. outside' = FALSE
    <3>1. ~ (written > Check!SizeOf(b)) /\ outside = FALSE
      <4>1. Check!SizeOf(b) \in Nat /\ written <= Check!SizeOf(b) /\ outside = FALSE
        BY <1>9, <1>10, Zenon
      <4>2. written \in Nat
        BY <1>5
      <4>3. ~ (written > Check!SizeOf(b))
        BY <4>1, <4>2
      <4> QED  BY <4>1, <4>3, Zenon
    <3> QED  BY <1>10, <3>1, Zenon
  <2>3. Settled
    BY <1>2, <1>9, <1>10, <2>2 DEF Settled, CheckInv, CheckTyped
  <2>4. Verdict("WRONG_URI", luck', spent', used') /\ "WRONG_URI" \in Check!Results
    BY <2>1 DEF Verdict, Check!Results
  <2> QED  BY <1>7, <1>10, <2>3, <2>4, Returns
<1>11. CASE /\ b.at # NULL /\ failed' = failed \cup Check!UpdateAsserts(da) \cup (IF da.hashing THEN {"hashing"} ELSE {})
            /\ Check!UriMatches /\ Check!Write(b, "uri cut", written)
            /\ hash' = [hash EXCEPT !.two = <<"method", Check!UriText>>]
            /\ da' = Check!Finished(Check!Updated(da, <<"method", Check!UriText>>))
            /\ check_pc' = "a1" /\ UNCHANGED <<result, luck>>
  <2>1. ~ Check!Wrong("uri") /\ h.args = app.args
    BY <1>1, <1>11, SameArguments DEF Check!UriMatches, CheckInv
  <2>2. Allocated(tmp2', heap') /\ outside' = FALSE
    <3>1. b.at # NULL /\ Check!Write(b, "uri cut", written) /\ written \in Int
      <4>1. written \in Int
        BY <1>5
      <4> QED  BY <1>11, <4>1, Zenon
    <3>2. Check!SizeOf(b) \in Nat /\ written <= Check!SizeOf(b) /\ outside = FALSE /\ "uri cut" \in Check!Texts
      BY <1>9, <1>11, Zenon
    <3> QED  BY <1>7, <3>1, <3>2, Written, Zenon
  <2>3. da' = AtEnd
    BY <1>1, <1>11, DigestSteps DEF CheckInv
  <2>4. hash' \in [one : Seq(Check!Texts), two : Seq(Check!Texts)] /\ hash'.two = <<"method", "uri">>
    <3>1. "method" \in Check!Texts /\ "uri" \in Check!Texts
      BY DEF Check!Texts
    <3>2. <<"method", "uri">> \in Seq(Check!Texts)
      BY <3>1, TwoTexts
    <3>3. hash' = [hash EXCEPT !.two = <<"method", "uri">>] /\ hash \in [one : Seq(Check!Texts), two : Seq(Check!Texts)]
      BY <1>11 DEF Check!UriText, CheckInv, CheckTyped
    <3> QED  BY <3>2, <3>3
  <2>5. Goes("a1")
    BY <1>1, <1>2, <1>11, <2>2, <2>4 DEF Goes, CheckInv, CheckTyped
  <2>6. Found'
    <3>1. UNCHANGED <<app, h>>
      BY <1>2 DEF Check!call
    <3>2. Present'
      BY <1>1, <3>1, SameRequest
    <3> QED  BY <1>1, <1>2, <1>11, <2>1, <3>1, <3>2 DEF CheckInv, Found, Check!Wrong, Check!Has, Check!P
  <2>7. Feeding'
    <3>1. UNCHANGED app
      BY <1>2 DEF Check!call
    <3> QED  BY <1>9, <1>11, <2>3, <2>4, <3>1 DEF Feeding, AtEnd
  <2> QED  BY <2>5, <2>6, <2>7, GoesOn
<1> QED  BY <1>6, <1>8, <1>10, <1>11

-----------------------------------------------------------------------------
(* The response.                                                           *)

\* All hashed texts are those of the header, whichever buffer they came through.
LEMMA A1Checks ==
  ASSUME Check!NullAssumption, Check!AppsAssumption, CheckInv, Check!HashA1
  PROVE  CheckInv'
<1> USE DEF Steps, AfterPresence, AfterName, AfterCount, AfterNonce, AfterUri, AfterResponse
<1> DEFINE d1 == IF app.userdigest THEN da ELSE Check!Finished(Check!Updated(Check!Reset(da), <<"user", "realm", "password">>))
<1>1. check_pc = "a1" /\ Present /\ result = NULL /\ spent /\ da = AtEnd /\ hash.two = <<"method", "uri">>
  BY DEF CheckInv, Found, Feeding, Check!HashA1
<1>2. UNCHANGED <<spent, outside>> /\ UNCHANGED Check!call
  BY DEF Check!HashA1
<1>3. CASE app.ext_error /\ luck' = FALSE /\ Check!Return("ERROR") /\ UNCHANGED <<hash, tmp1, failed>>
  BY <1>2, <1>3, HashFails
<1>4. CASE /\ hash' = [hash EXCEPT !.one = <<"A1">>] /\ tmp1' = "H(A1)"
           /\ da' = Check!Updated(Check!Reset(d1), <<"H(A1)">>) /\ check_pc' = "response"
           /\ failed' = failed \cup Check!ResetAsserts(d1)
                          \cup (IF app.userdigest THEN {} ELSE Check!ResetAsserts(da) \cup Check!UpdateAsserts(Check!Reset(da)))
                          \cup (IF d1.hashing THEN {"hashing"} ELSE {})
           /\ UNCHANGED <<result, luck, tmp2, heap>>
  <2>1. CheckTyped
    BY DEF CheckInv
  <2>2. d1 = AtEnd /\ Check!Reset(AtEnd) = Clean
    BY <1>1, <2>1, DigestSteps
  <2> HIDE DEF d1
  <2>3. <<>> \o <<"H(A1)">> = <<"H(A1)">>
    <3>1. "H(A1)" \in Check!Texts
      BY DEF Check!Texts
    <3> QED  BY <3>1, OneText
  <2>4. da' = Fed(<<"H(A1)">>)
    <3>1. da' = Check!Updated(Clean, <<"H(A1)">>)
      BY <1>4, <2>2
    <3>2. Check!Updated(Clean, <<"H(A1)">>) = Fed(<<>> \o <<"H(A1)">>)
      BY <2>1, DigestSteps
    <3> QED  BY <2>3, <3>1, <3>2
  <2>5. failed' = failed
    <3>1. Check!UpdateAsserts(Clean) = {} /\ Check!ResetAsserts(AtEnd) = {} /\ ~ AtEnd.hashing
      BY <2>1, DigestSteps DEF AtEnd
    <3> QED  BY <1>1, <1>4, <2>2, <3>1
  <2>6. hash' \in [one : Seq(Check!Texts), two : Seq(Check!Texts)] /\ hash'.two = <<"method", "uri">>
    <3>1. "A1" \in Check!Texts
      BY DEF Check!Texts
    <3>2. <<"A1">> \in Seq(Check!Texts)
      BY <3>1, OneText
    <3>3. hash' = [hash EXCEPT !.one = <<"A1">>] /\ hash \in [one : Seq(Check!Texts), two : Seq(Check!Texts)]
      BY <1>4, <2>1 DEF CheckTyped
    <3> QED  BY <1>1, <3>2, <3>3
  <2>7. Goes("response")
    BY <1>1, <1>2, <1>4, <2>1, <2>6 DEF Goes, CheckTyped, Allocated
  <2>8. Found'
    <3>1. UNCHANGED <<app, h>>
      BY <1>2 DEF Check!call
    <3>2. Present'
      BY <1>1, <3>1, SameRequest
    <3> QED  BY <1>1, <1>2, <1>4, <3>1, <3>2 DEF CheckInv, Found, Check!Wrong, Check!Has, Check!P
  <2>9. Feeding'
    BY <1>4, <2>4, <2>5, <2>6 DEF CheckInv, Feeding, Fed
  <2> QED  BY <2>7, <2>8, <2>9, GoesOn
<1> QED  BY <1>3, <1>4 DEF Check!HashA1

LEMMA ResponseChecks ==
  ASSUME Check!SizeAssumption, Check!NullAssumption, CheckInv, Check!TakeResponse
  PROVE  CheckInv'
<1> USE DEF Steps, AfterPresence, AfterName, AfterCount, AfterNonce, AfterUri, AfterResponse
<1>1. /\ check_pc = "response" /\ Present /\ result = NULL /\ spent /\ h # NULL
      /\ da = Fed(<<"H(A1)">>) /\ hash.two = <<"method", "uri">>
  BY DEF CheckInv, Found, Feeding, Check!TakeResponse
<1>2. UNCHANGED <<spent, failed>> /\ UNCHANGED Check!call /\ CheckTyped
  <2>1. Check!UnquoteAsserts("response") = {}
    BY <1>1 DEF Present, Check!UnquoteAsserts
  <2> QED  BY <2>1 DEF Check!TakeResponse, CheckInv
<1>3. /\ MaxParam \in Nat /\ StaticSize \in Nat /\ DigestSize \in Nat
      /\ 4 * DigestSize <= StaticSize /\ StaticSize < MaxParam
  BY DEF Check!SizeAssumption
<1>4. Check!P("response").len \in Nat /\ Check!P("response").quoted \in BOOLEAN /\ Check!P("response").len <= 4 * DigestSize
  BY <1>1, <1>2, ParamsTyped DEF Present
<1>5. PICK b \in Check!UnquoteBuffers("response") :
       \/ Check!NoBuffer(b, Check!P("response").len, "ERROR")
       \/ /\ b.at # NULL /\ Check!Wrong("response_hex") /\ Check!ReturnWith(b, "RESPONSE_WRONG")
          /\ UNCHANGED <<tmp1, ref, hash, luck, outside>>
       \/ /\ b.at # NULL /\ ~ Check!Wrong("response_hex") /\ Check!get_unquoted_param("response", b)
          /\ hash' = [hash EXCEPT !.one = <<Check!ReadAt(ref', "response")>>]
          /\ check_pc' = "hash_nonce" /\ UNCHANGED <<da, result, luck>>
  BY DEF Check!TakeResponse
<1>6. Allocated(b.tmp2, b.heap)
  BY <1>2, <1>4, UnquoteFits
<1>7. CASE Check!NoBuffer(b, Check!P("response").len, "ERROR")
  <2>1. "ERROR" \in Check!Results /\ ~ (Check!P("response").len > MaxParam)
    BY <1>3, <1>4 DEF Check!Results
  <2>2. failed' \subseteq Check!KnownFailures
    BY <1>2 DEF CheckInv, Feeding
  <2> QED  BY <1>2, <1>3, <1>4, <1>6, <1>7, <2>1, <2>2, ReturnsWithout
<1>8. CASE /\ b.at # NULL /\ Check!Wrong("response_hex") /\ Check!ReturnWith(b, "RESPONSE_WRONG")
           /\ UNCHANGED <<tmp1, ref, hash, luck, outside>>
  <2>1. ~ Check!RightHeader
    BY <1>8, RightMeans DEF Check!Wrongs
  <2>2. Verdict("RESPONSE_WRONG", luck, spent, used') /\ "RESPONSE_WRONG" \in Check!Results
    BY <2>1 DEF Verdict, Check!Results
  <2> QED  BY <1>2, <1>6, <1>8, <2>2, RefusalReturns
<1>9. CASE /\ b.at # NULL /\ ~ Check!Wrong("response_hex") /\ Check!get_unquoted_param("response", b)
           /\ hash' = [hash EXCEPT !.one = <<Check!ReadAt(ref', "response")>>]
           /\ check_pc' = "hash_nonce" /\ UNCHANGED <<da, result, luck>>
  <2>1. "response" \in Check!Texts
    BY DEF Check!Texts
  <2>2. Allocated(tmp2', heap') /\ outside' = FALSE /\ Check!ReadAt(ref', "response") = "response"
    BY <1>2, <1>4, <1>9, <2>1, Unquoted
  <2>3. /\ hash' \in [one : Seq(Check!Texts), two : Seq(Check!Texts)]
        /\ hash'.one = <<"response">> /\ hash'.two = <<"method", "uri">>
    <3>1. <<"response">> \in Seq(Check!Texts)
      BY <2>1, OneText
    <3>2. hash' = [hash EXCEPT !.one = <<"response">>] /\ hash \in [one : Seq(Check!Texts), two : Seq(Check!Texts)]
      BY <1>2, <1>9, <2>2 DEF CheckTyped
    <3> QED  BY <1>1, <3>1, <3>2
  <2>4. Goes("hash_nonce")
    BY <1>1, <1>2, <1>9, <2>2, <2>3 DEF Goes, CheckTyped
  <2>5. Found'
    <3>1. UNCHANGED <<app, h>>
      BY <1>2 DEF Check!call
    <3>2. Present'
      BY <1>1, <3>1, SameRequest
    <3> QED  BY <1>1, <1>2, <1>9, <3>1, <3>2 DEF CheckInv, Found, Check!Wrong, Check!Has, Check!P
  <2>6. Feeding'
    BY <1>1, <1>2, <1>9, <2>3 DEF CheckInv, Feeding, Fed
  <2> QED  BY <2>4, <2>5, <2>6, GoesOn
<1> QED  BY <1>5, <1>7, <1>8, <1>9

\* The parameter of a step is there, and only the qop may be longer than the largest buffer.
LEMMA HashedThere ==
  ASSUME Check!SizeAssumption, CheckInv, check_pc \in {"hash_nonce", "hash_nc", "hash_cnonce", "hash_qop"}
  PROVE  LET p == Check!Hashed(check_pc)
         IN /\ p \in Check!Texts /\ Check!P(p).len \in Nat /\ Check!P(p).quoted \in BOOLEAN
            /\ Check!P(p).len > MaxParam => Check!Has("qop") /\ Check!P("qop").len > MaxParam
            /\ Check!UnquoteAsserts(p) \subseteq {<<"empty", "qop">>}
<1> USE DEF Steps, AfterPresence, AfterName, AfterCount, AfterNonce, AfterUri, AfterResponse
<1>1. Present /\ h # NULL /\ (check_pc # "hash_nonce" => h.qop # "NONE") /\ CheckTyped
  BY DEF CheckInv, Found
<1>2. h.qop # "NONE" => Check!Has("qop")
  BY <1>1 DEF CheckTyped, Check!Parsed, Check!Has, Check!P
<1>3. /\ MaxParam \in Nat /\ NcLen \in Nat /\ StdLen \in Nat /\ StaticSize \in Nat
      /\ 2 * StdLen <= MaxParam /\ 4 * NcLen <= StaticSize /\ StaticSize < MaxParam
  BY DEF Check!SizeAssumption
<1>4. CASE check_pc = "hash_nonce"
  <2>1. Check!P("nonce").len \in Nat /\ Check!P("nonce").quoted \in BOOLEAN /\ Check!P("nonce").len <= 2 * StdLen
    BY <1>1, ParamsTyped DEF Present
  <2>2. Check!P("nonce").len # 0
    BY <1>1 DEF Present
  <2> QED  BY <1>3, <1>4, <2>1, <2>2 DEF Check!Hashed, Check!Texts, Check!UnquoteAsserts
<1>5. CASE check_pc = "hash_nc"
  <2>1. Check!P("nc").len \in Nat /\ Check!P("nc").quoted \in BOOLEAN /\ Check!P("nc").len <= 4 * NcLen
    BY <1>1, <1>5, ParamsTyped DEF Present
  <2>2. Check!P("nc").len # 0
    BY <1>1, <1>5 DEF Present
  <2> QED  BY <1>3, <1>5, <2>1, <2>2 DEF Check!Hashed, Check!Texts, Check!UnquoteAsserts
<1>6. CASE check_pc = "hash_cnonce"
  <2>1. Check!P("cnonce").len \in Nat /\ Check!P("cnonce").quoted \in BOOLEAN /\ Check!P("cnonce").len <= MaxParam
    BY <1>1, <1>6, ParamsTyped DEF Present
  <2>2. Check!P("cnonce").len # 0
    BY <1>1, <1>6, <2>1 DEF Present
  <2> QED  BY <1>3, <1>6, <2>1, <2>2 DEF Check!Hashed, Check!Texts, Check!UnquoteAsserts
<1>7. CASE check_pc = "hash_qop"
  <2>1. Check!P("qop").len \in Nat /\ Check!P("qop").quoted \in BOOLEAN /\ Check!Has("qop")
    BY <1>1, <1>2, <1>7, ParamsTyped
  <2> QED  BY <1>7, <2>1 DEF Check!Hashed, Check!Texts, Check!UnquoteAsserts
<1> QED  BY <1>4, <1>5, <1>6, <1>7

LEMMA ParamChecks ==
  ASSUME Check!SizeAssumption, Check!NullAssumption, Check!AppsAssumption, CheckInv, Check!HashParam
  PROVE  CheckInv'
<1> USE DEF Steps, AfterPresence, AfterName, AfterCount, AfterNonce, AfterUri, AfterResponse
<1> DEFINE p == Check!Hashed(check_pc)
<1>1. /\ check_pc \in {"hash_nonce", "hash_nc", "hash_cnonce", "hash_qop"} /\ Present /\ result = NULL /\ spent
      /\ h # NULL /\ hash.one = <<"response">> /\ hash.two = <<"method", "uri">>
      /\ check_pc # "hash_nonce" => h.qop # "NONE"
  BY DEF CheckInv, Found, Feeding, Check!HashParam
<1>2. UNCHANGED spent /\ UNCHANGED Check!call /\ CheckTyped
  BY DEF Check!HashParam, CheckInv
<1>3. MaxParam \in Nat
  BY DEF Check!SizeAssumption
<1>4. /\ p \in Check!Texts /\ Check!P(p).len \in Nat /\ Check!P(p).quoted \in BOOLEAN
      /\ Check!P(p).len > MaxParam => Check!Has("qop") /\ Check!P("qop").len > MaxParam
      /\ Check!UnquoteAsserts(p) \subseteq Check!KnownFailures
  BY <1>1, HashedThere DEF Check!KnownFailures
<1>5. PICK b \in Check!UnquoteBuffers(p) :
          \/ Check!NoBuffer(b, Check!P(p).len, "ERROR") /\ failed' = failed \cup Check!UnquoteAsserts(p)
          \/ /\ b.at # NULL /\ Check!get_unquoted_param(p, b)
             /\ da' = Check!Updated(da, <<Check!ReadAt(ref', p)>>)
             /\ failed' = failed \cup Check!UnquoteAsserts(p) \cup Check!UpdateAsserts(da)
             /\ check_pc' = Check!Following(check_pc) /\ UNCHANGED <<result, luck, hash>>
  BY DEF Check!HashParam
<1>6. p = Check!Hashed(check_pc)
  OBVIOUS
<1> HIDE DEF p
<1>7. Allocated(b.tmp2, b.heap)
  BY <1>2, <1>4, UnquoteFits
<1>8. CASE Check!NoBuffer(b, Check!P(p).len, "ERROR") /\ failed' = failed \cup Check!UnquoteAsserts(p)
  <2>1. "ERROR" \in Check!Results
    BY DEF Check!Results
  <2>2. Check!P(p).len > MaxParam => Check!Excused("ERROR", used')
    BY <1>4 DEF Check!Excused
  <2>3. failed' \subseteq Check!KnownFailures
    BY <1>4, <1>8 DEF CheckInv, Feeding
  <2> QED  BY <1>2, <1>3, <1>4, <1>7, <1>8, <2>1, <2>2, <2>3, ReturnsWithout
<1>9. CASE /\ b.at # NULL /\ Check!get_unquoted_param(p, b)
           /\ da' = Check!Updated(da, <<Check!ReadAt(ref', p)>>)
           /\ failed' = failed \cup Check!UnquoteAsserts(p) \cup Check!UpdateAsserts(da)
           /\ check_pc' = Check!Following(check_pc) /\ UNCHANGED <<result, luck, hash>>
  <2>1. Allocated(tmp2', heap') /\ outside' = FALSE /\ Check!ReadAt(ref', p) = p
    BY <1>2, <1>4, <1>9, Unquoted
  <2>2. da' = Check!Updated(da, <<p>>)
    BY <1>9, <2>1
  <2>3. check_pc' \in {"hash_nc", "hash_cnonce", "hash_qop", "compare"} /\ (check_pc' # "compare" => h.qop # "NONE")
    BY <1>1, <1>9 DEF Check!Following
  <2>4. Goes(check_pc')
    BY <1>1, <1>2, <1>9, <2>1, <2>3 DEF Goes, CheckTyped
  <2>5. Found'
    <3>1. UNCHANGED <<app, h>>
      BY <1>2 DEF Check!call
    <3>2. Present'
      BY <1>1, <3>1, SameRequest
    <3> QED  BY <1>1, <1>2, <1>9, <2>3, <3>1, <3>2 DEF CheckInv, Found, Check!Wrong, Check!Has, Check!P
  <2>6. Feeding'
    <3>1. \A s, t : Check!Updated(Fed(s), t) = Fed(s \o t)
      BY <1>2, DigestSteps
    <3>2. \A s : Check!UpdateAsserts(Fed(s)) = {}
      BY <1>2, DigestSteps
    <3>3. UNCHANGED h
      BY <1>2 DEF Check!call
    <3>4. CASE check_pc = "hash_nonce"
      <4>1. da = Fed(<<"H(A1)">>) /\ p = "nonce" /\ check_pc' = (IF h.qop # "NONE" THEN "hash_nc" ELSE "compare")
        BY <1>6, <1>9, <3>4 DEF CheckInv, Feeding, Check!Hashed, Check!Following
      <4>2. da' = Fed(FedNonce) /\ failed' \subseteq Check!KnownFailures
        BY <1>4, <1>9, <2>2, <3>1, <3>2, <4>1 DEF FedNonce, CheckInv, Feeding
      <4> QED  BY <1>1, <1>9, <3>3, <4>1, <4>2 DEF CheckInv, Feeding, Fed, FedNonce, FedNc, FedCnonce, FedQop
    <3>5. CASE check_pc = "hash_nc"
      <4>1. da = Fed(FedNonce) /\ p = "nc" /\ check_pc' = "hash_cnonce"
        BY <1>6, <1>9, <3>5 DEF CheckInv, Feeding, Check!Hashed, Check!Following
      <4>2. da' = Fed(FedNc) /\ failed' \subseteq Check!KnownFailures
        BY <1>4, <1>9, <2>2, <3>1, <3>2, <4>1 DEF FedNc, CheckInv, Feeding
      <4> QED  BY <1>1, <1>9, <4>1, <4>2 DEF CheckInv, Feeding, Fed, FedNonce, FedNc
    <3>6. CASE check_pc = "hash_cnonce"
      <4>1. da = Fed(FedNc) /\ p = "cnonce" /\ check_pc' = "hash_qop"
        BY <1>6, <1>9, <3>6 DEF CheckInv, Feeding, Check!Hashed, Check!Following
      <4>2. da' = Fed(FedCnonce) /\ failed' \subseteq Check!KnownFailures
        BY <1>4, <1>9, <2>2, <3>1, <3>2, <4>1 DEF FedCnonce, CheckInv, Feeding
      <4> QED  BY <1>1, <1>9, <4>1, <4>2 DEF CheckInv, Feeding, Fed, FedNonce, FedNc, FedCnonce
    <3>7. CASE check_pc = "hash_qop"
      <4>1. da = Fed(FedCnonce) /\ p = "qop" /\ check_pc' = "compare" /\ h.qop # "NONE"
        BY <1>1, <1>6, <1>9, <3>7 DEF CheckInv, Feeding, Check!Hashed, Check!Following
      <4>2. da' = Fed(FedQop) /\ failed' \subseteq Check!KnownFailures
        BY <1>4, <1>9, <2>2, <3>1, <3>2, <4>1 DEF FedQop, CheckInv, Feeding
      <4> QED  BY <1>1, <1>9, <3>3, <4>1, <4>2 DEF CheckInv, Feeding, Fed, FedNonce, FedNc, FedCnonce, FedQop
    <3> QED  BY <1>1, <3>4, <3>5, <3>6, <3>7
  <2> QED  BY <2>4, <2>5, <2>6, GoesOn
<1> QED  BY <1>5, <1>8, <1>9

LEMMA CompareChecks ==
  ASSUME Check!NullAssumption, Check!AppsAssumption, CheckInv, Check!Compare
  PROVE  CheckInv'
<1> USE DEF Steps, AfterPresence, AfterName, AfterCount, AfterNonce, AfterUri, AfterResponse
<1> DEFINE fed == IF h.qop = "NONE" THEN FedNonce ELSE FedQop
           d == Check!Updated(da, <<"H(A2)">>)
<1>1. /\ check_pc = "compare" /\ Present /\ result = NULL /\ spent /\ CheckTyped
      /\ da = Fed(fed) /\ hash.one = <<"response">> /\ hash.two = <<"method", "uri">>
  BY DEF CheckInv, Found, Feeding, Check!Compare
<1>2. UNCHANGED <<spent, outside>> /\ UNCHANGED Check!call
  BY DEF Check!Compare
<1>3. fed \in Seq(Check!Texts) /\ fed \o <<"H(A2)">> = Check!Expected /\ Check!Expected \in Seq(Check!Texts)
  <2>1. fed \in Seq(Check!Texts) /\ fed \o <<"H(A2)">> = Check!Expected
    BY AsExpected
  <2> HIDE DEF fed
  <2>2. "H(A2)" \in Check!Texts
    BY DEF Check!Texts
  <2>3. <<"H(A2)">> \in Seq(Check!Texts)
    BY <2>2, OneText
  <2>4. fed \o <<"H(A2)">> \in Seq(Check!Texts)
    BY <2>1, <2>3, ConcatProperties
  <2> QED  BY <2>1, <2>4
<1> HIDE DEF fed
<1>4. d = Fed(Check!Expected) /\ d.input = Check!Expected
  <2>1. Check!Updated(Fed(fed), <<"H(A2)">>) = Fed(fed \o <<"H(A2)">>)
    BY <1>1, DigestSteps
  <2>2. d = Fed(Check!Expected)
    BY <1>1, <1>3, <2>1
  <2>3. Fed(Check!Expected).input = Check!Expected
    BY DEF Fed
  <2> QED  BY <2>2, <2>3
<1>5. Check!UpdateAsserts(da) = {} /\ Check!Finished(d) = AtEnd
  BY <1>1, <1>4, DigestSteps
<1> HIDE DEF d
<1>6. CASE app.ext_error /\ luck' = FALSE /\ Check!Return("ERROR") /\ UNCHANGED <<tmp1, hash, failed>>
  BY <1>2, <1>6, HashFails
<1>7. CASE /\ hash' = [hash EXCEPT !.two = IF @ = <<"method", "uri">> THEN d.input ELSE <<>>]
           /\ tmp1' = "H(A2)" /\ failed' = failed \cup Check!UpdateAsserts(da) /\ UNCHANGED luck
           /\ IF hash.one = <<"response">> /\ ~ Check!Wrong("response") /\ hash'.two = Check!Expected
                THEN check_pc' = "bind" /\ da' = Check!Finished(d) /\ UNCHANGED <<result, tmp2, heap>>
                ELSE Check!Return("RESPONSE_WRONG")
  <2>1. failed' = failed /\ hash' = [hash EXCEPT !.two = Check!Expected]
    BY <1>1, <1>4, <1>5, <1>7
  <2>2. hash' \in [one : Seq(Check!Texts), two : Seq(Check!Texts)] /\ hash'.two = Check!Expected /\ hash'.one = <<"response">>
    <3>1. hash \in [one : Seq(Check!Texts), two : Seq(Check!Texts)]
      BY <1>1 DEF CheckTyped
    <3> QED  BY <1>1, <1>3, <2>1, <3>1
  <2>3. CASE Check!Wrong("response")
    <3>1. Check!ReturnWith(Check!Buffers, "RESPONSE_WRONG")
      BY <1>7, <2>3 DEF Check!Return
    <3>2. ~ Check!RightHeader
      BY <2>3, RightMeans DEF Check!Wrongs
    <3>3. Verdict("RESPONSE_WRONG", luck', spent', used') /\ "RESPONSE_WRONG" \in Check!Results
      BY <3>2 DEF Verdict, Check!Results
    <3>4. Settled
      BY <1>1, <1>2, <1>7, <2>1, <2>2 DEF Settled, CheckTyped, CheckInv, Feeding
    <3> QED  BY <3>1, <3>3, <3>4, BuffersAllocated, Returns
  <2>4. CASE ~ Check!Wrong("response")
    <3>1. check_pc' = "bind" /\ da' = AtEnd /\ UNCHANGED <<result, tmp2, heap>>
      BY <1>1, <1>5, <1>7, <2>2, <2>4
    <3>2. Goes("bind")
      BY <1>1, <1>2, <1>7, <2>2, <3>1 DEF Goes, CheckTyped, Allocated
    <3>3. Found'
      <4>1. UNCHANGED <<app, h>>
        BY <1>2 DEF Check!call
      <4>2. Present'
        BY <1>1, <4>1, SameRequest
      <4> QED  BY <1>1, <1>2, <2>4, <3>1, <4>1, <4>2 DEF CheckInv, Found, Check!Wrong, Check!Has, Check!P
    <3>4. Feeding'
      <4>1. UNCHANGED app
        BY <1>2 DEF Check!call
      <4> QED  BY <2>1, <2>2, <3>1, <4>1 DEF CheckInv, Feeding, AtEnd
    <3> QED  BY <3>2, <3>3, <3>4, GoesOn
  <2> QED  BY <2>3, <2>4
<1> QED  BY <1>6, <1>7 DEF Check!Compare, d

\* Everything has been checked when the response was found to be the expected one.
LEMMA RightThen ==
  ASSUME Check!SizeAssumption, CheckInv, check_pc = "bind", ~ Check!OtherConditions
  PROVE  Check!RightHeader
<1> USE DEF Steps, AfterPresence, AfterName, AfterCount, AfterNonce, AfterUri, AfterResponse
<1>1. /\ h # NULL /\ h.algo = "BASE" /\ "BASE" \in app.algos
      /\ h.qop = "INVALID" \/ (h.qop \in app.qops /\ h.qop # "AUTH_INT")
      /\ Present /\ h.args = app.args /\ CheckTyped
      /\ app.max_nc = 0 \/ h.qop = "NONE" \/ h.count <= app.max_nc
  BY DEF CheckInv, Found
<1>2. /\ ~ Check!Wrong("username") /\ (Check!Has("username_ext") => ~ Check!Wrong("ext_notation"))
      /\ h.qop # "NONE" => ~ Check!Wrong("nc")
      /\ ~ Check!Wrong("nonce_form") /\ ~ Check!Wrong("nonce_age") /\ ~ Check!Wrong("nonce") /\ ~ Check!Wrong("uri")
      /\ ~ Check!Wrong("response_hex") /\ ~ Check!Wrong("response") /\ ~ Check!Wrong("realm")
      /\ app.bind => ~ Check!Wrong("conditions")
  BY DEF CheckInv, Found, Present, Check!OtherConditions
<1>3. h.wrong \subseteq (IF app.bind THEN {} ELSE {"conditions"}) \cup (IF h.qop = "NONE" THEN {"nc"} ELSE {})
                      \cup (IF Check!Has("username_ext") THEN {} ELSE {"ext_notation"})
  <2>1. h.wrong \subseteq Check!Wrongs
    BY <1>1 DEF CheckTyped, Check!Parsed
  <2> QED  BY <1>2, <2>1 DEF Check!Wrongs, Check!Wrong
<1>4. /\ Check!Has("username") # Check!Has("username_ext") /\ (h.userhash => Check!Has("username"))
      /\ IF h.userhash THEN Check!P("username").len \in 2 * DigestSize..4 * DigestSize
         ELSE IF Check!Has("username") THEN Check!P("username").len > 0 ELSE Check!P("username_ext").len >= ExtMin
  BY <1>1 DEF Present, Check!Has
<1>5. /\ \A p \in {"realm", "uri", "nonce", "response"} : Check!Has(p) /\ Check!P(p).len > 0
      /\ Check!P("nonce").len <= 2 * StdLen /\ Check!P("response").len <= 4 * DigestSize
      /\ h.qop # "NONE" => Check!Has("nc") /\ Check!Has("cnonce") /\ Check!P("nc").len \in 1..4 * NcLen /\ Check!P("cnonce").len > 0
  <2>1. /\ Check!Has("nonce") => Check!P("nonce").len \in Nat
        /\ Check!Has("response") => Check!P("response").len \in Nat
    BY <1>1, ParamsTyped
  <2> QED  BY <1>1, <2>1 DEF Present, Check!SizeAssumption
<1> QED  BY <1>1, <1>3, <1>4, <1>5 DEF Check!RightHeader

LEMMA BindingChecks ==
  ASSUME Check!SizeAssumption, Check!NullAssumption, Check!AppsAssumption, CheckInv, Check!CheckBinding
  PROVE  CheckInv'
<1> USE DEF Steps, AfterPresence, AfterName, AfterCount, AfterNonce, AfterUri, AfterResponse
<1>1. check_pc = "bind" /\ spent /\ da = AtEnd /\ CheckTyped
  BY DEF CheckInv, Found, Feeding, Check!CheckBinding
<1>2. UNCHANGED <<hash, spent, outside>> /\ UNCHANGED Check!call
  BY DEF Check!CheckBinding
<1>3. failed' = failed
  <2>1. Check!ResetAsserts(da) = {}
    BY <1>1, DigestSteps
  <2> QED  BY <2>1 DEF Check!CheckBinding
<1>4. CASE app.bind /\ app.ext_error /\ luck' = FALSE /\ Check!Return("ERROR")
  BY <1>2, <1>3, <1>4, HashFails
<1>5. CASE UNCHANGED luck /\ Check!Return(IF Check!OtherConditions THEN "NONCE_OTHER_COND" ELSE "OK")
  <2> DEFINE r == IF Check!OtherConditions THEN "NONCE_OTHER_COND" ELSE "OK"
  <2>1. r \in Check!Results /\ r \in {"OK", "NONCE_OTHER_COND"}
    BY DEF Check!Results
  <2>2. r = "OK" <=> Check!RightHeader
    <3>1. Check!OtherConditions => ~ Check!RightHeader
      BY RightMeans DEF Check!OtherConditions
    <3>2. ~ Check!OtherConditions => Check!RightHeader
      BY <1>1, RightThen
    <3> QED  BY <3>1, <3>2
  <2>3. Check!ReturnWith(Check!Buffers, r)
    BY <1>5 DEF Check!Return
  <2> HIDE DEF r
  <2>4. Verdict(r, luck, spent, used')
    BY <1>1, <2>1, <2>2 DEF Verdict
  <2> QED  BY <1>2, <1>3, <1>5, <2>1, <2>3, <2>4, BuffersAllocated, RefusalReturns
<1> QED  BY <1>4, <1>5 DEF Check!CheckBinding

LEMMA StepChecks ==
  ASSUME Check!SizeAssumption, Check!NullAssumption, Check!HeadersAssumption, Check!AppsAssumption, CheckInv, [Check!Next]_(Check!vars)
  PROVE  CheckInv'
<1>1. CASE UNCHANGED Check!vars
  <2>1. CheckTyped'
    BY <1>1 DEF Check!vars, CheckInv, CheckTyped, Allocated, Check!Parsed
  <2>2. Found'
    <3>1. UNCHANGED <<app, h, check_pc, result, spent>>
      BY <1>1 DEF Check!vars
    <3>2. Present' <=> Present
      BY <3>1, SameRequest
    <3> QED  BY <3>1, <3>2 DEF CheckInv, Found, Check!Wrong, Check!Has, Check!P
  <2>3. Feeding'
    BY <1>1 DEF Check!vars, CheckInv, Feeding, AtEnd, Clean, Fed, FedNonce, FedNc, FedCnonce, FedQop
  <2>4. Check!Authentic' /\ Check!CountSpentLate'
    <3>1. UNCHANGED <<app, h, check_pc, result, spent, luck, used>>
      BY <1>1 DEF Check!vars
    <3>2. Check!RightHeader' <=> Check!RightHeader
      BY <3>1, SameRequest
    <3>3. Check!Excused(result, used)' <=> Check!Excused(result, used)
      BY <3>1, SameRequest DEF Check!Excused
    <3> QED  BY <3>1, <3>2, <3>3 DEF CheckInv, Check!Authentic, Check!CountSpentLate, Check!Answered
  <2> QED  BY <2>1, <2>2, <2>3, <2>4 DEF CheckInv
<1>2. CASE Check!Next
  BY <1>2, RequestChecks, SetupChecks, PresenceChecks, PlainNameChecks, ExtendedChecks,
     UserhashChecks, CountChecks, NonceChecks, UriChecks, A1Checks, ResponseChecks, ParamChecks,
     CompareChecks, BindingChecks, Zenon DEF Check!Next
<1> QED  BY <1>1, <1>2

-----------------------------------------------------------------------------
(* Whatever the header says and in whichever way it is written, for any    *)
(* sizes of values and buffers and any mixture of failures: what each step *)
(* of digest_auth_check_all_inner() has found, what it has fed to the      *)
(* digest and the buffers it holds are as the next step expects.           *)
THEOREM ChecksKept ==
  ASSUME Check!SizeAssumption, Check!NullAssumption, Check!HeadersAssumption, Check!AppsAssumption
  PROVE  Check!Spec => []CheckInv
<1>1. Check!Init => CheckInv
  BY InitChecks
<1>2. CheckInv /\ [Check!Next]_(Check!vars) => CheckInv'
  BY StepChecks
<1> QED  BY <1>1, <1>2, PTL DEF Check!Spec

(* A request is authenticated only if its header is right and its count    *)
(* was taken for it; a right one is refused only for a stale nonce, a      *)
(* value that is too large or a failure; a count is spent only by a        *)
(* request with the right user and nonce; no buffer is overrun or leaked;  *)
(* and what is hashed are the values as they were sent                     *)
(* (digest_auth_check_all()).                                              *)
THEOREM CheckIsRight ==
  ASSUME Check!SizeAssumption, Check!NullAssumption, Check!HeadersAssumption, Check!AppsAssumption
  PROVE  Check!Spec => []Check!CheckedRightly /\ []CheckedRightly
<1>1. CheckInv => Check!CheckedRightly
  <2> SUFFICES ASSUME CheckInv PROVE Check!CheckedRightly
    OBVIOUS
  <2>1. Check!BuffersRight
    BY DEF CheckInv, CheckTyped, Allocated, Check!BuffersRight
  <2>2. Check!HashedAsSent
    <3>1. check_pc = "compare" => da.input \o <<"H(A2)">> = Check!Expected
      <4> SUFFICES ASSUME check_pc = "compare" PROVE da.input \o <<"H(A2)">> = Check!Expected
        OBVIOUS
      <4>1. da.input = IF h.qop = "NONE" THEN FedNonce ELSE FedQop
        BY DEF CheckInv, Feeding, Fed
      <4> QED  BY <4>1, AsExpected
    <3>2. check_pc = "compare" => hash.two = <<"method", "uri">>
      BY DEF CheckInv, Feeding, Steps, AfterPresence, AfterName, AfterCount, AfterNonce, AfterUri
    <3> QED  BY <3>1, <3>2 DEF CheckInv, Feeding, Check!HashedAsSent
  <2> QED  BY <2>1, <2>2 DEF CheckInv, Check!CheckedRightly
<1>2. Check!CheckedRightly => CheckedRightly
  BY DEF CheckedRightly
<1> QED  BY <1>1, <1>2, ChecksKept, PTL
=============================================================================
