---------------------------- MODULE DigestNonce ----------------------------
(***************************************************************************)
(* The nonce-nc table of digest authentication (digestauth.c): the server  *)
(* nonces handed out with a "401" reply, the slots they are recorded in,   *)
(* and the check of a nonce count sent by a client.                        *)
(*                                                                         *)
(* A nonce is the time of its generation together with a hash of the       *)
(* conditions of the request, of which the address and port of the client  *)
(* stand for all.  Several clients share a slot of the table.  The clock   *)
(* is read before the table's mutex is taken, so a new nonce takes up to   *)
(* four steps: the clock, the first attempt to record it, and the same     *)
(* again.                                                                  *)
(***************************************************************************)
EXTENDS Integers, FiniteSets

CONSTANTS
  Client,        \* clients, by address and port
  Slot,          \* indices of daemon->nnc
  SlotOf,        \* get_nonce_nc_idx(): the slot of each nonce
  MaskBits,      \* the width of nmask: 64
  NcEnd,         \* the first nonce count refused as too large: UINT32_MAX - 64
  MaxNc,         \* the application's limit for nonce counts, 0 for none
  TimeEnd,       \* the bound of the clock, below the wrap of the timestamp
  TsMod,         \* the timestamp is kept modulo this: 2^48
  ReuseTimeout,  \* REUSE_TIMEOUT
  NonceTimeout,  \* the application's limit for the age of a nonce
  JumpBack,      \* DAUTH_JUMPBACK_MAX
  NoNonce        \* the content of an empty slot

Nonces == Client \X (0 .. TsMod - 1)
Counts == 1 .. NcEnd

ASSUME SlotAssumption == SlotOf \in [Nonces -> Slot] /\ NoNonce \notin Nonces
ASSUME WidthAssumption == MaskBits \in Nat \ {0} /\ NcEnd \in Nat /\ MaxNc \in Nat
ASSUME TimeAssumption ==
  /\ TimeEnd \in Nat /\ TsMod \in Nat \ {0} /\ ReuseTimeout \in Nat
  /\ NonceTimeout \in Nat /\ JumpBack \in 0 .. TimeEnd

VARIABLES
  now,       \* MHD_monotonic_msec_counter()
  nonce,     \* nnc[s].nonce
  nc,        \* nnc[s].nc, the largest count seen
  nmask,     \* nnc[s].nmask: bit d - 1 stands for the count nc - d
  accepted,  \* how often each count was accepted since the slot was taken
  pc,        \* what the connection of a client is doing
  ts,        \* the clock value it has read
  held,      \* the nonce the client was given
  fresh,     \* was it recorded and is it still to be used for the first time?
  verdict    \* the answer to the client's last request

slotvars == <<nonce, nc, nmask, accepted>>
clientvars == <<pc, ts, held, fresh, verdict>>
vars == <<now, slotvars, clientvars>>

Init ==
  /\ now = JumpBack
  /\ nonce = [s \in Slot |-> NoNonce]
  /\ nc = [s \in Slot |-> 0]
  /\ nmask = [s \in Slot |-> {}]
  /\ accepted = [s \in Slot |-> [k \in Counts |-> 0]]
  /\ pc = [c \in Client |-> "idle"]
  /\ ts = [c \in Client |-> 0]
  /\ held = [c \in Client |-> NoNonce]
  /\ fresh = [c \in Client |-> FALSE]
  /\ verdict = [c \in Client |-> "none"]

\* TRIM_TO_TIMESTAMP() of a difference of unsigned values.
Trim(d) == d % TsMod

Tick ==
  /\ now < TimeEnd
  /\ now' = now + 1
  /\ UNCHANGED <<slotvars, clientvars>>

-----------------------------------------------------------------------------
(***************************************************************************)
(* A new nonce.                                                            *)
(***************************************************************************)

\* A slip: a nonce that was never used is not protected.
MutantUnusedTaken(n, t) ==
  LET s == SlotOf[n] IN nonce[s] = NoNonce \/ nonce[s] # n

\* Can the nonce be put into its slot?  t is the time the nonce is made with,
\* which is not later than the clock and may be earlier.
is_slot_available(n, t) ==
  LET s == SlotOf[n] IN
  \/ nonce[s] = NoNonce
  \/ /\ nonce[s] # n
     /\ nc[s] # 0 \/ ReuseTimeout < Trim(t - nonce[s][2])

Record(s, n) ==
  /\ nonce' = [nonce EXCEPT ![s] = n]
  /\ nc' = [nc EXCEPT ![s] = 0]
  /\ nmask' = [nmask EXCEPT ![s] = {}]
  /\ accepted' = [accepted EXCEPT ![s] = [k \in Counts |-> 0]]

\* A request without credentials: calculate_add_nonce_with_retry() reads the
\* clock.
Challenge(c) ==
  /\ pc[c] = "idle"
  /\ ts' = [ts EXCEPT ![c] = now]
  /\ pc' = [pc EXCEPT ![c] = "first"]
  /\ UNCHANGED <<now, slotvars, held, fresh, verdict>>

\* calculate_add_nonce() with the first timestamp.
AddFirst(c) ==
  LET n == <<c, Trim(ts[c])>> IN
  /\ pc[c] = "first"
  /\ held' = [held EXCEPT ![c] = n]
  /\ IF is_slot_available(n, ts[c])
     THEN /\ Record(SlotOf[n], n)
          /\ pc' = [pc EXCEPT ![c] = "idle"]
          /\ fresh' = [fresh EXCEPT ![c] = TRUE]
     ELSE /\ pc' = [pc EXCEPT ![c] = "clock"]
          /\ fresh' = [fresh EXCEPT ![c] = FALSE]
          /\ UNCHANGED slotvars
  /\ UNCHANGED <<now, ts, verdict>>

\* The time of the second attempt: the clock's new value, or a value set back
\* by some milliseconds if the clock has not moved.
Again(c) ==
  /\ pc[c] = "clock"
  /\ \E t \in IF now # ts[c] THEN {now} ELSE {now - d : d \in 1 .. JumpBack} :
       ts' = [ts EXCEPT ![c] = t]
  /\ pc' = [pc EXCEPT ![c] = "again"]
  /\ UNCHANGED <<now, slotvars, held, fresh, verdict>>

\* calculate_add_nonce() with the second timestamp.  If it fails as well the
\* client is given the first nonce, which is not recorded.
AddAgain(c) ==
  LET n == <<c, Trim(ts[c])>> IN
  /\ pc[c] = "again"
  /\ pc' = [pc EXCEPT ![c] = "idle"]
  /\ IF is_slot_available(n, ts[c])
     THEN /\ Record(SlotOf[n], n)
          /\ held' = [held EXCEPT ![c] = n]
          /\ fresh' = [fresh EXCEPT ![c] = TRUE]
     ELSE UNCHANGED <<slotvars, held, fresh>>
  /\ UNCHANGED <<now, ts, verdict>>

-----------------------------------------------------------------------------
(***************************************************************************)
(* The check of a nonce and its count.                                     *)
(***************************************************************************)

\* digest_auth_check_all_inner(), first vetting: the count is too large or the
\* nonce too old.
FirstVetting(c, k) ==
  /\ MaxNc # 0 => k <= MaxNc
  /\ k < NcEnd
  /\ Trim(now - held[c][2]) <= NonceTimeout

CheckRefused(c, k) ==
  /\ pc[c] = "idle" /\ held[c] # NoNonce
  /\ ~FirstVetting(c, k)
  /\ verdict' = [verdict EXCEPT ![c] = "STALE"]
  /\ UNCHANGED <<now, slotvars, pc, ts, held, fresh>>

\* check_nonce_nc(): the nonce in the slot is another one.
Mismatch(s, n) ==
  LET diff == Trim(n[2] - nonce[s][2]) IN
  CASE nonce[s] = NoNonce          -> "WRONG"
    [] nonce[s] # NoNonce
       /\ diff <= ReuseTimeout     -> "STALE"
    [] nonce[s] # NoNonce
       /\ diff > ReuseTimeout
       /\ diff <= (TsMod - 1) \div 2 -> "STALE"
    [] OTHER                       -> "WRONG"

MutantBitUnchecked(s, k) ==
  \/ k > nc[s]
  \/ k < nc[s] /\ nc[s] <= k + MaskBits

\* A count is accepted if it is larger than any before, or if it is within
\* the mask and its bit is not set.
CountAdmitted(s, k) ==
  \/ k > nc[s]
  \/ k < nc[s] /\ nc[s] <= k + MaskBits /\ (nc[s] - k) \notin nmask[s]

MutantShiftForgetsOld(mask, jump) ==
  IF jump < MaskBits THEN {d + jump : d \in mask} \cap (1 .. MaskBits) ELSE {}

\* The mask after a jump to a larger count: shifted, with a bit for the count
\* that was the largest so far.
ShiftedMask(mask, jump) ==
  CASE jump < MaskBits -> ({d + jump : d \in mask} \cap (1 .. MaskBits)) \cup {jump}
    [] jump = MaskBits -> {MaskBits}
    [] OTHER           -> {}

CheckSlot(c, k) ==
  LET n == held[c]
      s == SlotOf[held[c]] IN
  /\ pc[c] = "idle" /\ held[c] # NoNonce
  /\ FirstVetting(c, k)
  /\ fresh' = [fresh EXCEPT ![c] = FALSE]
  /\ \/ /\ nonce[s] # n
        /\ verdict' = [verdict EXCEPT ![c] = Mismatch(s, n)]
        /\ UNCHANGED slotvars
     \/ /\ nonce[s] = n /\ ~CountAdmitted(s, k)
        /\ verdict' = [verdict EXCEPT ![c] = "STALE"]
        /\ UNCHANGED slotvars
     \/ /\ nonce[s] = n /\ CountAdmitted(s, k)
        /\ verdict' = [verdict EXCEPT ![c] = "OK"]
        /\ accepted' = [accepted EXCEPT ![s] = [accepted[s] EXCEPT ![k] = @ + 1]]
        /\ IF k > nc[s]
           THEN /\ nmask' = [nmask EXCEPT ![s] = ShiftedMask(@, k - nc[s])]
                /\ nc' = [nc EXCEPT ![s] = k]
           ELSE /\ nmask' = [nmask EXCEPT ![s] = @ \cup {nc[s] - k}]
                /\ UNCHANGED nc
        /\ UNCHANGED nonce
  /\ UNCHANGED <<now, pc, ts, held>>

Next ==
  \/ Tick
  \/ \E c \in Client :
       \/ Challenge(c) \/ AddFirst(c) \/ Again(c) \/ AddAgain(c)
       \/ \E k \in Counts : CheckRefused(c, k) \/ CheckSlot(c, k)

Spec == Init /\ [][Next]_vars
-----------------------------------------------------------------------------
\* The type invariant; the mask has no bit beyond its width.
TypeOK ==
  /\ now \in 0 .. TimeEnd
  /\ nonce \in [Slot -> Nonces \cup {NoNonce}]
  /\ nc \in [Slot -> Nat]
  /\ nmask \in [Slot -> SUBSET (1 .. MaskBits)]
  /\ accepted \in [Slot -> [Counts -> Nat]]
  /\ pc \in [Client -> {"idle", "first", "clock", "again"}]
  /\ ts \in [Client -> Int]
  /\ held \in [Client -> Nonces \cup {NoNonce}]
  /\ fresh \in [Client -> BOOLEAN]
  /\ verdict \in [Client -> {"none", "OK", "STALE", "WRONG"}]

\* "... nonce-nc combination was not used before": since a nonce was put into
\* its slot every count was accepted at most once, in whatever order the
\* counts of the client arrive and however far they jump.
AcceptedOnce == \A s \in Slot, k \in Counts : accepted[s][k] <= 1

\* The mask and the largest count tell exactly which counts within the width
\* of the mask were accepted (the bit of count zero is set by the first jump).
MaskExact ==
  \A s \in Slot :
    /\ nc[s] # 0 => nc[s] \in Counts /\ accepted[s][nc[s]] = 1
    /\ \A k \in Counts : k > nc[s] => accepted[s][k] = 0
    /\ \A k \in Counts : k < nc[s] /\ nc[s] <= k + MaskBits =>
          (accepted[s][k] = 1 <=> nc[s] - k \in nmask[s])

\* A nonce that was recorded keeps its slot until its first use, whatever other
\* clients sharing the slot do, until it is older than REUSE_TIMEOUT.  It can
\* also lose the slot to a nonce made with an earlier clock value, for which the
\* unsigned difference in is_slot_available() wraps.
FreshKept ==
  [][\A c \in Client :
       LET s == SlotOf[held[c]] IN
       fresh[c] /\ nonce[s] = held[c] /\ nonce'[s] # held[c]
       => \/ Trim(now - held[c][2]) > ReuseTimeout
          \/ nonce'[s][2] < held[c][2]]_vars
=============================================================================
