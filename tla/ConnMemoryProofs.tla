------------------------- MODULE ConnMemoryProofs --------------------------
(***************************************************************************)
(* Proofs about ConnMemory for any size of the pool, any increment and any *)
(* lengths of what is received, allocated and sent; and about the start    *)
(* and the stop of a daemon.                                               *)
(***************************************************************************)
EXTENDS ConnMemory, StartUp, FiniteSetTheorems, FunctionTheorems, TLAPS

Sending == phase \in {"send", "chunk", "done", "last"}

(* There is a write buffer: a reply is sent, or an interim reply was.       *)
Holding == Sending \/ (Receiving /\ interim)

(* The buffer that is in use is the last block at the front of the pool,    *)
(* which is what the assertions of the code rely on.  While there is a      *)
(* write buffer the read buffer has no free space, and until the body is    *)
(* made ready the pool has none.  A read buffer with data is lost only in   *)
(* the reply that follows an interim reply.                                 *)
LastBlock ==
  /\ Receiving /\ ~interim => wbuf = NoWrite /\ ReadIsLast(pool, rbuf)
  /\ Holding => WriteIsLast(pool, wbuf) /\ rbuf.used = rbuf.size
  /\ phase = "send" \/ (Receiving /\ interim) => pool.pos = pool.end
  /\ interim => ~Reading
  /\ rbuf.off = Null /\ rbuf.used # 0 => interim

(* The inductive invariant. *)
IInv == TypeOK /\ Disjoint /\ LastBlock /\ AssertionsHold

-----------------------------------------------------------------------------
(***************************************************************************)
(* Rounding.                                                               *)
(***************************************************************************)
Aligned(n) == n \in Nat /\ Round(n) = n

LEMMA RoundUp ==
  ASSUME NEW n \in Nat
  PROVE  Round(n) \in Nat /\ n <= Round(n) /\ Aligned(Round(n))
<1>1. CASE Align = 4  BY <1>1 DEF Round, Aligned
<1>2. CASE Align = 8  BY <1>2 DEF Round, Aligned
<1>3. CASE Align = 16 BY <1>3 DEF Round, Aligned
<1> QED BY <1>1, <1>2, <1>3, PoolAssumption

LEMMA RoundMonotonic ==
  ASSUME NEW m \in Nat, NEW n \in Nat, m <= n
  PROVE  Round(m) <= Round(n)
<1>1. CASE Align = 4  BY <1>1 DEF Round
<1>2. CASE Align = 8  BY <1>2 DEF Round
<1>3. CASE Align = 16 BY <1>3 DEF Round
<1> QED BY <1>1, <1>2, <1>3, PoolAssumption

LEMMA RoundShift ==
  ASSUME NEW n \in Nat, NEW a \in Nat, Aligned(a)
  PROVE  Round(n + a) = Round(n) + a
<1>1. CASE Align = 4  BY <1>1 DEF Round, Aligned
<1>2. CASE Align = 8  BY <1>2 DEF Round, Aligned
<1>3. CASE Align = 16 BY <1>3 DEF Round, Aligned
<1> QED BY <1>1, <1>2, <1>3, PoolAssumption

LEMMA AlignedDifference ==
  ASSUME NEW a \in Nat, NEW b \in Nat, Aligned(a), Aligned(b), b <= a
  PROVE  Aligned(a - b)
<1>1. CASE Align = 4  BY <1>1 DEF Round, Aligned
<1>2. CASE Align = 8  BY <1>2 DEF Round, Aligned
<1>3. CASE Align = 16 BY <1>3 DEF Round, Aligned
<1> QED BY <1>1, <1>2, <1>3, PoolAssumption

LEMMA AlignedSum ==
  ASSUME NEW a \in Nat, NEW b \in Nat, Aligned(a), Aligned(b)
  PROVE  Aligned(a + b)
BY RoundShift DEF Aligned

(* Nothing is smaller than the alignment but zero. *)
LEMMA AlignedAtLeast ==
  ASSUME NEW a \in Nat, Aligned(a), a # 0
  PROVE  a \div 2 > 0
<1>1. CASE Align = 4  BY <1>1 DEF Round, Aligned
<1>2. CASE Align = 8  BY <1>2 DEF Round, Aligned
<1>3. CASE Align = 16 BY <1>3 DEF Round, Aligned
<1> QED BY <1>1, <1>2, <1>3, PoolAssumption

LEMMA SizeAligned == Size \in Nat /\ Aligned(Size) /\ PoolSize <= Size
BY RoundUp, PoolAssumption DEF Size

-----------------------------------------------------------------------------
(***************************************************************************)
(* The pool.                                                               *)
(***************************************************************************)
PoolOK(p) ==
  /\ p \in [pos : Offsets, end : Offsets]
  /\ Aligned(p.pos) /\ Aligned(p.end) /\ p.pos <= p.end

LEMMA FreeAligned ==
  ASSUME NEW p, PoolOK(p)
  PROVE  /\ MHD_pool_get_free(p) \in Nat
         /\ Aligned(MHD_pool_get_free(p))
         /\ MHD_pool_get_free(p) = p.end - p.pos
<1>1. p.pos \in Nat /\ p.end \in Nat /\ p.pos <= p.end
  BY SizeAligned DEF PoolOK, Offsets
<1> QED BY <1>1, AlignedDifference DEF PoolOK, MHD_pool_get_free

(* A block taken from the end. *)
LEMMA TakeEndOK ==
  ASSUME NEW p, PoolOK(p), NEW size \in Nat, Fits(p, size)
  PROVE  /\ PoolOK(TakeEnd(p, size))
         /\ TakeEnd(p, size).pos = p.pos
         /\ TakeEnd(p, size).end <= p.end
<1>1. p.pos \in Nat /\ p.end \in 0 .. Size /\ p.pos <= p.end /\ Size \in Nat
  BY SizeAligned DEF PoolOK, Offsets
<1>2. Round(size) \in Nat /\ Aligned(Round(size))
  BY RoundUp
<1>3. Round(size) <= p.end - p.pos
  BY FreeAligned DEF Fits
<1>4. Aligned(p.end - Round(size))
  BY <1>1, <1>2, <1>3, AlignedDifference DEF PoolOK
<1>5. TakeEnd(p, size) = [pos |-> p.pos, end |-> p.end - Round(size)]
  BY DEF TakeEnd, PoolOK
<1> QED BY <1>1, <1>2, <1>3, <1>4, <1>5 DEF PoolOK, Offsets

(* A block taken from the front. *)
LEMMA TakeFrontOK ==
  ASSUME NEW p, PoolOK(p), NEW size \in Nat, Fits(p, size)
  PROVE  /\ PoolOK(TakeFront(p, size))
         /\ TakeFront(p, size).pos = p.pos + Round(size)
         /\ TakeFront(p, size).end = p.end
<1>1. p.pos \in Nat /\ p.end \in 0 .. Size /\ p.pos <= p.end /\ Size \in Nat
  BY SizeAligned DEF PoolOK, Offsets
<1>2. Round(size) \in Nat /\ Aligned(Round(size))
  BY RoundUp
<1>3. Round(size) <= p.end - p.pos
  BY FreeAligned DEF Fits
<1>4. Aligned(p.pos + Round(size))
  BY <1>1, <1>2, AlignedSum DEF PoolOK
<1>5. TakeFront(p, size) = [pos |-> p.pos + Round(size), end |-> p.end]
  BY DEF TakeFront, PoolOK
<1> QED BY <1>1, <1>2, <1>3, <1>4, <1>5 DEF PoolOK, Offsets

(* The last block is resized in place if it shrinks or grows by no more     *)
(* than the free memory.                                                    *)
LEMMA ResizeLast ==
  ASSUME NEW p, PoolOK(p), NEW off \in Nat, NEW old \in Nat, NEW new \in Nat,
         MHD_pool_is_resizable_inplace(p, off, old),
         new <= old + MHD_pool_get_free(p)
  PROVE  LET r == MHD_pool_reallocate(p, off, old, new) IN
         /\ PoolOK(r.pool) /\ r.off = off
         /\ r.pool.pos = Round(off + new) /\ r.pool.end = p.end
<1> DEFINE apos == Round(off + new)
<1>1. p.pos \in Nat /\ p.end \in 0 .. Size /\ p.pos <= p.end /\ Size \in Nat
  BY SizeAligned DEF PoolOK, Offsets
<1>2. apos \in Nat /\ Aligned(apos)
  BY RoundUp
<1>3. apos <= p.end
  <2>1. Round(off + new) <= Round(off + old + MHD_pool_get_free(p))
    BY RoundMonotonic, FreeAligned
  <2>2. Round(off + old + MHD_pool_get_free(p))
          = Round(off + old) + MHD_pool_get_free(p)
    BY RoundShift, FreeAligned
  <2> QED BY <2>1, <2>2, <1>1, FreeAligned DEF MHD_pool_is_resizable_inplace
<1>4. MHD_pool_reallocate(p, off, old, new)
        = [pool |-> [p EXCEPT !.pos = apos], off |-> off]
  BY <1>3 DEF MHD_pool_reallocate
<1>5. [p EXCEPT !.pos = apos] = [pos |-> apos, end |-> p.end]
  BY DEF PoolOK
<1> QED BY <1>1, <1>2, <1>3, <1>4, <1>5 DEF PoolOK, Offsets

(* A new block of all the free memory. *)
LEMMA TakeAll ==
  ASSUME NEW p, PoolOK(p)
  PROVE  LET free == MHD_pool_get_free(p)
             r == MHD_pool_reallocate(p, Null, 0, free) IN
         /\ PoolOK(r.pool) /\ r.off = p.pos
         /\ r.pool.pos = p.end /\ r.pool.end = p.end
<1> DEFINE free == MHD_pool_get_free(p)
<1>1. p.pos \in Nat /\ p.end \in Nat /\ p.pos <= p.end
  BY SizeAligned DEF PoolOK, Offsets
<1>2. free \in Nat /\ Round(free) = free /\ free = p.end - p.pos
  BY FreeAligned DEF Aligned
<1>3. Fits(p, free)
  BY <1>2 DEF Fits
<1>4. MHD_pool_reallocate(p, Null, 0, free)
        = [pool |-> TakeFront(p, free), off |-> p.pos]
  <2>1. ~MHD_pool_is_resizable_inplace(p, Null, 0)
    BY DEF MHD_pool_is_resizable_inplace
  <2> QED BY <2>1, <1>3 DEF MHD_pool_reallocate
<1>5. PoolOK(TakeFront(p, free)) /\ TakeFront(p, free).pos = p.pos + free
        /\ TakeFront(p, free).end = p.end
  BY <1>2, <1>3, TakeFrontOK
<1> QED BY <1>1, <1>2, <1>4, <1>5

(* A buffer that is given back leaves the pool in order, whether it is the  *)
(* last block or not.                                                       *)
LEMMA DeallocOK ==
  ASSUME NEW p, PoolOK(p), NEW off \in Nat \cup {Null}, NEW size \in Nat,
         NEW low \in Nat, low <= p.pos,
         off # Null => low <= off /\ off + size <= p.pos
  PROVE  /\ PoolOK(MHD_pool_deallocate(p, off, size))
         /\ low <= MHD_pool_deallocate(p, off, size).pos
         /\ MHD_pool_deallocate(p, off, size).pos <= p.pos
<1>1. p.pos \in 0 .. Size /\ p.end \in 0 .. Size /\ p.pos <= p.end /\ Size \in Nat
  BY SizeAligned DEF PoolOK, Offsets
<1>2. CASE off # Null /\ size # 0 /\ Round(off + size) = p.pos
  <2>1. off \in Nat /\ off <= p.pos
    BY <1>1, <1>2 DEF Null
  <2>2. MHD_pool_deallocate(p, off, size) = [p EXCEPT !.pos = Round(off)]
    BY <1>1, <1>2, <2>1 DEF MHD_pool_deallocate
  <2>3. Round(off) \in Nat /\ Aligned(Round(off)) /\ off <= Round(off)
    BY <2>1, RoundUp
  <2>4. Round(off) <= p.pos
    BY <1>2, <2>1, RoundMonotonic
  <2>5. [p EXCEPT !.pos = Round(off)] = [pos |-> Round(off), end |-> p.end]
    BY DEF PoolOK
  <2> QED BY <1>1, <1>2, <2>1, <2>2, <2>3, <2>4, <2>5 DEF PoolOK, Offsets
<1>3. CASE ~(off # Null /\ size # 0 /\ Round(off + size) = p.pos)
  <2>1. off # Null => ~(off > p.pos)
    BY <1>1 DEF Null
  <2>2. MHD_pool_deallocate(p, off, size) = p
    BY <1>3, <2>1 DEF MHD_pool_deallocate
  <2> QED BY <1>1, <2>2
<1> QED BY <1>2, <1>3

LEMMA ResetOK ==
  ASSUME NEW size \in Nat, size <= Size
  PROVE  PoolOK(MHD_pool_reset(size))
<1>1. Round(size) \in Nat /\ Aligned(Round(size))
  BY RoundUp
<1>2. Round(size) <= Size
  BY SizeAligned, RoundMonotonic DEF Aligned
<1> QED BY <1>1, <1>2, SizeAligned DEF PoolOK, Offsets, MHD_pool_reset

-----------------------------------------------------------------------------
(***************************************************************************)
(* The buffers.                                                            *)
(***************************************************************************)
ReadType == [off : Offsets \cup {Null}, size : Offsets, used : Offsets]
WriteType ==
  [off : Offsets \cup {Null}, size : Offsets, send : Offsets, append : Offsets]

(* MHD_connection_alloc_memory_(): a buffer that has given up what is       *)
(* needed leaves exactly enough memory, because what is needed is aligned.  *)
LEMMA ShrinkFits ==
  ASSUME NEW p, PoolOK(p), NEW off \in Nat, NEW old \in Nat, NEW size \in Nat,
         MHD_pool_is_resizable_inplace(p, off, old),
         ~Fits(p, size),
         NEW need \in Int, need = Round(size) - MHD_pool_get_free(p),
         need <= old,
         NEW r, r = MHD_pool_reallocate(p, off, old, old - need)
  PROVE  /\ need \in Nat /\ PoolOK(r.pool) /\ r.off = off
         /\ r.pool.pos = Round(off + (old - need)) /\ r.pool.end = p.end
         /\ Fits(r.pool, size) /\ MHD_pool_get_free(r.pool) = Round(size)
<1>1. /\ MHD_pool_get_free(p) \in Nat /\ Aligned(MHD_pool_get_free(p))
      /\ MHD_pool_get_free(p) = p.end - p.pos
  BY FreeAligned
<1>2. Round(size) \in Nat /\ Aligned(Round(size))
  BY RoundUp
<1>3. need \in Nat /\ Aligned(need)
  BY <1>1, <1>2, AlignedDifference DEF Fits
<1>4. old - need \in Nat /\ old - need <= old + MHD_pool_get_free(p)
  BY <1>1, <1>3
<1>5. /\ PoolOK(r.pool) /\ r.off = off
      /\ r.pool.pos = Round(off + (old - need)) /\ r.pool.end = p.end
  BY <1>4, ResizeLast
<1>6. p.pos = r.pool.pos + need
  <2>1. Round((off + (old - need)) + need) = Round(off + (old - need)) + need
    BY <1>3, <1>4, RoundShift
  <2>2. (off + (old - need)) + need = off + old
    BY <1>3
  <2> QED BY <2>1, <2>2, <1>5 DEF MHD_pool_is_resizable_inplace
<1>7. MHD_pool_get_free(r.pool) = Round(size)
  <2>1. r.pool.pos \in Nat /\ p.end \in Nat /\ p.pos \in Nat
    BY <1>5, SizeAligned DEF PoolOK, Offsets
  <2>2. MHD_pool_get_free(r.pool) = p.end - r.pool.pos
    BY <1>5 DEF MHD_pool_get_free
  <2>3. p.end - r.pool.pos = (p.end - p.pos) + need
    BY <1>3, <1>6, <2>1
  <2>4. (p.end - p.pos) + need = Round(size)
    BY <1>1, <1>2, <1>3
  <2> QED BY <2>2, <2>3, <2>4
<1> QED BY <1>2, <1>3, <1>5, <1>7 DEF Fits

(* What connection_maximize_write_buffer() promises. *)
LEMMA MaximizedOK ==
  ASSUME NEW p, PoolOK(p), NEW w \in WriteType,
         w = NoWrite \/ (WriteIsLast(p, w) /\ w.off + w.size <= p.pos),
         w.send <= w.append, w.append <= w.size,
         NEW m, m = Maximized(p, w)
  PROVE  /\ PoolOK(m.pool) /\ p.pos <= m.pool.pos /\ m.pool.end = p.end
         /\ m.pool.pos = m.pool.end
         /\ m.wbuf \in WriteType
         /\ m.wbuf.send <= m.wbuf.append /\ m.wbuf.append <= m.wbuf.size
         /\ m.wbuf.append <= w.append
         /\ m.wbuf = NoWrite \/ ( /\ WriteIsLast(m.pool, m.wbuf)
                                  /\ m.wbuf.off + m.wbuf.size <= m.pool.pos
                                  /\ m.wbuf.off = IF w.off = Null THEN p.pos ELSE w.off )
         /\ WriteNotMoved(p, w) = {}
<1> DEFINE free == MHD_pool_get_free(p)
<1>1. p.pos \in 0 .. Size /\ p.end \in 0 .. Size /\ p.pos <= p.end /\ Size \in Nat
  BY SizeAligned DEF PoolOK, Offsets
<1>2. free \in Nat /\ Aligned(free) /\ free = p.end - p.pos
  BY FreeAligned
<1>3. WriteNotMoved(p, w) = {}
  BY DEF WriteNotMoved, Assert, NoWrite
<1>4. CASE free = 0
  <2>1. m = [pool |-> p, wbuf |-> w]
    BY <1>4 DEF Maximized
  <2>2. m.pool = p /\ m.wbuf = w
    BY <2>1
  <2>3. w.off = Null => w = NoWrite
    BY DEF WriteIsLast, MHD_pool_is_resizable_inplace
  <2>4. w.append \in Nat
    BY DEF WriteType, Offsets
  <2>5. p.pos = p.end
    BY <1>1, <1>2, <1>4
  <2> QED BY <1>1, <1>3, <2>2, <2>3, <2>4, <2>5
<1>5. CASE free # 0 /\ w = NoWrite
  <2> DEFINE r == MHD_pool_reallocate(p, Null, 0, free)
  <2>1. w.off = Null /\ w.size = 0 /\ w.send = 0 /\ w.append = 0 /\ 0 + free = free
    BY <1>2, <1>5 DEF NoWrite
  <2>2. m = [pool |-> r.pool,
             wbuf |-> [off |-> r.off, size |-> free, send |-> 0, append |-> 0]]
    BY <1>5, <2>1 DEF Maximized
  <2>3. PoolOK(r.pool) /\ r.off = p.pos /\ r.pool.pos = p.end /\ r.pool.end = p.end
    BY TakeAll
  <2>4. m.pool = r.pool /\ m.wbuf = [off |-> p.pos, size |-> free, send |-> 0, append |-> 0]
    BY <2>2, <2>3
  <2>5. m.wbuf \in WriteType
    BY <1>1, <1>2, <2>4 DEF WriteType, Offsets
  <2>6. WriteIsLast(m.pool, m.wbuf)
    <3>1. Round(p.end) = p.end /\ p.pos + free = p.end /\ p.pos # Null
      BY <1>1, <1>2 DEF PoolOK, Aligned, Null
    <3> QED BY <2>3, <2>4, <3>1 DEF WriteIsLast, MHD_pool_is_resizable_inplace
  <2> HIDE DEF r
  <2> QED BY <1>1, <1>2, <1>3, <2>1, <2>3, <2>4, <2>5, <2>6
<1>6. CASE free # 0 /\ w # NoWrite
  <2> DEFINE r == MHD_pool_reallocate(p, w.off, w.size, w.size + free)
  <2>1. w.off \in Nat /\ w.size \in Nat /\ w.send \in Nat /\ w.append \in Nat
    BY <1>1, <1>6 DEF WriteType, Offsets, WriteIsLast, MHD_pool_is_resizable_inplace
  <2>2. MHD_pool_is_resizable_inplace(p, w.off, w.size)
    BY <1>6 DEF WriteIsLast
  <2>3. /\ PoolOK(r.pool) /\ r.off = w.off /\ r.pool.end = p.end
        /\ r.pool.pos = Round(w.off + (w.size + free))
    <3>1. w.size + free \in Nat /\ w.size + free <= w.size + MHD_pool_get_free(p)
      BY <1>2, <2>1
    <3> HIDE DEF free
    <3> QED BY <2>1, <2>2, <3>1, ResizeLast
  <2>4. r.pool.pos = p.end
    <3>1. Round((w.off + w.size) + free) = Round(w.off + w.size) + free
      BY <1>2, <2>1, RoundShift
    <3>2. (w.off + w.size) + free = w.off + (w.size + free)
      BY <1>2, <2>1
    <3> QED BY <1>1, <1>2, <2>2, <2>3, <3>1, <3>2 DEF MHD_pool_is_resizable_inplace
  <2>5. /\ m.pool = r.pool
        /\ m.wbuf.off = w.off /\ m.wbuf.size = w.size + free
        /\ m.wbuf.send = (IF w.send = w.append THEN 0 ELSE w.send)
        /\ m.wbuf.append = (IF w.send = w.append THEN 0 ELSE w.append)
        /\ m.wbuf = [off |-> m.wbuf.off, size |-> m.wbuf.size,
                     send |-> m.wbuf.send, append |-> m.wbuf.append]
    BY <1>6, <2>3 DEF Maximized
  <2>6. w.off + (w.size + free) <= p.end
    BY <1>1, <1>2, <1>6, <2>1
  <2>7. WriteIsLast(m.pool, m.wbuf)
    BY <2>1, <2>3, <2>5, <2>6 DEF WriteIsLast, MHD_pool_is_resizable_inplace, Null
  <2>8. m.wbuf \in WriteType
    <3>1. m.wbuf.size \in Offsets /\ m.wbuf.off \in Offsets
      BY <1>1, <1>2, <2>1, <2>5, <2>6 DEF Offsets
    <3>2. m.wbuf.send \in Offsets /\ m.wbuf.append \in Offsets
      BY <1>1, <2>5 DEF WriteType, Offsets
    <3> QED BY <2>5, <3>1, <3>2 DEF WriteType
  <2>9. w.off # Null
    BY <2>1 DEF Null
  <2> HIDE DEF r
  <2> QED BY <1>1, <1>2, <1>3, <2>1, <2>3, <2>4, <2>5, <2>6, <2>7, <2>8, <2>9
<1> QED BY <1>4, <1>5, <1>6

-----------------------------------------------------------------------------
(***************************************************************************)
(* The steps.                                                              *)
(***************************************************************************)

(* The invariant, with the numbers of the buffers spelled out. *)
LEMMA Facts ==
  ASSUME IInv
  PROVE  /\ PoolOK(pool) /\ rbuf \in ReadType /\ wbuf \in WriteType
         /\ pool.pos \in Nat /\ pool.end \in Nat /\ pool.pos <= pool.end
         /\ pool.end <= Size /\ Size \in Nat
         /\ kept \in Nat /\ kept <= pool.pos
         /\ rbuf.size \in Nat /\ rbuf.used \in Nat /\ rbuf.used <= rbuf.size
         /\ wbuf.size \in Nat /\ wbuf.send \in Nat /\ wbuf.append \in Nat
         /\ wbuf.send <= wbuf.append /\ wbuf.append <= wbuf.size
         /\ rbuf.off # Null => rbuf.off \in Nat
         /\ wbuf.off # Null => wbuf.off \in Nat
BY SizeAligned DEF IInv, TypeOK, Disjoint, PoolOK, ReadType, WriteType, Offsets, Aligned

(* While a request is received. *)
LEMMA ReceivingFacts ==
  ASSUME IInv, Receiving, ~interim
  PROVE  /\ rbuf.off \in Nat /\ rbuf.off + rbuf.size <= pool.pos /\ kept <= rbuf.off
         /\ wbuf = NoWrite /\ wbuf.off = Null /\ wbuf.size = 0 /\ wbuf.append = 0
         /\ MHD_pool_is_resizable_inplace(pool, rbuf.off, rbuf.size)
BY Facts DEF IInv, LastBlock, ReadIsLast, MHD_pool_is_resizable_inplace,
             Disjoint, NoWrite

(* While there is a write buffer. *)
LEMMA SendingFacts ==
  ASSUME IInv, Holding
  PROVE  /\ wbuf.off \in Nat /\ wbuf.off + wbuf.size <= pool.pos /\ kept <= wbuf.off
         /\ MHD_pool_is_resizable_inplace(pool, wbuf.off, wbuf.size)
         /\ rbuf.used = rbuf.size
BY Facts DEF IInv, LastBlock, WriteIsLast, MHD_pool_is_resizable_inplace, Disjoint

(* An allocation keeps the invariant in whatever phase it is made. *)
LEMMA AllocKeeps ==
  ASSUME IInv, discard' \in BOOLEAN, interim' \in BOOLEAN, NEW size \in Nat,
         AllocFree(size) \/ AllocFromWrite(size) \/ AllocFromRead(size),
         UNCHANGED <<kept, interim>>,
         (Receiving /\ UNCHANGED phase) \/ (phase = "send" /\ phase' = "done")
  PROVE  IInv'
<1> USE Facts
<1>1. CASE AllocFree(size)
  <2>1. /\ PoolOK(pool') /\ pool'.pos = pool.pos /\ pool'.end <= pool.end
    BY <1>1, TakeEndOK DEF AllocFree
  <2>2. pool' \in [pos : Offsets, end : Offsets] /\ pool'.pos <= pool'.end
    BY <2>1 DEF PoolOK
  <2>3. TypeOK'
    BY <1>1, <2>1, <2>2 DEF AllocFree, IInv, TypeOK, PoolOK, Aligned, Receiving, Offsets
  <2>4. Disjoint'
    BY <1>1, <2>1, <2>2 DEF AllocFree, IInv, Disjoint
  <2>5. pool.pos = pool.end => pool'.pos = pool'.end
    BY <2>1, SizeAligned DEF PoolOK, Offsets
  <2>6. LastBlock'
    BY <1>1, <2>1, <2>5 DEF AllocFree, IInv, LastBlock, Holding, Receiving, Reading, Sending,
                      ReadIsLast, WriteIsLast, MHD_pool_is_resizable_inplace
  <2> QED BY <1>1, <2>3, <2>4, <2>6 DEF AllocFree, IInv, AssertionsHold
<1>2. CASE AllocFromWrite(size)
  <2>1. Holding /\ (phase' = "done" \/ (Receiving /\ interim /\ phase' = phase))
    BY <1>2, ReceivingFacts DEF AllocFromWrite, WriteIsLast, Holding,
                                MHD_pool_is_resizable_inplace, Sending
  <2> DEFINE need == Needed(size)
             r == MHD_pool_reallocate(pool, wbuf.off, wbuf.size, wbuf.size - need)
  <2>2. need = Round(size) - MHD_pool_get_free(pool) /\ need \in Int
    BY FreeAligned, RoundUp DEF Needed
  <2>3. need <= wbuf.size - wbuf.append
    BY <1>2, <2>2 DEF AllocFromWrite
  <2>4. /\ need \in Nat /\ PoolOK(r.pool) /\ r.off = wbuf.off
        /\ r.pool.pos = Round(wbuf.off + (wbuf.size - need))
        /\ r.pool.end = pool.end
        /\ Fits(r.pool, size) /\ MHD_pool_get_free(r.pool) = Round(size)
    <3>1. need <= wbuf.size
      BY <2>2, <2>3
    <3>2. ~Fits(pool, size)
      BY <1>2 DEF AllocFromWrite
    <3>3. /\ MHD_pool_is_resizable_inplace(pool, wbuf.off, wbuf.size)
          /\ wbuf.off \in Nat /\ wbuf.size \in Nat /\ PoolOK(pool)
      BY <2>1, SendingFacts
    <3>4. r = MHD_pool_reallocate(pool, wbuf.off, wbuf.size, wbuf.size - need)
      OBVIOUS
    <3> HIDE DEF need, r
    <3> QED BY <2>2, <3>1, <3>2, <3>3, <3>4, ShrinkFits, SMTT(40)
  <2>5. /\ PoolOK(pool') /\ pool'.pos = Round(wbuf.off + (wbuf.size - need))
        /\ pool'.end <= pool.end
    BY <1>2, <2>4, TakeEndOK DEF AllocFromWrite
  <2>5a. pool'.pos = pool'.end
    <3>1. pool' = TakeEnd(r.pool, size)
      BY <1>2, <2>4 DEF AllocFromWrite
    <3>2. r.pool.pos \in Nat /\ r.pool.end \in Nat
      BY <2>4 DEF PoolOK, Offsets
    <3>3. Round(size) = r.pool.end - r.pool.pos
      BY <2>4 DEF MHD_pool_get_free
    <3>4. pool' = [pos |-> r.pool.pos, end |-> r.pool.end - Round(size)]
      BY <2>4, <3>1 DEF TakeEnd, PoolOK
    <3> HIDE DEF r
    <3> QED BY <3>2, <3>3, <3>4
  <2>6. /\ wbuf' = [wbuf EXCEPT !.off = wbuf.off, !.size = wbuf.size - need]
        /\ rbuf' = rbuf /\ kept' = kept /\ failed' = failed
    BY <1>2, <2>4 DEF AllocFromWrite, AllocChecked, Assert
  <2>7. /\ wbuf'.off = wbuf.off /\ wbuf'.size = wbuf.size - need
        /\ wbuf'.send = wbuf.send /\ wbuf'.append = wbuf.append
        /\ wbuf' \in WriteType
    <3> HIDE DEF need
    <3>1. wbuf.size - need \in Offsets
      BY <2>3, <2>4 DEF WriteType, Offsets
    <3> QED BY <2>6, <3>1 DEF WriteType
  <2>8. wbuf.off + (wbuf.size - need) <= pool'.pos
    BY <2>1, <2>2, <2>3, <2>4, <2>5, RoundUp, SendingFacts
  <2> HIDE DEF need, r
  <2>9. TypeOK'
    BY <2>1, <2>5, <2>6, <2>7 DEF IInv, TypeOK, PoolOK, Aligned, WriteType
  <2>10. Disjoint'
    <3>1. kept <= pool'.pos /\ pool'.pos <= pool'.end
      BY <2>1, <2>3, <2>4, <2>5, <2>8, SendingFacts DEF PoolOK, Offsets
    <3>2. wbuf'.send <= wbuf'.append /\ wbuf'.append <= wbuf'.size
      BY <2>3, <2>4, <2>7
    <3>3. rbuf.off # Null => rbuf.off + rbuf.size <= pool'.pos
      <4>1. rbuf.off # Null => rbuf.off + rbuf.size <= wbuf.off
        BY <2>1, SendingFacts DEF IInv, Disjoint, Null
      <4>2. wbuf.off <= pool'.pos /\ pool'.pos \in Nat
        BY <2>1, <2>3, <2>4, <2>5, <2>8, SendingFacts DEF PoolOK, Offsets
      <4> QED BY <2>1, <4>1, <4>2, SendingFacts
    <3> QED BY <2>1, <2>6, <2>7, <2>8, <3>1, <3>2, <3>3, SendingFacts DEF IInv, Disjoint
  <2>11. LastBlock'
    BY <2>1, <2>5, <2>5a, <2>6, <2>7, SendingFacts
       DEF IInv, LastBlock, Holding, Receiving, Reading, Sending, WriteIsLast,
           MHD_pool_is_resizable_inplace
  <2> QED BY <2>6, <2>9, <2>10, <2>11 DEF IInv, AssertionsHold
<1>3. CASE AllocFromRead(size)
  <2>1. Receiving /\ ~interim /\ phase' = phase
    BY <1>3, SendingFacts DEF AllocFromRead, WriteIsLast, Sending, Holding
  <2> DEFINE need == Needed(size)
             r == MHD_pool_reallocate(pool, rbuf.off, rbuf.size, rbuf.size - need)
  <2>2. need = Round(size) - MHD_pool_get_free(pool) /\ need \in Int
    BY FreeAligned, RoundUp DEF Needed
  <2>3. need <= rbuf.size - rbuf.used
    BY <1>3, <2>2 DEF AllocFromRead
  <2>4. /\ need \in Nat /\ PoolOK(r.pool) /\ r.off = rbuf.off
        /\ r.pool.pos = Round(rbuf.off + (rbuf.size - need))
        /\ r.pool.end = pool.end
        /\ Fits(r.pool, size)
    <3>1. need <= rbuf.size
      BY <2>2, <2>3
    <3>2. ~Fits(pool, size)
      BY <1>3 DEF AllocFromRead
    <3>3. /\ MHD_pool_is_resizable_inplace(pool, rbuf.off, rbuf.size)
          /\ rbuf.off \in Nat /\ rbuf.size \in Nat /\ PoolOK(pool)
      BY <2>1, ReceivingFacts
    <3>4. r = MHD_pool_reallocate(pool, rbuf.off, rbuf.size, rbuf.size - need)
      OBVIOUS
    <3> HIDE DEF need, r
    <3> QED BY <2>2, <3>1, <3>2, <3>3, <3>4, ShrinkFits, SMTT(40)
  <2>5. /\ PoolOK(pool') /\ pool'.pos = Round(rbuf.off + (rbuf.size - need))
        /\ pool'.end <= pool.end
    BY <1>3, <2>4, TakeEndOK DEF AllocFromRead
  <2>6. /\ rbuf' = [rbuf EXCEPT !.off = rbuf.off, !.size = rbuf.size - need]
        /\ wbuf' = wbuf /\ kept' = kept /\ failed' = failed
    BY <1>3, <2>4 DEF AllocFromRead, AllocChecked, Assert
  <2>7. /\ rbuf'.off = rbuf.off /\ rbuf'.size = rbuf.size - need
        /\ rbuf'.used = rbuf.used /\ rbuf' \in ReadType
    <3> HIDE DEF need
    <3>1. rbuf.size - need \in Offsets
      BY <2>3, <2>4 DEF ReadType, Offsets
    <3> QED BY <2>6, <3>1 DEF ReadType
  <2>8. rbuf.off + (rbuf.size - need) <= pool'.pos
    BY <2>1, <2>2, <2>3, <2>4, <2>5, RoundUp, ReceivingFacts
  <2> HIDE DEF need, r
  <2>9. TypeOK'
    BY <2>1, <2>5, <2>6, <2>7 DEF IInv, TypeOK, PoolOK, Aligned, ReadType
  <2>10. Disjoint'
    BY <2>1, <2>3, <2>4, <2>5, <2>6, <2>7, <2>8, ReceivingFacts
       DEF Disjoint, PoolOK, Offsets, NoWrite, Null
  <2>11. LastBlock'
    BY <2>1, <2>5, <2>6, <2>7, ReceivingFacts
       DEF LastBlock, Holding, Receiving, Reading, Sending, ReadIsLast, Null,
           MHD_pool_is_resizable_inplace
  <2> QED BY <2>6, <2>9, <2>10, <2>11 DEF IInv, AssertionsHold
<1> QED BY <1>1, <1>2, <1>3

(* A header that fits stays within the write buffer. *)
LEMMA WithHeaderOK ==
  ASSUME NEW w \in WriteType, w.send <= w.append, w.append <= w.size,
         NEW n \in Nat, w.append + n <= w.size
  PROVE  LET h == WithHeader(w, n) IN
         /\ h \in WriteType /\ h.off = w.off /\ h.size = w.size
         /\ h.send <= h.append /\ h.append <= h.size
<1>1. w.append + n \in Offsets
  BY SizeAligned DEF WriteType, Offsets
<1> QED BY <1>1, SizeAligned DEF WriteType, Offsets, WithHeader

(* transmit_error_response_len() *)
LEMMA ErrorReplyKeeps ==
  ASSUME IInv, discard' \in BOOLEAN, interim' \in BOOLEAN, Receiving, ~interim, NEW n \in Nat,
         n > 0, ErrorReply(n)
  PROVE  IInv'
<1> DEFINE p == MHD_pool_deallocate(pool, rbuf.off, rbuf.size)
           first == Maximized(p, wbuf)
           retry == Maximized(MHD_pool_reset(0), NoWrite)
<1>1. PoolOK(p) /\ kept <= p.pos /\ p.pos <= pool.pos /\ p.pos \in Nat
  <2>1. PoolOK(p) /\ kept <= p.pos /\ p.pos <= pool.pos
    BY Facts, ReceivingFacts, DeallocOK
  <2> QED BY <2>1, SizeAligned DEF PoolOK, Offsets
<1>2. /\ PoolOK(first.pool) /\ p.pos <= first.pool.pos
      /\ first.wbuf \in WriteType
      /\ first.wbuf.send <= first.wbuf.append /\ first.wbuf.append <= first.wbuf.size
      /\ first.wbuf = NoWrite \/ ( /\ WriteIsLast(first.pool, first.wbuf)
                                   /\ first.wbuf.off + first.wbuf.size <= first.pool.pos
                                   /\ first.wbuf.off = p.pos )
      /\ WriteNotMoved(p, wbuf) = {}
  <2> HIDE DEF p
  <2> QED BY <1>1, Facts, ReceivingFacts, MaximizedOK
<1>3. failed' = failed /\ interim' = interim
  BY <1>2 DEF ErrorReply
<1>4. CASE HeaderFits(first.wbuf, n)
  <2>1. /\ pool' = first.pool /\ wbuf' = WithHeader(first.wbuf, n)
        /\ rbuf' = (IF rbuf.size # 0 THEN NoRead ELSE rbuf)
        /\ kept' = kept /\ phase' = "last"
    BY <1>4 DEF ErrorReply
  <2>2. first.wbuf # NoWrite /\ first.wbuf.append + n <= first.wbuf.size
    BY <1>4 DEF HeaderFits, NoWrite
  <2> HIDE DEF first, p
  <2>3. /\ wbuf' \in WriteType /\ wbuf'.off = p.pos /\ wbuf'.size = first.wbuf.size
        /\ wbuf'.send <= wbuf'.append /\ wbuf'.append <= wbuf'.size
    BY <1>2, <2>1, <2>2, WithHeaderOK
  <2>4. rbuf' \in ReadType
    BY <2>1, Facts DEF ReadType, NoRead, Offsets
  <2>5. TypeOK'
    BY <1>2, <1>3, <2>1, <2>3, <2>4, Facts
       DEF IInv, TypeOK, PoolOK, Aligned, ReadType, WriteType
  <2>6. rbuf'.off # Null => /\ rbuf' = rbuf /\ rbuf.size = 0
                            /\ rbuf.off <= p.pos
    <3>1. rbuf.size = 0 => p = pool
      BY DEF p, MHD_pool_deallocate
    <3> QED BY <2>1, <3>1, Facts, ReceivingFacts DEF NoRead
  <2>7. Disjoint'
    BY <1>1, <1>2, <2>1, <2>2, <2>3, <2>6, Facts, ReceivingFacts
       DEF IInv, Disjoint, PoolOK, Offsets, NoRead
  <2>8. LastBlock'
    <3>1. rbuf'.used = 0 /\ rbuf'.size = 0
      BY <2>1, Facts DEF NoRead
    <3> QED BY <1>2, <1>3, <2>1, <2>2, <2>3, <3>1
            DEF LastBlock, Holding, Receiving, Sending, WriteIsLast,
                MHD_pool_is_resizable_inplace
  <2> QED BY <1>3, <2>5, <2>7, <2>8 DEF IInv, AssertionsHold
<1>5. CASE ~HeaderFits(first.wbuf, n)
  <2>1. /\ pool' = retry.pool /\ kept' = 0
        /\ rbuf' = [off |-> 0, size |-> 0, used |-> 0]
        /\ wbuf' = IF HeaderFits(retry.wbuf, n) THEN WithHeader(retry.wbuf, n)
                   ELSE retry.wbuf
        /\ phase' = IF HeaderFits(retry.wbuf, n) THEN "last" ELSE "closed"
    BY <1>5 DEF ErrorReply
  <2>2. PoolOK(MHD_pool_reset(0)) /\ MHD_pool_reset(0).pos \in Nat
    BY ResetOK, SizeAligned DEF PoolOK, Offsets
  <2>3. NoWrite \in WriteType /\ NoWrite.send <= NoWrite.append
          /\ NoWrite.append <= NoWrite.size /\ NoWrite.off = Null
    BY SizeAligned DEF NoWrite, WriteType, Offsets
  <2>4. /\ PoolOK(retry.pool)
        /\ retry.wbuf \in WriteType
        /\ retry.wbuf.send <= retry.wbuf.append /\ retry.wbuf.append <= retry.wbuf.size
        /\ retry.wbuf = NoWrite \/ ( /\ WriteIsLast(retry.pool, retry.wbuf)
                                     /\ retry.wbuf.off + retry.wbuf.size <= retry.pool.pos
                                     /\ retry.wbuf.off \in Nat )
    BY <2>2, <2>3, MaximizedOK
  <2> HIDE DEF first, retry, p
  <2>5. HeaderFits(retry.wbuf, n)
          => retry.wbuf # NoWrite /\ retry.wbuf.append + n <= retry.wbuf.size
    BY DEF HeaderFits, NoWrite
  <2>6. /\ wbuf' \in WriteType /\ wbuf'.off = retry.wbuf.off
        /\ wbuf'.size = retry.wbuf.size
        /\ wbuf'.send <= wbuf'.append /\ wbuf'.append <= wbuf'.size
    BY <2>1, <2>4, <2>5, WithHeaderOK
  <2>7. TypeOK'
    BY <1>3, <2>1, <2>4, <2>6, Facts, SizeAligned
       DEF IInv, TypeOK, PoolOK, Aligned, ReadType, WriteType, Offsets
  <2>8. Disjoint'
    BY <2>1, <2>3, <2>4, <2>6 DEF Disjoint, PoolOK, Offsets
  <2>9. LastBlock'
    BY <1>3, <2>1, <2>4, <2>5, <2>6
       DEF LastBlock, Holding, Receiving, Sending, WriteIsLast,
           MHD_pool_is_resizable_inplace
  <2> QED BY <1>3, <2>7, <2>8, <2>9 DEF IInv, AssertionsHold
<1> QED BY <1>4, <1>5

(* A step that leaves the pool, the write buffer and the assertions alone   *)
(* and keeps the end of the read buffer while a request is received.        *)
LEMMA ReadStep ==
  ASSUME IInv, discard' \in BOOLEAN, interim' \in BOOLEAN, Receiving, Receiving', ~interim,
         UNCHANGED <<pool, wbuf, interim, failed>>,
         rbuf' \in ReadType, rbuf'.used <= rbuf'.size,
         kept' \in Offsets, rbuf'.off # Null, kept' <= rbuf'.off,
         rbuf'.off + rbuf'.size = rbuf.off + rbuf.size
  PROVE  IInv'
<1> USE Facts, ReceivingFacts
<1>1. rbuf'.off \in Nat /\ rbuf'.size \in Nat /\ kept' \in Nat
  BY DEF ReadType, Offsets
<1>2. TypeOK'
  BY DEF IInv, TypeOK, ReadType, Receiving
<1>3. Disjoint'
  BY <1>1 DEF IInv, Disjoint
<1>4. LastBlock'
  BY <1>1 DEF IInv, LastBlock, Holding, Receiving, Sending, ReadIsLast,
              MHD_pool_is_resizable_inplace
<1> QED BY <1>2, <1>3, <1>4 DEF IInv, AssertionsHold

LEMMA ReceiveKeeps ==
  ASSUME IInv, discard' \in BOOLEAN, interim' \in BOOLEAN, NEW n \in Nat,
         Receive(n) \/ Parse(n) \/ ProcessBody(n)
  PROVE  IInv'
<1>0. ~interim
  <2>1. Receive(n) => rbuf.used # rbuf.size /\ Receiving
    BY Facts DEF Receive
  <2>2. ~Receive(n) => Reading
    BY DEF Parse, ProcessBody, Reading
  <2> QED BY <2>1, <2>2 DEF IInv, LastBlock, Holding
<1>1. Receiving /\ Receiving' /\ UNCHANGED <<wbuf, interim, failed>> /\ ~interim
  BY <1>0 DEF Receive, Parse, ProcessBody, Receiving
<1> USE Facts, ReceivingFacts
<1>2. rbuf.off \in Offsets /\ rbuf.size \in Offsets /\ rbuf.used \in Offsets
      /\ rbuf.off + rbuf.size <= Size
  BY <1>1 DEF ReadType, Offsets
<1>3. CASE Receive(n)
  <2> DEFINE used == rbuf.used + n
             r == MHD_pool_reallocate(pool, rbuf.off, rbuf.size, used)
  <2>1. used <= rbuf.size /\ used \in Offsets /\ used \in Nat /\ kept' = kept
        /\ phase' = phase
    BY <1>2, <1>3 DEF Receive, Offsets
  <2> HIDE DEF used
  <2>2. CASE phase = "early" /\ used # rbuf.size
    <3>1. pool' = r.pool /\ rbuf' = [off |-> r.off, size |-> used, used |-> used]
      BY <1>3, <2>2 DEF Receive, used
    <3>2. used <= rbuf.size + MHD_pool_get_free(pool)
      BY <2>1, FreeAligned
    <3>3. /\ PoolOK(r.pool) /\ r.off = rbuf.off
          /\ r.pool.pos = Round(rbuf.off + used) /\ r.pool.end = pool.end
      BY <1>1, <2>1, <3>2, ResizeLast, SMTT(40)
    <3> HIDE DEF r
    <3>4. /\ rbuf.off + used <= pool'.pos /\ pool'.pos \in Nat /\ pool'.pos <= pool'.end
          /\ rbuf.off # Null
      BY <1>1, <2>1, <3>1, <3>3, RoundUp DEF PoolOK, Null
    <3>5. rbuf' = [off |-> rbuf.off, size |-> used, used |-> used] /\ rbuf' \in ReadType
      BY <1>2, <2>1, <3>1, <3>3 DEF ReadType
    <3>6. TypeOK'
      BY <1>1, <2>1, <3>1, <3>3, <3>5 DEF IInv, TypeOK, PoolOK, Aligned, ReadType
    <3>7. Disjoint'
      BY <1>1, <2>1, <3>4, <3>5 DEF Disjoint
    <3>8. LastBlock'
      BY <1>1, <2>1, <3>1, <3>3, <3>4, <3>5
         DEF LastBlock, Holding, Receiving, Sending, ReadIsLast, MHD_pool_is_resizable_inplace
    <3> QED BY <1>1, <3>6, <3>7, <3>8 DEF IInv, AssertionsHold
  <2>3. CASE ~(phase = "early" /\ used # rbuf.size)
    <3>1. rbuf' = [off |-> rbuf.off, size |-> rbuf.size, used |-> used] /\ pool' = pool
      BY <1>3, <2>3 DEF Receive, ReadType, used
    <3> QED BY <1>1, <1>2, <2>1, <3>1, ReadStep DEF ReadType, Offsets, Null
  <2> QED BY <2>2, <2>3
<1>4. CASE Parse(n)
  <2>1. /\ rbuf' = [off |-> rbuf.off + n, size |-> rbuf.size - n, used |-> rbuf.used - n]
        /\ n <= rbuf.used /\ kept' \in {kept, rbuf.off + n} /\ pool' = pool
    BY <1>4 DEF Parse
  <2>2. rbuf.off + n \in Offsets /\ rbuf.size - n \in Offsets
        /\ rbuf.used - n \in Offsets
    BY <1>1, <1>2, <2>1 DEF Offsets
  <2>3. rbuf' \in ReadType /\ rbuf'.used <= rbuf'.size /\ rbuf'.off # Null
    BY <1>1, <1>2, <2>1, <2>2 DEF ReadType, Null
  <2>4. kept' \in Offsets /\ kept' <= rbuf'.off
    BY <1>1, <1>2, <2>1, <2>2 DEF Offsets
  <2>5. rbuf'.off + rbuf'.size = rbuf.off + rbuf.size
    BY <1>1, <2>1
  <2> QED BY <1>1, <2>1, <2>3, <2>4, <2>5, ReadStep
<1>5. CASE ProcessBody(n)
  <2>1. rbuf' = [off |-> rbuf.off, size |-> rbuf.size, used |-> rbuf.used - n]
        /\ pool' = pool
    BY <1>5 DEF ProcessBody, ReadType
  <2>2. rbuf.used - n <= rbuf.size /\ rbuf.used - n \in Offsets /\ kept' = kept
    BY <1>2, <1>5 DEF ProcessBody, Offsets
  <2> QED BY <1>1, <1>2, <2>1, <2>2, ReadStep DEF ReadType, Offsets, Null
<1> QED BY <1>3, <1>4, <1>5

LEMMA HeadersKeep ==
  ASSUME IInv, discard' \in BOOLEAN, interim' \in BOOLEAN, HeadersReceived \/ QueueEarly \/ Proceed
  PROVE  IInv'
<1>0. CASE interim
  <2>1. ~Reading
    BY <1>0 DEF IInv, LastBlock
  <2>2. phase = "called" /\ phase' \in {"early", "full"}
        /\ UNCHANGED <<pool, rbuf, wbuf, kept, interim, failed>>
    BY <1>0, <2>1 DEF HeadersReceived, QueueEarly, Proceed, Reading
  <2>3. TypeOK' /\ Disjoint' /\ AssertionsHold'
    BY <2>2 DEF IInv, TypeOK, Disjoint, AssertionsHold
  <2>4. LastBlock'
    BY <1>0, <2>2 DEF IInv, LastBlock, Holding, Receiving, Reading, Sending, WriteIsLast
  <2> QED BY <2>3, <2>4 DEF IInv
<1> SUFFICES ASSUME ~interim PROVE IInv'
  BY <1>0
<1>1. Receiving /\ Receiving' /\ UNCHANGED <<pool, wbuf, interim, failed, kept>>
  BY DEF HeadersReceived, QueueEarly, Proceed, Receiving
<1> USE Facts, ReceivingFacts
<1>2. rbuf.off \in Offsets /\ rbuf.size \in Offsets /\ rbuf.used \in Offsets
      /\ rbuf.off + rbuf.size <= Size /\ kept \in Offsets
  BY <1>1 DEF ReadType, Offsets
<1>3. CASE rbuf' = rbuf
  BY <1>1, <1>2, <1>3, ReadStep DEF Offsets, Null
<1>4. CASE rbuf' = [rbuf EXCEPT !.off = kept, !.size = @ + (rbuf.off - kept)]
  <2>1. rbuf' = [off |-> kept, size |-> rbuf.size + (rbuf.off - kept), used |-> rbuf.used]
    BY <1>4 DEF ReadType
  <2>2. rbuf.size + (rbuf.off - kept) \in Offsets
    BY <1>1, <1>2 DEF Offsets
  <2>3. rbuf' \in ReadType /\ rbuf'.used <= rbuf'.size /\ rbuf'.off = kept
    BY <1>1, <1>2, <2>1, <2>2 DEF ReadType
  <2>4. rbuf'.off + rbuf'.size = rbuf.off + rbuf.size
    BY <1>1, <2>1
  <2> QED BY <1>1, <1>2, <2>3, <2>4, ReadStep DEF Null
<1> QED BY <1>3, <1>4 DEF HeadersReceived, QueueEarly, Proceed

(* try_grow_read_buffer() asks for no more than there is. *)
LEMMA GrownSizeOK ==
  ASSUME IInv, NEW required \in BOOLEAN
  PROVE  /\ GrownSize(required) \in Nat /\ rbuf.size <= GrownSize(required)
         /\ GrownSize(required) <= rbuf.size + MHD_pool_get_free(pool)
<1> DEFINE avail == MHD_pool_get_free(pool)
           small == avail \div 8
           left == rbuf.size - rbuf.used
           least == (IF BufInc > Increment THEN Increment ELSE BufInc) \div 8
<1>1. /\ avail \in Nat /\ small \in Nat /\ small <= avail /\ left \in Nat
      /\ avail \div 2 \in Nat /\ avail \div 2 <= avail
      /\ rbuf.size \in Nat /\ Increment \in Nat
  BY Facts, FreeAligned, PoolAssumption
<1>2. least \in Nat
  BY PoolAssumption
<1> HIDE DEF avail, small, left, least
<1>3. CASE rbuf.size = 0
  BY <1>1, <1>3 DEF GrownSize, avail
<1>4. CASE rbuf.size # 0 /\ Increment <= small
  <2>1. GrownSize(required) = rbuf.size + small
    BY <1>1, <1>4 DEF GrownSize, avail, small
  <2> QED BY <1>1, <2>1 DEF avail
<1>5. CASE rbuf.size # 0 /\ ~(Increment <= small) /\ Increment <= small + left
           /\ left < Increment
  <2>1. GrownSize(required) = rbuf.size + Increment - left
    BY <1>1, <1>5 DEF GrownSize, avail, small, left
  <2> QED BY <1>1, <1>5, <2>1 DEF avail
<1>6. CASE rbuf.size # 0 /\ ~(Increment <= small)
           /\ ~(Increment <= small + left /\ left < Increment)
  <2>1. GrownSize(required) =
          IF ~required THEN rbuf.size
          ELSE rbuf.size + (IF least < avail THEN least ELSE avail)
    BY <1>6 DEF GrownSize, avail, small, left, least
  <2> QED BY <1>1, <1>2, <2>1 DEF avail
<1> QED BY <1>3, <1>4, <1>5, <1>6

LEMMA GrowKeeps ==
  ASSUME IInv, discard' \in BOOLEAN, interim' \in BOOLEAN, NEW n \in Nat, GrowReadBuffer(n)
  PROVE  IInv'
<1> DEFINE required == rbuf.used = rbuf.size
           g == GrownSize(required)
           r == MHD_pool_reallocate(pool, rbuf.off, rbuf.size, g)
<1>1. Receiving /\ ~interim /\ n > 0 /\ required \in BOOLEAN
  BY DEF GrowReadBuffer, Reading, Receiving, IInv, LastBlock
<1>2. CASE CannotGrow(required) /\ required /\ ErrorReply(n)
  BY <1>1, <1>2, ErrorReplyKeeps
<1>3. CASE ~(CannotGrow(required) /\ required /\ ErrorReply(n))
  <2>1. /\ pool' = r.pool /\ rbuf' = [rbuf EXCEPT !.off = r.off, !.size = g]
        /\ failed' = failed \cup Assert(r.off # Null /\ r.off = rbuf.off, "grow")
        /\ UNCHANGED <<wbuf, kept, phase, interim>>
    BY <1>3 DEF GrowReadBuffer
  <2>2. g \in Nat /\ rbuf.size <= g /\ g <= rbuf.size + MHD_pool_get_free(pool)
    BY <1>1, GrownSizeOK
  <2> HIDE DEF g, required
  <2>3. /\ PoolOK(r.pool) /\ r.off = rbuf.off
        /\ r.pool.pos = Round(rbuf.off + g) /\ r.pool.end = pool.end
    BY <1>1, <2>2, Facts, ReceivingFacts, ResizeLast, SMTT(40)
  <2> HIDE DEF r
  <2>4. rbuf.off \in Nat /\ rbuf.off # Null /\ rbuf.off + g <= pool'.pos
        /\ rbuf.off \in Offsets /\ pool'.pos \in Nat /\ pool'.pos <= Size
        /\ pool'.pos <= pool'.end
    BY <1>1, <2>1, <2>2, <2>3, Facts, ReceivingFacts, RoundUp
       DEF Null, Offsets, PoolOK
  <2>5. failed' = failed
    BY <2>1, <2>3, <2>4 DEF Assert
  <2>6. rbuf' = [off |-> rbuf.off, size |-> g, used |-> rbuf.used]
    BY <2>1, <2>3, Facts DEF ReadType
  <2>7. rbuf' \in ReadType
    BY <2>2, <2>4, <2>6, Facts DEF ReadType, Offsets
  <2>8. TypeOK'
    BY <2>1, <2>3, <2>5, <2>7 DEF IInv, TypeOK, PoolOK, Aligned, ReadType
  <2>9. Disjoint'
    <3>1. wbuf'.off = Null /\ wbuf' = wbuf /\ kept' = kept
      BY <1>1, <2>1, ReceivingFacts
    <3>2. kept <= pool'.pos /\ kept <= rbuf.off
      BY <1>1, <2>2, <2>4, Facts, ReceivingFacts
    <3>3. rbuf.used <= g
      BY <2>2, Facts
    <3> QED BY <2>4, <2>6, <3>1, <3>2, <3>3, Facts DEF Disjoint
  <2>10. LastBlock'
    BY <1>1, <2>1, <2>3, <2>4, <2>6, ReceivingFacts
       DEF LastBlock, Holding, Receiving, Sending, ReadIsLast, MHD_pool_is_resizable_inplace
  <2> QED BY <2>5, <2>8, <2>9, <2>10 DEF IInv, AssertionsHold
<1> QED BY <1>2, <1>3

(* A step after which a reply is being sent, or the connection is closed    *)
(* because the reply did not fit.                                           *)
LEMMA WriteStep ==
  ASSUME IInv, discard' \in BOOLEAN, interim' \in BOOLEAN, PoolOK(pool'), rbuf' \in ReadType, wbuf' \in WriteType,
         kept' \in Offsets, kept' <= pool'.pos,
         failed \subseteq failed', failed' \subseteq failed \cup {"digits", "again"},
         phase' \in {"send", "chunk", "done", "last", "closed"},
         rbuf'.used = rbuf'.size,
         rbuf'.off = Null /\ rbuf'.used # 0 => "again" \in failed' /\ interim',
         wbuf'.send <= wbuf'.append, wbuf'.append <= wbuf'.size,
         rbuf'.off # Null => kept' <= rbuf'.off /\ rbuf'.off + rbuf'.size <= pool'.pos,
         wbuf'.off # Null =>
           /\ kept' <= wbuf'.off /\ wbuf'.off + wbuf'.size <= pool'.pos
           /\ rbuf'.off # Null => rbuf'.off + rbuf'.size <= wbuf'.off,
         phase' = "send" => pool'.pos = pool'.end,
         phase' # "closed" => WriteIsLast(pool', wbuf')
  PROVE  IInv'
<1>1. TypeOK'
  BY DEF IInv, TypeOK, PoolOK, Aligned, ReadType, WriteType
<1>2. Disjoint'
  BY DEF Disjoint, PoolOK, ReadType, Offsets
<1>3. LastBlock'
  BY DEF LastBlock, Holding, Receiving, Reading, Sending
<1> QED BY <1>1, <1>2, <1>3 DEF IInv, AssertionsHold

(* connection_shrink_read_buffer() *)
LEMMA ShrunkOK ==
  ASSUME IInv, Receiving, ~interim
  PROVE  /\ PoolOK(Shrunk.pool) /\ kept <= Shrunk.pool.pos
         /\ Shrunk.pool.pos \in Nat
         /\ Shrunk.rbuf \in ReadType /\ Shrunk.rbuf.used = Shrunk.rbuf.size
         /\ Shrunk.rbuf.off = Null => Shrunk.rbuf.used = 0
         /\ Shrunk.rbuf.off # Null =>
              /\ kept <= Shrunk.rbuf.off
              /\ Shrunk.rbuf.off + Shrunk.rbuf.size <= Shrunk.pool.pos
<1> USE Facts, ReceivingFacts
<1>0. rbuf.off # Null /\ rbuf.off \in Offsets
  BY DEF Null, ReadType, Offsets
<1>1. CASE rbuf.size = 0
  <2>1. Shrunk = [pool |-> pool, rbuf |-> rbuf]
    BY <1>1 DEF Shrunk
  <2>2. Shrunk.pool = pool /\ Shrunk.rbuf = rbuf
    BY <2>1
  <2> QED BY <1>0, <1>1, <2>2
<1>2. CASE rbuf.size # 0 /\ rbuf.used = 0
  <2> DEFINE p == MHD_pool_deallocate(pool, rbuf.off, rbuf.size)
  <2>1. Shrunk = [pool |-> p, rbuf |-> NoRead]
    BY <1>0, <1>2 DEF Shrunk
  <2>2. Shrunk.pool = p /\ Shrunk.rbuf = NoRead
    BY <2>1
  <2>3. PoolOK(p) /\ kept <= p.pos
    BY DeallocOK
  <2> HIDE DEF p
  <2>4. p.pos \in Nat
    BY <2>3 DEF PoolOK, Offsets
  <2>5. NoRead \in ReadType /\ NoRead.used = 0 /\ NoRead.size = 0 /\ NoRead.off = Null
    BY DEF NoRead, ReadType, Offsets
  <2> QED BY <2>2, <2>3, <2>4, <2>5
<1>3. CASE rbuf.size # 0 /\ rbuf.used # 0
  <2> DEFINE r == MHD_pool_reallocate(pool, rbuf.off, rbuf.size, rbuf.used)
  <2>1. Shrunk = [pool |-> r.pool,
                  rbuf |-> [rbuf EXCEPT !.off = r.off, !.size = rbuf.used]]
    BY <1>0, <1>3 DEF Shrunk
  <2>2. /\ PoolOK(r.pool) /\ r.off = rbuf.off
        /\ r.pool.pos = Round(rbuf.off + rbuf.used)
    <3>1. rbuf.used <= rbuf.size + MHD_pool_get_free(pool)
      BY FreeAligned
    <3> QED BY <3>1, ResizeLast
  <2> HIDE DEF r
  <2>3. /\ Shrunk.pool = r.pool
        /\ Shrunk.rbuf = [off |-> rbuf.off, size |-> rbuf.used, used |-> rbuf.used]
    BY <2>1, <2>2 DEF ReadType
  <2>4. r.pool.pos \in Nat /\ rbuf.off + rbuf.used <= r.pool.pos
    BY <2>2, RoundUp
  <2>5. Shrunk.rbuf \in ReadType
    BY <1>0, <2>3 DEF ReadType
  <2> QED BY <1>0, <2>2, <2>3, <2>4, <2>5
<1> QED BY <1>1, <1>2, <1>3

(* connection_shrink_read_buffer() after an interim reply: there is no free *)
(* memory, and a read buffer with data that is not the last block is lost.  *)
LEMMA ShrunkAgain ==
  ASSUME IInv, Receiving, interim
  PROVE  /\ Shrunk.pool = pool
         /\ Shrunk.rbuf = rbuf \/ Shrunk.rbuf = [rbuf EXCEPT !.off = Null]
         /\ Shrunk.rbuf.off = Null /\ Shrunk.rbuf.used # 0 => ~ShrinkAsserted
<1> USE Facts
<1>1. pool.pos = pool.end /\ rbuf.used = rbuf.size
  BY DEF IInv, LastBlock, Holding
<1>2. CASE rbuf.off = Null \/ rbuf.size = 0
  <2>1. Shrunk = [pool |-> pool, rbuf |-> rbuf]
    BY <1>2 DEF Shrunk
  <2>2. Shrunk.pool = pool /\ Shrunk.rbuf = rbuf
    BY <2>1
  <2> QED BY <1>1, <1>2, <2>2 DEF ShrinkAsserted
<1>3. CASE rbuf.off # Null /\ rbuf.size # 0
  <2> DEFINE r == MHD_pool_reallocate(pool, rbuf.off, rbuf.size, rbuf.used)
  <2>1. Shrunk = [pool |-> r.pool,
                  rbuf |-> [rbuf EXCEPT !.off = r.off, !.size = rbuf.used]]
    BY <1>1, <1>3 DEF Shrunk
  <2>2. rbuf.off \in Nat /\ ~(rbuf.used < rbuf.size)
    BY <1>1, <1>3
  <2>3. CASE ReadIsLast(pool, rbuf)
    <3>1. Round(rbuf.off + rbuf.used) = pool.pos
      BY <1>1, <2>3 DEF ReadIsLast, MHD_pool_is_resizable_inplace
    <3>2. r = [pool |-> [pool EXCEPT !.pos = pool.pos], off |-> rbuf.off]
      BY <2>2, <2>3, <3>1 DEF MHD_pool_reallocate, ReadIsLast
    <3>3. r.pool = pool /\ r.off = rbuf.off
      BY <3>2 DEF PoolOK
    <3> HIDE DEF r
    <3>4. Shrunk.pool = pool /\ Shrunk.rbuf = rbuf
      BY <1>1, <2>1, <3>3 DEF ReadType
    <3> QED BY <1>3, <3>4
  <2>4. CASE ~ReadIsLast(pool, rbuf)
    <3>1. ~Fits(pool, rbuf.used)
      <4>1. Round(rbuf.used) \in Nat /\ rbuf.used <= Round(rbuf.used)
        BY RoundUp
      <4>2. MHD_pool_get_free(pool) = 0
        BY <1>1, FreeAligned
      <4> QED BY <1>1, <1>3, <4>1, <4>2 DEF Fits
    <3>2. r = [pool |-> pool, off |-> Null]
      BY <1>3, <2>2, <2>4, <3>1 DEF MHD_pool_reallocate, ReadIsLast
    <3>3. r.pool = pool /\ r.off = Null
      BY <3>2
    <3> HIDE DEF r
    <3>4. Shrunk.pool = pool /\ Shrunk.rbuf = [rbuf EXCEPT !.off = Null]
      BY <1>1, <2>1, <3>3 DEF ReadType
    <3>5. ~ShrinkAsserted
      BY <1>1, <1>3, <2>4 DEF ShrinkAsserted
    <3> QED BY <3>4, <3>5
  <2> QED BY <2>3, <2>4
<1> QED BY <1>2, <1>3

(* START_REPLY after an interim reply: the write buffer stays as it is. *)
LEMMA ReplyAgain ==
  ASSUME IInv, discard' \in BOOLEAN, interim' \in BOOLEAN, NEW n \in Nat, StartReply(n), interim
  PROVE  IInv'
<1> DEFINE b == Shrunk.rbuf
<1>1. Receiving /\ Holding /\ n > 0 /\ interim' = interim
  BY DEF StartReply, Receiving, Holding
<1>2. pool.pos = pool.end /\ rbuf.used = rbuf.size
  BY <1>1 DEF IInv, LastBlock
<1>3. /\ Shrunk.pool = pool
      /\ b = rbuf \/ b = [rbuf EXCEPT !.off = Null]
      /\ b.off = Null /\ b.used # 0 => ~ShrinkAsserted
  BY <1>1, ShrunkAgain
<1> HIDE DEF b
<1> USE Facts
<1>4. Maximized(pool, wbuf) = [pool |-> pool, wbuf |-> wbuf]
  BY <1>2, FreeAligned DEF Maximized
<1>5. /\ pool' = pool /\ rbuf' = b /\ kept' = kept
      /\ wbuf' = (IF HeaderFits(wbuf, n) THEN WithHeader(wbuf, n) ELSE wbuf)
      /\ phase' = (IF HeaderFits(wbuf, n) THEN "send" ELSE "closed")
      /\ failed' = failed \cup WriteNotMoved(pool, wbuf) \cup AssertRead(ShrinkAsserted, "shrink")
  BY <1>3, <1>4 DEF StartReply, b
<1>6. WriteNotMoved(pool, wbuf) = {}
  BY <1>2, FreeAligned DEF WriteNotMoved, Assert
<1>7. failed \subseteq failed' /\ failed' \subseteq failed \cup {"digits", "again"}
      /\ (~ShrinkAsserted => "again" \in failed')
  BY <1>5, <1>6 DEF AssertRead, Assert
<1>8. /\ wbuf' \in WriteType /\ wbuf'.off = wbuf.off /\ wbuf'.size = wbuf.size
      /\ wbuf'.send <= wbuf'.append /\ wbuf'.append <= wbuf'.size
  <2>1. HeaderFits(wbuf, n) => wbuf.append + n <= wbuf.size
    BY DEF HeaderFits
  <2> QED BY <1>5, <2>1, WithHeaderOK
<1>9. WriteIsLast(pool', wbuf')
  BY <1>1, <1>5, <1>8, SendingFacts DEF WriteIsLast
<1>10. /\ rbuf' \in ReadType /\ rbuf'.used = rbuf'.size
       /\ rbuf'.off # Null => rbuf'.off = rbuf.off /\ rbuf'.size = rbuf.size
  BY <1>2, <1>3, <1>5 DEF ReadType
<1>11. /\ kept' \in Offsets /\ kept' <= pool'.pos
       /\ phase' \in {"send", "chunk", "done", "last", "closed"}
       /\ PoolOK(pool') /\ pool'.pos = pool'.end
  BY <1>2, <1>5 DEF IInv, TypeOK
<1>12. rbuf'.off = Null /\ rbuf'.used # 0 => "again" \in failed' /\ interim'
  BY <1>1, <1>3, <1>5, <1>7
<1>13. rbuf'.off # Null => kept' <= rbuf'.off /\ rbuf'.off + rbuf'.size <= pool'.pos
  BY <1>5, <1>10 DEF IInv, Disjoint
<1>14. wbuf'.off # Null =>
         /\ kept' <= wbuf'.off /\ wbuf'.off + wbuf'.size <= pool'.pos
         /\ rbuf'.off # Null => rbuf'.off + rbuf'.size <= wbuf'.off
  BY <1>5, <1>8, <1>10 DEF IInv, Disjoint
<1> QED BY <1>7, <1>8, <1>9, <1>10, <1>11, <1>12, <1>13, <1>14, WriteStep

(* MHD_connection_handle_idle(), START_REPLY *)
LEMMA StartReplyKeeps ==
  ASSUME IInv, discard' \in BOOLEAN, interim' \in BOOLEAN, NEW n \in Nat, StartReply(n)
  PROVE  IInv'
<1> DEFINE p == Shrunk.pool
           b == Shrunk.rbuf
           m == Maximized(p, wbuf)
<1>0. CASE interim
  BY <1>0, ReplyAgain
<1> SUFFICES ASSUME ~interim PROVE IInv'
  BY <1>0
<1>1. Receiving /\ n > 0 /\ ~interim /\ interim' = interim
  BY DEF StartReply, Receiving
<1>2. /\ PoolOK(p) /\ kept <= p.pos /\ p.pos \in Nat
      /\ b \in ReadType /\ b.used = b.size /\ (b.off = Null => b.used = 0)
      /\ b.off # Null => kept <= b.off /\ b.off + b.size <= p.pos
  BY <1>1, ShrunkOK
<1>3. /\ pool' = m.pool /\ rbuf' = b /\ kept' = kept
      /\ wbuf' = (IF HeaderFits(m.wbuf, n) THEN WithHeader(m.wbuf, n) ELSE m.wbuf)
      /\ phase' = (IF HeaderFits(m.wbuf, n) THEN "send" ELSE "closed")
  BY DEF StartReply
<1>4. failed' = failed \cup WriteNotMoved(p, wbuf)
  <2>1. ReadIsLast(pool, rbuf) /\ rbuf.off # Null /\ (rbuf.size = 0 => rbuf.used = 0)
    BY <1>1, Facts, ReceivingFacts DEF ReadIsLast, Null
  <2>2. ShrinkAsserted
    BY <2>1 DEF ShrinkAsserted
  <2> QED BY <2>2 DEF StartReply, Assert, AssertRead
<1> HIDE DEF p, b
<1>5. /\ PoolOK(m.pool) /\ p.pos <= m.pool.pos /\ m.pool.pos = m.pool.end
      /\ m.wbuf \in WriteType
      /\ m.wbuf.send <= m.wbuf.append /\ m.wbuf.append <= m.wbuf.size
      /\ m.wbuf = NoWrite \/ ( /\ WriteIsLast(m.pool, m.wbuf)
                               /\ m.wbuf.off + m.wbuf.size <= m.pool.pos
                               /\ m.wbuf.off = p.pos )
      /\ WriteNotMoved(p, wbuf) = {}
  BY <1>1, <1>2, Facts, ReceivingFacts, MaximizedOK
<1> HIDE DEF m
<1>6. failed' = failed
  BY <1>4, <1>5
<1>7. HeaderFits(m.wbuf, n) => m.wbuf # NoWrite /\ m.wbuf.append + n <= m.wbuf.size
  BY DEF HeaderFits, NoWrite
<1>8. /\ wbuf' \in WriteType /\ wbuf'.off = m.wbuf.off /\ wbuf'.size = m.wbuf.size
      /\ wbuf'.send <= wbuf'.append /\ wbuf'.append <= wbuf'.size
  BY <1>3, <1>5, <1>7, WithHeaderOK
<1>9. wbuf'.off # Null => wbuf'.off = p.pos /\ wbuf'.off + wbuf'.size <= pool'.pos
  BY <1>3, <1>5, <1>8 DEF NoWrite
<1>10. phase' # "closed" => WriteIsLast(pool', wbuf')
  BY <1>3, <1>5, <1>7, <1>8 DEF WriteIsLast
<1>11. pool'.pos \in Nat /\ p.pos <= pool'.pos /\ PoolOK(pool') /\ pool'.pos = pool'.end
  BY <1>3, <1>5, SizeAligned DEF PoolOK, Offsets
<1>12. kept' \in Offsets /\ kept' <= pool'.pos
  BY <1>2, <1>3, <1>11, Facts DEF IInv, TypeOK
<1>13. rbuf'.off # Null => /\ kept' <= rbuf'.off /\ rbuf'.off + rbuf'.size <= p.pos
                           /\ rbuf'.off + rbuf'.size <= pool'.pos
  BY <1>2, <1>3, <1>11, SizeAligned DEF ReadType, Offsets
<1>14. rbuf' \in ReadType /\ rbuf'.used = rbuf'.size /\ (rbuf'.off = Null => rbuf'.used = 0)
       /\ phase' \in {"send", "chunk", "done", "last", "closed"}
  BY <1>2, <1>3
<1>15. wbuf'.off # Null => kept' <= wbuf'.off
  BY <1>2, <1>3, <1>9
<1> QED BY <1>6, <1>8, <1>9, <1>10, <1>11, <1>12, <1>13, <1>14, <1>15, WriteStep

(* A step while a reply is sent that keeps or resizes the write buffer in   *)
(* place, with whatever is in it afterwards.                                *)
LEMMA SendStep ==
  ASSUME IInv, discard' \in BOOLEAN, interim' \in BOOLEAN, Sending,
         UNCHANGED <<rbuf, kept, interim>>,
         failed \subseteq failed', failed' \subseteq failed \cup {"digits"},
         phase' = "send" => pool'.pos = pool'.end,
         phase' \in {"send", "chunk", "done", "last", "closed"},
         PoolOK(pool'), wbuf' \in WriteType, wbuf'.off = wbuf.off,
         wbuf'.send <= wbuf'.append, wbuf'.append <= wbuf'.size,
         wbuf'.off + wbuf'.size <= pool'.pos,
         WriteIsLast(pool', wbuf')
  PROVE  IInv'
<1>0. Holding
  BY DEF Holding
<1> USE <1>0, Facts, SendingFacts
<1>1. kept' \in Offsets /\ rbuf' \in ReadType /\ rbuf'.used = rbuf'.size
      /\ (rbuf'.off = Null /\ rbuf'.used # 0 => "again" \in failed' /\ interim')
  BY DEF IInv, TypeOK, Disjoint, LastBlock
<1>2. wbuf.off # Null /\ kept <= wbuf.off
      /\ (rbuf.off # Null => rbuf.off + rbuf.size <= wbuf.off /\ kept <= rbuf.off)
  BY DEF IInv, Disjoint, Null
<1>3. wbuf.off <= pool'.pos /\ pool'.pos \in Nat
  BY DEF PoolOK, WriteType, Offsets
<1>4. kept' <= pool'.pos
      /\ (rbuf'.off # Null => rbuf'.off + rbuf'.size <= pool'.pos)
  BY <1>2, <1>3
<1> QED BY <1>1, <1>2, <1>4, WriteStep

LEMMA SendKeeps ==
  ASSUME IInv, discard' \in BOOLEAN, interim' \in BOOLEAN, NEW n \in Nat, Send(n)
  PROVE  IInv'
<1>1. Sending /\ Holding /\ UNCHANGED <<pool, rbuf, kept, phase, interim, failed>>
      /\ n <= wbuf.append - wbuf.send
  BY DEF Send, Sending, Holding
<1> USE Facts, SendingFacts
<1>2. /\ wbuf' \in WriteType /\ wbuf'.off = wbuf.off /\ wbuf'.size = wbuf.size
      /\ wbuf'.send <= wbuf'.append /\ wbuf'.append <= wbuf'.size
  <2>1. CASE wbuf.send + n = wbuf.append
    <3>1. wbuf' = [off |-> wbuf.off, size |-> wbuf.size, send |-> 0, append |-> 0]
      BY <2>1 DEF Send, WriteType
    <3> QED BY <3>1 DEF WriteType, Offsets
  <2>2. CASE wbuf.send + n # wbuf.append
    <3>1. wbuf' = [off |-> wbuf.off, size |-> wbuf.size, send |-> wbuf.send + n,
                   append |-> wbuf.append]
      BY <2>2 DEF Send, WriteType
    <3>2. wbuf.send + n <= wbuf.append /\ wbuf.send + n \in Offsets
      BY <1>1 DEF WriteType, Offsets
    <3> QED BY <3>1, <3>2 DEF WriteType
  <2> QED BY <2>1, <2>2
<1>3. WriteIsLast(pool', wbuf') /\ PoolOK(pool')
      /\ wbuf'.off + wbuf'.size <= pool'.pos
  BY <1>1, <1>2 DEF WriteIsLast
<1>4. phase' \in {"send", "chunk", "done", "last", "closed"}
      /\ (phase' = "send" => pool'.pos = pool'.end)
  BY <1>1 DEF Sending, IInv, LastBlock
<1> QED BY <1>1, <1>2, <1>3, <1>4, SendStep

(* MHD_uint32_to_strx(): at least one digit and no more than there are. *)
LEMMA DigitsBound ==
  ASSUME NEW n \in Nat
  PROVE  DigitsOf(n) \in 1 .. Digits
<1> DEFINE S == {d \in 1 .. Digits - 1 : n < Base ^ d}
<1>1. Digits \in Nat /\ Digits # 0
  BY ChunkAssumption
<1>2. IsFiniteSet(1 .. Digits - 1) /\ Cardinality(1 .. Digits - 1) = Digits - 1
  <2>1. Digits - 1 \in Int /\ 1 \in Int
    BY <1>1
  <2>2. /\ IsFiniteSet(1 .. Digits - 1)
        /\ Cardinality(1 .. Digits - 1) = IF 1 > Digits - 1 THEN 0 ELSE (Digits - 1) - 1 + 1
    BY <2>1, FS_Interval
  <2> QED BY <1>1, <2>2
<1>3. IsFiniteSet(S) /\ Cardinality(S) <= Digits - 1
  <2>1. S \in SUBSET (1 .. Digits - 1)
    OBVIOUS
  <2> HIDE DEF S
  <2> QED BY <1>2, <2>1, FS_Subset
<1>4. Cardinality(S) \in Nat
  BY <1>3, FS_CardinalityType
<1>5. DigitsOf(n) = Digits - Cardinality(S)
  BY DEF DigitsOf
<1> HIDE DEF S
<1> QED BY <1>1, <1>3, <1>4, <1>5

(* try_ready_chunked_body() *)
LEMMA ReadyChunkKeeps ==
  ASSUME IInv, discard' \in BOOLEAN, interim' \in BOOLEAN, NEW n \in Nat, ReadyChunk(n)
  PROVE  IInv'
<1> DEFINE size == Smaller(wbuf.size + MHD_pool_get_free(pool), MaxChunk + Overhead)
           r == MHD_pool_reallocate(pool, wbuf.off, wbuf.size, size)
           grow == wbuf.size < MinChunked
           w == IF grow THEN [wbuf EXCEPT !.off = r.off, !.size = size] ELSE wbuf
<1>1. Sending /\ Holding /\ wbuf.append = 0 /\ wbuf.send = 0
      /\ UNCHANGED <<rbuf, kept, interim>> /\ phase' = "chunk"
  BY Facts DEF ReadyChunk, Sending, Holding, AllSent
<1>2. /\ pool' = (IF grow THEN r.pool ELSE pool)
      /\ wbuf' = IF n = 0 THEN w
                 ELSE [w EXCEPT !.send = Digits - DigitsOf(n),
                                !.append = Digits + 2 + n + 2]
      /\ n <= Smaller(w.size - Overhead, MaxChunk)
      /\ failed' = failed \cup Assert(~grow \/ r.off # Null, "chunk")
           \cup Assert(n = 0 \/ DigitsOf(n) < Digits, "digits")
  BY DEF ReadyChunk
<1> USE Facts
<1>3. /\ wbuf.off \in Nat /\ wbuf.off \in Offsets /\ wbuf.off # Null
      /\ wbuf.off + wbuf.size <= pool.pos
      /\ MHD_pool_is_resizable_inplace(pool, wbuf.off, wbuf.size)
  BY <1>1, SendingFacts DEF WriteType, Offsets, Null
<1>4. Digits \in Nat /\ MaxChunk \in Nat /\ Overhead = Digits + 4
      /\ DigitsOf(n) \in 1 .. Digits
  BY ChunkAssumption, DigitsBound DEF Overhead
<1>5. size \in Nat /\ size <= wbuf.size + MHD_pool_get_free(pool)
  BY <1>4, FreeAligned DEF Smaller
<1> HIDE DEF size
<1>6. /\ PoolOK(r.pool) /\ r.off = wbuf.off
      /\ r.pool.pos = Round(wbuf.off + size)
  <2>1. PoolOK(pool) /\ wbuf.off \in Nat /\ wbuf.size \in Nat
    BY <1>3
  <2> QED BY ONLY <1>3, <1>5, <2>1, ResizeLast
<1> HIDE DEF r
<1>7. PoolOK(pool') /\ pool'.pos \in Nat /\ pool'.pos <= Size
  BY <1>2, <1>6 DEF PoolOK, Offsets
<1>8. /\ w.off = wbuf.off /\ w.size \in Nat /\ w.send = 0 /\ w.append = 0
      /\ w = [off |-> w.off, size |-> w.size, send |-> 0, append |-> 0]
      /\ w.off + w.size <= pool'.pos /\ pool'.pos = Round(w.off + w.size)
  <2>1. CASE grow
    <3>1. w = [off |-> wbuf.off, size |-> size, send |-> 0, append |-> 0]
      BY <1>1, <1>6, <2>1 DEF WriteType
    <3>2. wbuf.off + size <= Round(wbuf.off + size)
      BY <1>3, <1>5, RoundUp
    <3>3. pool'.pos = Round(wbuf.off + size)
      BY <1>2, <1>6, <2>1
    <3> HIDE DEF w
    <3> QED BY <1>3, <1>5, <3>1, <3>2, <3>3
  <2>2. CASE ~grow
    <3>1. w = wbuf
      BY <2>2
    <3> HIDE DEF w
    <3> QED BY <1>1, <1>2, <1>3, <2>2, <3>1
            DEF MHD_pool_is_resizable_inplace, WriteType
  <2> QED BY <2>1, <2>2
<1> HIDE DEF w
<1>9. w.size \in Offsets
  BY <1>3, <1>7, <1>8 DEF Offsets
<1>10. /\ wbuf' \in WriteType /\ wbuf'.off = wbuf.off /\ wbuf'.size = w.size
       /\ wbuf'.send <= wbuf'.append /\ wbuf'.append <= wbuf'.size
  <2>1. CASE n = 0
    BY <1>2, <1>3, <1>8, <1>9, <2>1 DEF WriteType, Offsets
  <2>2. CASE n # 0
    <3>1. wbuf' = [off |-> wbuf.off, size |-> w.size, send |-> Digits - DigitsOf(n),
                   append |-> Digits + 2 + n + 2]
      BY <1>2, <1>8, <2>2
    <3>2. Digits + 2 + n + 2 <= w.size
      BY <1>2, <1>4, <1>8 DEF Smaller
    <3>3. Digits - DigitsOf(n) \in Offsets /\ Digits + 2 + n + 2 \in Offsets
      BY <1>4, <1>8, <1>9, <3>2 DEF Offsets
    <3>4. Digits - DigitsOf(n) <= Digits + 2 + n + 2
      BY <1>4
    <3> QED BY <1>3, <1>9, <3>1, <3>2, <3>3, <3>4 DEF WriteType
  <2> QED BY <2>1, <2>2
<1>11. WriteIsLast(pool', wbuf') /\ wbuf'.off + wbuf'.size <= pool'.pos
  BY <1>3, <1>8, <1>10 DEF WriteIsLast, MHD_pool_is_resizable_inplace
<1>12. failed' \subseteq failed \cup {"digits"} /\ failed \subseteq failed'
  BY <1>2, <1>3, <1>6 DEF Assert
<1> QED BY <1>1, <1>7, <1>10, <1>11, <1>12, SendStep

(* build_connection_chunked_response_footer() *)
LEMMA ReadyFootersKeeps ==
  ASSUME IInv, discard' \in BOOLEAN, interim' \in BOOLEAN, NEW n \in Nat, ReadyFooters(n)
  PROVE  IInv'
<1> DEFINE m == Maximized(pool, wbuf)
<1>1. Sending /\ Holding /\ wbuf.append = 0 /\ UNCHANGED <<rbuf, kept, interim>>
  BY DEF ReadyFooters, Sending, Holding, AllSent
<1>2. /\ pool' = m.pool
      /\ wbuf' = (IF n <= m.wbuf.size THEN WithHeader(m.wbuf, n) ELSE m.wbuf)
      /\ phase' \in {"done", "closed"}
      /\ failed' = failed \cup WriteNotMoved(pool, wbuf)
  BY DEF ReadyFooters
<1> USE Facts
<1>3. wbuf.off \in Nat /\ wbuf.off # Null /\ wbuf.off + wbuf.size <= pool.pos
      /\ WriteIsLast(pool, wbuf)
  BY <1>1, SendingFacts DEF WriteIsLast, Null
<1>4. /\ PoolOK(m.pool)
      /\ m.wbuf \in WriteType
      /\ m.wbuf.send <= m.wbuf.append /\ m.wbuf.append <= m.wbuf.size
      /\ m.wbuf.append <= wbuf.append
      /\ m.wbuf = NoWrite \/ ( /\ WriteIsLast(m.pool, m.wbuf)
                               /\ m.wbuf.off + m.wbuf.size <= m.pool.pos
                               /\ m.wbuf.off = wbuf.off )
      /\ WriteNotMoved(pool, wbuf) = {}
  BY <1>3, MaximizedOK
<1>5. m.wbuf # NoWrite
  <2>1. CASE MHD_pool_get_free(pool) = 0
    <3>1. m = [pool |-> pool, wbuf |-> wbuf]
      BY <2>1 DEF Maximized
    <3> QED BY <1>3, <3>1 DEF NoWrite
  <2>2. CASE MHD_pool_get_free(pool) # 0
    <3>1. m.wbuf.size = wbuf.size + MHD_pool_get_free(pool)
      BY <2>2 DEF Maximized
    <3> HIDE DEF m
    <3> QED BY <2>2, <3>1, FreeAligned DEF NoWrite
  <2> QED BY <2>1, <2>2
<1> HIDE DEF m
<1>6. m.wbuf.append = 0 /\ m.wbuf.size \in Nat
  BY <1>1, <1>4 DEF WriteType, Offsets
<1>7. /\ wbuf' \in WriteType /\ wbuf'.off = m.wbuf.off /\ wbuf'.size = m.wbuf.size
      /\ wbuf'.send <= wbuf'.append /\ wbuf'.append <= wbuf'.size
  BY <1>2, <1>4, <1>6, WithHeaderOK
<1>8. /\ WriteIsLast(pool', wbuf') /\ wbuf'.off + wbuf'.size <= pool'.pos
      /\ wbuf'.off = wbuf.off /\ PoolOK(pool')
  BY <1>2, <1>4, <1>5, <1>7 DEF WriteIsLast
<1>9. failed' \subseteq failed \cup {"digits"} /\ failed \subseteq failed'
      /\ phase' \in {"chunk", "done", "last", "closed"}
  BY <1>2, <1>4
<1> QED BY <1>1, <1>7, <1>8, <1>9, SendStep

(* connection_reset() *)
LEMMA ReuseKeeps ==
  ASSUME IInv, discard' \in BOOLEAN, interim' \in BOOLEAN, Reuse
  PROVE  IInv'
<1> DEFINE size == IF rbuf.used > PoolSize \div 2 THEN rbuf.used ELSE PoolSize \div 2
<1>1. /\ pool' = MHD_pool_reset(size) /\ wbuf' = NoWrite /\ kept' = 0
      /\ rbuf' = [off |-> 0, size |-> size, used |-> rbuf.used]
      /\ phase' = "head" /\ interim' = FALSE
      /\ failed' = failed \cup AssertRead(rbuf.off # Null \/ rbuf.used = 0, "keep")
  BY DEF Reuse
<1>1a. failed' \subseteq failed \cup {"again"}
  <2>1. CASE rbuf.off # Null \/ rbuf.used = 0
    BY <1>1, <2>1 DEF AssertRead, Assert
  <2>2. CASE ~(rbuf.off # Null \/ rbuf.used = 0)
    <3>1. interim
      BY <2>2 DEF IInv, LastBlock
    <3> QED BY <1>1, <3>1 DEF AssertRead, Assert
  <2> QED BY <2>1, <2>2
<1>2. size \in Nat /\ size <= Size /\ rbuf.used <= size
  <2>1. PoolSize \in Nat /\ PoolSize \div 2 \in Nat /\ PoolSize \div 2 <= PoolSize
    BY PoolAssumption
  <2>2. rbuf.used <= Size
    BY Facts DEF ReadType, Offsets
  <2> QED BY <2>1, <2>2, SizeAligned, Facts
<1> HIDE DEF size
<1>3. PoolOK(pool') /\ pool'.pos = Round(size) /\ size <= Round(size) /\ Round(size) \in Nat
  BY <1>1, <1>2, ResetOK, RoundUp DEF MHD_pool_reset
<1>4. TypeOK'
  <2>1. failed' \subseteq {"moved", "alloc", "grow", "shrink", "again", "keep", "chunk", "digits"}
    BY <1>1a DEF IInv, TypeOK
  <2>2. discard' \in BOOLEAN /\ interim' \in BOOLEAN
    OBVIOUS
  <2>3. rbuf' \in ReadType
    BY <1>1, <1>2, Facts DEF ReadType, Offsets
  <2>4. wbuf' \in WriteType /\ kept' \in Offsets
    BY <1>1, Facts DEF WriteType, Offsets, NoWrite
  <2> QED BY <1>1, <1>3, <2>1, <2>2, <2>3, <2>4
          DEF TypeOK, PoolOK, Aligned, ReadType, WriteType
<1>5. Disjoint'
  BY <1>1, <1>2, <1>3, Facts DEF Disjoint, PoolOK, NoWrite, Null
<1>6. LastBlock'
  BY <1>1, <1>2, <1>3 DEF LastBlock, Holding, Receiving, Sending, ReadIsLast,
     MHD_pool_is_resizable_inplace, Null
<1> QED BY <1>1, <1>1a, <1>4, <1>5, <1>6 DEF IInv, AssertionsHold

(* FULL_REPLY_SENT after a "102 Processing" *)
LEMMA ProcessingKeeps ==
  ASSUME IInv, discard' \in BOOLEAN, Interim
  PROVE  IInv'
<1>1. phase = "send" /\ phase' = "called" /\ interim' = TRUE
      /\ UNCHANGED <<pool, rbuf, wbuf, kept, failed>>
  BY DEF Interim
<1>2. TypeOK' /\ Disjoint' /\ AssertionsHold'
  BY <1>1 DEF IInv, TypeOK, Disjoint, AssertionsHold
<1>3. LastBlock'
  BY <1>1 DEF IInv, LastBlock, Holding, Receiving, Reading, Sending, WriteIsLast
<1> QED BY <1>2, <1>3 DEF IInv

(* Without buffers the invariant is about the pool only. *)
LEMMA NoBuffers ==
  ASSUME IInv, discard' \in BOOLEAN, interim' \in BOOLEAN, PoolOK(pool'), rbuf' = NoRead, wbuf' = NoWrite, failed' = failed,
         kept' \in Offsets, kept' <= pool'.pos, phase' \in {"closed", "upgraded"}
  PROVE  IInv'
<1>1. TypeOK'
  BY SizeAligned DEF IInv, TypeOK, PoolOK, Aligned, NoRead, NoWrite, Offsets
<1>2. Disjoint'
  BY DEF Disjoint, PoolOK, NoRead, NoWrite
<1>3. LastBlock'
  BY DEF LastBlock, Holding, Receiving, Reading, Sending, NoRead
<1> QED BY <1>1, <1>2, <1>3 DEF IInv, AssertionsHold

(* MHD_response_execute_upgrade_() *)
LEMMA UpgradeKeeps ==
  ASSUME IInv, discard' \in BOOLEAN, interim' \in BOOLEAN, Upgrade
  PROVE  IInv'
<1> DEFINE q == MHD_pool_deallocate(pool, wbuf.off, wbuf.size)
           p == MHD_pool_deallocate(q, rbuf.off, rbuf.size)
           avail == MHD_pool_get_free(p)
           end == IF rbuf.off = Null THEN kept ELSE rbuf.off + rbuf.size
<1>1. Holding /\ UNCHANGED <<kept, failed>> /\ rbuf' = NoRead /\ wbuf' = NoWrite
      /\ phase' = "upgraded"
      /\ pool' = IF avail < ReserveEbuf THEN p ELSE TakeFront(p, avail)
  BY DEF Upgrade, Sending, Holding
<1> USE Facts
<1>2. end \in Nat /\ kept <= end /\ end <= pool.pos /\ wbuf.off \in Nat
      /\ end <= wbuf.off /\ wbuf.off + wbuf.size <= pool.pos
  BY <1>1, SendingFacts DEF IInv, Disjoint, Null
<1>3. rbuf.off # Null => kept <= rbuf.off /\ rbuf.off + rbuf.size <= end
  BY DEF IInv, Disjoint
<1> HIDE DEF end
<1>4. PoolOK(q) /\ end <= q.pos
  BY <1>2, DeallocOK
<1> HIDE DEF q
<1>5. q.pos \in Nat /\ kept <= q.pos
      /\ (rbuf.off # Null => kept <= rbuf.off /\ rbuf.off + rbuf.size <= q.pos)
  BY <1>2, <1>3, <1>4 DEF PoolOK, Offsets
<1>6. PoolOK(p) /\ kept <= p.pos
  BY <1>4, <1>5, DeallocOK
<1> HIDE DEF p
<1>7. avail \in Nat /\ Round(avail) = avail /\ Fits(p, avail)
  BY <1>6, FreeAligned DEF Aligned, Fits
<1> HIDE DEF avail
<1>8. PoolOK(TakeFront(p, avail)) /\ TakeFront(p, avail).pos = p.pos + avail
  BY <1>6, <1>7, TakeFrontOK
<1>9. p.pos \in Nat
  BY <1>6 DEF PoolOK, Offsets
<1>10. PoolOK(pool') /\ kept' <= pool'.pos /\ kept' \in Offsets
  BY <1>1, <1>6, <1>7, <1>8, <1>9 DEF IInv, TypeOK
<1> QED BY <1>1, <1>10, NoBuffers

LEMMA CloseKeeps ==
  ASSUME IInv, discard' \in BOOLEAN, interim' \in BOOLEAN, Close
  PROVE  IInv'
<1>1. pool' = [pos |-> 0, end |-> Size] /\ kept' = 0 /\ rbuf' = NoRead
      /\ wbuf' = NoWrite /\ failed' = failed /\ phase' = "closed"
  BY DEF Close
<1>2. Round(0) = 0
  BY PoolAssumption DEF Round
<1>3. PoolOK(pool') /\ kept' \in Offsets /\ kept' <= pool'.pos
  BY <1>1, <1>2, SizeAligned DEF PoolOK, Offsets, Aligned
<1> QED BY <1>1, <1>3, NoBuffers

LEMMA InitIInv == Init => IInv
<1> SUFFICES ASSUME Init PROVE IInv
  OBVIOUS
<1> DEFINE half == PoolSize \div 2
           start == [pos |-> 0, end |-> Size]
<1>1. half \in Nat /\ half <= PoolSize /\ PoolSize \in Nat
  BY PoolAssumption
<1>2. PoolOK(start) /\ start.pos = 0 /\ start.end = Size
  <2>1. Round(0) = 0
    BY PoolAssumption DEF Round
  <2> QED BY <2>1, SizeAligned DEF PoolOK, Offsets, Aligned
<1>3. Round(half) <= Size
  BY <1>1, RoundMonotonic DEF Size
<1> HIDE DEF half
<1>4. Fits(start, half)
  BY <1>2, <1>3, SizeAligned DEF Fits, MHD_pool_get_free
<1>5. pool = TakeFront(start, half) /\ rbuf = [off |-> 0, size |-> half, used |-> 0]
      /\ wbuf = NoWrite /\ kept = 0 /\ phase = "head" /\ failed = {}
      /\ discard \in BOOLEAN /\ interim = FALSE
  <2>1. discard \in BOOLEAN /\ interim = FALSE
    BY Zenon DEF Init
  <2> QED BY <2>1 DEF Init, half
<1> HIDE DEF start
<1>6. PoolOK(pool) /\ pool.pos = Round(half) /\ Round(half) \in Nat /\ half <= Round(half)
  <2>1. Round(half) \in Nat /\ half <= Round(half)
    BY <1>1, RoundUp
  <2> QED BY <1>1, <1>2, <1>4, <1>5, <2>1, TakeFrontOK
<1>7. TypeOK
  <2>1. rbuf \in ReadType /\ wbuf \in WriteType /\ kept \in Offsets
    BY <1>1, <1>5, <1>6, SizeAligned DEF ReadType, WriteType, PoolOK, Offsets, NoWrite
  <2>2. discard \in BOOLEAN /\ interim \in BOOLEAN
    BY <1>5, Zenon
  <2> QED BY <1>5, <1>6, <2>1, <2>2 DEF TypeOK, PoolOK, Aligned, ReadType, WriteType
<1>8. Disjoint
  BY <1>1, <1>5, <1>6 DEF Disjoint, PoolOK, NoWrite
<1>9. LastBlock
  BY <1>1, <1>5, <1>6, SMTT(40) DEF LastBlock, Holding, Receiving, Sending, ReadIsLast,
     MHD_pool_is_resizable_inplace, Null
<1> QED BY <1>5, <1>7, <1>8, <1>9 DEF IInv, AssertionsHold

LEMMA FlagTypes ==
  ASSUME IInv, [Next]_vars
  PROVE  discard' \in BOOLEAN /\ interim' \in BOOLEAN
<1>1. discard \in BOOLEAN /\ interim \in BOOLEAN
  BY DEF IInv, TypeOK
<1> QED BY <1>1 DEF Next, vars, HeadersReceived, QueueEarly, Proceed, Interim, Reuse, Upgrade,
       Close, Receive, Parse, ProcessBody, GrowReadBuffer, ErrorReply,
       MHD_connection_alloc_memory_, RequestError, StartReply, Send, ReadyVector,
       ReadyChunk, ReadyFooters

LEMMA NextIInv == IInv /\ [Next]_vars => IInv'
<1> SUFFICES ASSUME IInv, [Next]_vars PROVE IInv'
  OBVIOUS
<1>0. discard' \in BOOLEAN /\ interim' \in BOOLEAN
  BY FlagTypes
<1> USE <1>0
<1>1. CASE UNCHANGED vars
  BY <1>1 DEF vars, IInv, TypeOK, Disjoint, LastBlock, AssertionsHold, Receiving,
              Reading, Holding, Sending, ReadIsLast, WriteIsLast,
              MHD_pool_is_resizable_inplace
<1>2. CASE HeadersReceived \/ QueueEarly \/ Proceed
  BY <1>2, HeadersKeep
<1>3. CASE Reuse
  BY <1>3, ReuseKeeps
<1>4. CASE Upgrade
  BY <1>4, UpgradeKeeps
<1>5. CASE Close
  BY <1>5, CloseKeeps
<1>6. ASSUME NEW n \in Lengths, Receive(n) \/ Parse(n) \/ ProcessBody(n)
      PROVE  IInv'
  BY <1>6, ReceiveKeeps, PoolAssumption
<1>7. ASSUME NEW n \in Lengths, GrowReadBuffer(n)
      PROVE  IInv'
  BY <1>7, GrowKeeps, PoolAssumption
<1>8. ASSUME NEW n \in Lengths, MHD_connection_alloc_memory_(n)
      PROVE  IInv'
  <2>1. n \in Nat /\ UNCHANGED <<kept, interim>>
    BY <1>8, PoolAssumption DEF MHD_connection_alloc_memory_
  <2>2. AllocFree(n) \/ AllocFromWrite(n) \/ AllocFromRead(n)
    BY <1>8 DEF MHD_connection_alloc_memory_
  <2>3. (Receiving /\ UNCHANGED phase) \/ (phase = "send" /\ phase' = "done")
    BY <1>8 DEF MHD_connection_alloc_memory_
  <2> QED BY <2>1, <2>2, <2>3, AllocKeeps
<1>9. ASSUME NEW n \in Lengths, RequestError(n)
      PROVE  IInv'
  BY <1>9, ErrorReplyKeeps, PoolAssumption DEF RequestError, Receiving
<1>10. ASSUME NEW n \in Lengths, StartReply(n)
       PROVE  IInv'
  BY <1>10, StartReplyKeeps, PoolAssumption
<1>11. ASSUME NEW n \in Lengths, Send(n)
       PROVE  IInv'
  BY <1>11, SendKeeps, PoolAssumption
<1>12. ASSUME NEW n \in Lengths, ReadyVector(n)
       PROVE  IInv'
  BY <1>12, AllocKeeps, PoolAssumption DEF ReadyVector
<1>13. ASSUME NEW n \in Lengths, ReadyChunk(n)
       PROVE  IInv'
  BY <1>13, ReadyChunkKeeps, PoolAssumption
<1>14. ASSUME NEW n \in Lengths, ReadyFooters(n)
       PROVE  IInv'
  BY <1>14, ReadyFootersKeeps, PoolAssumption
<1>15. CASE Interim
  BY <1>15, ProcessingKeeps
<1> QED BY <1>1, <1>2, <1>3, <1>4, <1>5, <1>6, <1>7, <1>8, <1>9, <1>10, <1>11,
           <1>12, <1>13, <1>14, <1>15 DEF Next

-----------------------------------------------------------------------------
(* The inductive invariant holds in every state of every connection.        *)
THEOREM Invariance == Spec => []IInv
<1>1. Init => IInv
  BY InitIInv
<1>2. IInv /\ [Next]_vars => IInv'
  BY NextIInv
<1> QED BY <1>1, <1>2, PTL DEF Spec

(* TypeOK for a pool of any size: the front and the end of the free memory  *)
(* stay aligned and within the pool.                                        *)
THEOREM TypeCorrect == Spec => []TypeOK
<1>1. IInv => TypeOK
  BY DEF IInv
<1> QED BY <1>1, Invariance, PTL

(* The strings of the request, the two buffers and the blocks at the end of *)
(* the pool never overlap, whatever is received, allocated and sent, with   *)
(* any number of interim replies.                                           *)
THEOREM BuffersDisjoint == Spec => []Disjoint
<1>1. IInv => Disjoint
  BY DEF IInv
<1> QED BY <1>1, Invariance, PTL

(* No assertion of connection.c about the pool can fail but the two that    *)
(* AssertionsHold sets apart, about the digits of a chunk header and about  *)
(* the reply after a "102 Processing": the buffer that is resized is the    *)
(* last block, and the memory that it gives up is enough for the            *)
(* allocation.                                                              *)
THEOREM AssertionsNeverFail == Spec => []AssertionsHold
<1>1. IInv => AssertionsHold
  BY DEF IInv
<1> QED BY <1>1, Invariance, PTL

(* try_grow_read_buffer() makes room in a full buffer if the increment and  *)
(* MHD_BUF_INC_SIZE are at least eight bytes.                               *)
THEOREM GrowingMakesRoom ==
  ASSUME Increment >= 8, BufInc >= 8
  PROVE  Spec => []GrowMakesRoom
<1>1. IInv => GrowMakesRoom
  <2> SUFFICES ASSUME IInv, Reading, rbuf.used = rbuf.size,
                      MHD_pool_get_free(pool) # 0
               PROVE  GrownSize(TRUE) > rbuf.size
    BY DEF GrowMakesRoom
  <2> DEFINE g == GrownSize(TRUE)
             avail == MHD_pool_get_free(pool)
             small == avail \div 8
             least == (IF BufInc > Increment THEN Increment ELSE BufInc) \div 8
  <2>1. /\ avail \in Nat /\ avail # 0 /\ Aligned(avail) /\ small \in Nat
        /\ rbuf.size \in Nat /\ rbuf.size - rbuf.used = 0 /\ Increment \in Nat
    BY Facts, FreeAligned, PoolAssumption
  <2>2. least \in Nat /\ least > 0
    BY PoolAssumption
  <2>3. avail \div 2 > 0 /\ avail \div 2 \in Nat
    BY <2>1, AlignedAtLeast
  <2> HIDE DEF avail, small, least
  <2>4. CASE rbuf.size = 0
    BY <2>3, <2>4 DEF GrownSize, avail
  <2>5. CASE rbuf.size # 0 /\ Increment <= small
    <3>1. g = rbuf.size + small
      BY <2>1, <2>5 DEF GrownSize, avail, small
    <3>2. small > 0
      BY <2>1, <2>5
    <3> HIDE DEF g
    <3>3. g > rbuf.size
      BY <2>1, <3>1, <3>2
    <3> QED BY <3>3 DEF g
  <2>6. CASE rbuf.size # 0 /\ ~(Increment <= small)
    <3>1. g = rbuf.size + (IF least < avail THEN least ELSE avail)
      BY <2>1, <2>6 DEF GrownSize, avail, small, least
    <3> HIDE DEF g
    <3>2. g > rbuf.size
      BY <2>1, <2>2, <3>1
    <3> QED BY <3>2 DEF g
  <2> QED BY <2>4, <2>5, <2>6
<1> QED BY <1>1, Invariance, PTL

(* Buffers never overlap, the assertions that AssertionsHold names hold and *)
(* a full read buffer grows, if the increment and MHD_BUF_INC_SIZE are at   *)
(* least eight bytes.                                                       *)
THEOREM BuffersAreSafe ==
  ASSUME Increment >= 8, BufInc >= 8
  PROVE  Spec => []BuffersSafe
  BY BuffersDisjoint, AssertionsNeverFail, GrowingMakesRoom, PTL DEF BuffersSafe

-----------------------------------------------------------------------------
(***************************************************************************)
(* The start and the stop of a daemon, for any application, any number of  *)
(* workers, any limits of the memory and any number of connections.        *)
(* The invariant tells, for every place a start or a stop can be at, what  *)
(* is held.                                                                *)
(***************************************************************************)
\* The steps of a start, each set with those that follow when nothing fails.
Workers == {"w_cleanup", "w_new", "w_itc", "w_epoll", "w_thread"}
AfterTls == {"cleanup", "new", "thread", "pool", "running"} \cup Workers
AfterPerIp == {"tls"} \cup AfterTls
AfterEpoll == {"per_ip"} \cup AfterPerIp
AfterListen == {"nonblock", "epoll"} \cup AfterEpoll
AfterLock == {"listen", "reuse", "bind"} \cup AfterListen
AfterNonces == {"nnc_lock"} \cup AfterLock
AfterRandom == {"nnc"} \cup AfterNonces
AfterItc == {"random"} \cup AfterRandom
AfterPriorities == {"itc"} \cup AfterItc
AfterOptions == {"priorities"} \cup AfterPriorities
Going == {"flags", "alloc", "params", "options", "interim"} \cup AfterOptions
Stopping == {"stop_worker", "stop_single", "stop_master"}
Down == {"thread_failed", "free_and_fail"} \cup Stopping
StartPlaces == Going \cup Down \cup {"failed", "stopped"}

Once(r, p) == held[r] = IF p THEN 1 ELSE 0
AtMostOnce(r, p) == held[r] = 0 \/ (held[r] = 1 /\ p)

Daemons ==
  [num_opts : Nat, pool_size : Nat, pool_increment : Nat, connection_limit : Nat,
   worker_pool_size : 0..MaxPool, notify : BOOLEAN, random : Start!Randoms, nonce_nc_size : Nat,
   priority_cache : BOOLEAN, cred_type : Start!CredTypes, reuse : Int,
   fdset_size : Start!FdSetSizes, param_fd : Start!Sockets,
   addr : Start!Addresses, addr_len : Start!AddressLengths,
   listen_fd : {"none", "own", "app"}, was_quiesced : BOOLEAN,
   limit : [1..MaxPool -> Nat], polled : [0..MaxPool -> SUBSET {"listen", "itc"}]]

StartTypes == ask \in Apps /\ pc \in StartPlaces /\ Start!TypeOK /\ daemon \in Daemons

\* What has failed, if anything.
WorkerFaults == {"pool", "w_cleanup", "w_new", "w_itc", "w_epoll", "w_thread"}
Blamed ==
  /\ pc \in Going \cup {"stop_single", "stopped"} => fault = "none"
  /\ pc = "thread_failed" => fault \in WorkerFaults /\ (fault = "pool" => worker = 1)
  /\ pc \in {"stop_worker", "stop_master"} => fault \in WorkerFaults \cup {"none"}
  /\ fault = "none" => twice = {}

\* What the flags and options have been found to be.
Chosen ==
  /\ pc \notin {"flags", "failed"} /\ Start!UsesThreads /\ ~ Start!Has("ITC") =>
       HAVE_LISTEN_SHUTDOWN /\ ~ Start!Has("NO_LISTEN_SOCKET")
  /\ pc \notin {"flags", "failed"} /\ daemon.worker_pool_size > 0 => Start!UsesThreads
  /\ pc # "failed" /\ daemon.priority_cache => Start!Has("TLS")
  /\ pc \in {"flags", "alloc", "params"} =>
       ~ daemon.priority_cache /\ daemon.worker_pool_size = 0
  /\ pc \in {"cleanup", "new", "thread", "stop_single"} => daemon.worker_pool_size = 0
  /\ pc = "thread" => Start!UsesThreads
  /\ pc \in {"pool", "thread_failed", "stop_worker"} \cup Workers => daemon.worker_pool_size > 0
  /\ pc \in {"thread_failed", "stop_worker"} \cup Workers => worker \in 1..daemon.worker_pool_size

\* The resources of the daemon, of which some are released if they are there.
OwnHeld ==
  /\ Once(Start!One("daemon"), pc \notin {"flags", "alloc", "failed", "stopped"})
  /\ Once(Start!One("params"), pc \in {"options", "interim"})
  /\ pc # "failed" => Once(Start!One("priorities"),
                           \/ pc \in Going \ AfterPriorities /\ daemon.priority_cache
                           \/ pc \in AfterPriorities \cup Down /\ Start!Has("TLS"))
  /\ pc = "failed" => AtMostOnce(Start!One("priorities"), fault = "interim")
  /\ AtMostOnce(Start!One("random"), pc \in AfterRandom \cup Down)
  /\ AtMostOnce(Start!One("nnc"), pc \in AfterNonces \cup Down)
  /\ Once(Start!One("nnc_lock"), pc \in AfterLock \cup Down)
  /\ Once(Start!One("per_ip"), pc \in AfterPerIp \cup {"thread_failed"} \cup Stopping)
  /\ AtMostOnce(Start!One("cred"), pc \in AfterTls \cup Down)
  /\ Once(Start!One("cleanup"), \/ pc \in {"new", "thread", "stop_single"}
                                \/ pc = "running" /\ daemon.worker_pool_size = 0)
  /\ Once(Start!One("new"), \/ pc \in {"thread", "stop_single"}
                            \/ pc = "running" /\ daemon.worker_pool_size = 0)
  /\ AtMostOnce(Start!One("thread"), /\ pc \in {"running", "stop_single"}
                                     /\ daemon.worker_pool_size = 0 /\ Start!UsesThreads)
  /\ Once(Start!One("pool"), \/ pc \in Workers \cup {"stop_worker"}
                             \/ pc = "running" /\ daemon.worker_pool_size > 0
                             \/ pc = "thread_failed" /\ fault # "pool")

\* Its channel and its epoll sets.
PollHeld ==
  /\ pc \in AfterItc => Once(Start!One("itc"), Start!Has("ITC") /\ daemon.worker_pool_size = 0)
  /\ AtMostOnce(Start!One("itc"), \/ /\ pc \in AfterItc \cup {"free_and_fail", "stop_single"}
                                     /\ daemon.worker_pool_size = 0
                                  \/ pc = "failed" /\ fault \in {"random", "nnc", "nnc_lock"})
  /\ \A e \in {"epoll", "epoll_upgrade"} :
       AtMostOnce(Start!One(e), /\ pc \in AfterEpoll \cup {"free_and_fail", "stop_single"}
                                /\ daemon.worker_pool_size = 0)

\* The listen socket.
ListenHeld ==
  /\ daemon.was_quiesced => Start!Has("ITC") \/ ~ Start!UsesThreads
  /\ daemon.was_quiesced => fault = "none" /\ pc \in {"running", "stopped"} \cup Stopping
  /\ pc \in (Going \ AfterLock) \cup {"listen"} =>
       held[Start!Listen] = 0 /\ listen = "none" /\ daemon.listen_fd # "own"
  /\ pc = "reuse" => held[Start!Listen] = 1 /\ listen = "own" /\ daemon.listen_fd = "none"
  /\ pc = "bind" => held[Start!Listen] = 1 /\ listen = "own" /\ daemon.listen_fd = "own"
  /\ pc \in AfterListen \cup {"thread_failed"} => listen = daemon.listen_fd
  /\ pc \in AfterListen => daemon.listen_fd # "none" \/ Start!Has("NO_LISTEN_SOCKET")
  /\ pc \in AfterListen \cup {"thread_failed"} \cup Stopping =>
       Once(Start!Listen, daemon.listen_fd # "none" /\ ~ daemon.was_quiesced)
  /\ pc = "free_and_fail" =>
       /\ held[Start!Listen] = 0 =>
            (listen = "none" /\ daemon.listen_fd = "none") \/ fault \in Start!ClosedAgain
       /\ AtMostOnce(Start!Listen, listen # "none" \/ daemon.listen_fd # "none")
  /\ pc \in {"failed", "stopped"} => held[Start!Listen] = 0

\* The workers that run.
Started ==
  IF pc \in Workers \cup {"thread_failed"} THEN 1..worker - 1
  ELSE IF pc = "running" THEN 1..daemon.worker_pool_size
  ELSE IF pc = "stop_worker" THEN worker..daemon.worker_pool_size ELSE {}

\* The resources of the workers.
WorkerHeld(w) ==
  /\ Once(<<"thread", w>>, w \in Started)
  /\ Once(<<"cleanup", w>>, w \in Started \/ (w = worker /\ pc \in Workers \ {"w_cleanup"}))
  /\ Once(<<"new", w>>, w \in Started \/ (w = worker /\ pc \in {"w_itc", "w_epoll", "w_thread"}))
  /\ Once(<<"itc", w>>, /\ Start!Has("ITC")
                        /\ w \in Started \/ (w = worker /\ pc \in {"w_epoll", "w_thread"}))
  /\ \A e \in {"epoll", "epoll_upgrade"} :
       AtMostOnce(<<e, w>>, \/ w \in Started
                            \/ w = worker /\ pc = "w_thread"
                            \/ fault \in {"w_epoll", "w_thread"})
WorkersHeld == \A w \in 1..MaxPool : WorkerHeld(w)

\* What a thread is woken by.
Wakes(w) ==
  /\ Start!Has("ITC") => "itc" \in daemon.polled[w]
  /\ daemon.listen_fd # "none" => "listen" \in daemon.polled[w]

\* What is fixed when a thread is about to be started.
Prepared ==
  /\ pc \in AfterEpoll /\ daemon.worker_pool_size = 0 => Wakes(0)
  /\ pc \in Workers \cup {"running"} =>
       \A w \in 1..daemon.worker_pool_size :
         w \in Started \/ (w = worker /\ pc = "w_thread") =>
           Wakes(w) /\ daemon.limit[w] = Start!WorkerLimit(w)

\* The inductive invariant.
StartInv ==
  /\ StartTypes /\ Blamed /\ Chosen /\ OwnHeld /\ PollHeld /\ ListenHeld /\ WorkersHeld
  /\ Prepared /\ Start!ReleasedOnce /\ Start!IncrementFits

\* What a worker has too, and what a daemon has.
Kinds == {"itc", "epoll", "epoll_upgrade", "cleanup", "new", "thread"}
Own == {"daemon", "params", "priorities", "dhparams", "random", "nnc", "nnc_lock", "listen",
        "per_ip", "cred", "pool"} \cup Kinds

USE DEF Workers, AfterTls, AfterPerIp, AfterEpoll, AfterListen, AfterLock, AfterNonces, AfterRandom,
        AfterItc, AfterPriorities, AfterOptions, Going, Stopping, Down, StartPlaces,
        Start!Has, Start!UsesThreads, Daemons, Once, AtMostOnce, Start!One, Start!Listen, Own, Kinds

LEMMA ResourceNames ==
  /\ \A r \in Own : Start!One(r) \in Start!Resources /\ <<r, 0>> \in Start!Resources
  /\ \A r \in Kinds : \A w \in 0..MaxPool : <<r, w>> \in Start!Resources
  /\ \A r \in Kinds : \A w \in 1..MaxPool : <<r, w>> \in Start!Resources
  /\ Start!Listen = Start!One("listen")
BY StartAssumption DEF Start!Resources, Start!SizesAssumption

LEMMA ReleaseDoes ==
  ASSUME held \in [Start!Resources -> Nat], twice \subseteq Start!Resources,
         NEW rs, rs \subseteq Start!Resources, Start!Release(rs)
  PROVE  /\ held' \in [Start!Resources -> Nat] /\ twice' \subseteq Start!Resources
         /\ \A r \in Start!Resources : held'[r] = IF r \in rs /\ held[r] > 0 THEN held[r] - 1
                ELSE held[r]
         /\ twice' = twice \cup {r \in rs : held[r] = 0}
<1>1. held' = [r \in Start!Resources |-> IF r \in rs /\ held[r] > 0 THEN held[r] - 1 ELSE held[r]]
  BY DEF Start!Release, Start!Released
<1>2. twice' = twice \cup {r \in rs : held[r] = 0}
  BY DEF Start!Release, Start!Released
<1>. QED BY <1>1, <1>2

LEMMA AcquireDoes ==
  ASSUME held \in [Start!Resources -> Nat], twice \subseteq Start!Resources,
         NEW r \in Start!Resources, NEW next, Start!Acquire(r, next)
  PROVE  /\ held' \in [Start!Resources -> Nat] /\ twice' = twice /\ fault' = fault /\ pc' = next
         /\ \A s \in Start!Resources : held'[s] = IF s = r THEN held[s] + 1 ELSE held[s]
BY DEF Start!Acquire

\* Where no worker has been started, and what workers own is left alone.
LEMMA WorkersUntouched ==
  ASSUME StartInv, held' \in [Start!Resources -> Nat],
         Started = {}, Started' = {}, pc \notin Workers, pc' \notin Workers \ {"w_cleanup"},
         fault = "none" \/ fault' = fault,
         \A r \in Kinds : \A w \in 1..MaxPool : held'[<<r, w>>] = held[<<r, w>>]
  PROVE  WorkersHeld'
<1>2. ASSUME NEW w \in 1..MaxPool
      PROVE  /\ \A r \in Kinds \ {"epoll", "epoll_upgrade"} : held'[<<r, w>>] = 0
             /\ \A r \in {"epoll", "epoll_upgrade"} :
                  held'[<<r, w>>] = 0 \/ (held'[<<r, w>>] = 1 /\ fault' \in {"w_epoll", "w_thread"})
  <2>1. \A r \in Kinds : held'[<<r, w>>] = held[<<r, w>>]
    OBVIOUS
  <2>2. /\ \A r \in Kinds \ {"epoll", "epoll_upgrade"} : held[<<r, w>>] = 0
        /\ \A r \in {"epoll", "epoll_upgrade"} :
             held[<<r, w>>] = 0 \/ (held[<<r, w>>] = 1 /\ fault \in {"w_epoll", "w_thread"})
    BY DEF StartInv, WorkersHeld, WorkerHeld
  <2>. QED BY <2>1, <2>2
<1>3. ASSUME NEW w \in 1..MaxPool
      PROVE  /\ held'[<<"thread", w>>] = 0 /\ held'[<<"cleanup", w>>] = 0 /\ held'[<<"new", w>>] = 0
             /\ held'[<<"itc", w>>] = 0
  BY <1>2
<1>4. pc' \notin Workers \ {"w_cleanup"} /\ Started' = {}
  OBVIOUS
<1>. QED BY <1>2, <1>3, <1>4 DEF WorkersHeld, WorkerHeld

\* What belongs to one worker belongs to no other, and not to the daemon.
LEMMA OfWorker ==
  ASSUME MaxPool \in Nat, NEW w \in 1..MaxPool, NEW rs, rs \subseteq {<<r, w>> : r \in Kinds}
  PROVE  /\ rs \subseteq Start!Resources
         /\ \A r \in Own : <<r, 0>> \notin rs
         /\ \A v \in 1..MaxPool \ {w} : \A r \in Kinds : <<r, v>> \notin rs
<1>1. w \in 0..MaxPool /\ w # 0
  OBVIOUS
<1>2. rs \subseteq Start!Resources
  BY <1>1, ResourceNames
<1>3. \A r \in Own : <<r, 0>> \notin rs
  BY <1>1
<1>4. \A v \in 1..MaxPool \ {w} : \A r \in Kinds : <<r, v>> \notin rs
  OBVIOUS
<1>. QED BY <1>2, <1>3, <1>4

\* A worker is being started: the others are left alone.
LEMMA OthersUntouched ==
  ASSUME StartInv, pc \in Workers, pc' \in Workers \cup {"thread_failed"}, worker \in 1..MaxPool,
         worker' = worker,
         options' = options, WorkerHeld(worker)',
         \A v \in 1..MaxPool \ {worker} : \A r \in Kinds : held'[<<r, v>>] = held[<<r, v>>]
  PROVE  WorkersHeld'
<1>1. Started = 1..worker - 1 /\ Started' = 1..worker - 1 /\ fault = "none"
  BY DEF StartInv, Blamed, Started
<1>. SUFFICES ASSUME NEW w \in 1..MaxPool, w # worker PROVE WorkerHeld(w)'
  BY DEF WorkersHeld
<1>2. \A r \in Kinds : held'[<<r, w>>] = held[<<r, w>>]
  OBVIOUS
<1>3. WorkerHeld(w)
  BY DEF StartInv, WorkersHeld
<1>. QED BY <1>1, <1>2, <1>3 DEF WorkerHeld

-----------------------------------------------------------------------------
(* The calls before anything is opened. *)

LEMMA CheckFlagsKeeps ==
  ASSUME StartInv, Start!CheckFlags, ask' = ask
  PROVE  StartInv'
<1>k. /\ held \in [Start!Resources -> Nat] /\ twice \subseteq Start!Resources /\ pc = "flags"
      /\ ask' = ask
      /\ UNCHANGED <<daemon, listen, held, twice, fault, worker>>
  BY DEF StartInv, StartTypes, Start!TypeOK, Start!CheckFlags
<1>1. ASSUME pc' = "failed", options' = options PROVE StartInv'
  <2>10. StartTypes'
    BY <1>k, <1>1 DEF StartInv, StartTypes, Start!TypeOK
  <2>11. Blamed'
    BY <1>k, <1>1 DEF StartInv, Blamed, WorkerFaults
  <2>12. Chosen'
    BY <1>k, <1>1 DEF StartInv, Chosen
  <2>13. OwnHeld'
    BY <1>k, <1>1, ResourceNames DEF StartInv, OwnHeld, Chosen
  <2>14. PollHeld'
    BY <1>k, <1>1, ResourceNames DEF StartInv, PollHeld
  <2>15. ListenHeld'
    BY <1>k, <1>1, ResourceNames DEF StartInv, ListenHeld, Start!ClosedAgain, ListenHeld
  <2>16. WorkersHeld'
    BY <1>k, <1>1, ResourceNames, WorkersUntouched DEF StartInv, Started
  <2>17. Prepared'
    BY <1>k, <1>1, ResourceNames DEF StartInv, Prepared, Started, Wakes
  <2>18. Start!ReleasedOnce'
    BY <1>k, <1>1 DEF StartInv, Start!ReleasedOnce, Blamed
  <2>19. Start!IncrementFits'
    BY <1>k, <1>1 DEF StartInv, Start!IncrementFits
  <2>. QED BY <2>10, <2>11, <2>12, <2>13, <2>14, <2>15, <2>16, <2>17, <2>18, <2>19 DEF StartInv
<1>2. ASSUME ~ Start!BadFlags(Start!WithImplied(options)),
             pc' = "alloc",
             options' = Start!WithAuto(Start!WithImplied(options))
      PROVE  StartInv'
  <2>1. options \subseteq Start!Flags /\ daemon.worker_pool_size = 0
    BY <1>k DEF StartInv, StartTypes, Start!TypeOK, Chosen
  <2>2. Start!WithImplied(options) \subseteq Start!Flags
    BY <2>1 DEF Start!WithImplied, Start!Flags
  <2>3. options' \subseteq Start!Flags
    BY <1>2, <2>2 DEF Start!WithAuto, Start!Flags
  <2>4. "INTERNAL_POLLING_THREAD" \in options' /\ "ITC" \notin options'
            /\ ~ Start!BadFlags(Start!WithImplied(options)) =>
          HAVE_LISTEN_SHUTDOWN /\ "NO_LISTEN_SOCKET" \notin options'
    BY <1>2, StartAssumption DEF Start!WithAuto, Start!BadFlags, Start!SizesAssumption
  <2>10. StartTypes'
    BY <1>k, <1>2, <2>3 DEF StartInv, StartTypes, Start!TypeOK
  <2>11. Blamed'
    BY <1>k, <1>2 DEF StartInv, Blamed, WorkerFaults
  <2>12. Chosen'
    BY <1>k, <1>2, <2>1, <2>4, <1>2 DEF StartInv, Chosen
  <2>13. OwnHeld'
    BY <1>k, <1>2, ResourceNames DEF StartInv, OwnHeld, Chosen
  <2>14. PollHeld'
    BY <1>k, <1>2, ResourceNames DEF StartInv, PollHeld
  <2>15. ListenHeld'
    BY <1>k, <1>2, ResourceNames DEF StartInv, ListenHeld, Start!ClosedAgain
  <2>16. WorkersHeld'
    BY <1>k, <1>2, ResourceNames, WorkersUntouched DEF StartInv, Started
  <2>17. Prepared'
    BY <1>k, <1>2, ResourceNames DEF StartInv, Prepared, Started, Wakes
  <2>18. Start!ReleasedOnce'
    BY <1>k, <1>2 DEF StartInv, Start!ReleasedOnce, Blamed
  <2>19. Start!IncrementFits'
    BY <1>k, <1>2 DEF StartInv, Start!IncrementFits
  <2>. QED BY <2>10, <2>11, <2>12, <2>13, <2>14, <2>15, <2>16, <2>17, <2>18, <2>19 DEF StartInv
<1>. QED BY <1>1, <1>2 DEF Start!CheckFlags

LEMMA AllocDaemonKeeps ==
  ASSUME StartInv, Start!AllocDaemon, ask' = ask
  PROVE  StartInv'
<1>k. /\ held \in [Start!Resources -> Nat] /\ twice \subseteq Start!Resources /\ pc = "alloc"
      /\ ask' = ask
      /\ UNCHANGED <<options, daemon, listen, worker>>
  BY DEF StartInv, StartTypes, Start!TypeOK, Start!AllocDaemon, Start!Same
<1>1. ASSUME Start!Acquire(Start!One("daemon"), "params") PROVE StartInv'
  <2>1. /\ held' \in [Start!Resources -> Nat] /\ twice' = twice /\ fault' = fault /\ pc' = "params"
        /\ \A s \in Start!Resources : held'[s] = IF s = Start!One("daemon") THEN held[s] + 1
               ELSE held[s]
    BY <1>1, <1>k, ResourceNames, AcquireDoes
  <2>11. (StartTypes /\ Blamed /\ Chosen /\ Start!IncrementFits)'
    BY <1>k, <2>1 DEF StartInv, StartTypes, Start!TypeOK, Blamed, WorkerFaults, Chosen,
        Start!IncrementFits
  <2>12. (OwnHeld /\ PollHeld)'
    BY <1>k, <2>1, ResourceNames DEF StartInv, OwnHeld, PollHeld
  <2>13. ListenHeld'
    BY <1>k, <2>1, ResourceNames DEF StartInv, ListenHeld, Start!ClosedAgain
  <2>14. WorkersHeld'
    BY <1>k, <2>1, ResourceNames, WorkersUntouched DEF StartInv, Started
  <2>15. (Prepared /\ Start!ReleasedOnce)'
    BY <1>k, <2>1, ResourceNames DEF StartInv, Prepared, Started, Wakes, Start!ReleasedOnce, Blamed
  <2>. QED BY <2>11, <2>12, <2>13, <2>14, <2>15 DEF StartInv
<1>2. ASSUME Start!Fail("daemon", {}, "failed") PROVE StartInv'
  <2>1. {} \subseteq Start!Resources
    BY <1>k, ResourceNames DEF Start!TlsPriorities, Start!CloseListen, Start!IfHeld
  <2>2. /\ held' \in [Start!Resources -> Nat] /\ twice' \subseteq Start!Resources
        /\ twice' = twice \cup {r \in {} : held[r] = 0} /\ fault' = "daemon" /\ pc' = "failed"
        /\ \A r \in Start!Resources : held'[r] = IF r \in {} /\ held[r] > 0 THEN held[r] - 1
               ELSE held[r]
    BY <1>2, <1>k, <2>1, ReleaseDoes DEF Start!Fail
  <2>3. \A r \in Kinds : \A w \in 1..MaxPool : held'[<<r, w>>] = held[<<r, w>>]
    BY <2>2, ResourceNames DEF Start!TlsPriorities, Start!CloseListen, Start!IfHeld
  <2>4. twice' = {}
    <3>1. twice = {}
      BY <1>k DEF StartInv, Blamed
    <3>2. \A r \in {} : held[r] # 0
      BY <1>k, ResourceNames DEF StartInv, OwnHeld, Chosen, Blamed, Start!TlsPriorities,
          Start!CloseListen, Start!IfHeld
    <3>. QED BY <2>2, <3>1, <3>2
  <2>11. (StartTypes /\ Blamed /\ Chosen /\ Start!IncrementFits)'
    BY <1>k, <2>2 DEF StartInv, StartTypes, Start!TypeOK, Blamed, WorkerFaults, Chosen,
        Start!IncrementFits
  <2>12. (OwnHeld /\ PollHeld)'
    BY <1>k, <2>2, ResourceNames
      DEF StartInv, OwnHeld, Start!TlsPriorities, Start!CloseListen, Start!IfHeld, Chosen, PollHeld
  <2>13. ListenHeld'
    BY <1>k, <2>2, ResourceNames
      DEF StartInv, ListenHeld, Start!ClosedAgain, Start!TlsPriorities, Start!CloseListen,
          Start!IfHeld
  <2>14. WorkersHeld'
    BY <1>k, <2>2, ResourceNames, WorkersUntouched, <2>3 DEF StartInv, Started, Blamed
  <2>15. (Prepared /\ Start!ReleasedOnce)'
    BY <1>k, <2>2, ResourceNames, <2>4
      DEF StartInv, Prepared, Started, Wakes, Start!ReleasedOnce, Blamed, Start!ClosedAgain
  <2>. QED BY <2>11, <2>12, <2>13, <2>14, <2>15 DEF StartInv
<1>. QED BY <1>1, <1>2 DEF Start!AllocDaemon

LEMMA AllocParamsKeeps ==
  ASSUME StartInv, Start!AllocParams, ask' = ask
  PROVE  StartInv'
<1>k. /\ held \in [Start!Resources -> Nat] /\ twice \subseteq Start!Resources /\ pc = "params"
      /\ ask' = ask
      /\ UNCHANGED <<options, daemon, listen, worker>>
  BY DEF StartInv, StartTypes, Start!TypeOK, Start!AllocParams, Start!Same
<1>1. ASSUME Start!Acquire(Start!One("params"), "options") PROVE StartInv'
  <2>1. /\ held' \in [Start!Resources -> Nat] /\ twice' = twice /\ fault' = fault /\ pc' = "options"
        /\ \A s \in Start!Resources : held'[s] = IF s = Start!One("params") THEN held[s] + 1
               ELSE held[s]
    BY <1>1, <1>k, ResourceNames, AcquireDoes
  <2>11. (StartTypes /\ Blamed /\ Chosen /\ Start!IncrementFits)'
    BY <1>k, <2>1 DEF StartInv, StartTypes, Start!TypeOK, Blamed, WorkerFaults, Chosen,
        Start!IncrementFits
  <2>12. (OwnHeld /\ PollHeld)'
    BY <1>k, <2>1, ResourceNames DEF StartInv, OwnHeld, PollHeld
  <2>13. ListenHeld'
    BY <1>k, <2>1, ResourceNames DEF StartInv, ListenHeld, Start!ClosedAgain
  <2>14. WorkersHeld'
    BY <1>k, <2>1, ResourceNames, WorkersUntouched DEF StartInv, Started
  <2>15. (Prepared /\ Start!ReleasedOnce)'
    BY <1>k, <2>1, ResourceNames DEF StartInv, Prepared, Started, Wakes, Start!ReleasedOnce, Blamed
  <2>. QED BY <2>11, <2>12, <2>13, <2>14, <2>15 DEF StartInv
<1>2. ASSUME Start!Fail("params", {Start!One("daemon")}, "failed") PROVE StartInv'
  <2>1. {Start!One("daemon")} \subseteq Start!Resources
    BY <1>k, ResourceNames DEF Start!TlsPriorities, Start!CloseListen, Start!IfHeld
  <2>2. /\ held' \in [Start!Resources -> Nat] /\ twice' \subseteq Start!Resources
        /\ twice' = twice \cup {r \in {Start!One("daemon")} : held[r] = 0} /\ fault' = "params"
        /\ pc' = "failed"
        /\ \A r \in Start!Resources : held'[r] = IF r \in {Start!One("daemon")}
               /\ held[r] > 0 THEN held[r] - 1 ELSE held[r]
    BY <1>2, <1>k, <2>1, ReleaseDoes DEF Start!Fail
  <2>3. \A r \in Kinds : \A w \in 1..MaxPool : held'[<<r, w>>] = held[<<r, w>>]
    BY <2>2, ResourceNames DEF Start!TlsPriorities, Start!CloseListen, Start!IfHeld
  <2>4. twice' = {}
    <3>1. twice = {}
      BY <1>k DEF StartInv, Blamed
    <3>2. \A r \in {Start!One("daemon")} : held[r] # 0
      BY <1>k, ResourceNames DEF StartInv, OwnHeld, Chosen, Blamed, Start!TlsPriorities,
          Start!CloseListen, Start!IfHeld
    <3>. QED BY <2>2, <3>1, <3>2
  <2>11. (StartTypes /\ Blamed /\ Chosen /\ Start!IncrementFits)'
    BY <1>k, <2>2 DEF StartInv, StartTypes, Start!TypeOK, Blamed, WorkerFaults, Chosen,
        Start!IncrementFits
  <2>12. (OwnHeld /\ PollHeld)'
    BY <1>k, <2>2, ResourceNames
      DEF StartInv, OwnHeld, Start!TlsPriorities, Start!CloseListen, Start!IfHeld, Chosen, PollHeld
  <2>13. ListenHeld'
    BY <1>k, <2>2, ResourceNames
      DEF StartInv, ListenHeld, Start!ClosedAgain, Start!TlsPriorities, Start!CloseListen,
          Start!IfHeld
  <2>14. WorkersHeld'
    BY <1>k, <2>2, ResourceNames, WorkersUntouched, <2>3 DEF StartInv, Started, Blamed
  <2>15. (Prepared /\ Start!ReleasedOnce)'
    BY <1>k, <2>2, ResourceNames, <2>4
      DEF StartInv, Prepared, Started, Wakes, Start!ReleasedOnce, Blamed, Start!ClosedAgain
  <2>. QED BY <2>11, <2>12, <2>13, <2>14, <2>15 DEF StartInv
<1>. QED BY <1>1, <1>2 DEF Start!AllocParams

LEMMA LeastOfTwo ==
  ASSUME NEW a \in Int, NEW b \in Int
  PROVE  /\ Start!Min({a, b}) = IF a <= b THEN a ELSE b
         /\ Start!Max({a, b}) = IF a <= b THEN b ELSE a
<1>1. Start!Min({a, b}) = IF a <= b THEN a ELSE b
  <2>1. \E x \in {a, b} : \A y \in {a, b} : x <= y
    OBVIOUS
  <2>2. Start!Min({a, b}) \in {a, b} /\ \A y \in {a, b} : Start!Min({a, b}) <= y
    BY <2>1 DEF Start!Min
  <2>. QED BY <2>2
<1>2. Start!Max({a, b}) = IF a <= b THEN b ELSE a
  <2>1. \E x \in {a, b} : \A y \in {a, b} : x >= y
    OBVIOUS
  <2>2. Start!Max({a, b}) \in {a, b} /\ \A y \in {a, b} : Start!Max({a, b}) >= y
    BY <2>1 DEF Start!Max
  <2>. QED BY <2>2
<1>. QED BY <1>1, <1>2

\* What an option leaves alone in x, and what it makes of the sizes.
Taken(x, o) ==
  /\ x \in Daemons /\ x.priority_cache = daemon.priority_cache /\ x.listen_fd = daemon.listen_fd
  /\ x.was_quiesced = daemon.was_quiesced
  /\ x.pool_size >= MinPool /\ x.pool_increment <= x.pool_size \div 4
  /\ \/ x.worker_pool_size = daemon.worker_pool_size
     \/ o.opt = "THREAD_POOL_SIZE" /\ x.worker_pool_size = IF o.val = 1 THEN 0 ELSE o.val

LEMMA OptionTaken ==
  ASSUME StartInv, NEW o, Start!IsOption(o)
  PROVE  Taken(Start!Parsed(o), o)
<1>t. daemon \in Daemons /\ daemon.pool_size >= MinPool
          /\ daemon.pool_increment <= daemon.pool_size \div 4 /\ MinPool \in Nat
  BY StartAssumption DEF StartInv, StartTypes, Start!IncrementFits, Start!SizesAssumption
<1>1. CASE o.opt = "CONNECTION_MEMORY_LIMIT"
  <2>1. Start!Parsed(o) = Start!MemoryLimit(o.val) /\ o.val \in Nat
    BY <1>1 DEF Start!Parsed, Start!IsOption, Start!NumberOptions, Start!OtherOptions
  <2>. DEFINE size == Start!Max({o.val, MinPool})
  <2>2. size \in Nat /\ size >= MinPool /\ size \div 4 \in Nat
    <3>1. Start!Max({o.val, MinPool}) = IF o.val <= MinPool THEN MinPool ELSE o.val
      <4>1. o.val \in Int /\ MinPool \in Int
        BY <1>t, <2>1
      <4>. QED BY <4>1, LeastOfTwo
    <3>. QED BY <1>t, <2>1, <3>1
  <2>3. Start!Min({daemon.pool_increment, size \div 4}) \in Nat
            /\ Start!Min({daemon.pool_increment, size \div 4}) <= size \div 4
    <3>. HIDE DEF size
    <3>1. daemon.pool_increment \in Nat
      BY <1>t
    <3>. QED BY <2>2, <3>1, LeastOfTwo
  <2>4. CASE o.val = 0
    BY <1>t, <2>1, <2>4 DEF Start!MemoryLimit, Taken
  <2>5. CASE o.val # 0
    <3>1. Start!Parsed(o) = [daemon EXCEPT !.pool_size = size, !.pool_increment = Start!Min({@,
              size \div 4})]
      BY <2>1, <2>5 DEF Start!MemoryLimit
    <3>. HIDE DEF size
    <3>. QED BY <1>t, <2>2, <2>3, <3>1 DEF Taken
  <2>. QED BY <2>4, <2>5
<1>2. CASE o.opt = "CONNECTION_MEMORY_INCREMENT"
  <2>1. Start!Parsed(o) = Start!MemoryIncrement(o.val) /\ o.val \in Nat
    BY <1>2 DEF Start!Parsed, Start!IsOption, Start!NumberOptions, Start!OtherOptions
  <2>2. daemon.pool_size \div 4 \in Nat
    BY <1>t
  <2>3. Start!Min({o.val, daemon.pool_size \div 4}) \in Nat /\ Start!Min({o.val,
            daemon.pool_size \div 4}) <= daemon.pool_size \div 4
    BY <2>1, <2>2, LeastOfTwo
  <2>. QED BY <1>t, <2>1, <2>3 DEF Start!MemoryIncrement, Taken
<1>3. CASE o.opt = "THREAD_POOL_SIZE"
  <2>1. o.val \in Nat /\ o.val <= MaxPool /\ MaxPool \in Nat
    BY <1>3, StartAssumption DEF Start!IsOption, Start!NumberOptions, Start!OtherOptions,
        Start!SizesAssumption
  <2>. DEFINE size == IF o.val = 1 THEN 0 ELSE o.val
  <2>2. size \in 0..MaxPool
    BY <2>1
  <2>3. Start!Parsed(o) = [daemon EXCEPT !.worker_pool_size = size]
    BY <1>3 DEF Start!Parsed
  <2>4. /\ Start!Parsed(o) \in Daemons /\ Start!Parsed(o).worker_pool_size = size
        /\ \A f \in DOMAIN daemon \ {"worker_pool_size"} : Start!Parsed(o)[f] = daemon[f]
    <3>. HIDE DEF size
    <3>. QED BY <1>t, <2>2, <2>3
  <2>. QED BY <1>3, <1>t, <2>4 DEF Taken
<1>4. CASE o.opt = "CONNECTION_LIMIT"
  <2>1. o.val \in Nat
    BY <1>4 DEF Start!IsOption, Start!NumberOptions, Start!OtherOptions
  <2>2. Start!Parsed(o) = [daemon EXCEPT !.connection_limit = o.val]
    BY <1>4 DEF Start!Parsed
  <2>. QED BY <1>t, <2>1, <2>2 DEF Taken
<1>5. CASE o.opt = "NONCE_NC_SIZE"
  <2>1. o.val \in Nat
    BY <1>5 DEF Start!IsOption, Start!NumberOptions, Start!OtherOptions
  <2>2. Start!Parsed(o) = [daemon EXCEPT !.nonce_nc_size = o.val]
    BY <1>5 DEF Start!Parsed
  <2>. QED BY <1>t, <2>1, <2>2 DEF Taken
<1>6. CASE o.opt = "LISTENING_ADDRESS_REUSE"
  <2>1. (IF o.val = 0 THEN -1 ELSE 1) \in Int
    BY <1>6 DEF Start!IsOption, Start!NumberOptions, Start!OtherOptions
  <2>2. Start!Parsed(o) = [daemon EXCEPT !.reuse = IF o.val = 0 THEN -1 ELSE 1]
    BY <1>6 DEF Start!Parsed
  <2>. QED BY <1>t, <2>1, <2>2 DEF Taken
<1>7. CASE o.opt = "DIGEST_AUTH_RANDOM"
  <2>1. o.val \in Start!Randoms
    BY <1>7 DEF Start!IsOption, Start!NumberOptions, Start!OtherOptions
  <2>2. Start!Parsed(o) = [daemon EXCEPT !.random = o.val]
    BY <1>7 DEF Start!Parsed
  <2>. QED BY <1>t, <2>1, <2>2 DEF Taken
<1>8. CASE o.opt = "LISTEN_SOCKET"
  <2>1. o.val \in Start!Sockets
    BY <1>8 DEF Start!IsOption, Start!NumberOptions, Start!OtherOptions
  <2>2. Start!Parsed(o) = [daemon EXCEPT !.param_fd = o.val]
    BY <1>8 DEF Start!Parsed
  <2>. QED BY <1>t, <2>1, <2>2 DEF Taken
<1>9. CASE o.opt = "SOCK_ADDR"
  <2>1. o.val \in Start!Addresses
    BY <1>9 DEF Start!IsOption, Start!NumberOptions, Start!OtherOptions
  <2>3. "unset" \in Start!AddressLengths
    BY DEF Start!AddressLengths
  <2>2. Start!Parsed(o) = [daemon EXCEPT !.addr = o.val, !.addr_len = "unset"]
    BY <1>9 DEF Start!Parsed
  <2>. QED BY <1>t, <2>1, <2>2, <2>3 DEF Taken
<1>10. CASE o.opt = "HTTPS_CRED_TYPE"
  <2>1. o.val \in Start!CredTypes
    BY <1>10 DEF Start!IsOption, Start!NumberOptions, Start!OtherOptions
  <2>2. Start!Parsed(o) = [daemon EXCEPT !.cred_type = o.val]
    BY <1>10 DEF Start!Parsed
  <2>. QED BY <1>t, <2>1, <2>2 DEF Taken
<1>11. CASE o.opt = "APP_FD_SETSIZE"
  <2>1. o.val \in Start!FdSetSizes
    BY <1>11 DEF Start!IsOption, Start!NumberOptions, Start!OtherOptions
  <2>2. Start!Parsed(o) = [daemon EXCEPT !.fdset_size = o.val]
    BY <1>11 DEF Start!Parsed
  <2>. QED BY <1>t, <2>1, <2>2 DEF Taken
<1>12. CASE o.opt = "NOTIFY"
  <2>1. TRUE \in BOOLEAN
    BY <1>12 DEF Start!IsOption, Start!NumberOptions, Start!OtherOptions
  <2>2. Start!Parsed(o) = [daemon EXCEPT !.notify = TRUE]
    BY <1>12 DEF Start!Parsed
  <2>. QED BY <1>t, <2>1, <2>2 DEF Taken
<1>13. CASE o.opt = "SOCK_ADDR_LEN"
  <2>1. /\ o.val.addr \in Start!Addresses
        /\ o.val.len \in Start!AddressLengths
    BY <1>13 DEF Start!IsOption, Start!NumberOptions, Start!OtherOptions
  <2>2. Start!Parsed(o) = [daemon EXCEPT !.addr = o.val.addr, !.addr_len = o.val.len]
    BY <1>13 DEF Start!Parsed
  <2>. QED BY <1>t, <2>1, <2>2 DEF Taken
<1>14. CASE o.opt \in {"HTTPS_PRIORITIES", "HTTPS_MEM_DHPARAMS", "invalid"}
  <2>1. Start!Parsed(o) = daemon
    BY <1>14 DEF Start!Parsed
  <2>. QED BY <1>t, <2>1 DEF Taken
<1>. QED BY <1>1, <1>2, <1>3, <1>4, <1>5, <1>6, <1>7, <1>8, <1>9, <1>10, <1>11, <1>12, <1>13, <1>14
  DEF Start!IsOption, Start!NumberOptions, Start!NumberOptions, Start!OtherOptions

LEMMA ParseOptionKeeps ==
  ASSUME StartInv, NEW o \in ask.options, Start!ParseOption(o), ask' = ask
  PROVE  StartInv'
<1>k. /\ held \in [Start!Resources -> Nat] /\ twice \subseteq Start!Resources /\ pc = "options"
      /\ ask' = ask
      /\ UNCHANGED <<options, listen, worker>>
  BY DEF StartInv, StartTypes, Start!TypeOK, Start!ParseOption
<1>o. Start!IsOption(o)
  BY StartAssumption DEF StartInv, StartTypes, Start!AppsAssumption
<1>d. /\ daemon' \in Daemons
      /\ daemon'.listen_fd = daemon.listen_fd /\ daemon'.was_quiesced = daemon.was_quiesced
      /\ daemon'.priority_cache <=> daemon.priority_cache \/ (o.opt = "HTTPS_PRIORITIES"
             /\ Start!Has("TLS"))
      /\ Start!IncrementFits'
      /\ ~ Start!BadOption(o) => daemon'.worker_pool_size = 0 \/ daemon'.worker_pool_size =
             daemon.worker_pool_size \/ Start!UsesThreads
  <2>1. Taken(Start!Parsed(o), o)
    BY <1>o, OptionTaken
  <2>. DEFINE x == Start!Parsed(o)
  <2>2. daemon' = [x EXCEPT !.num_opts = @ + 1,
                       !.priority_cache = @ \/ (o.opt = "HTTPS_PRIORITIES" /\ Start!Has("TLS"))]
    BY DEF Start!ParseOption
  <2>3. x \in Daemons /\ x.priority_cache = daemon.priority_cache /\ x.listen_fd = daemon.listen_fd
        /\ x.was_quiesced = daemon.was_quiesced /\ x.pool_size >= MinPool
        /\ x.pool_increment <= x.pool_size \div 4
    BY <2>1 DEF Taken
  <2>. HIDE DEF x
  <2>4. daemon' \in Daemons /\ daemon'.pool_size = x.pool_size /\ daemon'.pool_increment =
            x.pool_increment
        /\ daemon'.worker_pool_size = x.worker_pool_size /\ daemon'.listen_fd = x.listen_fd
        /\ daemon'.was_quiesced = x.was_quiesced
        /\ (daemon'.priority_cache <=> x.priority_cache \/ (o.opt = "HTTPS_PRIORITIES"
               /\ Start!Has("TLS")))
    <3>. DEFINE n == x.num_opts + 1
                b == x.priority_cache \/ (o.opt = "HTTPS_PRIORITIES" /\ Start!Has("TLS"))
    <3>1. n \in Nat /\ b \in BOOLEAN
      BY <2>3
    <3>2. daemon' = [x EXCEPT !.num_opts = n, !.priority_cache = b]
      BY <2>2
    <3>. HIDE DEF n, b
    <3>3. daemon' \in Daemons /\ daemon'.pool_size = x.pool_size /\ daemon'.pool_increment =
              x.pool_increment
          /\ daemon'.worker_pool_size = x.worker_pool_size /\ daemon'.listen_fd = x.listen_fd
          /\ daemon'.was_quiesced = x.was_quiesced /\ daemon'.priority_cache = b
      BY <2>3, <3>1, <3>2
    <3>. QED BY <3>3 DEF b
  <2>5. Start!IncrementFits'
    <3>. HIDE DEF Daemons
    <3>. QED BY <2>3, <2>4 DEF Start!IncrementFits
  <2>6. ~ Start!BadOption(o) => x.worker_pool_size = 0 \/ x.worker_pool_size =
            daemon.worker_pool_size \/ Start!UsesThreads
    <3>1. CASE x.worker_pool_size = daemon.worker_pool_size
      BY <3>1
    <3>2. CASE o.opt = "THREAD_POOL_SIZE" /\ x.worker_pool_size = IF o.val = 1 THEN 0 ELSE o.val
      <4>1. o.val \in Nat
        BY <1>o, <3>2 DEF Start!IsOption, Start!OtherOptions
      <4>. QED BY <3>2, <4>1 DEF Start!BadOption
    <3>. HIDE DEF Daemons
    <3>. QED BY <2>1, <3>1, <3>2 DEF Taken, x
  <2>. HIDE DEF Daemons
  <2>. QED BY <2>3, <2>4, <2>5, <2>6
<1>e. /\ daemon'.listen_fd = daemon.listen_fd /\ daemon'.was_quiesced = daemon.was_quiesced
      /\ daemon'.priority_cache <=> daemon.priority_cache \/ (o.opt = "HTTPS_PRIORITIES"
             /\ Start!Has("TLS"))
      /\ ~ Start!BadOption(o) => daemon'.worker_pool_size = 0 \/ daemon'.worker_pool_size =
             daemon.worker_pool_size \/ Start!UsesThreads
  BY <1>d
<1>c. ~ Start!BadOption(o) => (daemon'.worker_pool_size > 0 => Start!UsesThreads)
  BY <1>k, <1>e DEF StartInv, Chosen
<1>1. ASSUME Start!Fail("option", Start!PrioritiesIfSet \cup {Start!One("params"),
                 Start!One("daemon")}, "failed")
      PROVE  StartInv'
  <2>1. (Start!PrioritiesIfSet \cup {Start!One("params"),
            Start!One("daemon")}) \subseteq Start!Resources
    BY <1>k, ResourceNames DEF Start!TlsPriorities, Start!CloseListen, Start!IfHeld,
        Start!PrioritiesIfSet
  <2>2. /\ held' \in [Start!Resources -> Nat] /\ twice' \subseteq Start!Resources
        /\ twice' = twice \cup {r \in (Start!PrioritiesIfSet \cup {Start!One("params"),
               Start!One("daemon")}) : held[r] = 0} /\ fault' = "option" /\ pc' = "failed"
        /\ \A r \in Start!Resources : held'[r] = IF r \in (Start!PrioritiesIfSet
               \cup {Start!One("params"), Start!One("daemon")}) /\ held[r] > 0
               THEN held[r] - 1 ELSE held[r]
    BY <1>1, <1>k, <2>1, ReleaseDoes DEF Start!Fail
  <2>3. \A r \in Kinds : \A w \in 1..MaxPool : held'[<<r, w>>] = held[<<r, w>>]
    BY <2>2, ResourceNames DEF Start!TlsPriorities, Start!CloseListen, Start!IfHeld,
        Start!PrioritiesIfSet
  <2>4. twice' = {}
    <3>1. twice = {}
      BY <1>k DEF StartInv, Blamed
    <3>2. \A r \in (Start!PrioritiesIfSet \cup {Start!One("params"), Start!One("daemon")}) :
              held[r] # 0
      BY <1>k, ResourceNames DEF StartInv, OwnHeld, Chosen, Blamed, Start!TlsPriorities,
          Start!CloseListen, Start!IfHeld, Start!PrioritiesIfSet
    <3>. QED BY <2>2, <3>1, <3>2
  <2>11. (StartTypes /\ Blamed /\ Chosen)'
    BY <1>k, <2>2, <1>d, <1>c, <1>e DEF StartInv, StartTypes, Start!TypeOK, Blamed, WorkerFaults,
        Chosen
  <2>12. Start!IncrementFits'
    BY <1>d
  <2>13. (OwnHeld /\ PollHeld)'
    BY <1>k, <2>2, ResourceNames, <1>e, <1>1
      DEF StartInv, OwnHeld, Chosen, Start!PrioritiesIfSet, Start!IfHeld, PollHeld
  <2>14. ListenHeld'
    BY <1>k, <2>2, ResourceNames, <1>e DEF StartInv, ListenHeld, Start!ClosedAgain,
        Start!PrioritiesIfSet, Start!IfHeld
  <2>15. WorkersHeld'
    BY <1>k, <2>2, ResourceNames, WorkersUntouched, <2>3 DEF StartInv, Started, Blamed
  <2>16. (Prepared /\ Start!ReleasedOnce)'
    BY <1>k, <2>2, ResourceNames, <2>4
      DEF StartInv, Prepared, Started, Wakes, Start!ReleasedOnce, Blamed, Start!ClosedAgain
  <2>. QED BY <2>11, <2>12, <2>13, <2>14, <2>15, <2>16 DEF StartInv
<1>2. ASSUME Start!Fail("dhparams", Start!PrioritiesIfSet \cup {Start!One("params"),
                 Start!One("daemon")}, "failed")
      PROVE  StartInv'
  <2>1. (Start!PrioritiesIfSet \cup {Start!One("params"),
            Start!One("daemon")}) \subseteq Start!Resources
    BY <1>k, ResourceNames DEF Start!TlsPriorities, Start!CloseListen, Start!IfHeld,
        Start!PrioritiesIfSet
  <2>2. /\ held' \in [Start!Resources -> Nat] /\ twice' \subseteq Start!Resources
        /\ twice' = twice \cup {r \in (Start!PrioritiesIfSet \cup {Start!One("params"),
               Start!One("daemon")}) : held[r] = 0} /\ fault' = "dhparams" /\ pc' = "failed"
        /\ \A r \in Start!Resources : held'[r] = IF r \in (Start!PrioritiesIfSet
               \cup {Start!One("params"), Start!One("daemon")}) /\ held[r] > 0
               THEN held[r] - 1 ELSE held[r]
    BY <1>2, <1>k, <2>1, ReleaseDoes DEF Start!Fail
  <2>3. \A r \in Kinds : \A w \in 1..MaxPool : held'[<<r, w>>] = held[<<r, w>>]
    BY <2>2, ResourceNames DEF Start!TlsPriorities, Start!CloseListen, Start!IfHeld,
        Start!PrioritiesIfSet
  <2>4. twice' = {}
    <3>1. twice = {}
      BY <1>k DEF StartInv, Blamed
    <3>2. \A r \in (Start!PrioritiesIfSet \cup {Start!One("params"), Start!One("daemon")}) :
              held[r] # 0
      BY <1>k, ResourceNames DEF StartInv, OwnHeld, Chosen, Blamed, Start!TlsPriorities,
          Start!CloseListen, Start!IfHeld, Start!PrioritiesIfSet
    <3>. QED BY <2>2, <3>1, <3>2
  <2>11. (StartTypes /\ Blamed /\ Chosen)'
    BY <1>k, <2>2, <1>d, <1>c, <1>e DEF StartInv, StartTypes, Start!TypeOK, Blamed, WorkerFaults,
        Chosen
  <2>12. Start!IncrementFits'
    BY <1>d
  <2>13. (OwnHeld /\ PollHeld)'
    BY <1>k, <2>2, ResourceNames, <1>e, <1>2
      DEF StartInv, OwnHeld, Chosen, Start!PrioritiesIfSet, Start!IfHeld, PollHeld
  <2>14. ListenHeld'
    BY <1>k, <2>2, ResourceNames, <1>e DEF StartInv, ListenHeld, Start!ClosedAgain,
        Start!PrioritiesIfSet, Start!IfHeld
  <2>15. WorkersHeld'
    BY <1>k, <2>2, ResourceNames, WorkersUntouched, <2>3 DEF StartInv, Started, Blamed
  <2>16. (Prepared /\ Start!ReleasedOnce)'
    BY <1>k, <2>2, ResourceNames, <2>4
      DEF StartInv, Prepared, Started, Wakes, Start!ReleasedOnce, Blamed, Start!ClosedAgain
  <2>. QED BY <2>11, <2>12, <2>13, <2>14, <2>15, <2>16 DEF StartInv
<1>3. ASSUME Start!Fail("priorities", Start!IfHeld({Start!One("priorities")})
                 \cup {Start!One("params"), Start!One("daemon")}, "failed")
      PROVE  StartInv'
  <2>1. (Start!IfHeld({Start!One("priorities")}) \cup {Start!One("params"),
            Start!One("daemon")}) \subseteq Start!Resources
    BY <1>k, ResourceNames DEF Start!TlsPriorities, Start!CloseListen, Start!IfHeld,
        Start!PrioritiesIfSet
  <2>2. /\ held' \in [Start!Resources -> Nat] /\ twice' \subseteq Start!Resources
        /\ twice' = twice \cup {r \in (Start!IfHeld({Start!One("priorities")})
               \cup {Start!One("params"), Start!One("daemon")}) : held[r] = 0}
               /\ fault' = "priorities" /\ pc' = "failed"
        /\ \A r \in Start!Resources :
               held'[r] = IF r \in (Start!IfHeld({Start!One("priorities")})
               \cup {Start!One("params"), Start!One("daemon")}) /\ held[r] > 0
               THEN held[r] - 1 ELSE held[r]
    BY <1>3, <1>k, <2>1, ReleaseDoes DEF Start!Fail
  <2>3. \A r \in Kinds : \A w \in 1..MaxPool : held'[<<r, w>>] = held[<<r, w>>]
    BY <2>2, ResourceNames DEF Start!TlsPriorities, Start!CloseListen, Start!IfHeld,
        Start!PrioritiesIfSet
  <2>4. twice' = {}
    <3>1. twice = {}
      BY <1>k DEF StartInv, Blamed
    <3>2. \A r \in (Start!IfHeld({Start!One("priorities")}) \cup {Start!One("params"),
              Start!One("daemon")}) : held[r] # 0
      BY <1>k, ResourceNames DEF StartInv, OwnHeld, Chosen, Blamed, Start!TlsPriorities,
          Start!CloseListen, Start!IfHeld, Start!PrioritiesIfSet
    <3>. QED BY <2>2, <3>1, <3>2
  <2>11. (StartTypes /\ Blamed /\ Chosen)'
    BY <1>k, <2>2, <1>d, <1>c, <1>e DEF StartInv, StartTypes, Start!TypeOK, Blamed, WorkerFaults,
        Chosen
  <2>12. Start!IncrementFits'
    BY <1>d
  <2>13. (OwnHeld /\ PollHeld)'
    BY <1>k, <2>2, ResourceNames, <1>e, <1>3
      DEF StartInv, OwnHeld, Chosen, Start!PrioritiesIfSet, Start!IfHeld, PollHeld
  <2>14. ListenHeld'
    BY <1>k, <2>2, ResourceNames, <1>e DEF StartInv, ListenHeld, Start!ClosedAgain,
        Start!PrioritiesIfSet, Start!IfHeld
  <2>15. WorkersHeld'
    BY <1>k, <2>2, ResourceNames, WorkersUntouched, <2>3 DEF StartInv, Started, Blamed
  <2>16. (Prepared /\ Start!ReleasedOnce)'
    BY <1>k, <2>2, ResourceNames, <2>4
      DEF StartInv, Prepared, Started, Wakes, Start!ReleasedOnce, Blamed, Start!ClosedAgain
  <2>. QED BY <2>11, <2>12, <2>13, <2>14, <2>15, <2>16 DEF StartInv
<1>4. ASSUME ~ Start!BadOption(o),
             Start!Acquire(Start!One("dhparams"), pc),
             o.opt = "HTTPS_MEM_DHPARAMS"
      PROVE  StartInv'
  <2>1. /\ held' \in [Start!Resources -> Nat] /\ twice' = twice /\ fault' = fault /\ pc' = "options"
        /\ \A s \in Start!Resources : held'[s] = IF s = Start!One("dhparams")
               THEN held[s] + 1 ELSE held[s]
    BY <1>4, <1>k, ResourceNames, AcquireDoes
  <2>11. (StartTypes /\ Blamed /\ Chosen)'
    BY <1>k, <2>1, <1>4, <1>d, <1>c, <1>e DEF StartInv, StartTypes, Start!TypeOK, Blamed,
        WorkerFaults, Chosen
  <2>12. Start!IncrementFits'
    BY <1>d
  <2>13. (OwnHeld /\ PollHeld)'
    BY <1>k, <2>1, <1>4, ResourceNames, <1>e DEF StartInv, OwnHeld, Chosen, Start!PrioritiesIfSet,
        PollHeld
  <2>14. ListenHeld'
    BY <1>k, <2>1, <1>4, ResourceNames, <1>e DEF StartInv, ListenHeld, Start!ClosedAgain
  <2>15. WorkersHeld'
    BY <1>k, <2>1, <1>4, ResourceNames, WorkersUntouched DEF StartInv, Started
  <2>16. (Prepared /\ Start!ReleasedOnce)'
    BY <1>k, <2>1, <1>4, ResourceNames DEF StartInv, Prepared, Started, Wakes, Start!ReleasedOnce,
        Blamed
  <2>. QED BY <2>11, <2>12, <2>13, <2>14, <2>15, <2>16 DEF StartInv
<1>5. ASSUME ~ Start!BadOption(o),
             Start!Acquire(Start!One("priorities"), pc),
             ~ daemon.priority_cache,
             o.opt = "HTTPS_PRIORITIES",
             Start!Has("TLS")
      PROVE  StartInv'
  <2>1. /\ held' \in [Start!Resources -> Nat] /\ twice' = twice /\ fault' = fault /\ pc' = "options"
        /\ \A s \in Start!Resources : held'[s] = IF s = Start!One("priorities")
               THEN held[s] + 1 ELSE held[s]
    BY <1>5, <1>k, ResourceNames, AcquireDoes
  <2>11. (StartTypes /\ Blamed /\ Chosen)'
    BY <1>k, <2>1, <1>5, <1>d, <1>c, <1>e DEF StartInv, StartTypes, Start!TypeOK, Blamed,
        WorkerFaults, Chosen
  <2>12. Start!IncrementFits'
    BY <1>d
  <2>13. (OwnHeld /\ PollHeld)'
    BY <1>k, <2>1, <1>5, ResourceNames, <1>e DEF StartInv, OwnHeld, Chosen, Start!PrioritiesIfSet,
        PollHeld
  <2>14. ListenHeld'
    BY <1>k, <2>1, <1>5, ResourceNames, <1>e DEF StartInv, ListenHeld, Start!ClosedAgain
  <2>15. WorkersHeld'
    BY <1>k, <2>1, <1>5, ResourceNames, WorkersUntouched DEF StartInv, Started
  <2>16. (Prepared /\ Start!ReleasedOnce)'
    BY <1>k, <2>1, <1>5, ResourceNames DEF StartInv, Prepared, Started, Wakes, Start!ReleasedOnce,
        Blamed
  <2>. QED BY <2>11, <2>12, <2>13, <2>14, <2>15, <2>16 DEF StartInv
<1>6. ASSUME ~ Start!BadOption(o),
             Start!Skip(pc),
             o.opt = "HTTPS_PRIORITIES" /\ Start!Has("TLS") => daemon.priority_cache
      PROVE  StartInv'
  <2>1. held' = held /\ twice' = twice /\ fault' = fault /\ pc' = "options"
    BY <1>6, <1>k DEF Start!Skip
  <2>11. (StartTypes /\ Blamed /\ Chosen)'
    BY <1>k, <2>1, <1>6, <1>d, <1>c, <1>e DEF StartInv, StartTypes, Start!TypeOK, Blamed,
        WorkerFaults, Chosen
  <2>12. Start!IncrementFits'
    BY <1>d
  <2>13. (OwnHeld /\ PollHeld)'
    BY <1>k, <2>1, <1>6, ResourceNames, <1>e DEF StartInv, OwnHeld, Chosen, Start!PrioritiesIfSet,
        PollHeld
  <2>14. ListenHeld'
    BY <1>k, <2>1, <1>6, ResourceNames, <1>e DEF StartInv, ListenHeld, Start!ClosedAgain
  <2>15. WorkersHeld'
    BY <1>k, <2>1, <1>6, ResourceNames, WorkersUntouched DEF StartInv, Started
  <2>16. (Prepared /\ Start!ReleasedOnce)'
    BY <1>k, <2>1, <1>6, ResourceNames DEF StartInv, Prepared, Started, Wakes, Start!ReleasedOnce,
        Blamed
  <2>. QED BY <2>11, <2>12, <2>13, <2>14, <2>15, <2>16 DEF StartInv
<1>7. CASE Start!BadOption(o)
  <2>1. Start!OptionsRefused("option", Start!PrioritiesIfSet)
    BY <1>7 DEF Start!ParseOption, Start!BadOption
  <2>. QED BY <1>1, <2>1 DEF Start!OptionsRefused
<1>8. CASE ~ Start!BadOption(o) /\ o.opt = "HTTPS_MEM_DHPARAMS" /\ Start!Has("TLS")
  BY <1>2, <1>4, <1>8 DEF Start!ParseOption, Start!OptionsRefused
<1>9. CASE ~ Start!BadOption(o) /\ o.opt = "HTTPS_PRIORITIES" /\ Start!Has("TLS")
  BY <1>3, <1>5, <1>6, <1>9 DEF Start!ParseOption, Start!OptionsRefused
<1>10. CASE ~ Start!BadOption(o) /\ ~ (o.opt \in {"HTTPS_MEM_DHPARAMS", "HTTPS_PRIORITIES"}
           /\ Start!Has("TLS"))
  BY <1>6, <1>10 DEF Start!ParseOption
<1>. QED BY <1>7, <1>8, <1>9, <1>10

LEMMA OptionsEndKeeps ==
  ASSUME StartInv, Start!OptionsEnd, ask' = ask
  PROVE  StartInv'
<1>k. /\ held \in [Start!Resources -> Nat] /\ twice \subseteq Start!Resources /\ pc = "options"
      /\ ask' = ask
      /\ UNCHANGED <<options, daemon, listen, worker>>
  BY DEF StartInv, StartTypes, Start!TypeOK, Start!OptionsEnd, Start!Same
<1>1. ASSUME Start!Skip("interim") PROVE StartInv'
  <2>1. held' = held /\ twice' = twice /\ fault' = fault /\ pc' = "interim"
    BY <1>1 DEF Start!Skip
  <2>11. (StartTypes /\ Blamed /\ Chosen /\ Start!IncrementFits)'
    BY <1>k, <2>1 DEF StartInv, StartTypes, Start!TypeOK, Blamed, WorkerFaults, Chosen,
        Start!IncrementFits
  <2>12. (OwnHeld /\ PollHeld)'
    BY <1>k, <2>1, ResourceNames DEF StartInv, OwnHeld, PollHeld
  <2>13. ListenHeld'
    BY <1>k, <2>1, ResourceNames DEF StartInv, ListenHeld, Start!ClosedAgain
  <2>14. WorkersHeld'
    BY <1>k, <2>1, ResourceNames, WorkersUntouched DEF StartInv, Started
  <2>15. (Prepared /\ Start!ReleasedOnce)'
    BY <1>k, <2>1, ResourceNames DEF StartInv, Prepared, Started, Wakes, Start!ReleasedOnce, Blamed
  <2>. QED BY <2>11, <2>12, <2>13, <2>14, <2>15 DEF StartInv
<1>. QED BY <1>1 DEF Start!OptionsEnd

LEMMA InterimKeeps ==
  ASSUME StartInv, Start!process_interim_params, ask' = ask
  PROVE  StartInv'
<1>k. /\ held \in [Start!Resources -> Nat] /\ twice \subseteq Start!Resources /\ pc = "interim"
      /\ ask' = ask
      /\ UNCHANGED <<options, listen, worker>>
  BY DEF StartInv, StartTypes, Start!TypeOK, Start!process_interim_params
<1>1. ASSUME Start!Fail("interim", {Start!One("params"), Start!One("daemon")}, "failed"),
             daemon' = daemon
      PROVE  StartInv'
  <2>1. {Start!One("params"), Start!One("daemon")} \subseteq Start!Resources
    BY <1>k, ResourceNames DEF Start!TlsPriorities, Start!CloseListen, Start!IfHeld
  <2>2. /\ held' \in [Start!Resources -> Nat] /\ twice' \subseteq Start!Resources
        /\ twice' = twice \cup {r \in {Start!One("params"), Start!One("daemon")} : held[r] = 0}
        /\ fault' = "interim" /\ pc' = "failed"
        /\ \A r \in Start!Resources : held'[r] = IF r \in {Start!One("params"),
               Start!One("daemon")} /\ held[r] > 0 THEN held[r] - 1 ELSE held[r]
    BY <1>1, <1>k, <2>1, ReleaseDoes DEF Start!Fail
  <2>3. \A r \in Kinds : \A w \in 1..MaxPool : held'[<<r, w>>] = held[<<r, w>>]
    BY <2>2, ResourceNames DEF Start!TlsPriorities, Start!CloseListen, Start!IfHeld
  <2>4. twice' = {}
    <3>1. twice = {}
      BY <1>k DEF StartInv, Blamed
    <3>2. \A r \in {Start!One("params"), Start!One("daemon")} : held[r] # 0
      BY <1>k, ResourceNames DEF StartInv, OwnHeld, Chosen, Blamed, Start!TlsPriorities,
          Start!CloseListen, Start!IfHeld
    <3>. QED BY <2>2, <3>1, <3>2
  <2>11. (StartTypes /\ Blamed /\ Chosen /\ Start!IncrementFits)'
    BY <1>k, <2>2, <1>1 DEF StartInv, StartTypes, Start!TypeOK, Blamed, WorkerFaults, Chosen,
        Start!IncrementFits
  <2>12. (OwnHeld /\ PollHeld)'
    BY <1>k, <2>2, <1>1, ResourceNames
      DEF StartInv, OwnHeld, Start!TlsPriorities, Start!CloseListen, Start!IfHeld, Chosen, PollHeld
  <2>13. ListenHeld'
    BY <1>k, <2>2, <1>1, ResourceNames
      DEF StartInv, ListenHeld, Start!ClosedAgain, Start!TlsPriorities, Start!CloseListen,
          Start!IfHeld
  <2>14. WorkersHeld'
    BY <1>k, <2>2, <1>1, ResourceNames, WorkersUntouched, <2>3 DEF StartInv, Started, Blamed
  <2>15. (Prepared /\ Start!ReleasedOnce)'
    BY <1>k, <2>2, <1>1, ResourceNames, <2>4
      DEF StartInv, Prepared, Started, Wakes, Start!ReleasedOnce, Blamed, Start!ClosedAgain
  <2>. QED BY <2>11, <2>12, <2>13, <2>14, <2>15 DEF StartInv
<1>2. ASSUME ~ Start!BadInterim,
             daemon' = [daemon EXCEPT !.listen_fd = daemon.param_fd],
             Start!Release({Start!One("params")}),
             pc' = "priorities",
             fault' = fault
      PROVE  StartInv'
  <2>1. {Start!One("params")} \subseteq Start!Resources
    BY ResourceNames
  <2>2. /\ held' \in [Start!Resources -> Nat] /\ twice' \subseteq Start!Resources
        /\ twice' = twice \cup {r \in {Start!One("params")} : held[r] = 0} /\ fault' = fault
        /\ pc' = "priorities"
        /\ \A r \in Start!Resources : held'[r] = IF r \in {Start!One("params")}
               /\ held[r] > 0 THEN held[r] - 1 ELSE held[r]
    BY <1>2, <1>k, <2>1, ReleaseDoes
  <2>3. \A r \in Kinds : \A w \in 1..MaxPool : held'[<<r, w>>] = held[<<r, w>>]
    BY <2>2, ResourceNames
  <2>4. twice' = {}
    BY <1>k, <2>2, ResourceNames DEF StartInv, Blamed, OwnHeld
  <2>5. /\ daemon.param_fd \in {"none", "app"} /\ daemon'.listen_fd = daemon.param_fd
        /\ daemon'.priority_cache = daemon.priority_cache /\ daemon'.worker_pool_size =
               daemon.worker_pool_size
        /\ daemon'.was_quiesced = daemon.was_quiesced /\ daemon'.pool_size = daemon.pool_size
        /\ daemon'.pool_increment = daemon.pool_increment
    BY <1>2 DEF Start!BadInterim, StartInv, StartTypes, Start!Sockets
  <2>11. (StartTypes /\ Blamed /\ Chosen /\ Start!IncrementFits)'
    BY <1>k, <2>2, <2>4, <2>5, <1>2
      DEF StartInv, StartTypes, Start!TypeOK, Blamed, WorkerFaults, Chosen, Start!IncrementFits
  <2>12. (OwnHeld /\ PollHeld)'
    BY <1>k, <2>2, <2>4, <2>5, ResourceNames DEF StartInv, OwnHeld, PollHeld
  <2>13. ListenHeld'
    BY <1>k, <2>2, <2>4, <2>5, ResourceNames DEF StartInv, ListenHeld, Start!ClosedAgain
  <2>14. WorkersHeld'
    BY <1>k, <2>2, <2>4, <2>5, ResourceNames, WorkersUntouched, <2>3 DEF StartInv, Started
  <2>15. (Prepared /\ Start!ReleasedOnce)'
    BY <1>k, <2>2, <2>4, <2>5, ResourceNames
      DEF StartInv, Prepared, Started, Wakes, Start!ReleasedOnce, Blamed
  <2>. QED BY <2>11, <2>12, <2>13, <2>14, <2>15 DEF StartInv
<1>. QED BY <1>1, <1>2 DEF Start!process_interim_params

LEMMA DefaultPrioritiesKeeps ==
  ASSUME StartInv, Start!DefaultPriorities, ask' = ask
  PROVE  StartInv'
<1>k. /\ held \in [Start!Resources -> Nat] /\ twice \subseteq Start!Resources
      /\ pc = "priorities" /\ ask' = ask
      /\ UNCHANGED <<daemon, listen, worker>>
  BY DEF StartInv, StartTypes, Start!TypeOK, Start!DefaultPriorities
<1>o. /\ options' \subseteq Start!Flags
      /\ \A f \in Start!Flags \ {"ITC"} : f \in options' <=> f \in options
      /\ "ITC" \in options => "ITC" \in options'
  BY DEF Start!DefaultPriorities, StartInv, StartTypes, Start!TypeOK, Start!Flags
<1>1. ASSUME Start!Acquire(Start!One("priorities"), "itc"),
             Start!Has("TLS"),
             ~ daemon.priority_cache
      PROVE  StartInv'
  <2>1. /\ held' \in [Start!Resources -> Nat] /\ twice' = twice /\ fault' = fault /\ pc' = "itc"
        /\ \A s \in Start!Resources : held'[s] = IF s = Start!One("priorities")
               THEN held[s] + 1 ELSE held[s]
    BY <1>1, <1>k, ResourceNames, AcquireDoes
  <2>11. (StartTypes /\ Blamed /\ Chosen /\ Start!IncrementFits)'
    BY <1>k, <2>1, <1>o
      DEF StartInv, StartTypes, Start!TypeOK, Start!Flags, Blamed, WorkerFaults, Chosen,
          Start!IncrementFits
  <2>12. (OwnHeld /\ PollHeld)'
    BY <1>k, <2>1, ResourceNames, <1>o, <1>1 DEF StartInv, OwnHeld, Start!Flags, PollHeld
  <2>13. ListenHeld'
    BY <1>k, <2>1, ResourceNames, <1>o DEF StartInv, ListenHeld, Start!ClosedAgain, Start!Flags
  <2>14. WorkersHeld'
    BY <1>k, <2>1, ResourceNames, WorkersUntouched DEF StartInv, Started
  <2>15. (Prepared /\ Start!ReleasedOnce)'
    BY <1>k, <2>1, ResourceNames DEF StartInv, Prepared, Started, Wakes, Start!ReleasedOnce, Blamed
  <2>. QED BY <2>11, <2>12, <2>13, <2>14, <2>15 DEF StartInv
<1>2. ASSUME Start!Fail("priorities", {Start!One("daemon")}, "failed"),
             ~ daemon.priority_cache
      PROVE  StartInv'
  <2>1. {Start!One("daemon")} \subseteq Start!Resources
    BY <1>k, ResourceNames DEF Start!TlsPriorities, Start!CloseListen, Start!IfHeld
  <2>2. /\ held' \in [Start!Resources -> Nat] /\ twice' \subseteq Start!Resources
        /\ twice' = twice \cup {r \in {Start!One("daemon")} : held[r] = 0}
        /\ fault' = "priorities" /\ pc' = "failed"
        /\ \A r \in Start!Resources : held'[r] = IF r \in {Start!One("daemon")}
               /\ held[r] > 0 THEN held[r] - 1 ELSE held[r]
    BY <1>2, <1>k, <2>1, ReleaseDoes DEF Start!Fail
  <2>3. \A r \in Kinds : \A w \in 1..MaxPool : held'[<<r, w>>] = held[<<r, w>>]
    BY <2>2, ResourceNames DEF Start!TlsPriorities, Start!CloseListen, Start!IfHeld
  <2>4. twice' = {}
    <3>1. twice = {}
      BY <1>k DEF StartInv, Blamed
    <3>2. \A r \in {Start!One("daemon")} : held[r] # 0
      BY <1>k, ResourceNames DEF StartInv, OwnHeld, Chosen, Blamed, Start!TlsPriorities,
          Start!CloseListen, Start!IfHeld
    <3>. QED BY <2>2, <3>1, <3>2
  <2>11. (StartTypes /\ Blamed /\ Chosen /\ Start!IncrementFits)'
    BY <1>k, <2>2, <1>o
      DEF StartInv, StartTypes, Start!TypeOK, Start!Flags, Blamed, WorkerFaults, Chosen,
          Start!IncrementFits
  <2>12. (OwnHeld /\ PollHeld)'
    BY <1>k, <2>2, ResourceNames, <1>o, <1>2 DEF StartInv, OwnHeld, Start!Flags, PollHeld
  <2>13. ListenHeld'
    BY <1>k, <2>2, ResourceNames, <1>o DEF StartInv, ListenHeld, Start!ClosedAgain, Start!Flags
  <2>14. WorkersHeld'
    BY <1>k, <2>2, ResourceNames, WorkersUntouched, <2>3 DEF StartInv, Started, Blamed
  <2>15. (Prepared /\ Start!ReleasedOnce)'
    BY <1>k, <2>2, ResourceNames, <2>4
      DEF StartInv, Prepared, Started, Wakes, Start!ReleasedOnce, Blamed, Start!ClosedAgain
  <2>. QED BY <2>11, <2>12, <2>13, <2>14, <2>15 DEF StartInv
<1>3. ASSUME Start!Skip("itc"), ~ (Start!Has("TLS") /\ ~ daemon.priority_cache) PROVE StartInv'
  <2>1. held' = held /\ twice' = twice /\ fault' = fault /\ pc' = "itc"
    BY <1>3 DEF Start!Skip
  <2>11. (StartTypes /\ Blamed /\ Chosen /\ Start!IncrementFits)'
    BY <1>k, <2>1, <1>o
      DEF StartInv, StartTypes, Start!TypeOK, Start!Flags, Blamed, WorkerFaults, Chosen,
          Start!IncrementFits
  <2>12. (OwnHeld /\ PollHeld)'
    BY <1>k, <2>1, ResourceNames, <1>o, <1>3 DEF StartInv, OwnHeld, Start!Flags, Chosen, PollHeld
  <2>13. ListenHeld'
    BY <1>k, <2>1, ResourceNames, <1>o DEF StartInv, ListenHeld, Start!ClosedAgain, Start!Flags
  <2>14. WorkersHeld'
    BY <1>k, <2>1, ResourceNames, WorkersUntouched DEF StartInv, Started
  <2>15. (Prepared /\ Start!ReleasedOnce)'
    BY <1>k, <2>1, ResourceNames DEF StartInv, Prepared, Started, Wakes, Start!ReleasedOnce, Blamed
  <2>. QED BY <2>11, <2>12, <2>13, <2>14, <2>15 DEF StartInv
<1>. QED BY <1>1, <1>2, <1>3 DEF Start!DefaultPriorities

LEMMA InitItcKeeps ==
  ASSUME StartInv, Start!InitItc, ask' = ask
  PROVE  StartInv'
<1>k. /\ held \in [Start!Resources -> Nat] /\ twice \subseteq Start!Resources /\ pc = "itc"
      /\ ask' = ask
      /\ UNCHANGED <<options, daemon, listen, worker>>
  BY DEF StartInv, StartTypes, Start!TypeOK, Start!InitItc, Start!Same
<1>1. ASSUME Start!Acquire(Start!One("itc"), "random"),
             Start!Has("ITC"),
             daemon.worker_pool_size = 0
      PROVE  StartInv'
  <2>1. /\ held' \in [Start!Resources -> Nat] /\ twice' = twice /\ fault' = fault /\ pc' = "random"
        /\ \A s \in Start!Resources : held'[s] = IF s = Start!One("itc") THEN held[s] + 1
               ELSE held[s]
    BY <1>1, <1>k, ResourceNames, AcquireDoes
  <2>11. (StartTypes /\ Blamed /\ Chosen /\ Start!IncrementFits)'
    BY <1>k, <2>1 DEF StartInv, StartTypes, Start!TypeOK, Blamed, WorkerFaults, Chosen,
        Start!IncrementFits
  <2>12. (OwnHeld /\ PollHeld)'
    BY <1>k, <2>1, ResourceNames, <1>1 DEF StartInv, OwnHeld, PollHeld
  <2>13. ListenHeld'
    BY <1>k, <2>1, ResourceNames DEF StartInv, ListenHeld, Start!ClosedAgain
  <2>14. WorkersHeld'
    BY <1>k, <2>1, ResourceNames, WorkersUntouched DEF StartInv, Started
  <2>15. (Prepared /\ Start!ReleasedOnce)'
    BY <1>k, <2>1, ResourceNames DEF StartInv, Prepared, Started, Wakes, Start!ReleasedOnce, Blamed
  <2>. QED BY <2>11, <2>12, <2>13, <2>14, <2>15 DEF StartInv
<1>2. ASSUME Start!Fail("itc", (Start!IfHeld({Start!One("priorities")})
                 \cup {Start!One("daemon")}), "failed")
      PROVE  StartInv'
  <2>1. (Start!IfHeld({Start!One("priorities")})
            \cup {Start!One("daemon")}) \subseteq Start!Resources
    BY <1>k, ResourceNames DEF Start!TlsPriorities, Start!CloseListen, Start!IfHeld
  <2>2. /\ held' \in [Start!Resources -> Nat] /\ twice' \subseteq Start!Resources
        /\ twice' = twice \cup {r \in (Start!IfHeld({Start!One("priorities")})
               \cup {Start!One("daemon")}) : held[r] = 0} /\ fault' = "itc" /\ pc' = "failed"
        /\ \A r \in Start!Resources :
               held'[r] = IF r \in (Start!IfHeld({Start!One("priorities")})
               \cup {Start!One("daemon")}) /\ held[r] > 0 THEN held[r] - 1 ELSE held[r]
    BY <1>2, <1>k, <2>1, ReleaseDoes DEF Start!Fail
  <2>3. \A r \in Kinds : \A w \in 1..MaxPool : held'[<<r, w>>] = held[<<r, w>>]
    BY <2>2, ResourceNames DEF Start!TlsPriorities, Start!CloseListen, Start!IfHeld
  <2>4. twice' = {}
    <3>1. twice = {}
      BY <1>k DEF StartInv, Blamed
    <3>2. \A r \in (Start!IfHeld({Start!One("priorities")}) \cup {Start!One("daemon")}) :
              held[r] # 0
      BY <1>k, ResourceNames DEF StartInv, OwnHeld, Chosen, Blamed, Start!TlsPriorities,
          Start!CloseListen, Start!IfHeld
    <3>. QED BY <2>2, <3>1, <3>2
  <2>11. (StartTypes /\ Blamed /\ Chosen /\ Start!IncrementFits)'
    BY <1>k, <2>2 DEF StartInv, StartTypes, Start!TypeOK, Blamed, WorkerFaults, Chosen,
        Start!IncrementFits
  <2>12. (OwnHeld /\ PollHeld)'
    BY <1>k, <2>2, ResourceNames
      DEF StartInv, OwnHeld, Start!TlsPriorities, Start!CloseListen, Start!IfHeld, Chosen, PollHeld
  <2>13. ListenHeld'
    BY <1>k, <2>2, ResourceNames
      DEF StartInv, ListenHeld, Start!ClosedAgain, Start!TlsPriorities, Start!CloseListen,
          Start!IfHeld
  <2>14. WorkersHeld'
    BY <1>k, <2>2, ResourceNames, WorkersUntouched, <2>3 DEF StartInv, Started, Blamed
  <2>15. (Prepared /\ Start!ReleasedOnce)'
    BY <1>k, <2>2, ResourceNames, <2>4
      DEF StartInv, Prepared, Started, Wakes, Start!ReleasedOnce, Blamed, Start!ClosedAgain
  <2>. QED BY <2>11, <2>12, <2>13, <2>14, <2>15 DEF StartInv
<1>3. ASSUME Start!Skip("random"),
             ~ (Start!Has("ITC") /\ daemon.worker_pool_size = 0)
      PROVE  StartInv'
  <2>1. held' = held /\ twice' = twice /\ fault' = fault /\ pc' = "random"
    BY <1>3 DEF Start!Skip
  <2>11. (StartTypes /\ Blamed /\ Chosen /\ Start!IncrementFits)'
    BY <1>k, <2>1 DEF StartInv, StartTypes, Start!TypeOK, Blamed, WorkerFaults, Chosen,
        Start!IncrementFits
  <2>12. (OwnHeld /\ PollHeld)'
    BY <1>k, <2>1, ResourceNames, <1>3 DEF StartInv, OwnHeld, PollHeld
  <2>13. ListenHeld'
    BY <1>k, <2>1, ResourceNames DEF StartInv, ListenHeld, Start!ClosedAgain
  <2>14. WorkersHeld'
    BY <1>k, <2>1, ResourceNames, WorkersUntouched DEF StartInv, Started
  <2>15. (Prepared /\ Start!ReleasedOnce)'
    BY <1>k, <2>1, ResourceNames DEF StartInv, Prepared, Started, Wakes, Start!ReleasedOnce, Blamed
  <2>. QED BY <2>11, <2>12, <2>13, <2>14, <2>15 DEF StartInv
<1>. QED BY <1>1, <1>2, <1>3 DEF Start!InitItc

LEMMA CopyRandomKeeps ==
  ASSUME StartInv, Start!CopyRandom, ask' = ask
  PROVE  StartInv'
<1>k. /\ held \in [Start!Resources -> Nat] /\ twice \subseteq Start!Resources /\ pc = "random"
      /\ ask' = ask
      /\ UNCHANGED <<options, daemon, listen, worker>>
  BY DEF StartInv, StartTypes, Start!TypeOK, Start!CopyRandom, Start!Same
<1>1. ASSUME Start!Acquire(Start!One("random"), "nnc") PROVE StartInv'
  <2>1. /\ held' \in [Start!Resources -> Nat] /\ twice' = twice /\ fault' = fault /\ pc' = "nnc"
        /\ \A s \in Start!Resources : held'[s] = IF s = Start!One("random") THEN held[s] + 1
               ELSE held[s]
    BY <1>1, <1>k, ResourceNames, AcquireDoes
  <2>11. (StartTypes /\ Blamed /\ Chosen /\ Start!IncrementFits)'
    BY <1>k, <2>1 DEF StartInv, StartTypes, Start!TypeOK, Blamed, WorkerFaults, Chosen,
        Start!IncrementFits
  <2>12. (OwnHeld /\ PollHeld)'
    BY <1>k, <2>1, ResourceNames DEF StartInv, OwnHeld, PollHeld
  <2>13. ListenHeld'
    BY <1>k, <2>1, ResourceNames DEF StartInv, ListenHeld, Start!ClosedAgain
  <2>14. WorkersHeld'
    BY <1>k, <2>1, ResourceNames, WorkersUntouched DEF StartInv, Started
  <2>15. (Prepared /\ Start!ReleasedOnce)'
    BY <1>k, <2>1, ResourceNames DEF StartInv, Prepared, Started, Wakes, Start!ReleasedOnce, Blamed
  <2>. QED BY <2>11, <2>12, <2>13, <2>14, <2>15 DEF StartInv
<1>2. ASSUME Start!Fail("random", (Start!TlsPriorities \cup {Start!One("daemon")}), "failed")
      PROVE  StartInv'
  <2>1. (Start!TlsPriorities \cup {Start!One("daemon")}) \subseteq Start!Resources
    BY <1>k, ResourceNames DEF Start!TlsPriorities, Start!CloseListen, Start!IfHeld
  <2>2. /\ held' \in [Start!Resources -> Nat] /\ twice' \subseteq Start!Resources
        /\ twice' = twice \cup {r \in (Start!TlsPriorities \cup {Start!One("daemon")}) :
               held[r] = 0} /\ fault' = "random" /\ pc' = "failed"
        /\ \A r \in Start!Resources : held'[r] = IF r \in (Start!TlsPriorities
               \cup {Start!One("daemon")}) /\ held[r] > 0 THEN held[r] - 1 ELSE held[r]
    BY <1>2, <1>k, <2>1, ReleaseDoes DEF Start!Fail
  <2>3. \A r \in Kinds : \A w \in 1..MaxPool : held'[<<r, w>>] = held[<<r, w>>]
    BY <2>2, ResourceNames DEF Start!TlsPriorities, Start!CloseListen, Start!IfHeld
  <2>4. twice' = {}
    <3>1. twice = {}
      BY <1>k DEF StartInv, Blamed
    <3>2. \A r \in (Start!TlsPriorities \cup {Start!One("daemon")}) : held[r] # 0
      BY <1>k, ResourceNames DEF StartInv, OwnHeld, Chosen, Blamed, Start!TlsPriorities,
          Start!CloseListen, Start!IfHeld
    <3>. QED BY <2>2, <3>1, <3>2
  <2>11. (StartTypes /\ Blamed /\ Chosen /\ Start!IncrementFits)'
    BY <1>k, <2>2 DEF StartInv, StartTypes, Start!TypeOK, Blamed, WorkerFaults, Chosen,
        Start!IncrementFits
  <2>12. (OwnHeld /\ PollHeld)'
    BY <1>k, <2>2, ResourceNames
      DEF StartInv, OwnHeld, Start!TlsPriorities, Start!CloseListen, Start!IfHeld, Chosen, PollHeld
  <2>13. ListenHeld'
    BY <1>k, <2>2, ResourceNames
      DEF StartInv, ListenHeld, Start!ClosedAgain, Start!TlsPriorities, Start!CloseListen,
          Start!IfHeld
  <2>14. WorkersHeld'
    BY <1>k, <2>2, ResourceNames, WorkersUntouched, <2>3 DEF StartInv, Started, Blamed
  <2>15. (Prepared /\ Start!ReleasedOnce)'
    BY <1>k, <2>2, ResourceNames, <2>4
      DEF StartInv, Prepared, Started, Wakes, Start!ReleasedOnce, Blamed, Start!ClosedAgain
  <2>. QED BY <2>11, <2>12, <2>13, <2>14, <2>15 DEF StartInv
<1>3. ASSUME Start!Skip("nnc") PROVE StartInv'
  <2>1. held' = held /\ twice' = twice /\ fault' = fault /\ pc' = "nnc"
    BY <1>3 DEF Start!Skip
  <2>11. (StartTypes /\ Blamed /\ Chosen /\ Start!IncrementFits)'
    BY <1>k, <2>1 DEF StartInv, StartTypes, Start!TypeOK, Blamed, WorkerFaults, Chosen,
        Start!IncrementFits
  <2>12. (OwnHeld /\ PollHeld)'
    BY <1>k, <2>1, ResourceNames DEF StartInv, OwnHeld, PollHeld
  <2>13. ListenHeld'
    BY <1>k, <2>1, ResourceNames DEF StartInv, ListenHeld, Start!ClosedAgain
  <2>14. WorkersHeld'
    BY <1>k, <2>1, ResourceNames, WorkersUntouched DEF StartInv, Started
  <2>15. (Prepared /\ Start!ReleasedOnce)'
    BY <1>k, <2>1, ResourceNames DEF StartInv, Prepared, Started, Wakes, Start!ReleasedOnce, Blamed
  <2>. QED BY <2>11, <2>12, <2>13, <2>14, <2>15 DEF StartInv
<1>. QED BY <1>1, <1>2, <1>3 DEF Start!CopyRandom

LEMMA AllocNoncesKeeps ==
  ASSUME StartInv, Start!AllocNonces, ask' = ask
  PROVE  StartInv'
<1>k. /\ held \in [Start!Resources -> Nat] /\ twice \subseteq Start!Resources /\ pc = "nnc"
      /\ ask' = ask
      /\ UNCHANGED <<options, daemon, listen, worker>>
  BY DEF StartInv, StartTypes, Start!TypeOK, Start!AllocNonces, Start!Same
<1>1. ASSUME Start!Acquire(Start!One("nnc"), "nnc_lock") PROVE StartInv'
  <2>1. /\ held' \in [Start!Resources -> Nat] /\ twice' = twice /\ fault' = fault
        /\ pc' = "nnc_lock"
        /\ \A s \in Start!Resources : held'[s] = IF s = Start!One("nnc") THEN held[s] + 1
               ELSE held[s]
    BY <1>1, <1>k, ResourceNames, AcquireDoes
  <2>11. (StartTypes /\ Blamed /\ Chosen /\ Start!IncrementFits)'
    BY <1>k, <2>1 DEF StartInv, StartTypes, Start!TypeOK, Blamed, WorkerFaults, Chosen,
        Start!IncrementFits
  <2>12. (OwnHeld /\ PollHeld)'
    BY <1>k, <2>1, ResourceNames DEF StartInv, OwnHeld, PollHeld
  <2>13. ListenHeld'
    BY <1>k, <2>1, ResourceNames DEF StartInv, ListenHeld, Start!ClosedAgain
  <2>14. WorkersHeld'
    BY <1>k, <2>1, ResourceNames, WorkersUntouched DEF StartInv, Started
  <2>15. (Prepared /\ Start!ReleasedOnce)'
    BY <1>k, <2>1, ResourceNames DEF StartInv, Prepared, Started, Wakes, Start!ReleasedOnce, Blamed
  <2>. QED BY <2>11, <2>12, <2>13, <2>14, <2>15 DEF StartInv
<1>2. ASSUME Start!Fail("nnc", (Start!TlsPriorities \cup Start!IfHeld({Start!One("random")})
                 \cup {Start!One("daemon")}), "failed")
      PROVE  StartInv'
  <2>1. (Start!TlsPriorities \cup Start!IfHeld({Start!One("random")})
            \cup {Start!One("daemon")}) \subseteq Start!Resources
    BY <1>k, ResourceNames DEF Start!TlsPriorities, Start!CloseListen, Start!IfHeld
  <2>2. /\ held' \in [Start!Resources -> Nat] /\ twice' \subseteq Start!Resources
        /\ twice' = twice \cup {r \in (Start!TlsPriorities
               \cup Start!IfHeld({Start!One("random")}) \cup {Start!One("daemon")}) :
               held[r] = 0} /\ fault' = "nnc" /\ pc' = "failed"
        /\ \A r \in Start!Resources : held'[r] = IF r \in (Start!TlsPriorities
               \cup Start!IfHeld({Start!One("random")}) \cup {Start!One("daemon")})
               /\ held[r] > 0 THEN held[r] - 1 ELSE held[r]
    BY <1>2, <1>k, <2>1, ReleaseDoes DEF Start!Fail
  <2>3. \A r \in Kinds : \A w \in 1..MaxPool : held'[<<r, w>>] = held[<<r, w>>]
    BY <2>2, ResourceNames DEF Start!TlsPriorities, Start!CloseListen, Start!IfHeld
  <2>4. twice' = {}
    <3>1. twice = {}
      BY <1>k DEF StartInv, Blamed
    <3>2. \A r \in (Start!TlsPriorities \cup Start!IfHeld({Start!One("random")})
              \cup {Start!One("daemon")}) : held[r] # 0
      BY <1>k, ResourceNames DEF StartInv, OwnHeld, Chosen, Blamed, Start!TlsPriorities,
          Start!CloseListen, Start!IfHeld
    <3>. QED BY <2>2, <3>1, <3>2
  <2>11. (StartTypes /\ Blamed /\ Chosen /\ Start!IncrementFits)'
    BY <1>k, <2>2 DEF StartInv, StartTypes, Start!TypeOK, Blamed, WorkerFaults, Chosen,
        Start!IncrementFits
  <2>12. (OwnHeld /\ PollHeld)'
    BY <1>k, <2>2, ResourceNames
      DEF StartInv, OwnHeld, Start!TlsPriorities, Start!CloseListen, Start!IfHeld, Chosen, PollHeld
  <2>13. ListenHeld'
    BY <1>k, <2>2, ResourceNames
      DEF StartInv, ListenHeld, Start!ClosedAgain, Start!TlsPriorities, Start!CloseListen,
          Start!IfHeld
  <2>14. WorkersHeld'
    BY <1>k, <2>2, ResourceNames, WorkersUntouched, <2>3 DEF StartInv, Started, Blamed
  <2>15. (Prepared /\ Start!ReleasedOnce)'
    BY <1>k, <2>2, ResourceNames, <2>4
      DEF StartInv, Prepared, Started, Wakes, Start!ReleasedOnce, Blamed, Start!ClosedAgain
  <2>. QED BY <2>11, <2>12, <2>13, <2>14, <2>15 DEF StartInv
<1>3. ASSUME Start!Skip("nnc_lock") PROVE StartInv'
  <2>1. held' = held /\ twice' = twice /\ fault' = fault /\ pc' = "nnc_lock"
    BY <1>3 DEF Start!Skip
  <2>11. (StartTypes /\ Blamed /\ Chosen /\ Start!IncrementFits)'
    BY <1>k, <2>1 DEF StartInv, StartTypes, Start!TypeOK, Blamed, WorkerFaults, Chosen,
        Start!IncrementFits
  <2>12. (OwnHeld /\ PollHeld)'
    BY <1>k, <2>1, ResourceNames DEF StartInv, OwnHeld, PollHeld
  <2>13. ListenHeld'
    BY <1>k, <2>1, ResourceNames DEF StartInv, ListenHeld, Start!ClosedAgain
  <2>14. WorkersHeld'
    BY <1>k, <2>1, ResourceNames, WorkersUntouched DEF StartInv, Started
  <2>15. (Prepared /\ Start!ReleasedOnce)'
    BY <1>k, <2>1, ResourceNames DEF StartInv, Prepared, Started, Wakes, Start!ReleasedOnce, Blamed
  <2>. QED BY <2>11, <2>12, <2>13, <2>14, <2>15 DEF StartInv
<1>. QED BY <1>1, <1>2, <1>3 DEF Start!AllocNonces

LEMMA InitNonceLockKeeps ==
  ASSUME StartInv, Start!InitNonceLock, ask' = ask
  PROVE  StartInv'
<1>k. /\ held \in [Start!Resources -> Nat] /\ twice \subseteq Start!Resources
      /\ pc = "nnc_lock" /\ ask' = ask
      /\ UNCHANGED <<options, daemon, listen, worker>>
  BY DEF StartInv, StartTypes, Start!TypeOK, Start!InitNonceLock, Start!Same
<1>1. ASSUME Start!Acquire(Start!One("nnc_lock"), "listen") PROVE StartInv'
  <2>1. /\ held' \in [Start!Resources -> Nat] /\ twice' = twice /\ fault' = fault /\ pc' = "listen"
        /\ \A s \in Start!Resources : held'[s] = IF s = Start!One("nnc_lock")
               THEN held[s] + 1 ELSE held[s]
    BY <1>1, <1>k, ResourceNames, AcquireDoes
  <2>11. (StartTypes /\ Blamed /\ Chosen /\ Start!IncrementFits)'
    BY <1>k, <2>1 DEF StartInv, StartTypes, Start!TypeOK, Blamed, WorkerFaults, Chosen,
        Start!IncrementFits
  <2>12. (OwnHeld /\ PollHeld)'
    BY <1>k, <2>1, ResourceNames DEF StartInv, OwnHeld, PollHeld
  <2>13. ListenHeld'
    BY <1>k, <2>1, ResourceNames DEF StartInv, ListenHeld, Start!ClosedAgain
  <2>14. WorkersHeld'
    BY <1>k, <2>1, ResourceNames, WorkersUntouched DEF StartInv, Started
  <2>15. (Prepared /\ Start!ReleasedOnce)'
    BY <1>k, <2>1, ResourceNames DEF StartInv, Prepared, Started, Wakes, Start!ReleasedOnce, Blamed
  <2>. QED BY <2>11, <2>12, <2>13, <2>14, <2>15 DEF StartInv
<1>2. ASSUME Start!Fail("nnc_lock", (Start!TlsPriorities \cup Start!IfHeld({Start!One("random"),
                 Start!One("nnc")}) \cup {Start!One("daemon")}), "failed")
      PROVE  StartInv'
  <2>1. (Start!TlsPriorities \cup Start!IfHeld({Start!One("random"), Start!One("nnc")})
            \cup {Start!One("daemon")}) \subseteq Start!Resources
    BY <1>k, ResourceNames DEF Start!TlsPriorities, Start!CloseListen, Start!IfHeld
  <2>2. /\ held' \in [Start!Resources -> Nat] /\ twice' \subseteq Start!Resources
        /\ twice' = twice \cup {r \in (Start!TlsPriorities \cup Start!IfHeld({Start!One("random"),
               Start!One("nnc")}) \cup {Start!One("daemon")}) : held[r] = 0}
               /\ fault' = "nnc_lock" /\ pc' = "failed"
        /\ \A r \in Start!Resources : held'[r] = IF r \in (Start!TlsPriorities
               \cup Start!IfHeld({Start!One("random"), Start!One("nnc")})
               \cup {Start!One("daemon")}) /\ held[r] > 0 THEN held[r] - 1 ELSE held[r]
    BY <1>2, <1>k, <2>1, ReleaseDoes DEF Start!Fail
  <2>3. \A r \in Kinds : \A w \in 1..MaxPool : held'[<<r, w>>] = held[<<r, w>>]
    BY <2>2, ResourceNames DEF Start!TlsPriorities, Start!CloseListen, Start!IfHeld
  <2>4. twice' = {}
    <3>1. twice = {}
      BY <1>k DEF StartInv, Blamed
    <3>2. \A r \in (Start!TlsPriorities \cup Start!IfHeld({Start!One("random"),
              Start!One("nnc")}) \cup {Start!One("daemon")}) : held[r] # 0
      BY <1>k, ResourceNames DEF StartInv, OwnHeld, Chosen, Blamed, Start!TlsPriorities,
          Start!CloseListen, Start!IfHeld
    <3>. QED BY <2>2, <3>1, <3>2
  <2>11. (StartTypes /\ Blamed /\ Chosen /\ Start!IncrementFits)'
    BY <1>k, <2>2 DEF StartInv, StartTypes, Start!TypeOK, Blamed, WorkerFaults, Chosen,
        Start!IncrementFits
  <2>12. (OwnHeld /\ PollHeld)'
    BY <1>k, <2>2, ResourceNames
      DEF StartInv, OwnHeld, Start!TlsPriorities, Start!CloseListen, Start!IfHeld, Chosen, PollHeld
  <2>13. ListenHeld'
    BY <1>k, <2>2, ResourceNames
      DEF StartInv, ListenHeld, Start!ClosedAgain, Start!TlsPriorities, Start!CloseListen,
          Start!IfHeld
  <2>14. WorkersHeld'
    BY <1>k, <2>2, ResourceNames, WorkersUntouched, <2>3 DEF StartInv, Started, Blamed
  <2>15. (Prepared /\ Start!ReleasedOnce)'
    BY <1>k, <2>2, ResourceNames, <2>4
      DEF StartInv, Prepared, Started, Wakes, Start!ReleasedOnce, Blamed, Start!ClosedAgain
  <2>. QED BY <2>11, <2>12, <2>13, <2>14, <2>15 DEF StartInv
<1>. QED BY <1>1, <1>2 DEF Start!InitNonceLock

-----------------------------------------------------------------------------
(* The listen socket, the epoll sets, TLS. *)

LEMMA CreateListenKeeps ==
  ASSUME StartInv, Start!CreateListen, ask' = ask
  PROVE  StartInv'
<1>k. /\ held \in [Start!Resources -> Nat] /\ twice \subseteq Start!Resources /\ pc = "listen"
      /\ ask' = ask
      /\ UNCHANGED <<daemon, worker>>
  BY DEF StartInv, StartTypes, Start!TypeOK, Start!CreateListen
<1>o. /\ options' \subseteq Start!Flags
      /\ \A f \in Start!Flags \ {"IPv6"} : f \in options' <=> f \in options
  BY DEF Start!CreateListen, StartInv, StartTypes, Start!TypeOK, Start!Flags
<1>1. ASSUME Start!Fail("address", {}, "free_and_fail"),
             listen' = listen,
             daemon.listen_fd = "none"
      PROVE  StartInv'
  <2>1. {} \subseteq Start!Resources
    BY <1>k, ResourceNames DEF Start!TlsPriorities, Start!CloseListen, Start!IfHeld
  <2>2. /\ held' \in [Start!Resources -> Nat] /\ twice' \subseteq Start!Resources
        /\ twice' = twice \cup {r \in {} : held[r] = 0} /\ fault' = "address"
        /\ pc' = "free_and_fail"
        /\ \A r \in Start!Resources : held'[r] = IF r \in {} /\ held[r] > 0 THEN held[r] - 1
               ELSE held[r]
    BY <1>1, <1>k, <2>1, ReleaseDoes DEF Start!Fail
  <2>3. \A r \in Kinds : \A w \in 1..MaxPool : held'[<<r, w>>] = held[<<r, w>>]
    BY <2>2, ResourceNames DEF Start!TlsPriorities, Start!CloseListen, Start!IfHeld
  <2>4. twice' = {}
    <3>1. twice = {}
      BY <1>k DEF StartInv, Blamed
    <3>2. \A r \in {} : held[r] # 0
      BY <1>k, ResourceNames DEF StartInv, OwnHeld, Chosen, Blamed, ListenHeld,
          Start!TlsPriorities, Start!CloseListen, Start!IfHeld
    <3>. QED BY <2>2, <3>1, <3>2
  <2>11. (StartTypes /\ Blamed /\ Chosen /\ Start!IncrementFits)'
    BY <1>k, <2>2, <1>1, <1>o
      DEF StartInv, StartTypes, Start!TypeOK, Start!Flags, Blamed, WorkerFaults, Chosen,
          Start!IncrementFits
  <2>12. (OwnHeld /\ PollHeld)'
    BY <1>k, <2>2, <1>1, ResourceNames, <1>o DEF StartInv, OwnHeld, Start!Flags, Chosen, PollHeld
  <2>13. ListenHeld'
    BY <1>k, <2>2, <1>1, ResourceNames, <1>o DEF StartInv, ListenHeld, Start!ClosedAgain,
        Start!Flags
  <2>14. WorkersHeld'
    BY <1>k, <2>2, <1>1, ResourceNames, WorkersUntouched, <2>3 DEF StartInv, Started, Blamed
  <2>15. (Prepared /\ Start!ReleasedOnce)'
    BY <1>k, <2>2, <1>1, ResourceNames, <1>o, <2>4
      DEF StartInv, Prepared, Started, Wakes, Start!Flags, Start!ReleasedOnce, Blamed,
          Start!ClosedAgain
  <2>. QED BY <2>11, <2>12, <2>13, <2>14, <2>15 DEF StartInv
<1>2. ASSUME Start!Fail("socket", {}, "free_and_fail"),
             listen' = listen,
             daemon.listen_fd = "none"
      PROVE  StartInv'
  <2>1. {} \subseteq Start!Resources
    BY <1>k, ResourceNames DEF Start!TlsPriorities, Start!CloseListen, Start!IfHeld
  <2>2. /\ held' \in [Start!Resources -> Nat] /\ twice' \subseteq Start!Resources
        /\ twice' = twice \cup {r \in {} : held[r] = 0} /\ fault' = "socket"
        /\ pc' = "free_and_fail"
        /\ \A r \in Start!Resources : held'[r] = IF r \in {} /\ held[r] > 0 THEN held[r] - 1
               ELSE held[r]
    BY <1>2, <1>k, <2>1, ReleaseDoes DEF Start!Fail
  <2>3. \A r \in Kinds : \A w \in 1..MaxPool : held'[<<r, w>>] = held[<<r, w>>]
    BY <2>2, ResourceNames DEF Start!TlsPriorities, Start!CloseListen, Start!IfHeld
  <2>4. twice' = {}
    <3>1. twice = {}
      BY <1>k DEF StartInv, Blamed
    <3>2. \A r \in {} : held[r] # 0
      BY <1>k, ResourceNames DEF StartInv, OwnHeld, Chosen, Blamed, ListenHeld,
          Start!TlsPriorities, Start!CloseListen, Start!IfHeld
    <3>. QED BY <2>2, <3>1, <3>2
  <2>11. (StartTypes /\ Blamed /\ Chosen /\ Start!IncrementFits)'
    BY <1>k, <2>2, <1>2, <1>o
      DEF StartInv, StartTypes, Start!TypeOK, Start!Flags, Blamed, WorkerFaults, Chosen,
          Start!IncrementFits
  <2>12. (OwnHeld /\ PollHeld)'
    BY <1>k, <2>2, <1>2, ResourceNames, <1>o DEF StartInv, OwnHeld, Start!Flags, Chosen, PollHeld
  <2>13. ListenHeld'
    BY <1>k, <2>2, <1>2, ResourceNames, <1>o DEF StartInv, ListenHeld, Start!ClosedAgain,
        Start!Flags
  <2>14. WorkersHeld'
    BY <1>k, <2>2, <1>2, ResourceNames, WorkersUntouched, <2>3 DEF StartInv, Started, Blamed
  <2>15. (Prepared /\ Start!ReleasedOnce)'
    BY <1>k, <2>2, <1>2, ResourceNames, <1>o, <2>4
      DEF StartInv, Prepared, Started, Wakes, Start!Flags, Start!ReleasedOnce, Blamed,
          Start!ClosedAgain
  <2>. QED BY <2>11, <2>12, <2>13, <2>14, <2>15 DEF StartInv
<1>3. ASSUME Start!Acquire(Start!Listen, "reuse"),
             listen' = "own",
             daemon.listen_fd = "none"
      PROVE  StartInv'
  <2>1. /\ held' \in [Start!Resources -> Nat] /\ twice' = twice /\ fault' = fault /\ pc' = "reuse"
        /\ \A s \in Start!Resources : held'[s] = IF s = Start!Listen THEN held[s] + 1 ELSE held[s]
    BY <1>3, <1>k, ResourceNames, AcquireDoes
  <2>11. (StartTypes /\ Blamed /\ Chosen /\ Start!IncrementFits)'
    BY <1>k, <2>1, <1>3, <1>o
      DEF StartInv, StartTypes, Start!TypeOK, Start!Flags, Blamed, WorkerFaults, Chosen,
          Start!IncrementFits
  <2>12. (OwnHeld /\ PollHeld)'
    BY <1>k, <2>1, <1>3, ResourceNames, <1>o DEF StartInv, OwnHeld, Start!Flags, Chosen, PollHeld
  <2>13. ListenHeld'
    BY <1>k, <2>1, <1>3, ResourceNames, <1>o DEF StartInv, ListenHeld, Start!ClosedAgain,
        Start!Flags
  <2>14. WorkersHeld'
    BY <1>k, <2>1, <1>3, ResourceNames, WorkersUntouched DEF StartInv, Started
  <2>15. (Prepared /\ Start!ReleasedOnce)'
    BY <1>k, <2>1, <1>3, ResourceNames, <1>o
      DEF StartInv, Prepared, Started, Wakes, Start!Flags, Start!ReleasedOnce, Blamed
  <2>. QED BY <2>11, <2>12, <2>13, <2>14, <2>15 DEF StartInv
<1>. QED BY <1>1, <1>2, <1>3 DEF Start!CreateListen

LEMMA ReuseAddressKeeps ==
  ASSUME StartInv, Start!ReuseAddress, ask' = ask
  PROVE  StartInv'
<1>k. /\ held \in [Start!Resources -> Nat] /\ twice \subseteq Start!Resources /\ pc = "reuse"
      /\ ask' = ask
      /\ UNCHANGED <<options, worker>>
  BY DEF StartInv, StartTypes, Start!TypeOK, Start!ReuseAddress
<1>1. ASSUME Start!Fail("fdset", {Start!Listen}, "free_and_fail"),
             listen' = "none",
             daemon' = daemon
      PROVE  StartInv'
  <2>1. {Start!Listen} \subseteq Start!Resources
    BY <1>k, ResourceNames DEF Start!TlsPriorities, Start!CloseListen, Start!IfHeld
  <2>2. /\ held' \in [Start!Resources -> Nat] /\ twice' \subseteq Start!Resources
        /\ twice' = twice \cup {r \in {Start!Listen} : held[r] = 0} /\ fault' = "fdset"
        /\ pc' = "free_and_fail"
        /\ \A r \in Start!Resources : held'[r] = IF r \in {Start!Listen} /\ held[r] > 0
               THEN held[r] - 1 ELSE held[r]
    BY <1>1, <1>k, <2>1, ReleaseDoes DEF Start!Fail
  <2>3. \A r \in Kinds : \A w \in 1..MaxPool : held'[<<r, w>>] = held[<<r, w>>]
    BY <2>2, ResourceNames DEF Start!TlsPriorities, Start!CloseListen, Start!IfHeld
  <2>4. twice' = {}
    <3>1. twice = {}
      BY <1>k DEF StartInv, Blamed
    <3>2. \A r \in {Start!Listen} : held[r] # 0
      BY <1>k, ResourceNames DEF StartInv, OwnHeld, Chosen, Blamed, ListenHeld,
          Start!TlsPriorities, Start!CloseListen, Start!IfHeld
    <3>. QED BY <2>2, <3>1, <3>2
  <2>11. (StartTypes /\ Blamed /\ Chosen /\ Start!IncrementFits)'
    BY <1>k, <2>2, <1>1 DEF StartInv, StartTypes, Start!TypeOK, Blamed, WorkerFaults, Chosen,
        Start!IncrementFits
  <2>12. (OwnHeld /\ PollHeld)'
    BY <1>k, <2>2, <1>1, ResourceNames
      DEF StartInv, OwnHeld, Start!TlsPriorities, Start!CloseListen, Start!IfHeld, Chosen, PollHeld
  <2>13. ListenHeld'
    BY <1>k, <2>2, <1>1, ResourceNames
      DEF StartInv, ListenHeld, Start!ClosedAgain, Start!TlsPriorities, Start!CloseListen,
          Start!IfHeld
  <2>14. WorkersHeld'
    BY <1>k, <2>2, <1>1, ResourceNames, WorkersUntouched, <2>3 DEF StartInv, Started, Blamed
  <2>15. (Prepared /\ Start!ReleasedOnce)'
    BY <1>k, <2>2, <1>1, ResourceNames, <2>4
      DEF StartInv, Prepared, Started, Wakes, Start!ReleasedOnce, Blamed, Start!ClosedAgain
  <2>. QED BY <2>11, <2>12, <2>13, <2>14, <2>15 DEF StartInv
<1>2. ASSUME Start!Fail("reuse", {}, "free_and_fail"),
             listen' = listen,
             daemon' = daemon
      PROVE  StartInv'
  <2>1. {} \subseteq Start!Resources
    BY <1>k, ResourceNames DEF Start!TlsPriorities, Start!CloseListen, Start!IfHeld
  <2>2. /\ held' \in [Start!Resources -> Nat] /\ twice' \subseteq Start!Resources
        /\ twice' = twice \cup {r \in {} : held[r] = 0} /\ fault' = "reuse" /\ pc' = "free_and_fail"
        /\ \A r \in Start!Resources : held'[r] = IF r \in {} /\ held[r] > 0 THEN held[r] - 1
               ELSE held[r]
    BY <1>2, <1>k, <2>1, ReleaseDoes DEF Start!Fail
  <2>3. \A r \in Kinds : \A w \in 1..MaxPool : held'[<<r, w>>] = held[<<r, w>>]
    BY <2>2, ResourceNames DEF Start!TlsPriorities, Start!CloseListen, Start!IfHeld
  <2>4. twice' = {}
    <3>1. twice = {}
      BY <1>k DEF StartInv, Blamed
    <3>2. \A r \in {} : held[r] # 0
      BY <1>k, ResourceNames DEF StartInv, OwnHeld, Chosen, Blamed, ListenHeld,
          Start!TlsPriorities, Start!CloseListen, Start!IfHeld
    <3>. QED BY <2>2, <3>1, <3>2
  <2>11. (StartTypes /\ Blamed /\ Chosen /\ Start!IncrementFits)'
    BY <1>k, <2>2, <1>2 DEF StartInv, StartTypes, Start!TypeOK, Blamed, WorkerFaults, Chosen,
        Start!IncrementFits
  <2>12. (OwnHeld /\ PollHeld)'
    BY <1>k, <2>2, <1>2, ResourceNames
      DEF StartInv, OwnHeld, Start!TlsPriorities, Start!CloseListen, Start!IfHeld, Chosen, PollHeld
  <2>13. ListenHeld'
    BY <1>k, <2>2, <1>2, ResourceNames
      DEF StartInv, ListenHeld, Start!ClosedAgain, Start!TlsPriorities, Start!CloseListen,
          Start!IfHeld
  <2>14. WorkersHeld'
    BY <1>k, <2>2, <1>2, ResourceNames, WorkersUntouched, <2>3 DEF StartInv, Started, Blamed
  <2>15. (Prepared /\ Start!ReleasedOnce)'
    BY <1>k, <2>2, <1>2, ResourceNames, <2>4
      DEF StartInv, Prepared, Started, Wakes, Start!ReleasedOnce, Blamed, Start!ClosedAgain
  <2>. QED BY <2>11, <2>12, <2>13, <2>14, <2>15 DEF StartInv
<1>3. ASSUME Start!Skip("bind"),
             daemon' = [daemon EXCEPT !.listen_fd = listen],
             listen' = listen
      PROVE  StartInv'
  <2>1. held' = held /\ twice' = twice /\ fault' = fault /\ pc' = "bind" /\ listen' = listen
    BY <1>3 DEF Start!Skip
  <2>2. /\ daemon'.listen_fd = listen
        /\ daemon'.priority_cache = daemon.priority_cache /\ daemon'.worker_pool_size =
               daemon.worker_pool_size
        /\ daemon'.was_quiesced = daemon.was_quiesced /\ daemon'.pool_size = daemon.pool_size
        /\ daemon'.pool_increment = daemon.pool_increment
    BY <1>3 DEF StartInv, StartTypes
  <2>11. (StartTypes /\ Blamed /\ Chosen /\ Start!IncrementFits)'
    BY <1>k, <2>1, <2>2, <1>3
      DEF StartInv, StartTypes, Start!TypeOK, Blamed, WorkerFaults, Chosen, Start!IncrementFits
  <2>12. (OwnHeld /\ PollHeld)'
    BY <1>k, <2>1, <2>2, ResourceNames DEF StartInv, OwnHeld, PollHeld
  <2>13. ListenHeld'
    BY <1>k, <2>1, <2>2, ResourceNames DEF StartInv, ListenHeld, Start!ClosedAgain
  <2>14. WorkersHeld'
    BY <1>k, <2>1, <2>2, ResourceNames, WorkersUntouched DEF StartInv, Started
  <2>15. (Prepared /\ Start!ReleasedOnce)'
    BY <1>k, <2>1, <2>2, ResourceNames DEF StartInv, Prepared, Started, Wakes, Start!ReleasedOnce,
        Blamed
  <2>. QED BY <2>11, <2>12, <2>13, <2>14, <2>15 DEF StartInv
<1>. QED BY <1>1, <1>2, <1>3 DEF Start!ReuseAddress

LEMMA BindKeeps ==
  ASSUME StartInv, Start!BindAndListen, ask' = ask
  PROVE  StartInv'
<1>k. /\ held \in [Start!Resources -> Nat] /\ twice \subseteq Start!Resources /\ pc = "bind"
      /\ ask' = ask
      /\ UNCHANGED <<options, daemon, worker>>
  BY DEF StartInv, StartTypes, Start!TypeOK, Start!BindAndListen
<1>1. ASSUME Start!Fail("bind", {Start!Listen}, "free_and_fail"), listen' = "none" PROVE StartInv'
  <2>1. {Start!Listen} \subseteq Start!Resources
    BY <1>k, ResourceNames DEF Start!TlsPriorities, Start!CloseListen, Start!IfHeld
  <2>2. /\ held' \in [Start!Resources -> Nat] /\ twice' \subseteq Start!Resources
        /\ twice' = twice \cup {r \in {Start!Listen} : held[r] = 0} /\ fault' = "bind"
        /\ pc' = "free_and_fail"
        /\ \A r \in Start!Resources : held'[r] = IF r \in {Start!Listen} /\ held[r] > 0
               THEN held[r] - 1 ELSE held[r]
    BY <1>1, <1>k, <2>1, ReleaseDoes DEF Start!Fail
  <2>3. \A r \in Kinds : \A w \in 1..MaxPool : held'[<<r, w>>] = held[<<r, w>>]
    BY <2>2, ResourceNames DEF Start!TlsPriorities, Start!CloseListen, Start!IfHeld
  <2>4. twice' = {}
    <3>1. twice = {}
      BY <1>k DEF StartInv, Blamed
    <3>2. \A r \in {Start!Listen} : held[r] # 0
      BY <1>k, ResourceNames DEF StartInv, OwnHeld, Chosen, Blamed, ListenHeld,
          Start!TlsPriorities, Start!CloseListen, Start!IfHeld
    <3>. QED BY <2>2, <3>1, <3>2
  <2>11. (StartTypes /\ Blamed /\ Chosen /\ Start!IncrementFits)'
    BY <1>k, <2>2, <1>1 DEF StartInv, StartTypes, Start!TypeOK, Blamed, WorkerFaults, Chosen,
        Start!IncrementFits
  <2>12. (OwnHeld /\ PollHeld)'
    BY <1>k, <2>2, <1>1, ResourceNames
      DEF StartInv, OwnHeld, Start!TlsPriorities, Start!CloseListen, Start!IfHeld, Chosen, PollHeld
  <2>13. ListenHeld'
    BY <1>k, <2>2, <1>1, ResourceNames
      DEF StartInv, ListenHeld, Start!ClosedAgain, Start!TlsPriorities, Start!CloseListen,
          Start!IfHeld
  <2>14. WorkersHeld'
    BY <1>k, <2>2, <1>1, ResourceNames, WorkersUntouched, <2>3 DEF StartInv, Started, Blamed
  <2>15. (Prepared /\ Start!ReleasedOnce)'
    BY <1>k, <2>2, <1>1, ResourceNames, <2>4
      DEF StartInv, Prepared, Started, Wakes, Start!ReleasedOnce, Blamed, Start!ClosedAgain
  <2>. QED BY <2>11, <2>12, <2>13, <2>14, <2>15 DEF StartInv
<1>2. ASSUME Start!Skip("nonblock"), listen' = listen PROVE StartInv'
  <2>1. held' = held /\ twice' = twice /\ fault' = fault /\ pc' = "nonblock"
    BY <1>2 DEF Start!Skip
  <2>11. (StartTypes /\ Blamed /\ Chosen /\ Start!IncrementFits)'
    BY <1>k, <2>1, <1>2 DEF StartInv, StartTypes, Start!TypeOK, Blamed, WorkerFaults, Chosen,
        Start!IncrementFits
  <2>12. (OwnHeld /\ PollHeld)'
    BY <1>k, <2>1, <1>2, ResourceNames DEF StartInv, OwnHeld, PollHeld
  <2>13. ListenHeld'
    BY <1>k, <2>1, <1>2, ResourceNames DEF StartInv, ListenHeld, Start!ClosedAgain
  <2>14. WorkersHeld'
    BY <1>k, <2>1, <1>2, ResourceNames, WorkersUntouched DEF StartInv, Started
  <2>15. (Prepared /\ Start!ReleasedOnce)'
    BY <1>k, <2>1, <1>2, ResourceNames DEF StartInv, Prepared, Started, Wakes, Start!ReleasedOnce,
        Blamed
  <2>. QED BY <2>11, <2>12, <2>13, <2>14, <2>15 DEF StartInv
<1>. QED BY <1>1, <1>2 DEF Start!BindAndListen

LEMMA UseListenKeeps ==
  ASSUME StartInv, Start!UseListen, ask' = ask
  PROVE  StartInv'
<1>k. /\ held \in [Start!Resources -> Nat] /\ twice \subseteq Start!Resources /\ pc = "listen"
      /\ ask' = ask
      /\ UNCHANGED <<daemon, options, worker>>
  BY DEF StartInv, StartTypes, Start!TypeOK, Start!UseListen
<1>1. ASSUME fault' = "fdset",
             pc' = "free_and_fail",
             listen' = listen,
             twice' = twice,
             held' = [held EXCEPT ![Start!Listen] = 1],
             daemon.listen_fd # "none"
      PROVE  StartInv'
  <2>1. /\ held' \in [Start!Resources -> Nat] /\ twice' = {}
        /\ \A r \in Start!Resources : held'[r] = IF r = Start!Listen THEN 1 ELSE held[r]
    BY <1>k, <1>1, ResourceNames DEF StartInv, Blamed
  <2>11. (StartTypes /\ Blamed /\ Chosen /\ Start!IncrementFits)'
    BY <1>k, <1>1, <2>1 DEF StartInv, StartTypes, Start!TypeOK, Blamed, WorkerFaults, Chosen,
        Start!IncrementFits
  <2>12. (OwnHeld /\ PollHeld)'
    BY <1>k, <1>1, <2>1, ResourceNames DEF StartInv, OwnHeld, PollHeld
  <2>13. ListenHeld'
    BY <1>k, <1>1, <2>1, ResourceNames DEF StartInv, ListenHeld, Start!ClosedAgain
  <2>14. WorkersHeld'
    BY <1>k, <1>1, <2>1, ResourceNames, WorkersUntouched DEF StartInv, Started, Blamed
  <2>15. (Prepared /\ Start!ReleasedOnce)'
    BY <1>k, <1>1, <2>1, ResourceNames DEF StartInv, Prepared, Started, Wakes, Start!ReleasedOnce,
        Blamed
  <2>. QED BY <2>11, <2>12, <2>13, <2>14, <2>15 DEF StartInv
<1>2. ASSUME listen' = daemon.listen_fd,
             pc' = "nonblock",
             fault' = fault,
             twice' = twice,
             held' = [held EXCEPT ![Start!Listen] = IF daemon.listen_fd = "none" THEN 0 ELSE 1],
             daemon.listen_fd # "none" \/ Start!Has("NO_LISTEN_SOCKET")
      PROVE  StartInv'
  <2>1. /\ held' \in [Start!Resources -> Nat] /\ twice' = twice /\ fault' = fault
        /\ \A r \in Start!Resources : held'[r] = IF r = Start!Listen THEN IF daemon.listen_fd =
               "none" THEN 0 ELSE 1 ELSE held[r]
    BY <1>k, <1>2, ResourceNames
  <2>11. (StartTypes /\ Blamed /\ Chosen /\ Start!IncrementFits)'
    BY <1>k, <1>2, <2>1 DEF StartInv, StartTypes, Start!TypeOK, Blamed, WorkerFaults, Chosen,
        Start!IncrementFits
  <2>12. (OwnHeld /\ PollHeld)'
    BY <1>k, <1>2, <2>1, ResourceNames DEF StartInv, OwnHeld, PollHeld
  <2>13. ListenHeld'
    BY <1>k, <1>2, <2>1, ResourceNames DEF StartInv, ListenHeld, Start!ClosedAgain
  <2>14. WorkersHeld'
    BY <1>k, <1>2, <2>1, ResourceNames, WorkersUntouched DEF StartInv, Started
  <2>15. (Prepared /\ Start!ReleasedOnce)'
    BY <1>k, <1>2, <2>1, ResourceNames DEF StartInv, Prepared, Started, Wakes, Start!ReleasedOnce,
        Blamed
  <2>. QED BY <2>11, <2>12, <2>13, <2>14, <2>15 DEF StartInv
<1>. QED BY <1>1, <1>2 DEF Start!UseListen

LEMMA SetNonblockingKeeps ==
  ASSUME StartInv, Start!SetNonblocking, ask' = ask
  PROVE  StartInv'
<1>k. /\ held \in [Start!Resources -> Nat] /\ twice \subseteq Start!Resources
      /\ pc = "nonblock" /\ ask' = ask
      /\ UNCHANGED <<options, daemon, worker>>
  BY DEF StartInv, StartTypes, Start!TypeOK, Start!SetNonblocking
<1>1. ASSUME Start!Skip("epoll"), listen' = listen PROVE StartInv'
  <2>1. held' = held /\ twice' = twice /\ fault' = fault /\ pc' = "epoll"
    BY <1>1 DEF Start!Skip
  <2>11. (StartTypes /\ Blamed /\ Chosen /\ Start!IncrementFits)'
    BY <1>k, <2>1, <1>1 DEF StartInv, StartTypes, Start!TypeOK, Blamed, WorkerFaults, Chosen,
        Start!IncrementFits
  <2>12. (OwnHeld /\ PollHeld)'
    BY <1>k, <2>1, <1>1, ResourceNames DEF StartInv, OwnHeld, PollHeld
  <2>13. ListenHeld'
    BY <1>k, <2>1, <1>1, ResourceNames DEF StartInv, ListenHeld, Start!ClosedAgain
  <2>14. WorkersHeld'
    BY <1>k, <2>1, <1>1, ResourceNames, WorkersUntouched DEF StartInv, Started
  <2>15. (Prepared /\ Start!ReleasedOnce)'
    BY <1>k, <2>1, <1>1, ResourceNames DEF StartInv, Prepared, Started, Wakes, Start!ReleasedOnce,
        Blamed
  <2>. QED BY <2>11, <2>12, <2>13, <2>14, <2>15 DEF StartInv
<1>2. ASSUME Start!Fail("nonblock", {Start!Listen}, "free_and_fail"),
             listen' = "none",
             listen # "none"
      PROVE  StartInv'
  <2>1. {Start!Listen} \subseteq Start!Resources
    BY <1>k, ResourceNames DEF Start!TlsPriorities, Start!CloseListen, Start!IfHeld
  <2>2. /\ held' \in [Start!Resources -> Nat] /\ twice' \subseteq Start!Resources
        /\ twice' = twice \cup {r \in {Start!Listen} : held[r] = 0} /\ fault' = "nonblock"
        /\ pc' = "free_and_fail"
        /\ \A r \in Start!Resources : held'[r] = IF r \in {Start!Listen} /\ held[r] > 0
               THEN held[r] - 1 ELSE held[r]
    BY <1>2, <1>k, <2>1, ReleaseDoes DEF Start!Fail
  <2>3. \A r \in Kinds : \A w \in 1..MaxPool : held'[<<r, w>>] = held[<<r, w>>]
    BY <2>2, ResourceNames DEF Start!TlsPriorities, Start!CloseListen, Start!IfHeld
  <2>4. twice' = {}
    <3>1. twice = {}
      BY <1>k DEF StartInv, Blamed
    <3>2. \A r \in {Start!Listen} : held[r] # 0
      BY <1>k, ResourceNames, <1>2 DEF StartInv, OwnHeld, Chosen, Blamed, ListenHeld,
          Start!TlsPriorities, Start!CloseListen, Start!IfHeld
    <3>. QED BY <2>2, <3>1, <3>2
  <2>11. (StartTypes /\ Blamed /\ Chosen /\ Start!IncrementFits)'
    BY <1>k, <2>2, <1>2 DEF StartInv, StartTypes, Start!TypeOK, Blamed, WorkerFaults, Chosen,
        Start!IncrementFits
  <2>12. (OwnHeld /\ PollHeld)'
    BY <1>k, <2>2, <1>2, ResourceNames
      DEF StartInv, OwnHeld, Start!TlsPriorities, Start!CloseListen, Start!IfHeld, Chosen, PollHeld
  <2>13. ListenHeld'
    BY <1>k, <2>2, <1>2, ResourceNames
      DEF StartInv, ListenHeld, Start!ClosedAgain, Start!TlsPriorities, Start!CloseListen,
          Start!IfHeld
  <2>14. WorkersHeld'
    BY <1>k, <2>2, <1>2, ResourceNames, WorkersUntouched, <2>3 DEF StartInv, Started, Blamed
  <2>15. (Prepared /\ Start!ReleasedOnce)'
    BY <1>k, <2>2, <1>2, ResourceNames, <2>4
      DEF StartInv, Prepared, Started, Wakes, Start!ReleasedOnce, Blamed, Start!ClosedAgain
  <2>. QED BY <2>11, <2>12, <2>13, <2>14, <2>15 DEF StartInv
<1>. QED BY <1>1, <1>2 DEF Start!SetNonblocking

LEMMA SetupEpollKeeps ==
  ASSUME StartInv, Start!SetupEpoll, ask' = ask
  PROVE  StartInv'
<1>k. /\ held \in [Start!Resources -> Nat] /\ twice \subseteq Start!Resources /\ pc = "epoll"
      /\ ask' = ask
      /\ UNCHANGED <<options, listen, worker>>
  BY DEF StartInv, StartTypes, Start!TypeOK, Start!SetupEpoll
<1>1. ASSUME Start!Has("EPOLL"),
             daemon.worker_pool_size = 0,
             held' = Start!WithEpoll(held, 0, Start!EpollSets),
             pc' = "per_ip",
             daemon' = [daemon EXCEPT !.polled[0] = Start!Polled(0)],
             twice' = twice,
             fault' = fault
      PROVE  StartInv'
  <2>1. /\ held' \in [Start!Resources -> Nat]
        /\ \A r \in Start!Resources : held'[r] = IF r \in {<<e, 0>> : e \in Start!EpollSets}
               THEN 1 ELSE held[r]
    BY <1>k, <1>1 DEF Start!WithEpoll
  <2>3. \A r \in Kinds : \A w \in 1..MaxPool : held'[<<r, w>>] = held[<<r, w>>]
    BY <2>1, ResourceNames
  <2>4. Start!EpollSets \subseteq {"epoll", "epoll_upgrade"}
    BY DEF Start!EpollSets
  <2>5. Start!Polled(0) \subseteq {"listen", "itc"}
    BY DEF Start!Polled
  <2>6. /\ daemon'.polled[0] = Start!Polled(0)
        /\ daemon'.listen_fd = daemon.listen_fd
        /\ daemon'.priority_cache = daemon.priority_cache /\ daemon'.worker_pool_size =
               daemon.worker_pool_size
        /\ daemon'.was_quiesced = daemon.was_quiesced /\ daemon'.pool_size = daemon.pool_size
        /\ daemon'.pool_increment = daemon.pool_increment
    BY <1>1, StartAssumption DEF StartInv, StartTypes, Start!SizesAssumption
  <2>11. (StartTypes /\ Blamed /\ Chosen /\ Start!IncrementFits)'
    BY <1>k, <1>1, <2>1, <2>4, <2>6, <2>5, StartAssumption
      DEF StartInv, StartTypes, Start!TypeOK, Start!SizesAssumption, Blamed, WorkerFaults, Chosen,
          Start!IncrementFits
  <2>12. (OwnHeld /\ PollHeld)'
    BY <1>k, <1>1, <2>1, <2>4, <2>6, ResourceNames DEF StartInv, OwnHeld, PollHeld
  <2>13. ListenHeld'
    BY <1>k, <1>1, <2>1, <2>4, <2>6, ResourceNames DEF StartInv, ListenHeld, Start!ClosedAgain
  <2>14. WorkersHeld'
    BY <1>k, <1>1, <2>1, <2>4, <2>6, ResourceNames, WorkersUntouched, <2>3 DEF StartInv, Started
  <2>15. Prepared'
    BY <1>k, <1>1, <2>1, <2>4, <2>6, ResourceNames
      DEF StartInv, Prepared, Started, Wakes, Start!Polled, PollHeld, Chosen
  <2>16. Start!ReleasedOnce'
    BY <1>k, <1>1, <2>1, <2>4, <2>6 DEF StartInv, Start!ReleasedOnce, Blamed
  <2>. QED BY <2>11, <2>12, <2>13, <2>14, <2>15, <2>16 DEF StartInv
<1>2. ASSUME Start!Has("EPOLL"),
             daemon.worker_pool_size = 0,
             NEW made \in Start!EpollBroken,
             held' = Start!WithEpoll(held, 0, made),
             fault' = "epoll",
             pc' = "free_and_fail",
             daemon' = daemon,
             twice' = twice
      PROVE  StartInv'
  <2>1. /\ held' \in [Start!Resources -> Nat]
        /\ \A r \in Start!Resources : held'[r] = IF r \in {<<e, 0>> : e \in made} THEN 1
               ELSE held[r]
    BY <1>k, <1>2 DEF Start!WithEpoll
  <2>3. \A r \in Kinds : \A w \in 1..MaxPool : held'[<<r, w>>] = held[<<r, w>>]
    BY <2>1, ResourceNames
  <2>4. made \subseteq {"epoll", "epoll_upgrade"}
    BY DEF Start!EpollSets, Start!EpollBroken
  <2>5. twice = {}
    BY <1>k DEF StartInv, Blamed
  <2>11. (StartTypes /\ Blamed /\ Chosen /\ Start!IncrementFits)'
    BY <1>k, <1>2, <2>1, <2>4, <2>5
      DEF StartInv, StartTypes, Start!TypeOK, Blamed, WorkerFaults, Chosen, Start!IncrementFits
  <2>12. (OwnHeld /\ PollHeld)'
    BY <1>k, <1>2, <2>1, <2>4, ResourceNames DEF StartInv, OwnHeld, PollHeld
  <2>13. ListenHeld'
    BY <1>k, <1>2, <2>1, <2>4, ResourceNames DEF StartInv, ListenHeld, Start!ClosedAgain
  <2>14. WorkersHeld'
    BY <1>k, <1>2, <2>1, <2>4, ResourceNames, WorkersUntouched, <2>3 DEF StartInv, Started, Blamed
  <2>15. (Prepared /\ Start!ReleasedOnce)'
    BY <1>k, <1>2, <2>1, <2>4, ResourceNames, <2>5
      DEF StartInv, Prepared, Started, Wakes, Start!ReleasedOnce, Blamed
  <2>. QED BY <2>11, <2>12, <2>13, <2>14, <2>15 DEF StartInv
<1>3. ASSUME ~ (Start!Has("EPOLL") /\ daemon.worker_pool_size = 0),
             Start!Skip("per_ip"),
             daemon' = [daemon EXCEPT !.polled[0] = IF Start!Has("EPOLL") THEN {}
                 ELSE Start!Polled(0)]
      PROVE  StartInv'
  <2>1. held' = held /\ twice' = twice /\ fault' = fault /\ pc' = "per_ip"
    BY <1>3 DEF Start!Skip
  <2>5. Start!Polled(0) \subseteq {"listen", "itc"}
    BY DEF Start!Polled
  <2>6. /\ daemon.worker_pool_size = 0 => daemon'.polled[0] = Start!Polled(0)
        /\ daemon'.listen_fd = daemon.listen_fd
        /\ daemon'.priority_cache = daemon.priority_cache /\ daemon'.worker_pool_size =
               daemon.worker_pool_size
        /\ daemon'.was_quiesced = daemon.was_quiesced /\ daemon'.pool_size = daemon.pool_size
        /\ daemon'.pool_increment = daemon.pool_increment
    BY <1>3, StartAssumption DEF StartInv, StartTypes, Start!SizesAssumption
  <2>11. (StartTypes /\ Blamed /\ Chosen /\ Start!IncrementFits)'
    BY <1>k, <2>1, <2>6, <1>3, <2>5, StartAssumption
      DEF StartInv, StartTypes, Start!TypeOK, Start!SizesAssumption, Blamed, WorkerFaults, Chosen,
          Start!IncrementFits
  <2>12. (OwnHeld /\ PollHeld)'
    BY <1>k, <2>1, <2>6, ResourceNames DEF StartInv, OwnHeld, PollHeld
  <2>13. ListenHeld'
    BY <1>k, <2>1, <2>6, ResourceNames DEF StartInv, ListenHeld, Start!ClosedAgain
  <2>14. WorkersHeld'
    BY <1>k, <2>1, <2>6, ResourceNames, WorkersUntouched DEF StartInv, Started
  <2>15. (Prepared /\ Start!ReleasedOnce)'
    BY <1>k, <2>1, <2>6, ResourceNames
      DEF StartInv, Prepared, Started, Wakes, Start!Polled, PollHeld, Chosen, Start!ReleasedOnce,
          Blamed
  <2>. QED BY <2>11, <2>12, <2>13, <2>14, <2>15 DEF StartInv
<1>. QED BY <1>1, <1>2, <1>3 DEF Start!SetupEpoll, Start!SetupEpoll

LEMMA InitPerIpKeeps ==
  ASSUME StartInv, Start!InitPerIp, ask' = ask
  PROVE  StartInv'
<1>k. /\ held \in [Start!Resources -> Nat] /\ twice \subseteq Start!Resources /\ pc = "per_ip"
      /\ ask' = ask
      /\ UNCHANGED <<options, daemon, listen, worker>>
  BY DEF StartInv, StartTypes, Start!TypeOK, Start!InitPerIp, Start!Same
<1>1. ASSUME Start!Acquire(Start!One("per_ip"), "tls") PROVE StartInv'
  <2>1. /\ held' \in [Start!Resources -> Nat] /\ twice' = twice /\ fault' = fault /\ pc' = "tls"
        /\ \A s \in Start!Resources : held'[s] = IF s = Start!One("per_ip") THEN held[s] + 1
               ELSE held[s]
    BY <1>1, <1>k, ResourceNames, AcquireDoes
  <2>11. (StartTypes /\ Blamed /\ Chosen /\ Start!IncrementFits)'
    BY <1>k, <2>1 DEF StartInv, StartTypes, Start!TypeOK, Blamed, WorkerFaults, Chosen,
        Start!IncrementFits
  <2>12. (OwnHeld /\ PollHeld)'
    BY <1>k, <2>1, ResourceNames DEF StartInv, OwnHeld, PollHeld
  <2>13. ListenHeld'
    BY <1>k, <2>1, ResourceNames DEF StartInv, ListenHeld, Start!ClosedAgain
  <2>14. WorkersHeld'
    BY <1>k, <2>1, ResourceNames, WorkersUntouched DEF StartInv, Started
  <2>15. (Prepared /\ Start!ReleasedOnce)'
    BY <1>k, <2>1, ResourceNames DEF StartInv, Prepared, Started, Wakes, Start!ReleasedOnce, Blamed
  <2>. QED BY <2>11, <2>12, <2>13, <2>14, <2>15 DEF StartInv
<1>2. ASSUME Start!Fail("per_ip", Start!CloseListen, "free_and_fail") PROVE StartInv'
  <2>1. Start!CloseListen \subseteq Start!Resources
    BY <1>k, ResourceNames DEF Start!TlsPriorities, Start!CloseListen, Start!IfHeld
  <2>2. /\ held' \in [Start!Resources -> Nat] /\ twice' \subseteq Start!Resources
        /\ twice' = twice \cup {r \in Start!CloseListen : held[r] = 0} /\ fault' = "per_ip"
        /\ pc' = "free_and_fail"
        /\ \A r \in Start!Resources : held'[r] = IF r \in Start!CloseListen /\ held[r] > 0
               THEN held[r] - 1 ELSE held[r]
    BY <1>2, <1>k, <2>1, ReleaseDoes DEF Start!Fail
  <2>3. \A r \in Kinds : \A w \in 1..MaxPool : held'[<<r, w>>] = held[<<r, w>>]
    BY <2>2, ResourceNames DEF Start!TlsPriorities, Start!CloseListen, Start!IfHeld
  <2>4. twice' = {}
    <3>1. twice = {}
      BY <1>k DEF StartInv, Blamed
    <3>2. \A r \in Start!CloseListen : held[r] # 0
      BY <1>k, ResourceNames DEF StartInv, OwnHeld, Chosen, Blamed, ListenHeld,
          Start!TlsPriorities, Start!CloseListen, Start!IfHeld
    <3>. QED BY <2>2, <3>1, <3>2
  <2>11. (StartTypes /\ Blamed /\ Chosen /\ Start!IncrementFits)'
    BY <1>k, <2>2 DEF StartInv, StartTypes, Start!TypeOK, Blamed, WorkerFaults, Chosen,
        Start!IncrementFits
  <2>12. (OwnHeld /\ PollHeld)'
    BY <1>k, <2>2, ResourceNames
      DEF StartInv, OwnHeld, Start!TlsPriorities, Start!CloseListen, Start!IfHeld, Chosen, PollHeld
  <2>13. ListenHeld'
    BY <1>k, <2>2, ResourceNames
      DEF StartInv, ListenHeld, Start!ClosedAgain, Start!TlsPriorities, Start!CloseListen,
          Start!IfHeld
  <2>14. WorkersHeld'
    BY <1>k, <2>2, ResourceNames, WorkersUntouched, <2>3 DEF StartInv, Started, Blamed
  <2>15. (Prepared /\ Start!ReleasedOnce)'
    BY <1>k, <2>2, ResourceNames, <2>4
      DEF StartInv, Prepared, Started, Wakes, Start!ReleasedOnce, Blamed, Start!ClosedAgain
  <2>. QED BY <2>11, <2>12, <2>13, <2>14, <2>15 DEF StartInv
<1>. QED BY <1>1, <1>2 DEF Start!InitPerIp

LEMMA InitTlsKeeps ==
  ASSUME StartInv, Start!InitTls, ask' = ask
  PROVE  StartInv'
<1>k. /\ held \in [Start!Resources -> Nat] /\ twice \subseteq Start!Resources /\ pc = "tls"
      /\ ask' = ask
      /\ UNCHANGED <<options, daemon, listen, worker>>
  BY DEF StartInv, StartTypes, Start!TypeOK, Start!InitTls, Start!Same
<1>1. ASSUME NEW nxt,
             Start!Skip(nxt),
             nxt = IF Start!UsesThreads /\ daemon.worker_pool_size > 0 THEN "pool" ELSE "cleanup"
      PROVE  StartInv'
  <2>1. held' = held /\ twice' = twice /\ fault' = fault /\ pc' = nxt
    BY <1>1 DEF Start!Skip
  <2>11. (StartTypes /\ Blamed /\ Chosen /\ Start!IncrementFits)'
    BY <1>k, <2>1, <1>1 DEF StartInv, StartTypes, Start!TypeOK, Blamed, WorkerFaults, Chosen,
        Start!IncrementFits
  <2>12. (OwnHeld /\ PollHeld)'
    BY <1>k, <2>1, <1>1, ResourceNames DEF StartInv, OwnHeld, PollHeld
  <2>13. ListenHeld'
    BY <1>k, <2>1, <1>1, ResourceNames DEF StartInv, ListenHeld, Start!ClosedAgain
  <2>14. WorkersHeld'
    BY <1>k, <2>1, <1>1, ResourceNames, WorkersUntouched DEF StartInv, Started
  <2>15. (Prepared /\ Start!ReleasedOnce)'
    BY <1>k, <2>1, <1>1, ResourceNames DEF StartInv, Prepared, Started, Wakes, Start!ReleasedOnce,
        Blamed
  <2>. QED BY <2>11, <2>12, <2>13, <2>14, <2>15 DEF StartInv
<1>2. ASSUME NEW nxt,
             Start!Acquire(Start!One("cred"), nxt),
             nxt = IF Start!UsesThreads /\ daemon.worker_pool_size > 0 THEN "pool" ELSE "cleanup"
      PROVE  StartInv'
  <2>1. /\ held' \in [Start!Resources -> Nat] /\ twice' = twice /\ fault' = fault /\ pc' = nxt
        /\ \A s \in Start!Resources : held'[s] = IF s = Start!One("cred") THEN held[s] + 1
               ELSE held[s]
    BY <1>2, <1>k, ResourceNames, AcquireDoes
  <2>11. (StartTypes /\ Blamed /\ Chosen /\ Start!IncrementFits)'
    BY <1>k, <2>1, <1>2 DEF StartInv, StartTypes, Start!TypeOK, Blamed, WorkerFaults, Chosen,
        Start!IncrementFits
  <2>12. (OwnHeld /\ PollHeld)'
    BY <1>k, <2>1, <1>2, ResourceNames DEF StartInv, OwnHeld, PollHeld
  <2>13. ListenHeld'
    BY <1>k, <2>1, <1>2, ResourceNames DEF StartInv, ListenHeld, Start!ClosedAgain
  <2>14. WorkersHeld'
    BY <1>k, <2>1, <1>2, ResourceNames, WorkersUntouched DEF StartInv, Started
  <2>15. (Prepared /\ Start!ReleasedOnce)'
    BY <1>k, <2>1, <1>2, ResourceNames DEF StartInv, Prepared, Started, Wakes, Start!ReleasedOnce,
        Blamed
  <2>. QED BY <2>11, <2>12, <2>13, <2>14, <2>15 DEF StartInv
<1>3. ASSUME Start!Fail("tls", (Start!CloseListen \cup {Start!One("per_ip")}), "free_and_fail")
      PROVE  StartInv'
  <2>1. (Start!CloseListen \cup {Start!One("per_ip")}) \subseteq Start!Resources
    BY <1>k, ResourceNames DEF Start!TlsPriorities, Start!CloseListen, Start!IfHeld
  <2>2. /\ held' \in [Start!Resources -> Nat] /\ twice' \subseteq Start!Resources
        /\ twice' = twice \cup {r \in (Start!CloseListen \cup {Start!One("per_ip")}) :
               held[r] = 0} /\ fault' = "tls" /\ pc' = "free_and_fail"
        /\ \A r \in Start!Resources : held'[r] = IF r \in (Start!CloseListen
               \cup {Start!One("per_ip")}) /\ held[r] > 0 THEN held[r] - 1 ELSE held[r]
    BY <1>3, <1>k, <2>1, ReleaseDoes DEF Start!Fail
  <2>3. \A r \in Kinds : \A w \in 1..MaxPool : held'[<<r, w>>] = held[<<r, w>>]
    BY <2>2, ResourceNames DEF Start!TlsPriorities, Start!CloseListen, Start!IfHeld
  <2>4. twice' = {}
    <3>1. twice = {}
      BY <1>k DEF StartInv, Blamed
    <3>2. \A r \in (Start!CloseListen \cup {Start!One("per_ip")}) : held[r] # 0
      BY <1>k, ResourceNames DEF StartInv, OwnHeld, Chosen, Blamed, ListenHeld,
          Start!TlsPriorities, Start!CloseListen, Start!IfHeld
    <3>. QED BY <2>2, <3>1, <3>2
  <2>11. (StartTypes /\ Blamed /\ Chosen /\ Start!IncrementFits)'
    BY <1>k, <2>2 DEF StartInv, StartTypes, Start!TypeOK, Blamed, WorkerFaults, Chosen,
        Start!IncrementFits
  <2>12. (OwnHeld /\ PollHeld)'
    BY <1>k, <2>2, ResourceNames
      DEF StartInv, OwnHeld, Start!TlsPriorities, Start!CloseListen, Start!IfHeld, Chosen, PollHeld
  <2>13. ListenHeld'
    BY <1>k, <2>2, ResourceNames
      DEF StartInv, ListenHeld, Start!ClosedAgain, Start!TlsPriorities, Start!CloseListen,
          Start!IfHeld
  <2>14. WorkersHeld'
    BY <1>k, <2>2, ResourceNames, WorkersUntouched, <2>3 DEF StartInv, Started, Blamed
  <2>15. (Prepared /\ Start!ReleasedOnce)'
    BY <1>k, <2>2, ResourceNames, <2>4
      DEF StartInv, Prepared, Started, Wakes, Start!ReleasedOnce, Blamed, Start!ClosedAgain
  <2>. QED BY <2>11, <2>12, <2>13, <2>14, <2>15 DEF StartInv
<1>4. ASSUME fault' = "tls",
             pc' = "free_and_fail",
             held' = [Start!Released((Start!CloseListen
                 \cup {Start!One("per_ip")})).held EXCEPT ![Start!One("cred")] = 1],
             twice' = Start!Released((Start!CloseListen \cup {Start!One("per_ip")})).twice
      PROVE  StartInv'
  <2>1. (Start!CloseListen \cup {Start!One("per_ip")}) \subseteq Start!Resources
    BY <1>k, ResourceNames DEF Start!CloseListen
  <2>2. /\ held' \in [Start!Resources -> Nat] /\ twice' \subseteq Start!Resources
        /\ twice' = twice \cup {r \in (Start!CloseListen \cup {Start!One("per_ip")}) : held[r] = 0}
        /\ \A r \in Start!Resources :
             held'[r] = IF r = Start!One("cred") THEN 1 ELSE IF r \in (Start!CloseListen
                 \cup {Start!One("per_ip")}) /\ held[r] > 0 THEN held[r] - 1 ELSE held[r]
    BY <1>4, <1>k, <2>1, ResourceNames DEF Start!Released
  <2>3. \A r \in Kinds : \A w \in 1..MaxPool : held'[<<r, w>>] = held[<<r, w>>]
    BY <2>2, ResourceNames DEF Start!CloseListen
  <2>4. twice' = {}
    <3>1. twice = {}
      BY <1>k DEF StartInv, Blamed
    <3>2. \A r \in (Start!CloseListen \cup {Start!One("per_ip")}) : held[r] # 0
      BY <1>k, ResourceNames DEF StartInv, OwnHeld, ListenHeld, Start!CloseListen
    <3>. QED BY <2>2, <3>1, <3>2
  <2>5. /\ held'[Start!One("cred")] = 1 /\ held'[Start!One("per_ip")] = 0 /\ held'[Start!Listen] = 0
        /\ \A r \in Start!Resources \ {Start!One("cred"), Start!One("per_ip"), Start!Listen} :
               held'[r] = held[r]
        /\ held' \in [Start!Resources -> Nat] /\ twice' = {}
    BY <1>k, <2>2, <2>4, ResourceNames DEF Start!CloseListen, StartInv, OwnHeld, ListenHeld
  <2>11. (StartTypes /\ Blamed /\ Chosen /\ Start!IncrementFits)'
    BY <1>k, <1>4, <2>5 DEF StartInv, StartTypes, Start!TypeOK, Blamed, WorkerFaults, Chosen,
        Start!IncrementFits
  <2>12. OwnHeld'
    BY <1>k, <1>4, <2>5, ResourceNames DEF StartInv, OwnHeld
  <2>13. PollHeld'
    BY <1>k, <1>4, <2>5, ResourceNames DEF StartInv, PollHeld
  <2>14. ListenHeld'
    BY <1>k, <1>4, <2>5, ResourceNames DEF StartInv, ListenHeld, Start!ClosedAgain
  <2>15. WorkersHeld'
    BY <1>k, <1>4, <2>5, ResourceNames, WorkersUntouched, <2>3 DEF StartInv, Started, Blamed
  <2>16. (Prepared /\ Start!ReleasedOnce)'
    BY <1>k, <1>4, <2>5, ResourceNames DEF StartInv, Prepared, Started, Wakes, Start!ReleasedOnce,
        Blamed
  <2>. QED BY <2>11, <2>12, <2>13, <2>14, <2>15, <2>16 DEF StartInv
<1>. QED BY <1>1, <1>2, <1>3, <1>4 DEF Start!InitTls

-----------------------------------------------------------------------------
(* Without a pool of workers. *)

LEMMA InitCleanupKeeps ==
  ASSUME StartInv, Start!InitCleanup, ask' = ask
  PROVE  StartInv'
<1>k. /\ held \in [Start!Resources -> Nat] /\ twice \subseteq Start!Resources /\ pc = "cleanup"
      /\ ask' = ask
      /\ UNCHANGED <<options, daemon, listen, worker>>
  BY DEF StartInv, StartTypes, Start!TypeOK, Start!InitCleanup, Start!Same
<1>1. ASSUME Start!Acquire(Start!One("cleanup"), "new") PROVE StartInv'
  <2>1. /\ held' \in [Start!Resources -> Nat] /\ twice' = twice /\ fault' = fault /\ pc' = "new"
        /\ \A s \in Start!Resources : held'[s] = IF s = Start!One("cleanup") THEN held[s] + 1
               ELSE held[s]
    BY <1>1, <1>k, ResourceNames, AcquireDoes
  <2>11. (StartTypes /\ Blamed /\ Chosen /\ Start!IncrementFits)'
    BY <1>k, <2>1 DEF StartInv, StartTypes, Start!TypeOK, Blamed, WorkerFaults, Chosen,
        Start!IncrementFits
  <2>12. (OwnHeld /\ PollHeld)'
    BY <1>k, <2>1, ResourceNames DEF StartInv, OwnHeld, PollHeld
  <2>13. ListenHeld'
    BY <1>k, <2>1, ResourceNames DEF StartInv, ListenHeld, Start!ClosedAgain
  <2>14. WorkersHeld'
    BY <1>k, <2>1, ResourceNames, WorkersUntouched DEF StartInv, Started
  <2>15. (Prepared /\ Start!ReleasedOnce)'
    BY <1>k, <2>1, ResourceNames DEF StartInv, Prepared, Started, Wakes, Start!ReleasedOnce, Blamed
  <2>. QED BY <2>11, <2>12, <2>13, <2>14, <2>15 DEF StartInv
<1>2. ASSUME Start!Fail("cleanup", ({Start!One("per_ip")} \cup Start!CloseListen), "free_and_fail")
      PROVE  StartInv'
  <2>1. ({Start!One("per_ip")} \cup Start!CloseListen) \subseteq Start!Resources
    BY <1>k, ResourceNames DEF Start!TlsPriorities, Start!CloseListen, Start!IfHeld
  <2>2. /\ held' \in [Start!Resources -> Nat] /\ twice' \subseteq Start!Resources
        /\ twice' = twice \cup {r \in ({Start!One("per_ip")} \cup Start!CloseListen) :
               held[r] = 0} /\ fault' = "cleanup" /\ pc' = "free_and_fail"
        /\ \A r \in Start!Resources : held'[r] = IF r \in ({Start!One("per_ip")}
               \cup Start!CloseListen) /\ held[r] > 0 THEN held[r] - 1 ELSE held[r]
    BY <1>2, <1>k, <2>1, ReleaseDoes DEF Start!Fail
  <2>3. \A r \in Kinds : \A w \in 1..MaxPool : held'[<<r, w>>] = held[<<r, w>>]
    BY <2>2, ResourceNames DEF Start!TlsPriorities, Start!CloseListen, Start!IfHeld
  <2>4. twice' = {}
    <3>1. twice = {}
      BY <1>k DEF StartInv, Blamed
    <3>2. \A r \in ({Start!One("per_ip")} \cup Start!CloseListen) : held[r] # 0
      BY <1>k, ResourceNames DEF StartInv, OwnHeld, Chosen, Blamed, ListenHeld,
          Start!TlsPriorities, Start!CloseListen, Start!IfHeld
    <3>. QED BY <2>2, <3>1, <3>2
  <2>11. (StartTypes /\ Blamed /\ Chosen /\ Start!IncrementFits)'
    BY <1>k, <2>2 DEF StartInv, StartTypes, Start!TypeOK, Blamed, WorkerFaults, Chosen,
        Start!IncrementFits
  <2>12. (OwnHeld /\ PollHeld)'
    BY <1>k, <2>2, ResourceNames
      DEF StartInv, OwnHeld, Start!TlsPriorities, Start!CloseListen, Start!IfHeld, Chosen, PollHeld
  <2>13. ListenHeld'
    BY <1>k, <2>2, ResourceNames
      DEF StartInv, ListenHeld, Start!ClosedAgain, Start!TlsPriorities, Start!CloseListen,
          Start!IfHeld
  <2>14. WorkersHeld'
    BY <1>k, <2>2, ResourceNames, WorkersUntouched, <2>3 DEF StartInv, Started, Blamed
  <2>15. (Prepared /\ Start!ReleasedOnce)'
    BY <1>k, <2>2, ResourceNames, <2>4
      DEF StartInv, Prepared, Started, Wakes, Start!ReleasedOnce, Blamed, Start!ClosedAgain
  <2>. QED BY <2>11, <2>12, <2>13, <2>14, <2>15 DEF StartInv
<1>. QED BY <1>1, <1>2 DEF Start!InitCleanup

LEMMA InitNewKeeps ==
  ASSUME StartInv, Start!InitNew, ask' = ask
  PROVE  StartInv'
<1>k. /\ held \in [Start!Resources -> Nat] /\ twice \subseteq Start!Resources /\ pc = "new"
      /\ ask' = ask
      /\ UNCHANGED <<options, daemon, listen, worker>>
  BY DEF StartInv, StartTypes, Start!TypeOK, Start!InitNew, Start!Same
<1>1. ASSUME Start!Acquire(Start!One("new"), "thread"), Start!UsesThreads PROVE StartInv'
  <2>1. /\ held' \in [Start!Resources -> Nat] /\ twice' = twice /\ fault' = fault /\ pc' = "thread"
        /\ \A s \in Start!Resources : held'[s] = IF s = Start!One("new") THEN held[s] + 1
               ELSE held[s]
    BY <1>1, <1>k, ResourceNames, AcquireDoes
  <2>11. (StartTypes /\ Blamed /\ Chosen /\ Start!IncrementFits)'
    BY <1>k, <2>1, <1>1 DEF StartInv, StartTypes, Start!TypeOK, Blamed, WorkerFaults, Chosen,
        Start!IncrementFits
  <2>12. (OwnHeld /\ PollHeld)'
    BY <1>k, <2>1, ResourceNames DEF StartInv, OwnHeld, PollHeld
  <2>13. ListenHeld'
    BY <1>k, <2>1, ResourceNames DEF StartInv, ListenHeld, Start!ClosedAgain
  <2>14. WorkersHeld'
    BY <1>k, <2>1, ResourceNames, WorkersUntouched DEF StartInv, Started
  <2>15. (Prepared /\ Start!ReleasedOnce)'
    BY <1>k, <2>1, ResourceNames DEF StartInv, Prepared, Started, Wakes, Start!ReleasedOnce, Blamed
  <2>. QED BY <2>11, <2>12, <2>13, <2>14, <2>15 DEF StartInv
<1>2. ASSUME Start!Acquire(Start!One("new"), "running") PROVE StartInv'
  <2>1. /\ held' \in [Start!Resources -> Nat] /\ twice' = twice /\ fault' = fault /\ pc' = "running"
        /\ \A s \in Start!Resources : held'[s] = IF s = Start!One("new") THEN held[s] + 1
               ELSE held[s]
    BY <1>2, <1>k, ResourceNames, AcquireDoes
  <2>11. (StartTypes /\ Blamed /\ Chosen /\ Start!IncrementFits)'
    BY <1>k, <2>1 DEF StartInv, StartTypes, Start!TypeOK, Blamed, WorkerFaults, Chosen,
        Start!IncrementFits
  <2>12. (OwnHeld /\ PollHeld)'
    BY <1>k, <2>1, ResourceNames DEF StartInv, OwnHeld, Chosen, PollHeld
  <2>13. ListenHeld'
    BY <1>k, <2>1, ResourceNames DEF StartInv, ListenHeld, Start!ClosedAgain
  <2>14. WorkersHeld'
    BY <1>k, <2>1, ResourceNames, WorkersUntouched DEF StartInv, Started, Chosen
  <2>15. (Prepared /\ Start!ReleasedOnce)'
    BY <1>k, <2>1, ResourceNames DEF StartInv, Prepared, Started, Wakes, Chosen,
        Start!ReleasedOnce, Blamed
  <2>. QED BY <2>11, <2>12, <2>13, <2>14, <2>15 DEF StartInv
<1>3. ASSUME Start!Fail("new", ({Start!One("per_ip"), Start!One("cleanup")}
                 \cup Start!CloseListen), "free_and_fail")
      PROVE  StartInv'
  <2>1. ({Start!One("per_ip"), Start!One("cleanup")}
            \cup Start!CloseListen) \subseteq Start!Resources
    BY <1>k, ResourceNames DEF Start!TlsPriorities, Start!CloseListen, Start!IfHeld
  <2>2. /\ held' \in [Start!Resources -> Nat] /\ twice' \subseteq Start!Resources
        /\ twice' = twice \cup {r \in ({Start!One("per_ip"), Start!One("cleanup")}
               \cup Start!CloseListen) : held[r] = 0} /\ fault' = "new" /\ pc' = "free_and_fail"
        /\ \A r \in Start!Resources : held'[r] = IF r \in ({Start!One("per_ip"),
               Start!One("cleanup")} \cup Start!CloseListen) /\ held[r] > 0 THEN held[r] - 1
               ELSE held[r]
    BY <1>3, <1>k, <2>1, ReleaseDoes DEF Start!Fail
  <2>3. \A r \in Kinds : \A w \in 1..MaxPool : held'[<<r, w>>] = held[<<r, w>>]
    BY <2>2, ResourceNames DEF Start!TlsPriorities, Start!CloseListen, Start!IfHeld
  <2>4. twice' = {}
    <3>1. twice = {}
      BY <1>k DEF StartInv, Blamed
    <3>2. \A r \in ({Start!One("per_ip"), Start!One("cleanup")} \cup Start!CloseListen) :
              held[r] # 0
      BY <1>k, ResourceNames DEF StartInv, OwnHeld, Chosen, Blamed, ListenHeld,
          Start!TlsPriorities, Start!CloseListen, Start!IfHeld
    <3>. QED BY <2>2, <3>1, <3>2
  <2>11. (StartTypes /\ Blamed /\ Chosen /\ Start!IncrementFits)'
    BY <1>k, <2>2 DEF StartInv, StartTypes, Start!TypeOK, Blamed, WorkerFaults, Chosen,
        Start!IncrementFits
  <2>12. (OwnHeld /\ PollHeld)'
    BY <1>k, <2>2, ResourceNames
      DEF StartInv, OwnHeld, Start!TlsPriorities, Start!CloseListen, Start!IfHeld, Chosen, PollHeld
  <2>13. ListenHeld'
    BY <1>k, <2>2, ResourceNames
      DEF StartInv, ListenHeld, Start!ClosedAgain, Start!TlsPriorities, Start!CloseListen,
          Start!IfHeld
  <2>14. WorkersHeld'
    BY <1>k, <2>2, ResourceNames, WorkersUntouched, <2>3 DEF StartInv, Started, Blamed
  <2>15. (Prepared /\ Start!ReleasedOnce)'
    BY <1>k, <2>2, ResourceNames, <2>4
      DEF StartInv, Prepared, Started, Wakes, Start!ReleasedOnce, Blamed, Start!ClosedAgain
  <2>. QED BY <2>11, <2>12, <2>13, <2>14, <2>15 DEF StartInv
<1>. QED BY <1>1, <1>2, <1>3 DEF Start!InitNew

LEMMA CreateThreadKeeps ==
  ASSUME StartInv, Start!CreateThread, ask' = ask
  PROVE  StartInv'
<1>k. /\ held \in [Start!Resources -> Nat] /\ twice \subseteq Start!Resources /\ pc = "thread"
      /\ ask' = ask
      /\ UNCHANGED <<options, daemon, listen, worker>>
  BY DEF StartInv, StartTypes, Start!TypeOK, Start!CreateThread, Start!Same
<1>1. ASSUME Start!Acquire(Start!One("thread"), "running") PROVE StartInv'
  <2>1. /\ held' \in [Start!Resources -> Nat] /\ twice' = twice /\ fault' = fault /\ pc' = "running"
        /\ \A s \in Start!Resources : held'[s] = IF s = Start!One("thread") THEN held[s] + 1
               ELSE held[s]
    BY <1>1, <1>k, ResourceNames, AcquireDoes
  <2>11. (StartTypes /\ Blamed /\ Chosen /\ Start!IncrementFits)'
    BY <1>k, <2>1 DEF StartInv, StartTypes, Start!TypeOK, Blamed, WorkerFaults, Chosen,
        Start!IncrementFits
  <2>12. (OwnHeld /\ PollHeld)'
    BY <1>k, <2>1, ResourceNames DEF StartInv, OwnHeld, Chosen, PollHeld
  <2>13. ListenHeld'
    BY <1>k, <2>1, ResourceNames DEF StartInv, ListenHeld, Start!ClosedAgain
  <2>14. WorkersHeld'
    BY <1>k, <2>1, ResourceNames, WorkersUntouched DEF StartInv, Started, Chosen
  <2>15. (Prepared /\ Start!ReleasedOnce)'
    BY <1>k, <2>1, ResourceNames DEF StartInv, Prepared, Started, Wakes, Chosen,
        Start!ReleasedOnce, Blamed
  <2>. QED BY <2>11, <2>12, <2>13, <2>14, <2>15 DEF StartInv
<1>2. ASSUME Start!Fail("thread", ({Start!One("new"), Start!One("per_ip"),
                 Start!One("cleanup")} \cup Start!CloseListen), "free_and_fail")
      PROVE  StartInv'
  <2>1. ({Start!One("new"), Start!One("per_ip"), Start!One("cleanup")}
            \cup Start!CloseListen) \subseteq Start!Resources
    BY <1>k, ResourceNames DEF Start!TlsPriorities, Start!CloseListen, Start!IfHeld
  <2>2. /\ held' \in [Start!Resources -> Nat] /\ twice' \subseteq Start!Resources
        /\ twice' = twice \cup {r \in ({Start!One("new"), Start!One("per_ip"),
               Start!One("cleanup")} \cup Start!CloseListen) : held[r] = 0}
               /\ fault' = "thread" /\ pc' = "free_and_fail"
        /\ \A r \in Start!Resources : held'[r] = IF r \in ({Start!One("new"), Start!One("per_ip"),
               Start!One("cleanup")} \cup Start!CloseListen) /\ held[r] > 0 THEN held[r] - 1
               ELSE held[r]
    BY <1>2, <1>k, <2>1, ReleaseDoes DEF Start!Fail
  <2>3. \A r \in Kinds : \A w \in 1..MaxPool : held'[<<r, w>>] = held[<<r, w>>]
    BY <2>2, ResourceNames DEF Start!TlsPriorities, Start!CloseListen, Start!IfHeld
  <2>4. twice' = {}
    <3>1. twice = {}
      BY <1>k DEF StartInv, Blamed
    <3>2. \A r \in ({Start!One("new"), Start!One("per_ip"), Start!One("cleanup")}
              \cup Start!CloseListen) : held[r] # 0
      BY <1>k, ResourceNames DEF StartInv, OwnHeld, Chosen, Blamed, ListenHeld,
          Start!TlsPriorities, Start!CloseListen, Start!IfHeld
    <3>. QED BY <2>2, <3>1, <3>2
  <2>11. (StartTypes /\ Blamed /\ Chosen /\ Start!IncrementFits)'
    BY <1>k, <2>2 DEF StartInv, StartTypes, Start!TypeOK, Blamed, WorkerFaults, Chosen,
        Start!IncrementFits
  <2>12. (OwnHeld /\ PollHeld)'
    BY <1>k, <2>2, ResourceNames
      DEF StartInv, OwnHeld, Start!TlsPriorities, Start!CloseListen, Start!IfHeld, Chosen, PollHeld
  <2>13. ListenHeld'
    BY <1>k, <2>2, ResourceNames
      DEF StartInv, ListenHeld, Start!ClosedAgain, Start!TlsPriorities, Start!CloseListen,
          Start!IfHeld
  <2>14. WorkersHeld'
    BY <1>k, <2>2, ResourceNames, WorkersUntouched, <2>3 DEF StartInv, Started, Blamed
  <2>15. (Prepared /\ Start!ReleasedOnce)'
    BY <1>k, <2>2, ResourceNames, <2>4
      DEF StartInv, Prepared, Started, Wakes, Start!ReleasedOnce, Blamed, Start!ClosedAgain
  <2>. QED BY <2>11, <2>12, <2>13, <2>14, <2>15 DEF StartInv
<1>. QED BY <1>1, <1>2 DEF Start!CreateThread

-----------------------------------------------------------------------------
(* The workers. *)

LEMMA AllocPoolKeeps ==
  ASSUME StartInv, Start!AllocPool, ask' = ask
  PROVE  StartInv'
<1>k. /\ held \in [Start!Resources -> Nat] /\ twice \subseteq Start!Resources /\ pc = "pool"
      /\ ask' = ask
      /\ UNCHANGED <<options, daemon, listen>>
  BY DEF StartInv, StartTypes, Start!TypeOK, Start!AllocPool
<1>p. MaxPool \in Nat /\ daemon.worker_pool_size \in 1..MaxPool /\ 1 \in 0..MaxPool
  BY <1>k, StartAssumption DEF StartInv, StartTypes, Chosen, Start!SizesAssumption
<1>1. ASSUME Start!Acquire(Start!One("pool"), "w_cleanup"), worker' = 1 PROVE StartInv'
  <2>1. /\ held' \in [Start!Resources -> Nat] /\ twice' = twice /\ fault' = fault
        /\ pc' = "w_cleanup"
        /\ \A s \in Start!Resources : held'[s] = IF s = Start!One("pool") THEN held[s] + 1
               ELSE held[s]
    BY <1>1, <1>k, ResourceNames, AcquireDoes
  <2>11. (StartTypes /\ Blamed /\ Chosen /\ Start!IncrementFits)'
    BY <1>k, <2>1, <1>1, <1>p
      DEF StartInv, StartTypes, Start!TypeOK, Blamed, WorkerFaults, Chosen, Start!IncrementFits
  <2>12. (OwnHeld /\ PollHeld)'
    BY <1>k, <2>1, <1>1, ResourceNames, <1>p DEF StartInv, OwnHeld, PollHeld
  <2>13. ListenHeld'
    BY <1>k, <2>1, <1>1, ResourceNames DEF StartInv, ListenHeld, Start!ClosedAgain
  <2>14. WorkersHeld'
    BY <1>k, <2>1, <1>1, ResourceNames, WorkersUntouched DEF StartInv, Started
  <2>15. (Prepared /\ Start!ReleasedOnce)'
    BY <1>k, <2>1, <1>1, ResourceNames, <1>p
      DEF StartInv, Prepared, Started, Wakes, Start!ReleasedOnce, Blamed
  <2>. QED BY <2>11, <2>12, <2>13, <2>14, <2>15 DEF StartInv
<1>2. ASSUME Start!Fail("pool", {}, "thread_failed"), worker' = 1 PROVE StartInv'
  <2>1. {} \subseteq Start!Resources
    BY <1>k, ResourceNames DEF Start!TlsPriorities, Start!CloseListen, Start!IfHeld
  <2>2. /\ held' \in [Start!Resources -> Nat] /\ twice' \subseteq Start!Resources
        /\ twice' = twice \cup {r \in {} : held[r] = 0} /\ fault' = "pool" /\ pc' = "thread_failed"
        /\ \A r \in Start!Resources : held'[r] = IF r \in {} /\ held[r] > 0 THEN held[r] - 1
               ELSE held[r]
    BY <1>2, <1>k, <2>1, ReleaseDoes DEF Start!Fail
  <2>3. \A r \in Kinds : \A w \in 1..MaxPool : held'[<<r, w>>] = held[<<r, w>>]
    BY <2>2, ResourceNames DEF Start!TlsPriorities, Start!CloseListen, Start!IfHeld
  <2>4. twice' = {}
    <3>1. twice = {}
      BY <1>k DEF StartInv, Blamed
    <3>2. \A r \in {} : held[r] # 0
      BY <1>k, ResourceNames DEF StartInv, OwnHeld, Chosen, Blamed, ListenHeld,
          Start!TlsPriorities, Start!CloseListen, Start!IfHeld
    <3>. QED BY <2>2, <3>1, <3>2
  <2>11. (StartTypes /\ Blamed /\ Chosen /\ Start!IncrementFits)'
    BY <1>k, <2>2, <1>2, <1>p
      DEF StartInv, StartTypes, Start!TypeOK, Blamed, WorkerFaults, Chosen, Start!IncrementFits
  <2>12. (OwnHeld /\ PollHeld)'
    BY <1>k, <2>2, <1>2, ResourceNames, <1>p DEF StartInv, OwnHeld, PollHeld
  <2>13. ListenHeld'
    BY <1>k, <2>2, <1>2, ResourceNames
      DEF StartInv, ListenHeld, Start!ClosedAgain, Start!TlsPriorities, Start!CloseListen,
          Start!IfHeld
  <2>14. WorkersHeld'
    BY <1>k, <2>2, <1>2, ResourceNames, WorkersUntouched, <2>3 DEF StartInv, Started, Blamed
  <2>15. (Prepared /\ Start!ReleasedOnce)'
    BY <1>k, <2>2, <1>2, ResourceNames, <1>p, <2>4
      DEF StartInv, Prepared, Started, Wakes, Start!ReleasedOnce, Blamed, Start!ClosedAgain
  <2>. QED BY <2>11, <2>12, <2>13, <2>14, <2>15 DEF StartInv
<1>. QED BY <1>1, <1>2 DEF Start!AllocPool

LEMMA WorkerCleanupKeeps ==
  ASSUME StartInv, Start!WorkerCleanup, ask' = ask
  PROVE  StartInv'
<1>k. /\ held \in [Start!Resources -> Nat] /\ twice \subseteq Start!Resources
      /\ pc = "w_cleanup" /\ ask' = ask
      /\ UNCHANGED <<options, daemon, listen, worker>>
  BY DEF StartInv, StartTypes, Start!TypeOK, Start!WorkerCleanup, Start!Same
<1>i. /\ worker \in 1..MaxPool /\ MaxPool \in Nat /\ worker \in 1..daemon.worker_pool_size
      /\ fault = "none" /\ twice = {}
      /\ daemon.worker_pool_size # 0
      /\ \A r \in Kinds : <<r, worker>> \in {<<s, worker>> : s \in Kinds}
  BY <1>k, StartAssumption DEF StartInv, StartTypes, Chosen, Start!SizesAssumption, Blamed
<1>w. /\ ~ worker \in Started /\ Started = 1..worker - 1 /\ WorkerHeld(worker)
      /\ worker' = worker /\ pc' \in Workers \cup {"thread_failed"} => ~ worker' \in Started'
             /\ Started' = Started
  BY <1>k, <1>i DEF Started, StartInv, WorkersHeld
<1>l. \A w : daemon' = daemon => Start!WorkerLimit(w)' = Start!WorkerLimit(w)
  BY DEF Start!WorkerLimit
<1>1. ASSUME Start!Acquire(<<"cleanup", worker>>, "w_new") PROVE StartInv'
  <2>1. <<"cleanup", worker>> \in Start!Resources /\ \A r \in Kinds : <<r,
            worker>> \in Start!Resources
    BY <1>i, ResourceNames
  <2>2. /\ held' \in [Start!Resources -> Nat] /\ twice' = twice /\ fault' = fault /\ pc' = "w_new"
        /\ \A s \in Start!Resources : held'[s] = IF s = <<"cleanup", worker>>
               THEN held[s] + 1 ELSE held[s]
    BY <1>1, <1>k, <2>1, AcquireDoes
  <2>3. /\ \A r \in Own : held'[<<r, 0>>] = held[<<r, 0>>]
        /\ \A v \in 1..MaxPool \ {worker} : \A r \in Kinds : held'[<<r, v>>] = held[<<r, v>>]
    BY <1>i, <2>2, ResourceNames
  <2>4. WorkerHeld(worker)'
    BY <1>k, <1>i, <1>w, <2>1, <2>2 DEF WorkerHeld
  <2>5. twice' = {} /\ pc' = "w_new" /\ fault' = fault /\ held' \in [Start!Resources -> Nat]
    BY <1>i, <2>2
  <2>11. (StartTypes /\ Blamed /\ Chosen /\ Start!IncrementFits)'
    BY <1>k, <1>i, <2>5, <2>3, <2>2
      DEF StartInv, StartTypes, Start!TypeOK, Blamed, WorkerFaults, Chosen, Start!IncrementFits
  <2>12. (OwnHeld /\ PollHeld)'
    BY <1>k, <1>i, <2>5, <2>3, ResourceNames DEF StartInv, OwnHeld, Chosen, PollHeld
  <2>13. ListenHeld'
    BY <1>k, <1>i, <2>5, <2>3, ResourceNames DEF StartInv, ListenHeld, Start!ClosedAgain, Chosen
  <2>14. WorkersHeld'
    BY <1>k, <1>i, <2>3, <2>4, <2>5, OthersUntouched
  <2>15. Prepared'
    BY <1>k, <1>i, <2>5, <2>3, ResourceNames, <1>l, <1>w DEF StartInv, Prepared, Started, Wakes
  <2>16. Start!ReleasedOnce'
    BY <2>5 DEF Start!ReleasedOnce
  <2>. QED BY <2>11, <2>12, <2>13, <2>14, <2>15, <2>16 DEF StartInv
<1>2. ASSUME Start!Fail("w_cleanup", {}, "thread_failed") PROVE StartInv'
  <2>1. /\ {} \subseteq {<<r, worker>> : r \in Kinds} /\ {} \subseteq Start!Resources
        /\ \A r \in Kinds : <<r, worker>> \in Start!Resources
    BY <1>i, OfWorker, ResourceNames DEF Start!IfHeld
  <2>2. /\ held' \in [Start!Resources -> Nat] /\ twice' \subseteq Start!Resources
        /\ twice' = twice \cup {r \in {} : held[r] = 0} /\ fault' = "w_cleanup"
        /\ pc' = "thread_failed"
        /\ \A r \in Start!Resources : held'[r] = IF r \in {} /\ held[r] > 0 THEN held[r] - 1
               ELSE held[r]
    BY <1>2, <1>k, <2>1, ReleaseDoes DEF Start!Fail
  <2>3. /\ \A r \in Own : held'[<<r, 0>>] = held[<<r, 0>>]
        /\ \A v \in 1..MaxPool \ {worker} : \A r \in Kinds : held'[<<r, v>>] = held[<<r, v>>]
    <3>1. /\ \A r \in Own : <<r, 0>> \in Start!Resources /\ <<r, 0>> \notin {}
          /\ \A v \in 1..MaxPool \ {worker} : \A r \in Kinds : <<r, v>> \in Start!Resources
                 /\ <<r, v>> \notin {}
      BY <1>i, <2>1, OfWorker, ResourceNames
    <3>. QED BY <2>2, <3>1
  <2>6. \A r \in {} : held[r] = 1
    BY <1>k, <1>w DEF WorkerHeld, Start!IfHeld
  <2>4. WorkerHeld(worker)'
    <3>1. \A r \in Kinds : held'[<<r, worker>>] = IF <<r, worker>> \in {} THEN 0 ELSE held[<<r,
              worker>>]
      BY <2>1, <2>2, <2>6
    <3>. QED BY <1>k, <1>i, <1>w, <2>2, <3>1 DEF WorkerHeld, Start!IfHeld
  <2>5. twice' = {} /\ pc' = "thread_failed" /\ fault' = "w_cleanup"
            /\ held' \in [Start!Resources -> Nat]
    BY <1>i, <2>2, <2>6
  <2>11. (StartTypes /\ Blamed /\ Chosen /\ Start!IncrementFits)'
    BY <1>k, <1>i, <2>5, <2>3, <2>2
      DEF StartInv, StartTypes, Start!TypeOK, Blamed, WorkerFaults, Chosen, Start!IncrementFits
  <2>12. (OwnHeld /\ PollHeld)'
    BY <1>k, <1>i, <2>5, <2>3, ResourceNames DEF StartInv, OwnHeld, Chosen, PollHeld
  <2>13. ListenHeld'
    BY <1>k, <1>i, <2>5, <2>3, ResourceNames DEF StartInv, ListenHeld, Start!ClosedAgain, Chosen
  <2>14. WorkersHeld'
    BY <1>k, <1>i, <2>3, <2>4, <2>5, OthersUntouched
  <2>15. Prepared'
    BY <1>k, <1>i, <2>5, <2>3, ResourceNames, <1>l, <1>w DEF StartInv, Prepared, Started, Wakes
  <2>16. Start!ReleasedOnce'
    BY <2>5 DEF Start!ReleasedOnce
  <2>. QED BY <2>11, <2>12, <2>13, <2>14, <2>15, <2>16 DEF StartInv
<1>. QED BY <1>1, <1>2 DEF Start!WorkerCleanup

LEMMA WorkerNewKeeps ==
  ASSUME StartInv, Start!WorkerNew, ask' = ask
  PROVE  StartInv'
<1>k. /\ held \in [Start!Resources -> Nat] /\ twice \subseteq Start!Resources /\ pc = "w_new"
      /\ ask' = ask
      /\ UNCHANGED <<options, daemon, listen, worker>>
  BY DEF StartInv, StartTypes, Start!TypeOK, Start!WorkerNew, Start!Same
<1>i. /\ worker \in 1..MaxPool /\ MaxPool \in Nat /\ worker \in 1..daemon.worker_pool_size
      /\ fault = "none" /\ twice = {}
      /\ daemon.worker_pool_size # 0
      /\ \A r \in Kinds : <<r, worker>> \in {<<s, worker>> : s \in Kinds}
  BY <1>k, StartAssumption DEF StartInv, StartTypes, Chosen, Start!SizesAssumption, Blamed
<1>w. /\ ~ worker \in Started /\ Started = 1..worker - 1 /\ WorkerHeld(worker)
      /\ worker' = worker /\ pc' \in Workers \cup {"thread_failed"} => ~ worker' \in Started'
             /\ Started' = Started
  BY <1>k, <1>i DEF Started, StartInv, WorkersHeld
<1>l. \A w : daemon' = daemon => Start!WorkerLimit(w)' = Start!WorkerLimit(w)
  BY DEF Start!WorkerLimit
<1>1. ASSUME Start!Acquire(<<"new", worker>>, "w_itc") PROVE StartInv'
  <2>1. <<"new", worker>> \in Start!Resources /\ \A r \in Kinds : <<r, worker>> \in Start!Resources
    BY <1>i, ResourceNames
  <2>2. /\ held' \in [Start!Resources -> Nat] /\ twice' = twice /\ fault' = fault /\ pc' = "w_itc"
        /\ \A s \in Start!Resources : held'[s] = IF s = <<"new", worker>> THEN held[s] + 1
               ELSE held[s]
    BY <1>1, <1>k, <2>1, AcquireDoes
  <2>3. /\ \A r \in Own : held'[<<r, 0>>] = held[<<r, 0>>]
        /\ \A v \in 1..MaxPool \ {worker} : \A r \in Kinds : held'[<<r, v>>] = held[<<r, v>>]
    BY <1>i, <2>2, ResourceNames
  <2>4. WorkerHeld(worker)'
    BY <1>k, <1>i, <1>w, <2>1, <2>2 DEF WorkerHeld
  <2>5. twice' = {} /\ pc' = "w_itc" /\ fault' = fault /\ held' \in [Start!Resources -> Nat]
    BY <1>i, <2>2
  <2>11. (StartTypes /\ Blamed /\ Chosen /\ Start!IncrementFits)'
    BY <1>k, <1>i, <2>5, <2>3, <2>2
      DEF StartInv, StartTypes, Start!TypeOK, Blamed, WorkerFaults, Chosen, Start!IncrementFits
  <2>12. (OwnHeld /\ PollHeld)'
    BY <1>k, <1>i, <2>5, <2>3, ResourceNames DEF StartInv, OwnHeld, Chosen, PollHeld
  <2>13. ListenHeld'
    BY <1>k, <1>i, <2>5, <2>3, ResourceNames DEF StartInv, ListenHeld, Start!ClosedAgain, Chosen
  <2>14. WorkersHeld'
    BY <1>k, <1>i, <2>3, <2>4, <2>5, OthersUntouched
  <2>15. Prepared'
    BY <1>k, <1>i, <2>5, <2>3, ResourceNames, <1>l, <1>w DEF StartInv, Prepared, Started, Wakes
  <2>16. Start!ReleasedOnce'
    BY <2>5 DEF Start!ReleasedOnce
  <2>. QED BY <2>11, <2>12, <2>13, <2>14, <2>15, <2>16 DEF StartInv
<1>2. ASSUME Start!Fail("w_new", {<<"cleanup", worker>>}, "thread_failed") PROVE StartInv'
  <2>1. /\ {<<"cleanup", worker>>} \subseteq {<<r, worker>> : r \in Kinds} /\ {<<"cleanup",
               worker>>} \subseteq Start!Resources
        /\ \A r \in Kinds : <<r, worker>> \in Start!Resources
    BY <1>i, OfWorker, ResourceNames DEF Start!IfHeld
  <2>2. /\ held' \in [Start!Resources -> Nat] /\ twice' \subseteq Start!Resources
        /\ twice' = twice \cup {r \in {<<"cleanup", worker>>} : held[r] = 0}
        /\ fault' = "w_new" /\ pc' = "thread_failed"
        /\ \A r \in Start!Resources : held'[r] = IF r \in {<<"cleanup", worker>>}
               /\ held[r] > 0 THEN held[r] - 1 ELSE held[r]
    BY <1>2, <1>k, <2>1, ReleaseDoes DEF Start!Fail
  <2>3. /\ \A r \in Own : held'[<<r, 0>>] = held[<<r, 0>>]
        /\ \A v \in 1..MaxPool \ {worker} : \A r \in Kinds : held'[<<r, v>>] = held[<<r, v>>]
    <3>1. /\ \A r \in Own : <<r, 0>> \in Start!Resources /\ <<r, 0>> \notin {<<"cleanup", worker>>}
          /\ \A v \in 1..MaxPool \ {worker} : \A r \in Kinds : <<r, v>> \in Start!Resources
                 /\ <<r, v>> \notin {<<"cleanup", worker>>}
      BY <1>i, <2>1, OfWorker, ResourceNames
    <3>. QED BY <2>2, <3>1
  <2>6. \A r \in {<<"cleanup", worker>>} : held[r] = 1
    BY <1>k, <1>w DEF WorkerHeld, Start!IfHeld
  <2>4. WorkerHeld(worker)'
    <3>1. \A r \in Kinds : held'[<<r, worker>>] = IF <<r, worker>> \in {<<"cleanup",
              worker>>} THEN 0 ELSE held[<<r, worker>>]
      BY <2>1, <2>2, <2>6
    <3>. QED BY <1>k, <1>i, <1>w, <2>2, <3>1 DEF WorkerHeld, Start!IfHeld
  <2>5. twice' = {} /\ pc' = "thread_failed" /\ fault' = "w_new"
            /\ held' \in [Start!Resources -> Nat]
    BY <1>i, <2>2, <2>6
  <2>11. (StartTypes /\ Blamed /\ Chosen /\ Start!IncrementFits)'
    BY <1>k, <1>i, <2>5, <2>3, <2>2
      DEF StartInv, StartTypes, Start!TypeOK, Blamed, WorkerFaults, Chosen, Start!IncrementFits
  <2>12. (OwnHeld /\ PollHeld)'
    BY <1>k, <1>i, <2>5, <2>3, ResourceNames DEF StartInv, OwnHeld, Chosen, PollHeld
  <2>13. ListenHeld'
    BY <1>k, <1>i, <2>5, <2>3, ResourceNames DEF StartInv, ListenHeld, Start!ClosedAgain, Chosen
  <2>14. WorkersHeld'
    BY <1>k, <1>i, <2>3, <2>4, <2>5, OthersUntouched
  <2>15. Prepared'
    BY <1>k, <1>i, <2>5, <2>3, ResourceNames, <1>l, <1>w DEF StartInv, Prepared, Started, Wakes
  <2>16. Start!ReleasedOnce'
    BY <2>5 DEF Start!ReleasedOnce
  <2>. QED BY <2>11, <2>12, <2>13, <2>14, <2>15, <2>16 DEF StartInv
<1>. QED BY <1>1, <1>2 DEF Start!WorkerNew

LEMMA WorkerItcKeeps ==
  ASSUME StartInv, Start!WorkerItc, ask' = ask
  PROVE  StartInv'
<1>k. /\ held \in [Start!Resources -> Nat] /\ twice \subseteq Start!Resources /\ pc = "w_itc"
      /\ ask' = ask
      /\ UNCHANGED <<options, daemon, listen, worker>>
  BY DEF StartInv, StartTypes, Start!TypeOK, Start!WorkerItc, Start!Same
<1>i. /\ worker \in 1..MaxPool /\ MaxPool \in Nat /\ worker \in 1..daemon.worker_pool_size
      /\ fault = "none" /\ twice = {}
      /\ daemon.worker_pool_size # 0
      /\ \A r \in Kinds : <<r, worker>> \in {<<s, worker>> : s \in Kinds}
  BY <1>k, StartAssumption DEF StartInv, StartTypes, Chosen, Start!SizesAssumption, Blamed
<1>w. /\ ~ worker \in Started /\ Started = 1..worker - 1 /\ WorkerHeld(worker)
      /\ worker' = worker /\ pc' \in Workers \cup {"thread_failed"} => ~ worker' \in Started'
             /\ Started' = Started
  BY <1>k, <1>i DEF Started, StartInv, WorkersHeld
<1>l. \A w : daemon' = daemon => Start!WorkerLimit(w)' = Start!WorkerLimit(w)
  BY DEF Start!WorkerLimit
<1>1. ASSUME Start!Acquire(<<"itc", worker>>, "w_epoll"), Start!Has("ITC") PROVE StartInv'
  <2>1. <<"itc", worker>> \in Start!Resources /\ \A r \in Kinds : <<r, worker>> \in Start!Resources
    BY <1>i, ResourceNames
  <2>2. /\ held' \in [Start!Resources -> Nat] /\ twice' = twice /\ fault' = fault /\ pc' = "w_epoll"
        /\ \A s \in Start!Resources : held'[s] = IF s = <<"itc", worker>> THEN held[s] + 1
               ELSE held[s]
    BY <1>1, <1>k, <2>1, AcquireDoes
  <2>3. /\ \A r \in Own : held'[<<r, 0>>] = held[<<r, 0>>]
        /\ \A v \in 1..MaxPool \ {worker} : \A r \in Kinds : held'[<<r, v>>] = held[<<r, v>>]
    BY <1>i, <2>2, ResourceNames
  <2>4. WorkerHeld(worker)'
    BY <1>k, <1>i, <1>w, <2>1, <2>2, <1>1 DEF WorkerHeld
  <2>5. twice' = {} /\ pc' = "w_epoll" /\ fault' = fault /\ held' \in [Start!Resources -> Nat]
    BY <1>i, <2>2
  <2>11. (StartTypes /\ Blamed /\ Chosen /\ Start!IncrementFits)'
    BY <1>k, <1>i, <2>5, <2>3, <2>2
      DEF StartInv, StartTypes, Start!TypeOK, Blamed, WorkerFaults, Chosen, Start!IncrementFits
  <2>12. (OwnHeld /\ PollHeld)'
    BY <1>k, <1>i, <2>5, <2>3, ResourceNames DEF StartInv, OwnHeld, Chosen, PollHeld
  <2>13. ListenHeld'
    BY <1>k, <1>i, <2>5, <2>3, ResourceNames DEF StartInv, ListenHeld, Start!ClosedAgain, Chosen
  <2>14. WorkersHeld'
    BY <1>k, <1>i, <2>3, <2>4, <2>5, OthersUntouched
  <2>15. Prepared'
    BY <1>k, <1>i, <2>5, <2>3, ResourceNames, <1>l, <1>w DEF StartInv, Prepared, Started, Wakes
  <2>16. Start!ReleasedOnce'
    BY <2>5 DEF Start!ReleasedOnce
  <2>. QED BY <2>11, <2>12, <2>13, <2>14, <2>15, <2>16 DEF StartInv
<1>2. ASSUME Start!Fail("w_itc", {<<"new", worker>>, <<"cleanup", worker>>}, "thread_failed")
      PROVE  StartInv'
  <2>1. /\ {<<"new", worker>>, <<"cleanup", worker>>} \subseteq {<<r, worker>> : r \in Kinds}
        /\ {<<"new", worker>>, <<"cleanup", worker>>} \subseteq Start!Resources
        /\ \A r \in Kinds : <<r, worker>> \in Start!Resources
    BY <1>i, OfWorker, ResourceNames DEF Start!IfHeld
  <2>2. /\ held' \in [Start!Resources -> Nat] /\ twice' \subseteq Start!Resources
        /\ twice' = twice \cup {r \in {<<"new", worker>>, <<"cleanup", worker>>} : held[r] = 0}
        /\ fault' = "w_itc" /\ pc' = "thread_failed"
        /\ \A r \in Start!Resources : held'[r] = IF r \in {<<"new", worker>>, <<"cleanup",
               worker>>} /\ held[r] > 0 THEN held[r] - 1 ELSE held[r]
    BY <1>2, <1>k, <2>1, ReleaseDoes DEF Start!Fail
  <2>3. /\ \A r \in Own : held'[<<r, 0>>] = held[<<r, 0>>]
        /\ \A v \in 1..MaxPool \ {worker} : \A r \in Kinds : held'[<<r, v>>] = held[<<r, v>>]
    <3>1. /\ \A r \in Own : <<r, 0>> \in Start!Resources /\ <<r, 0>> \notin {<<"new", worker>>,
                 <<"cleanup", worker>>}
          /\ \A v \in 1..MaxPool \ {worker} : \A r \in Kinds : <<r, v>> \in Start!Resources
                 /\ <<r, v>> \notin {<<"new", worker>>, <<"cleanup", worker>>}
      BY <1>i, <2>1, OfWorker, ResourceNames
    <3>. QED BY <2>2, <3>1
  <2>6. \A r \in {<<"new", worker>>, <<"cleanup", worker>>} : held[r] = 1
    BY <1>k, <1>w DEF WorkerHeld, Start!IfHeld
  <2>4. WorkerHeld(worker)'
    <3>1. \A r \in Kinds : held'[<<r, worker>>] = IF <<r, worker>> \in {<<"new", worker>>,
              <<"cleanup", worker>>} THEN 0 ELSE held[<<r, worker>>]
      BY <2>1, <2>2, <2>6
    <3>. QED BY <1>k, <1>i, <1>w, <2>2, <3>1 DEF WorkerHeld, Start!IfHeld
  <2>5. twice' = {} /\ pc' = "thread_failed" /\ fault' = "w_itc"
            /\ held' \in [Start!Resources -> Nat]
    BY <1>i, <2>2, <2>6
  <2>11. (StartTypes /\ Blamed /\ Chosen /\ Start!IncrementFits)'
    BY <1>k, <1>i, <2>5, <2>3, <2>2
      DEF StartInv, StartTypes, Start!TypeOK, Blamed, WorkerFaults, Chosen, Start!IncrementFits
  <2>12. (OwnHeld /\ PollHeld)'
    BY <1>k, <1>i, <2>5, <2>3, ResourceNames DEF StartInv, OwnHeld, Chosen, PollHeld
  <2>13. ListenHeld'
    BY <1>k, <1>i, <2>5, <2>3, ResourceNames DEF StartInv, ListenHeld, Start!ClosedAgain, Chosen
  <2>14. WorkersHeld'
    BY <1>k, <1>i, <2>3, <2>4, <2>5, OthersUntouched
  <2>15. Prepared'
    BY <1>k, <1>i, <2>5, <2>3, ResourceNames, <1>l, <1>w DEF StartInv, Prepared, Started, Wakes
  <2>16. Start!ReleasedOnce'
    BY <2>5 DEF Start!ReleasedOnce
  <2>. QED BY <2>11, <2>12, <2>13, <2>14, <2>15, <2>16 DEF StartInv
<1>3. ASSUME Start!Skip("w_epoll"), ~ Start!Has("ITC") PROVE StartInv'
  <2>2. held' = held /\ twice' = twice /\ fault' = fault /\ pc' = "w_epoll"
    BY <1>3 DEF Start!Skip
  <2>3. /\ \A r \in Own : held'[<<r, 0>>] = held[<<r, 0>>]
        /\ \A v \in 1..MaxPool \ {worker} : \A r \in Kinds : held'[<<r, v>>] = held[<<r, v>>]
    BY <2>2
  <2>4. WorkerHeld(worker)'
    BY <1>3, <1>k, <1>i, <1>w, <2>2 DEF WorkerHeld
  <2>5. twice' = {} /\ pc' = "w_epoll" /\ fault' = fault /\ held' \in [Start!Resources -> Nat]
    BY <1>k, <1>i, <2>2
  <2>11. (StartTypes /\ Blamed /\ Chosen /\ Start!IncrementFits)'
    BY <1>k, <1>i, <2>5, <2>3, <2>2
      DEF StartInv, StartTypes, Start!TypeOK, Blamed, WorkerFaults, Chosen, Start!IncrementFits
  <2>12. (OwnHeld /\ PollHeld)'
    BY <1>k, <1>i, <2>5, <2>3, ResourceNames DEF StartInv, OwnHeld, Chosen, PollHeld
  <2>13. ListenHeld'
    BY <1>k, <1>i, <2>5, <2>3, ResourceNames DEF StartInv, ListenHeld, Start!ClosedAgain, Chosen
  <2>14. WorkersHeld'
    BY <1>k, <1>i, <2>3, <2>4, <2>5, OthersUntouched
  <2>15. Prepared'
    BY <1>k, <1>i, <2>5, <2>3, ResourceNames, <1>l, <1>w DEF StartInv, Prepared, Started, Wakes
  <2>16. Start!ReleasedOnce'
    BY <2>5 DEF Start!ReleasedOnce
  <2>. QED BY <2>11, <2>12, <2>13, <2>14, <2>15, <2>16 DEF StartInv
<1>. QED BY <1>1, <1>2, <1>3 DEF Start!WorkerItc

LEMMA WorkerEpollKeeps ==
  ASSUME StartInv, Start!WorkerEpoll, ask' = ask
  PROVE  StartInv'
<1>k. /\ held \in [Start!Resources -> Nat] /\ twice \subseteq Start!Resources /\ pc = "w_epoll"
      /\ ask' = ask
      /\ UNCHANGED <<options, listen, worker>>
  BY DEF StartInv, StartTypes, Start!TypeOK, Start!WorkerEpoll
<1>i. /\ worker \in 1..MaxPool /\ MaxPool \in Nat /\ worker \in 1..daemon.worker_pool_size
      /\ fault = "none" /\ twice = {}
      /\ daemon.worker_pool_size # 0
      /\ \A r \in Kinds : <<r, worker>> \in {<<s, worker>> : s \in Kinds}
  BY <1>k, StartAssumption DEF StartInv, StartTypes, Chosen, Start!SizesAssumption, Blamed
<1>w. /\ ~ worker \in Started /\ Started = 1..worker - 1 /\ WorkerHeld(worker)
      /\ worker' = worker /\ pc' \in Workers \cup {"thread_failed"} => ~ worker' \in Started'
             /\ Started' = Started
  BY <1>k, <1>i DEF Started, StartInv, WorkersHeld
<1>d. /\ daemon' = [daemon EXCEPT !.limit[worker] = Start!WorkerLimit(worker), !.polled[worker] =
             Start!Polled(worker)]
      /\ Start!WorkerLimit(worker) \in Nat /\ Start!Polled(worker) \subseteq {"listen", "itc"}
  <2>1. daemon.connection_limit \in Nat /\ daemon.worker_pool_size \in Nat
            /\ daemon.worker_pool_size > 0
    BY <1>i DEF StartInv, StartTypes
  <2>2. daemon.connection_limit \div daemon.worker_pool_size \in Nat
    BY <2>1
  <2>3. Start!WorkerLimit(worker) \in Nat
    BY <2>2 DEF Start!WorkerLimit
  <2>4. Start!Polled(worker) \subseteq {"listen", "itc"}
    BY DEF Start!Polled
  <2>. QED BY <2>3, <2>4 DEF Start!WorkerEpoll
<1>e. /\ daemon'.limit = [daemon.limit EXCEPT ![worker] = Start!WorkerLimit(worker)]
      /\ daemon'.polled = [daemon.polled EXCEPT ![worker] = Start!Polled(worker)]
      /\ daemon'.listen_fd = daemon.listen_fd
      /\ daemon'.priority_cache = daemon.priority_cache /\ daemon'.worker_pool_size =
             daemon.worker_pool_size
      /\ daemon'.was_quiesced = daemon.was_quiesced /\ daemon'.pool_size = daemon.pool_size
      /\ daemon'.pool_increment = daemon.pool_increment
      /\ daemon'.connection_limit = daemon.connection_limit
      /\ daemon.limit \in [1..MaxPool -> Nat]
      /\ daemon.polled \in [0..MaxPool -> SUBSET {"listen", "itc"}]
  BY <1>d DEF StartInv, StartTypes
<1>f. /\ \A w \in 1..MaxPool \ {worker} : daemon'.limit[w] = daemon.limit[w]
             /\ daemon'.polled[w] = daemon.polled[w]
      /\ daemon'.polled[0] = daemon.polled[0]
      /\ daemon'.limit[worker] = Start!WorkerLimit(worker) /\ daemon'.polled[worker] =
             Start!Polled(worker)
      /\ \A w : Start!WorkerLimit(w)' = Start!WorkerLimit(w)
  <2>1. worker \in 0..MaxPool /\ worker # 0
    BY <1>i
  <2>2. \A w : Start!WorkerLimit(w)' = Start!WorkerLimit(w)
    BY <1>e DEF Start!WorkerLimit
  <2>. QED BY <1>e, <1>i, <2>1, <2>2
<1>1. ASSUME held' = Start!WithEpoll(held, worker, Start!EpollSets),
             pc' = "w_thread",
             twice' = twice,
             fault' = fault
      PROVE  StartInv'
  <2>1. Start!EpollSets \subseteq {"epoll", "epoll_upgrade"} /\ \A r \in Kinds : <<r,
            worker>> \in Start!Resources
    BY <1>i, ResourceNames DEF Start!EpollSets
  <2>2. /\ held' \in [Start!Resources -> Nat] /\ twice' = twice /\ fault' = fault
        /\ pc' = "w_thread"
        /\ \A r \in Start!Resources : held'[r] = IF r \in {<<e,
               worker>> : e \in Start!EpollSets} THEN 1 ELSE held[r]
    BY <1>1, <1>k DEF Start!WithEpoll
  <2>3. /\ \A r \in Own : held'[<<r, 0>>] = held[<<r, 0>>]
        /\ \A v \in 1..MaxPool \ {worker} : \A r \in Kinds : held'[<<r, v>>] = held[<<r, v>>]
    <3>1. {<<e, worker>> : e \in Start!EpollSets} \subseteq {<<r, worker>> : r \in Kinds}
      BY <2>1
    <3>. DEFINE rs == {<<e, worker>> : e \in Start!EpollSets}
    <3>2. /\ \A r \in Own : <<r, 0>> \in Start!Resources /\ <<r, 0>> \notin rs
          /\ \A v \in 1..MaxPool \ {worker} : \A r \in Kinds : <<r, v>> \in Start!Resources
                 /\ <<r, v>> \notin rs
      BY <1>i, <3>1, OfWorker, ResourceNames
    <3>. QED BY <2>2, <3>2
  <2>4. WorkerHeld(worker)'
    <3>1. /\ \A r \in Kinds \ {"epoll", "epoll_upgrade"} : held'[<<r, worker>>] = held[<<r,
                 worker>>]
          /\ \A r \in {"epoll", "epoll_upgrade"} : held'[<<r, worker>>] \in {1, held[<<r, worker>>]}
      BY <2>1, <2>2
    <3>. QED BY <1>k, <1>i, <1>w, <2>2, <3>1 DEF WorkerHeld
  <2>5. twice' = {} /\ pc' = "w_thread" /\ fault' = fault /\ held' \in [Start!Resources -> Nat]
    BY <1>i, <2>2
  <2>11. (Blamed /\ Chosen /\ Start!IncrementFits)'
    BY <1>k, <1>i, <2>5, <2>3, <1>e DEF StartInv, Blamed, WorkerFaults, Chosen, Start!IncrementFits
  <2>12. StartTypes'
    BY <1>k, <1>i, <1>d, <2>5 DEF StartInv, StartTypes, Start!TypeOK
  <2>13. (OwnHeld /\ PollHeld)'
    BY <1>k, <1>i, <2>5, <2>3, <1>e, ResourceNames DEF StartInv, OwnHeld, Chosen, PollHeld
  <2>14. ListenHeld'
    BY <1>k, <1>i, <2>5, <2>3, <1>e, ResourceNames DEF StartInv, ListenHeld, Start!ClosedAgain,
        Chosen
  <2>15. WorkersHeld'
    BY <1>k, <1>i, <2>3, <2>4, <2>5, OthersUntouched
  <2>16. Prepared'
    <3>1. ASSUME NEW w \in 1..daemon.worker_pool_size, w \in Started \/ w = worker
          PROVE  Wakes(w)' /\ daemon'.limit[w] = Start!WorkerLimit(w)'
      <4>1. CASE w = worker
        BY <1>k, <1>e, <1>f, <1>i, <1>w, <4>1 DEF Wakes, Start!Polled, WorkerHeld
      <4>2. CASE w # worker
        <5>1. w \in Started /\ w \in 1..MaxPool \ {worker}
          BY <1>i, <3>1, <4>2 DEF StartInv, StartTypes
        <5>2. Wakes(w) /\ daemon.limit[w] = Start!WorkerLimit(w)
          BY <1>k, <5>1 DEF StartInv, Prepared
        <5>. QED BY <1>k, <1>e, <1>f, <5>1, <5>2 DEF Wakes
      <4>. QED BY <4>1, <4>2
    <3>. QED BY <1>k, <1>i, <1>e, <1>w, <2>5, <3>1 DEF Prepared
  <2>17. Start!ReleasedOnce'
    BY <2>5 DEF Start!ReleasedOnce
  <2>. QED BY <2>11, <2>12, <2>13, <2>14, <2>15, <2>16, <2>17 DEF StartInv
<1>2. ASSUME NEW made \in Start!EpollBroken,
             fault' = "w_epoll",
             pc' = "thread_failed",
             twice' = Start!Released((Start!IfHeld({<<"itc", worker>>}) \cup {<<"new", worker>>,
                 <<"cleanup", worker>>})).twice,
             held' = Start!WithEpoll(Start!Released((Start!IfHeld({<<"itc", worker>>})
                 \cup {<<"new", worker>>, <<"cleanup", worker>>})).held, worker, made)
      PROVE  StartInv'
  <2>1. made \subseteq {"epoll", "epoll_upgrade"} /\ \A r \in Kinds : <<r,
            worker>> \in Start!Resources
    BY <1>i, ResourceNames DEF Start!EpollSets, Start!EpollBroken
  <2>. DEFINE us == (Start!IfHeld({<<"itc", worker>>}) \cup {<<"new", worker>>, <<"cleanup",
                  worker>>})
              rs == {<<e, worker>> : e \in made}
  <2>7. us \subseteq {<<r, worker>> : r \in Kinds} /\ rs \subseteq {<<r, worker>> : r \in Kinds}
    BY <1>i, <2>1 DEF Start!IfHeld
  <2>2. /\ held' \in [Start!Resources -> Nat] /\ fault' = "w_epoll" /\ pc' = "thread_failed"
        /\ twice' = twice \cup {r \in us : held[r] = 0}
        /\ \A r \in Start!Resources :
             held'[r] = IF r \in rs THEN 1 ELSE IF r \in us /\ held[r] > 0 THEN held[r] - 1
                 ELSE held[r]
    BY <1>2, <1>k DEF Start!WithEpoll, Start!Released
  <2>3. /\ \A r \in Own : held'[<<r, 0>>] = held[<<r, 0>>]
        /\ \A v \in 1..MaxPool \ {worker} : \A r \in Kinds : held'[<<r, v>>] = held[<<r, v>>]
    <3>. HIDE DEF us, rs
    <3>1. /\ \A r \in Own : <<r, 0>> \notin us
          /\ \A v \in 1..MaxPool \ {worker} : \A r \in Kinds : <<r, v>> \notin us
      BY <1>i, <2>7, OfWorker
    <3>2. /\ \A r \in Own : <<r, 0>> \notin rs
          /\ \A v \in 1..MaxPool \ {worker} : \A r \in Kinds : <<r, v>> \notin rs
      BY <1>i, <2>7, OfWorker
    <3>. QED BY <2>2, <3>1, <3>2, ResourceNames
  <2>6. \A r \in us : held[r] = 1
    BY <1>k, <1>w DEF WorkerHeld, Start!IfHeld
  <2>4. WorkerHeld(worker)'
    <3>1. \A r \in {"thread", "cleanup", "new", "itc"} :
            held'[<<r, worker>>] = IF <<r, worker>> \in us THEN 0 ELSE held[<<r, worker>>]
      <4>1. \A r \in {"thread", "cleanup", "new", "itc"} : <<r, worker>> \notin rs
                /\ <<r, worker>> \in Start!Resources
        BY <2>1
      <4>. HIDE DEF us, rs
      <4>. QED BY <2>2, <2>6, <4>1
    <3>2. \A r \in {"epoll", "epoll_upgrade"} : held'[<<r, worker>>] \in {1, held[<<r, worker>>]}
      BY <2>1, <2>2 DEF Start!IfHeld
    <3>. QED BY <1>k, <1>i, <1>w, <2>2, <3>1, <3>2 DEF WorkerHeld, Start!IfHeld
  <2>5. twice' = {} /\ pc' = "thread_failed" /\ fault' = "w_epoll"
            /\ held' \in [Start!Resources -> Nat]
    <3>. HIDE DEF us, rs
    <3>. QED BY <1>i, <2>2, <2>6
  <2>11. (Blamed /\ Chosen /\ Start!IncrementFits)'
    BY <1>k, <1>i, <2>5, <2>3, <1>e DEF StartInv, Blamed, WorkerFaults, Chosen, Start!IncrementFits
  <2>12. StartTypes'
    BY <1>k, <1>i, <1>d, <2>5 DEF StartInv, StartTypes, Start!TypeOK
  <2>13. OwnHeld'
    BY <1>k, <1>i, <2>5, <2>3, <1>e, ResourceNames DEF StartInv, OwnHeld, Chosen
  <2>14. PollHeld'
    BY <1>k, <1>i, <2>5, <2>3, <1>e, ResourceNames DEF StartInv, PollHeld
  <2>15. ListenHeld'
    BY <1>k, <1>i, <2>5, <2>3, <1>e, ResourceNames DEF StartInv, ListenHeld, Start!ClosedAgain,
        Chosen
  <2>16. WorkersHeld'
    BY <1>k, <1>i, <2>3, <2>4, <2>5, OthersUntouched
  <2>17. Prepared'
    BY <1>k, <1>i, <1>e, <2>5 DEF Prepared
  <2>18. Start!ReleasedOnce'
    BY <2>5 DEF Start!ReleasedOnce
  <2>. QED BY <2>11, <2>12, <2>13, <2>14, <2>15, <2>16, <2>17, <2>18 DEF StartInv
<1>3. ASSUME Start!Skip("w_thread") PROVE StartInv'
  <2>2. held' = held /\ twice' = twice /\ fault' = fault /\ pc' = "w_thread"
    BY <1>3 DEF Start!Skip
  <2>3. /\ \A r \in Own : held'[<<r, 0>>] = held[<<r, 0>>]
        /\ \A v \in 1..MaxPool \ {worker} : \A r \in Kinds : held'[<<r, v>>] = held[<<r, v>>]
    BY <2>2
  <2>4. WorkerHeld(worker)'
    BY <1>3, <1>k, <1>i, <1>w, <2>2 DEF WorkerHeld
  <2>5. twice' = {} /\ pc' = "w_thread" /\ fault' = fault /\ held' \in [Start!Resources -> Nat]
    BY <1>k, <1>i, <2>2
  <2>11. (Blamed /\ Chosen /\ Start!IncrementFits)'
    BY <1>k, <1>i, <2>5, <2>3, <1>e DEF StartInv, Blamed, WorkerFaults, Chosen, Start!IncrementFits
  <2>12. StartTypes'
    BY <1>k, <1>i, <1>d, <2>5 DEF StartInv, StartTypes, Start!TypeOK
  <2>13. (OwnHeld /\ PollHeld)'
    BY <1>k, <1>i, <2>5, <2>3, <1>e, ResourceNames DEF StartInv, OwnHeld, Chosen, PollHeld
  <2>14. ListenHeld'
    BY <1>k, <1>i, <2>5, <2>3, <1>e, ResourceNames DEF StartInv, ListenHeld, Start!ClosedAgain,
        Chosen
  <2>15. WorkersHeld'
    BY <1>k, <1>i, <2>3, <2>4, <2>5, OthersUntouched
  <2>16. Prepared'
    <3>1. ASSUME NEW w \in 1..daemon.worker_pool_size, w \in Started \/ w = worker
          PROVE  Wakes(w)' /\ daemon'.limit[w] = Start!WorkerLimit(w)'
      <4>1. CASE w = worker
        BY <1>k, <1>e, <1>f, <1>i, <1>w, <4>1 DEF Wakes, Start!Polled, WorkerHeld
      <4>2. CASE w # worker
        <5>1. w \in Started /\ w \in 1..MaxPool \ {worker}
          BY <1>i, <3>1, <4>2 DEF StartInv, StartTypes
        <5>2. Wakes(w) /\ daemon.limit[w] = Start!WorkerLimit(w)
          BY <1>k, <5>1 DEF StartInv, Prepared
        <5>. QED BY <1>k, <1>e, <1>f, <5>1, <5>2 DEF Wakes
      <4>. QED BY <4>1, <4>2
    <3>. QED BY <1>k, <1>i, <1>e, <1>w, <2>5, <3>1 DEF Prepared
  <2>17. Start!ReleasedOnce'
    BY <2>5 DEF Start!ReleasedOnce
  <2>. QED BY <2>11, <2>12, <2>13, <2>14, <2>15, <2>16, <2>17 DEF StartInv
<1>. QED BY <1>1, <1>2, <1>3 DEF Start!WorkerEpoll

LEMMA WorkerThreadKeeps ==
  ASSUME StartInv, Start!WorkerThread, ask' = ask
  PROVE  StartInv'
<1>k. /\ held \in [Start!Resources -> Nat] /\ twice \subseteq Start!Resources
      /\ pc = "w_thread" /\ ask' = ask
      /\ UNCHANGED <<options, daemon, listen>>
  BY DEF StartInv, StartTypes, Start!TypeOK, Start!WorkerThread
<1>i. /\ worker \in 1..MaxPool /\ MaxPool \in Nat /\ worker \in 1..daemon.worker_pool_size
      /\ fault = "none" /\ twice = {}
      /\ daemon.worker_pool_size # 0
      /\ \A r \in Kinds : <<r, worker>> \in {<<s, worker>> : s \in Kinds}
  BY <1>k, StartAssumption DEF StartInv, StartTypes, Chosen, Start!SizesAssumption, Blamed
<1>w. /\ ~ worker \in Started /\ Started = 1..worker - 1 /\ WorkerHeld(worker)
      /\ worker' = worker /\ pc' \in Workers \cup {"thread_failed"} => ~ worker' \in Started'
             /\ Started' = Started
  BY <1>k, <1>i DEF Started, StartInv, WorkersHeld
<1>l. \A w : daemon' = daemon => Start!WorkerLimit(w)' = Start!WorkerLimit(w)
  BY DEF Start!WorkerLimit
<1>1. ASSUME worker < daemon.worker_pool_size,
             Start!Acquire(<<"thread", worker>>, "w_cleanup"),
             worker' = worker + 1
      PROVE  StartInv'
  <2>1. <<"thread", worker>> \in Start!Resources /\ \A r \in Kinds : <<r,
            worker>> \in Start!Resources
    BY <1>i, ResourceNames
  <2>2. /\ held' \in [Start!Resources -> Nat] /\ twice' = twice /\ fault' = fault
        /\ pc' = "w_cleanup"
        /\ \A s \in Start!Resources : held'[s] = IF s = <<"thread", worker>> THEN held[s] + 1
               ELSE held[s]
    BY <1>1, <1>k, <2>1, AcquireDoes
  <2>3. /\ \A r \in Own : held'[<<r, 0>>] = held[<<r, 0>>]
        /\ \A v \in 1..MaxPool \ {worker} : \A r \in Kinds : held'[<<r, v>>] = held[<<r, v>>]
        /\ \A r \in Kinds \ {"thread"} : held'[<<r, worker>>] = held[<<r, worker>>]
        /\ held'[<<"thread", worker>>] = held[<<"thread", worker>>] + 1
    BY <1>i, <2>1, <2>2, ResourceNames
  <2>4. Started' = 1..worker
    BY <1>1, <1>k, <1>i, <2>2 DEF Started
  <2>5. twice' = {} /\ pc' = "w_cleanup" /\ fault' = fault /\ held' \in [Start!Resources -> Nat]
    BY <1>i, <2>2
  <2>8. worker' \in 1..daemon.worker_pool_size /\ worker' \in 0..MaxPool
    BY <1>1, <1>i DEF StartInv, StartTypes
  <2>6. WorkersHeld'
    <3>. SUFFICES ASSUME NEW w \in 1..MaxPool PROVE WorkerHeld(w)'
      BY DEF WorkersHeld
    <3>1. WorkerHeld(w)
      BY DEF StartInv, WorkersHeld
    <3>2. CASE w = worker
      <4>1. /\ held[<<"thread", worker>>] = 0 /\ held[<<"cleanup", worker>>] = 1 /\ held[<<"new",
                   worker>>] = 1
            /\ held[<<"itc", worker>>] = IF Start!Has("ITC") THEN 1 ELSE 0
            /\ \A e \in {"epoll", "epoll_upgrade"} : held[<<e, worker>>] \in {0, 1}
        BY <1>k, <1>w DEF WorkerHeld
      <4>2. w \in Started'
        BY <1>i, <2>4, <3>2
      <4>3. /\ held'[<<"thread", worker>>] = 1 /\ held'[<<"cleanup", worker>>] = 1
            /\ held'[<<"new", worker>>] = 1
            /\ held'[<<"itc", worker>>] = IF "ITC" \in options' THEN 1 ELSE 0
            /\ \A e \in {"epoll", "epoll_upgrade"} : held'[<<e, worker>>] \in {0, 1}
        <5>1. /\ \A r \in {"cleanup", "new", "itc", "epoll", "epoll_upgrade"} : held'[<<r,
                     worker>>] = held[<<r, worker>>]
              /\ held'[<<"thread", worker>>] = held[<<"thread", worker>>] + 1
          BY <2>3
        <5>. QED BY <1>k, <4>1, <5>1
      <4>4. /\ held'[<<"thread", w>>] = 1 /\ held'[<<"cleanup", w>>] = 1 /\ held'[<<"new", w>>] = 1
            /\ held'[<<"itc", w>>] = IF "ITC" \in options' THEN 1 ELSE 0
            /\ \A e \in {"epoll", "epoll_upgrade"} : held'[<<e, w>>] \in {0, 1}
        BY <3>2, <4>3
      <4>. QED BY <4>2, <4>4 DEF WorkerHeld
    <3>3. CASE w # worker
      <4>1. \A r \in Kinds : held'[<<r, w>>] = held[<<r, w>>]
        BY <2>3, <3>3
      <4>2. (w \in Started' <=> w \in Started) /\ (pc' = "w_cleanup" \/ pc' \notin Workers)
        BY <1>i, <1>w, <2>4, <2>5, <3>3
      <4>. QED BY <1>k, <1>i, <2>5, <3>1, <3>3, <4>1, <4>2 DEF WorkerHeld
    <3>. QED BY <3>2, <3>3
  <2>7. Prepared'
    <3>1. ASSUME NEW w \in 1..worker PROVE w \in 1..daemon.worker_pool_size /\ (w \in Started
              \/ w = worker)
      BY <1>i, <1>w DEF StartInv, StartTypes
    <3>2. ASSUME NEW w \in 1..worker PROVE Wakes(w)' /\ daemon'.limit[w] = Start!WorkerLimit(w)'
      BY <1>k, <1>l, <3>1 DEF StartInv, Prepared, Wakes
    <3>. QED BY <1>k, <1>i, <2>4, <2>5, <3>2 DEF StartInv, Prepared, Wakes
  <2>11. (StartTypes /\ Blamed /\ Chosen /\ Start!IncrementFits)'
    BY <1>k, <1>i, <2>5, <2>3, <2>8
      DEF StartInv, StartTypes, Start!TypeOK, Chosen, Blamed, WorkerFaults, Start!IncrementFits
  <2>12. (OwnHeld /\ PollHeld)'
    BY <1>k, <1>i, <2>5, <2>3, <2>8, ResourceNames DEF StartInv, OwnHeld, Chosen, PollHeld
  <2>13. ListenHeld'
    BY <1>k, <1>i, <2>5, <2>3, <2>8, ResourceNames DEF StartInv, ListenHeld, Start!ClosedAgain,
        Chosen
  <2>14. Start!ReleasedOnce'
    BY <2>5 DEF Start!ReleasedOnce
  <2>. QED BY <2>6, <2>7, <2>11, <2>12, <2>13, <2>14 DEF StartInv
<1>2. ASSUME worker = daemon.worker_pool_size,
             Start!Acquire(<<"thread", worker>>, "running"),
             worker' = worker
      PROVE  StartInv'
  <2>1. <<"thread", worker>> \in Start!Resources /\ \A r \in Kinds : <<r,
            worker>> \in Start!Resources
    BY <1>i, ResourceNames
  <2>2. /\ held' \in [Start!Resources -> Nat] /\ twice' = twice /\ fault' = fault /\ pc' = "running"
        /\ \A s \in Start!Resources : held'[s] = IF s = <<"thread", worker>> THEN held[s] + 1
               ELSE held[s]
    BY <1>2, <1>k, <2>1, AcquireDoes
  <2>3. /\ \A r \in Own : held'[<<r, 0>>] = held[<<r, 0>>]
        /\ \A v \in 1..MaxPool \ {worker} : \A r \in Kinds : held'[<<r, v>>] = held[<<r, v>>]
        /\ \A r \in Kinds \ {"thread"} : held'[<<r, worker>>] = held[<<r, worker>>]
        /\ held'[<<"thread", worker>>] = held[<<"thread", worker>>] + 1
    BY <1>i, <2>1, <2>2, ResourceNames
  <2>4. Started' = 1..worker
    BY <1>2, <1>k, <1>i, <2>2 DEF Started
  <2>5. twice' = {} /\ pc' = "running" /\ fault' = fault /\ held' \in [Start!Resources -> Nat]
    BY <1>i, <2>2
  <2>8. worker' \in 1..daemon.worker_pool_size /\ worker' \in 0..MaxPool
    BY <1>2, <1>i DEF StartInv, StartTypes
  <2>6. WorkersHeld'
    <3>. SUFFICES ASSUME NEW w \in 1..MaxPool PROVE WorkerHeld(w)'
      BY DEF WorkersHeld
    <3>1. WorkerHeld(w)
      BY DEF StartInv, WorkersHeld
    <3>2. CASE w = worker
      <4>1. /\ held[<<"thread", worker>>] = 0 /\ held[<<"cleanup", worker>>] = 1 /\ held[<<"new",
                   worker>>] = 1
            /\ held[<<"itc", worker>>] = IF Start!Has("ITC") THEN 1 ELSE 0
            /\ \A e \in {"epoll", "epoll_upgrade"} : held[<<e, worker>>] \in {0, 1}
        BY <1>k, <1>w DEF WorkerHeld
      <4>2. w \in Started'
        BY <1>i, <2>4, <3>2
      <4>3. /\ held'[<<"thread", worker>>] = 1 /\ held'[<<"cleanup", worker>>] = 1
            /\ held'[<<"new", worker>>] = 1
            /\ held'[<<"itc", worker>>] = IF "ITC" \in options' THEN 1 ELSE 0
            /\ \A e \in {"epoll", "epoll_upgrade"} : held'[<<e, worker>>] \in {0, 1}
        <5>1. /\ \A r \in {"cleanup", "new", "itc", "epoll", "epoll_upgrade"} : held'[<<r,
                     worker>>] = held[<<r, worker>>]
              /\ held'[<<"thread", worker>>] = held[<<"thread", worker>>] + 1
          BY <2>3
        <5>. QED BY <1>k, <4>1, <5>1
      <4>4. /\ held'[<<"thread", w>>] = 1 /\ held'[<<"cleanup", w>>] = 1 /\ held'[<<"new", w>>] = 1
            /\ held'[<<"itc", w>>] = IF "ITC" \in options' THEN 1 ELSE 0
            /\ \A e \in {"epoll", "epoll_upgrade"} : held'[<<e, w>>] \in {0, 1}
        BY <3>2, <4>3
      <4>. QED BY <4>2, <4>4 DEF WorkerHeld
    <3>3. CASE w # worker
      <4>1. \A r \in Kinds : held'[<<r, w>>] = held[<<r, w>>]
        BY <2>3, <3>3
      <4>2. (w \in Started' <=> w \in Started) /\ (pc' = "w_cleanup" \/ pc' \notin Workers)
        BY <1>i, <1>w, <2>4, <2>5, <3>3
      <4>. QED BY <1>k, <1>i, <2>5, <3>1, <3>3, <4>1, <4>2 DEF WorkerHeld
    <3>. QED BY <3>2, <3>3
  <2>7. Prepared'
    <3>1. ASSUME NEW w \in 1..worker PROVE w \in 1..daemon.worker_pool_size /\ (w \in Started
              \/ w = worker)
      BY <1>i, <1>w DEF StartInv, StartTypes
    <3>2. ASSUME NEW w \in 1..worker PROVE Wakes(w)' /\ daemon'.limit[w] = Start!WorkerLimit(w)'
      BY <1>k, <1>l, <3>1 DEF StartInv, Prepared, Wakes
    <3>. QED BY <1>k, <1>i, <2>4, <2>5, <3>2 DEF StartInv, Prepared, Wakes
  <2>11. (StartTypes /\ Blamed /\ Chosen /\ Start!IncrementFits)'
    BY <1>k, <1>i, <2>5, <2>3, <2>8
      DEF StartInv, StartTypes, Start!TypeOK, Chosen, Blamed, WorkerFaults, Start!IncrementFits
  <2>12. (OwnHeld /\ PollHeld)'
    BY <1>k, <1>i, <2>5, <2>3, <2>8, ResourceNames DEF StartInv, OwnHeld, Chosen, PollHeld
  <2>13. ListenHeld'
    BY <1>k, <1>i, <2>5, <2>3, <2>8, ResourceNames DEF StartInv, ListenHeld, Start!ClosedAgain,
        Chosen
  <2>14. Start!ReleasedOnce'
    BY <2>5 DEF Start!ReleasedOnce
  <2>. QED BY <2>6, <2>7, <2>11, <2>12, <2>13, <2>14 DEF StartInv
<1>3. ASSUME fault' = "w_thread",
             pc' = "thread_failed",
             worker' = worker,
             held' = Start!Released((Start!IfHeld({<<"itc", worker>>}) \cup {<<"new", worker>>,
                 <<"cleanup", worker>>})).held,
             twice' = Start!Released((Start!IfHeld({<<"itc", worker>>}) \cup {<<"new", worker>>,
                 <<"cleanup", worker>>})).twice \cup {<<"cleanup", worker>>}
      PROVE  StartInv'
  <2>1. \A r \in Kinds : <<r, worker>> \in Start!Resources
    BY <1>i, ResourceNames
  <2>. DEFINE us == (Start!IfHeld({<<"itc", worker>>}) \cup {<<"new", worker>>, <<"cleanup",
                  worker>>})
  <2>7. us \subseteq {<<r, worker>> : r \in Kinds}
    BY <1>i DEF Start!IfHeld
  <2>2. /\ held' \in [Start!Resources -> Nat] /\ fault' = "w_thread" /\ pc' = "thread_failed"
        /\ worker' = worker
        /\ twice' = twice \cup {r \in us : held[r] = 0} \cup {<<"cleanup", worker>>}
        /\ \A r \in Start!Resources : held'[r] = IF r \in us /\ held[r] > 0 THEN held[r] - 1
               ELSE held[r]
    BY <1>3, <1>k DEF Start!Released
  <2>3. /\ \A r \in Own : held'[<<r, 0>>] = held[<<r, 0>>]
        /\ \A v \in 1..MaxPool \ {worker} : \A r \in Kinds : held'[<<r, v>>] = held[<<r, v>>]
    <3>. HIDE DEF us
    <3>1. /\ \A r \in Own : <<r, 0>> \notin us
          /\ \A v \in 1..MaxPool \ {worker} : \A r \in Kinds : <<r, v>> \notin us
      BY <1>i, <2>7, OfWorker
    <3>. QED BY <2>2, <3>1, ResourceNames
  <2>6. \A r \in us : held[r] = 1
    BY <1>k, <1>w DEF WorkerHeld, Start!IfHeld
  <2>5. twice' = {<<"cleanup", worker>>} /\ pc' = "thread_failed" /\ fault' = "w_thread"
            /\ worker' = worker
        /\ held' \in [Start!Resources -> Nat]
    <3>. HIDE DEF us
    <3>. QED BY <1>i, <2>2, <2>6
  <2>4. WorkerHeld(worker)'
    <3>1. \A r \in Kinds : held'[<<r, worker>>] = IF <<r, worker>> \in us THEN 0 ELSE held[<<r,
              worker>>]
      <4>. HIDE DEF us
      <4>. QED BY <2>1, <2>2, <2>6
    <3>. QED BY <1>k, <1>i, <1>w, <2>2, <3>1 DEF WorkerHeld, Start!IfHeld
  <2>11. (StartTypes /\ Blamed /\ Chosen /\ Start!IncrementFits)'
    BY <1>k, <1>i, <2>5, <2>3, <2>1
      DEF StartInv, StartTypes, Start!TypeOK, Blamed, WorkerFaults, Chosen, Start!IncrementFits
  <2>12. (OwnHeld /\ PollHeld)'
    BY <1>k, <1>i, <2>5, <2>3, ResourceNames DEF StartInv, OwnHeld, Chosen, PollHeld
  <2>13. ListenHeld'
    BY <1>k, <1>i, <2>5, <2>3, ResourceNames DEF StartInv, ListenHeld, Start!ClosedAgain, Chosen
  <2>14. WorkersHeld'
    BY <1>k, <1>i, <2>3, <2>4, <2>5, OthersUntouched
  <2>15. Prepared'
    BY <1>k, <1>i, <2>5, <2>3, ResourceNames DEF StartInv, Prepared, Started, Wakes
  <2>16. Start!ReleasedOnce'
    BY <2>5 DEF Start!ReleasedOnce
  <2>. QED BY <2>11, <2>12, <2>13, <2>14, <2>15, <2>16 DEF StartInv
<1>. QED BY <1>1, <1>2, <1>3 DEF Start!WorkerThread

-----------------------------------------------------------------------------
(* What a failure and a stop give back. *)

LEMMA ThreadFailedKeeps ==
  ASSUME StartInv, Start!ThreadFailed, ask' = ask
  PROVE  StartInv'
<1>k. /\ held \in [Start!Resources -> Nat] /\ twice \subseteq Start!Resources
      /\ pc = "thread_failed" /\ ask' = ask
      /\ UNCHANGED <<options>>
  BY DEF StartInv, StartTypes, Start!TypeOK, Start!ThreadFailed
<1>1. ASSUME worker = 1,
             Start!Release(Start!CloseListen \cup {Start!One("per_ip")}
                 \cup Start!IfHeld({Start!One("pool")})),
             listen' = "none",
             pc' = "free_and_fail",
             daemon' = daemon,
             fault' = fault,
             worker' = worker
      PROVE  StartInv'
  <2>. DEFINE rs == Start!CloseListen \cup {Start!One("per_ip")}
                  \cup Start!IfHeld({Start!One("pool")})
  <2>1. rs \subseteq Start!Resources
    BY <1>k, ResourceNames DEF Start!TlsPriorities, Start!CloseListen, Start!IfHeld
  <2>2. /\ held' \in [Start!Resources -> Nat] /\ twice' \subseteq Start!Resources
        /\ twice' = twice \cup {r \in rs : held[r] = 0} /\ pc' = "free_and_fail"
        /\ \A r \in Start!Resources : held'[r] = IF r \in rs /\ held[r] > 0 THEN held[r] - 1
               ELSE held[r]
    <3>. HIDE DEF rs
    <3>1. Start!Release(rs)
      BY <1>1 DEF rs
    <3>. QED BY <1>1, <1>k, <2>1, <3>1, ReleaseDoes
  <2>3. \A r \in Kinds : \A w \in 1..MaxPool : held'[<<r, w>>] = held[<<r, w>>]
    <3>1. \A r \in Kinds : \A w \in 1..MaxPool : <<r, w>> \notin rs
      BY DEF Start!TlsPriorities, Start!CloseListen, Start!IfHeld
    <3>. HIDE DEF rs
    <3>. QED BY <2>2, <3>1, ResourceNames
  <2>4. \A r \in rs : held[r] # 0
    BY <1>k, <1>1, ResourceNames DEF StartInv, OwnHeld, Chosen, Blamed, ListenHeld,
        Start!TlsPriorities, Start!CloseListen, Start!IfHeld
  <2>5. twice' = twice
    <3>. HIDE DEF rs
    <3>. QED BY <2>2, <2>4
  <2>11. (StartTypes /\ Blamed /\ Chosen /\ Start!IncrementFits)'
    BY <1>k, <2>2, <1>1, <2>5
      DEF StartInv, StartTypes, Start!TypeOK, Blamed, WorkerFaults, Chosen, Start!IncrementFits
  <2>12. (OwnHeld /\ PollHeld)'
    BY <1>k, <2>2, <1>1, ResourceNames
      DEF StartInv, OwnHeld, Start!TlsPriorities, Start!CloseListen, Start!IfHeld, Chosen, PollHeld
  <2>13. ListenHeld'
    BY <1>k, <2>2, <1>1, ResourceNames
      DEF StartInv, ListenHeld, Start!ClosedAgain, Start!CloseListen, Start!IfHeld, Blamed,
          WorkerFaults
  <2>14. WorkersHeld'
    BY <1>k, <2>2, <1>1, ResourceNames, WorkersUntouched, <2>3 DEF StartInv, Started
  <2>15. (Prepared /\ Start!ReleasedOnce)'
    BY <1>k, <2>2, <1>1, ResourceNames, <2>5 DEF StartInv, Prepared, Started, Wakes,
        Start!ReleasedOnce, Blamed
  <2>. QED BY <2>11, <2>12, <2>13, <2>14, <2>15 DEF StartInv
<1>2. ASSUME worker # 1,
             daemon' = [daemon EXCEPT !.worker_pool_size = worker - 1],
             worker' = 1,
             pc' = "stop_worker",
             listen' = listen,
             held' = held,
             twice' = twice,
             fault' = fault
      PROVE  StartInv'
  <2>1. /\ worker \in 1..MaxPool /\ worker - 1 \in 1..MaxPool /\ worker - 1 \in 0..MaxPool
        /\ 1 \in 0..MaxPool /\ worker - 1 # 0 /\ daemon.worker_pool_size # 0 /\ MaxPool \in Nat
    <3>1. worker \in 1..daemon.worker_pool_size /\ daemon.worker_pool_size \in 0..MaxPool
              /\ MaxPool \in Nat
      BY <1>k, StartAssumption DEF StartInv, StartTypes, Chosen, Start!SizesAssumption
    <3>. QED BY <1>2, <3>1
  <2>2. /\ daemon'.worker_pool_size = worker - 1 /\ daemon'.listen_fd = daemon.listen_fd
        /\ daemon'.priority_cache = daemon.priority_cache
        /\ daemon'.was_quiesced = daemon.was_quiesced /\ daemon'.pool_size = daemon.pool_size
        /\ daemon'.pool_increment = daemon.pool_increment
    BY <1>2 DEF StartInv, StartTypes
  <2>3. Started' = Started
    BY <1>k, <1>2, <2>2 DEF Started
  <2>4. WorkersHeld'
    <3>. SUFFICES ASSUME NEW w \in 1..MaxPool PROVE WorkerHeld(w)'
      BY DEF WorkersHeld
    <3>1. WorkerHeld(w)
      BY DEF StartInv, WorkersHeld
    <3>. QED BY <1>k, <1>2, <2>3, <3>1 DEF WorkerHeld
  <2>11. StartTypes'
    BY <1>k, <1>2, <2>1, <2>2 DEF StartInv, StartTypes, Start!TypeOK
  <2>12. Blamed'
    BY <1>k, <1>2, <2>1, <2>2 DEF StartInv, Blamed, WorkerFaults, Chosen
  <2>13. Chosen'
    BY <1>k, <1>2, <2>1, <2>2 DEF StartInv, Chosen
  <2>14. Start!IncrementFits'
    BY <1>k, <1>2, <2>1, <2>2 DEF StartInv, Start!IncrementFits
  <2>15. (OwnHeld /\ PollHeld)'
    BY <1>k, <1>2, <2>1, <2>2, ResourceNames DEF StartInv, OwnHeld, Blamed, Chosen, PollHeld
  <2>16. ListenHeld'
    BY <1>k, <1>2, <2>1, <2>2, ResourceNames DEF StartInv, ListenHeld, Start!ClosedAgain
  <2>17. WorkersHeld'
    BY <2>4
  <2>18. (Prepared /\ Start!ReleasedOnce)'
    BY <1>k, <1>2, <2>1, <2>2, ResourceNames
      DEF StartInv, Prepared, Started, Wakes, Start!ReleasedOnce, Blamed
  <2>. QED BY <2>11, <2>12, <2>13, <2>14, <2>15, <2>16, <2>17, <2>18 DEF StartInv
<1>. QED BY <1>1, <1>2 DEF Start!ThreadFailed

LEMMA FreeAndFailKeeps ==
  ASSUME StartInv, Start!FreeAndFail, ask' = ask
  PROVE  StartInv'
<1>k. /\ held \in [Start!Resources -> Nat] /\ twice \subseteq Start!Resources
      /\ pc = "free_and_fail" /\ ask' = ask
      /\ UNCHANGED <<options, daemon, listen, worker>>
  BY DEF StartInv, StartTypes, Start!TypeOK, Start!FreeAndFail, Start!Same
<1>1. ASSUME Start!Release(Start!IfHeld({Start!One(r) : r \in {"epoll", "epoll_upgrade", "random",
                 "nnc", "cred", "itc"}}) \cup {Start!One("nnc_lock"), Start!One("daemon")}
                 \cup Start!TlsPriorities \cup Start!CloseListen
                 \cup (IF daemon.listen_fd \notin {"none", listen} THEN {Start!Listen} ELSE {})),
             pc' = "failed",
             fault' = fault
      PROVE  StartInv'
  <2>. DEFINE rs == Start!IfHeld({Start!One(r) : r \in {"epoll", "epoll_upgrade", "random", "nnc",
                  "cred", "itc"}}) \cup {Start!One("nnc_lock"), Start!One("daemon")}
                  \cup Start!TlsPriorities \cup Start!CloseListen
                  \cup (IF daemon.listen_fd \notin {"none", listen} THEN {Start!Listen} ELSE {})
  <2>1. rs \subseteq Start!Resources
    BY <1>k, ResourceNames DEF Start!TlsPriorities, Start!CloseListen, Start!IfHeld
  <2>2. /\ held' \in [Start!Resources -> Nat] /\ twice' \subseteq Start!Resources
        /\ twice' = twice \cup {r \in rs : held[r] = 0} /\ pc' = "failed"
        /\ \A r \in Start!Resources : held'[r] = IF r \in rs /\ held[r] > 0 THEN held[r] - 1
               ELSE held[r]
    <3>. HIDE DEF rs
    <3>1. Start!Release(rs)
      BY <1>1 DEF rs
    <3>. QED BY <1>1, <1>k, <2>1, <3>1, ReleaseDoes
  <2>3. \A r \in Kinds : \A w \in 1..MaxPool : held'[<<r, w>>] = held[<<r, w>>]
    <3>1. \A r \in Kinds : \A w \in 1..MaxPool : <<r, w>> \notin rs
      BY DEF Start!TlsPriorities, Start!CloseListen, Start!IfHeld
    <3>. HIDE DEF rs
    <3>. QED BY <2>2, <3>1, ResourceNames
  <2>4. \A r \in rs : held[r] # 0 \/ (r = Start!Listen /\ fault \in Start!ClosedAgain)
    BY <1>k, <1>1, ResourceNames DEF StartInv, OwnHeld, ListenHeld, Start!TlsPriorities,
        Start!CloseListen, Start!IfHeld
  <2>5. /\ \A r \in twice' : r \in twice \/ (r = Start!Listen /\ fault \in Start!ClosedAgain)
        /\ fault = "none" => twice' = {}
    <3>. HIDE DEF rs
    <3>. QED BY <2>2, <2>4 DEF Start!ClosedAgain, StartInv, Blamed
  <2>11. StartTypes'
    BY <1>k, <2>2, <1>1 DEF StartInv, StartTypes, Start!TypeOK
  <2>12. Blamed'
    BY <1>k, <2>2, <1>1, <2>5 DEF StartInv, Blamed, WorkerFaults
  <2>13. Chosen'
    BY <1>k, <2>2, <1>1 DEF StartInv, Chosen
  <2>14. Start!IncrementFits'
    BY <1>k, <2>2, <1>1 DEF StartInv, Start!IncrementFits
  <2>15. PollHeld'
    BY <1>k, <2>2, <1>1, ResourceNames DEF StartInv, PollHeld, Start!TlsPriorities,
        Start!CloseListen, Start!IfHeld, Chosen
  <2>16. OwnHeld'
    <3>1. pc' = "failed"
      BY <1>1
    <3>. QED BY <1>k, <1>1, <2>2, <3>1, ResourceNames DEF StartInv, OwnHeld, Start!TlsPriorities,
             Start!CloseListen, Start!IfHeld
  <2>17. ListenHeld'
    BY <1>k, <2>2, <1>1, ResourceNames
      DEF StartInv, ListenHeld, Start!ClosedAgain, Start!TlsPriorities, Start!CloseListen,
          Start!IfHeld, Chosen
  <2>18. WorkersHeld'
    BY <1>k, <2>2, <1>1, ResourceNames, WorkersUntouched, <2>3 DEF StartInv, Started, Blamed
  <2>19. (Prepared /\ Start!ReleasedOnce)'
    BY <1>k, <2>2, <1>1, ResourceNames, <2>5 DEF StartInv, Prepared, Started, Wakes,
        Start!ReleasedOnce, Blamed
  <2>. QED BY <2>11, <2>12, <2>13, <2>14, <2>15, <2>16, <2>17, <2>18, <2>19 DEF StartInv
<1>. QED BY <1>1 DEF Start!FreeAndFail

LEMMA QuiesceKeeps ==
  ASSUME StartInv, Start!MHD_quiesce_daemon, ask' = ask
  PROVE  StartInv'
<1>k. /\ held \in [Start!Resources -> Nat] /\ twice \subseteq Start!Resources /\ pc = "running"
      /\ ask' = ask
      /\ UNCHANGED <<pc, options, listen, twice, fault, worker>>
  BY DEF StartInv, StartTypes, Start!TypeOK, Start!MHD_quiesce_daemon
<1>1. ASSUME daemon.listen_fd # "none",
             ~ daemon.was_quiesced,
             Start!Has("ITC") \/ ~ Start!UsesThreads,
             daemon' = [daemon EXCEPT !.was_quiesced = TRUE],
             held' = [held EXCEPT ![Start!Listen] = 0]
      PROVE  StartInv'
  <2>1. /\ held' \in [Start!Resources -> Nat]
        /\ \A r \in Start!Resources : held'[r] = IF r = Start!Listen THEN 0 ELSE held[r]
    BY <1>k, <1>1, ResourceNames
  <2>2. /\ daemon'.listen_fd = daemon.listen_fd
        /\ daemon'.priority_cache = daemon.priority_cache /\ daemon'.worker_pool_size =
               daemon.worker_pool_size
        /\ daemon'.was_quiesced /\ daemon'.pool_size = daemon.pool_size
        /\ daemon'.pool_increment = daemon.pool_increment
        /\ daemon'.polled = daemon.polled /\ daemon'.limit = daemon.limit
        /\ daemon'.connection_limit = daemon.connection_limit
    BY <1>1 DEF StartInv, StartTypes
  <2>3. /\ \A w : Start!WorkerLimit(w)' = Start!WorkerLimit(w) /\ (Wakes(w)' <=> Wakes(w))
        /\ Started' = Started
    BY <1>k, <2>2 DEF Start!WorkerLimit, Wakes, Started
  <2>4. WorkersHeld'
    <3>. SUFFICES ASSUME NEW w \in 1..MaxPool PROVE WorkerHeld(w)'
      BY DEF WorkersHeld
    <3>1. WorkerHeld(w)
      BY DEF StartInv, WorkersHeld
    <3>2. \A r \in Kinds : held'[<<r, w>>] = held[<<r, w>>]
      BY <2>1, ResourceNames
    <3>. QED BY <1>k, <2>3, <3>1, <3>2 DEF WorkerHeld
  <2>11. (StartTypes /\ Blamed /\ Chosen /\ Start!IncrementFits)'
    BY <1>k, <2>1, <2>2, <1>1
      DEF StartInv, StartTypes, Start!TypeOK, Blamed, WorkerFaults, Chosen, Start!IncrementFits
  <2>12. (OwnHeld /\ PollHeld)'
    BY <1>k, <2>1, <2>2, ResourceNames DEF StartInv, OwnHeld, PollHeld
  <2>13. ListenHeld'
    BY <1>k, <2>1, <2>2, ResourceNames, <1>1 DEF StartInv, ListenHeld, Start!ClosedAgain, Blamed
  <2>14. WorkersHeld'
    BY <2>4
  <2>15. Start!ReleasedOnce'
    BY <1>k, <2>1, <2>2 DEF StartInv, Start!ReleasedOnce, Blamed
  <2>16. Prepared'
    BY <1>k, <2>2, <2>3 DEF StartInv, Prepared
  <2>. QED BY <2>11, <2>12, <2>13, <2>14, <2>15, <2>16 DEF StartInv
<1>. QED BY <1>1 DEF Start!MHD_quiesce_daemon

LEMMA StopDaemonKeeps ==
  ASSUME StartInv, Start!MHD_stop_daemon, ask' = ask
  PROVE  StartInv'
<1>k. /\ held \in [Start!Resources -> Nat] /\ twice \subseteq Start!Resources /\ pc = "running"
      /\ ask' = ask
      /\ UNCHANGED <<options, daemon, listen>>
  BY DEF StartInv, StartTypes, Start!TypeOK, Start!MHD_stop_daemon
<1>1. ASSUME held[Start!One("pool")] > 0, Start!Skip("stop_worker"), worker' = 1 PROVE StartInv'
  <2>1. held' = held /\ twice' = twice /\ fault' = fault /\ pc' = "stop_worker"
    BY <1>1 DEF Start!Skip
  <2>2. daemon.worker_pool_size \in 1..MaxPool /\ daemon.worker_pool_size # 0
            /\ 1 \in 0..MaxPool /\ 1 \in 1..daemon.worker_pool_size
    BY <1>k, <1>1, StartAssumption DEF StartInv, StartTypes, OwnHeld, Start!SizesAssumption
  <2>3. Started' = Started
    BY <1>k, <1>1, <2>1 DEF Started
  <2>4. WorkersHeld'
    <3>. SUFFICES ASSUME NEW w \in 1..MaxPool PROVE WorkerHeld(w)'
      BY DEF WorkersHeld
    <3>1. WorkerHeld(w)
      BY DEF StartInv, WorkersHeld
    <3>. QED BY <1>k, <2>1, <2>3, <3>1 DEF WorkerHeld
  <2>11. (StartTypes /\ Blamed /\ Chosen /\ Start!IncrementFits)'
    BY <1>k, <1>1, <2>1, <2>2
      DEF StartInv, StartTypes, Start!TypeOK, Blamed, WorkerFaults, Chosen, Start!IncrementFits
  <2>12. (OwnHeld /\ PollHeld)'
    BY <1>k, <1>1, <2>1, <2>2, ResourceNames DEF StartInv, OwnHeld, PollHeld
  <2>13. ListenHeld'
    BY <1>k, <1>1, <2>1, <2>2, ResourceNames DEF StartInv, ListenHeld, Start!ClosedAgain
  <2>14. WorkersHeld'
    BY <2>4
  <2>15. (Prepared /\ Start!ReleasedOnce)'
    BY <1>k, <1>1, <2>1, <2>2, ResourceNames
      DEF StartInv, Prepared, Started, Wakes, Start!ReleasedOnce, Blamed
  <2>. QED BY <2>11, <2>12, <2>13, <2>14, <2>15 DEF StartInv
<1>2. ASSUME ~ (held[Start!One("pool")] > 0),
             Start!Skip("stop_single"),
             worker' = worker
      PROVE  StartInv'
  <2>1. held' = held /\ twice' = twice /\ fault' = fault /\ pc' = "stop_single"
    BY <1>2 DEF Start!Skip
  <2>2. daemon.worker_pool_size = 0
    BY <1>k, <1>2 DEF StartInv, StartTypes, OwnHeld
  <2>11. (StartTypes /\ Blamed /\ Chosen /\ Start!IncrementFits)'
    BY <1>k, <1>2, <2>1, <2>2
      DEF StartInv, StartTypes, Start!TypeOK, Blamed, WorkerFaults, Chosen, Start!IncrementFits
  <2>12. (OwnHeld /\ PollHeld)'
    BY <1>k, <1>2, <2>1, <2>2, ResourceNames DEF StartInv, OwnHeld, PollHeld
  <2>13. ListenHeld'
    BY <1>k, <1>2, <2>1, <2>2, ResourceNames DEF StartInv, ListenHeld, Start!ClosedAgain
  <2>14. WorkersHeld'
    BY <1>k, <1>2, <2>1, <2>2, ResourceNames, WorkersUntouched DEF StartInv, Started
  <2>15. (Prepared /\ Start!ReleasedOnce)'
    BY <1>k, <1>2, <2>1, <2>2, ResourceNames
      DEF StartInv, Prepared, Started, Wakes, Start!ReleasedOnce, Blamed
  <2>. QED BY <2>11, <2>12, <2>13, <2>14, <2>15 DEF StartInv
<1>. QED BY <1>1, <1>2 DEF Start!MHD_stop_daemon

LEMMA StopWorkerKeeps ==
  ASSUME StartInv, Start!StopWorker, ask' = ask
  PROVE  StartInv'
<1>k. /\ held \in [Start!Resources -> Nat] /\ twice \subseteq Start!Resources
      /\ pc = "stop_worker" /\ ask' = ask
      /\ UNCHANGED <<options, daemon, listen, fault>>
  BY DEF StartInv, StartTypes, Start!TypeOK, Start!StopWorker
<1>r. Start!Release(Start!StopOne(worker) \cup (IF worker = daemon.worker_pool_size
          THEN {Start!One("pool")} ELSE {}))
  BY DEF Start!StopWorker
<1>i. /\ worker \in 1..MaxPool /\ MaxPool \in Nat /\ daemon.worker_pool_size \in 1..MaxPool
      /\ worker \in 1..daemon.worker_pool_size
      /\ daemon.worker_pool_size # 0
  BY <1>k, StartAssumption DEF StartInv, StartTypes, Chosen, Start!SizesAssumption
<1>w. WorkerHeld(worker) /\ worker \in Started
  BY <1>k, <1>i DEF StartInv, WorkersHeld, Started
<1>1. ASSUME worker < daemon.worker_pool_size, pc' = pc, worker' = worker + 1 PROVE StartInv'
  <2>. DEFINE rs == Start!StopOne(worker) \cup (IF worker = daemon.worker_pool_size
                  THEN {Start!One("pool")} ELSE {})
  <2>1. rs \subseteq {<<r, worker>> : r \in Kinds} \cup {Start!One("pool")}
            /\ rs \subseteq Start!Resources
    BY <1>i, ResourceNames DEF Start!StopOne, Start!IfHeld
  <2>2. /\ held' \in [Start!Resources -> Nat] /\ twice' \subseteq Start!Resources
        /\ twice' = twice \cup {r \in rs : held[r] = 0} /\ pc' = "stop_worker"
        /\ \A r \in Start!Resources : held'[r] = IF r \in rs /\ held[r] > 0 THEN held[r] - 1
               ELSE held[r]
    <3>. HIDE DEF rs
    <3>1. Start!Release(rs)
      BY <1>r DEF rs
    <3>. QED BY <1>1, <1>k, <2>1, <3>1, ReleaseDoes
  <2>3. \A r \in rs : held[r] = 1
    BY <1>k, <1>i, <1>w DEF Start!StopOne, Start!IfHeld, StartInv, OwnHeld, WorkerHeld
  <2>4. twice' = twice
    <3>. HIDE DEF rs
    <3>. QED BY <2>2, <2>3
  <2>5. /\ \A r \in Own \ {"pool"} : held'[<<r, 0>>] = held[<<r, 0>>]
        /\ held'[Start!One("pool")] = 1
        /\ \A v \in 1..MaxPool \ {worker} : \A r \in Kinds : held'[<<r, v>>] = held[<<r, v>>]
    <3>1. /\ \A r \in Own \ {"pool"} : <<r, 0>> \notin rs
          /\ \A v \in 1..MaxPool \ {worker} : \A r \in Kinds : <<r, v>> \notin rs
      <4>1. worker # 0
        BY <1>i
      <4>. HIDE DEF rs
      <4>. QED BY <2>1, <4>1
    <3>2. held[Start!One("pool")] = 1 /\ (Start!One("pool") \in rs <=> worker =
              daemon.worker_pool_size)
      BY <1>k, <1>i DEF StartInv, OwnHeld, Start!StopOne, Start!IfHeld
    <3>3. Start!One("pool") \in Start!Resources
      BY ResourceNames
    <3>. HIDE DEF rs
    <3>4. \A r \in Own \ {"pool"} : held'[<<r, 0>>] = held[<<r, 0>>]
      BY <2>2, <3>1, ResourceNames
    <3>5. \A v \in 1..MaxPool \ {worker} : \A r \in Kinds : held'[<<r, v>>] = held[<<r, v>>]
      BY <2>2, <3>1, ResourceNames
    <3>6. held'[Start!One("pool")] = 1
      BY <1>i, <2>2, <3>2, <3>3, <1>1
    <3>. QED BY <3>4, <3>5, <3>6
  <2>6. \A r \in Kinds : held'[<<r, worker>>] = 0
    <3>1. \A r \in Kinds : <<r, worker>> \in Start!Resources /\ held[<<r, worker>>] \in Nat
      BY <1>k, <1>i, ResourceNames
    <3>2. \A r \in Kinds : <<r, worker>> \notin rs => held[<<r, worker>>] = 0
      BY <3>1 DEF Start!StopOne, Start!IfHeld
    <3>. HIDE DEF rs
    <3>. QED BY <2>2, <2>3, <3>1, <3>2
  <2>7. Started' = Started \ {worker} /\ worker' \in 0..MaxPool
    BY <1>1, <1>k, <1>i, <2>2 DEF Started
  <2>8. WorkersHeld'
    <3>. SUFFICES ASSUME NEW w \in 1..MaxPool PROVE WorkerHeld(w)'
      BY DEF WorkersHeld
    <3>1. WorkerHeld(w) /\ pc \notin Workers /\ pc' \notin Workers
      BY <1>k, <2>2 DEF StartInv, WorkersHeld
    <3>2. CASE w = worker
      <4>1. w \notin Started'
        BY <2>7, <3>2
      <4>2. \A r \in Kinds : held'[<<r, w>>] = 0
        BY <2>6, <3>2
      <4>. QED BY <3>1, <4>1, <4>2 DEF WorkerHeld
    <3>3. CASE w # worker
      <4>1. \A r \in Kinds : held'[<<r, w>>] = held[<<r, w>>]
        BY <2>5, <3>3
      <4>2. w \in Started' <=> w \in Started
        BY <2>7, <3>3
      <4>3. pc # "w_thread" /\ pc' # "w_thread" /\ fault' = fault /\ options' = options
        BY <1>k, <3>1
      <4>. QED BY <3>1, <4>1, <4>2, <4>3 DEF WorkerHeld
    <3>. QED BY <3>2, <3>3
  <2>9. /\ held' \in [Start!Resources -> Nat] /\ pc' = "stop_worker"
    BY <2>2
  <2>11. StartTypes'
    BY <1>k, <1>1, <1>i, <2>4, <2>5, <2>9, <2>7 DEF StartInv, StartTypes, Start!TypeOK
  <2>12. Blamed'
    BY <1>k, <1>1, <1>i, <2>4, <2>5, <2>9 DEF StartInv, Blamed, WorkerFaults
  <2>13. Chosen'
    BY <1>k, <1>1, <1>i, <2>4, <2>5, <2>9 DEF StartInv, Chosen
  <2>14. Start!IncrementFits'
    BY <1>k, <1>1, <1>i, <2>4, <2>5, <2>9 DEF StartInv, Start!IncrementFits
  <2>15. (OwnHeld /\ PollHeld)'
    BY <1>k, <1>1, <1>i, <2>4, <2>5, <2>9, ResourceNames DEF StartInv, OwnHeld, PollHeld
  <2>16. ListenHeld'
    BY <1>k, <1>1, <1>i, <2>4, <2>5, <2>9, ResourceNames DEF StartInv, ListenHeld, Start!ClosedAgain
  <2>17. WorkersHeld'
    BY <2>8
  <2>18. (Prepared /\ Start!ReleasedOnce)'
    BY <1>k, <1>1, <1>i, <2>4, <2>5, <2>9, ResourceNames
      DEF StartInv, Prepared, Started, Wakes, Start!ReleasedOnce, Blamed
  <2>. QED BY <2>11, <2>12, <2>13, <2>14, <2>15, <2>16, <2>17, <2>18 DEF StartInv
<1>2. ASSUME ~ (worker < daemon.worker_pool_size),
             pc' = "stop_master",
             worker' = worker
      PROVE  StartInv'
  <2>. DEFINE rs == Start!StopOne(worker) \cup (IF worker = daemon.worker_pool_size
                  THEN {Start!One("pool")} ELSE {})
  <2>1. rs \subseteq {<<r, worker>> : r \in Kinds} \cup {Start!One("pool")}
            /\ rs \subseteq Start!Resources
    BY <1>i, ResourceNames DEF Start!StopOne, Start!IfHeld
  <2>2. /\ held' \in [Start!Resources -> Nat] /\ twice' \subseteq Start!Resources
        /\ twice' = twice \cup {r \in rs : held[r] = 0} /\ pc' = "stop_master"
        /\ \A r \in Start!Resources : held'[r] = IF r \in rs /\ held[r] > 0 THEN held[r] - 1
               ELSE held[r]
    <3>. HIDE DEF rs
    <3>1. Start!Release(rs)
      BY <1>r DEF rs
    <3>. QED BY <1>2, <1>k, <2>1, <3>1, ReleaseDoes
  <2>3. \A r \in rs : held[r] = 1
    BY <1>k, <1>i, <1>w DEF Start!StopOne, Start!IfHeld, StartInv, OwnHeld, WorkerHeld
  <2>4. twice' = twice
    <3>. HIDE DEF rs
    <3>. QED BY <2>2, <2>3
  <2>5. /\ \A r \in Own \ {"pool"} : held'[<<r, 0>>] = held[<<r, 0>>]
        /\ held'[Start!One("pool")] = 0
        /\ \A v \in 1..MaxPool \ {worker} : \A r \in Kinds : held'[<<r, v>>] = held[<<r, v>>]
    <3>1. /\ \A r \in Own \ {"pool"} : <<r, 0>> \notin rs
          /\ \A v \in 1..MaxPool \ {worker} : \A r \in Kinds : <<r, v>> \notin rs
      <4>1. worker # 0
        BY <1>i
      <4>. HIDE DEF rs
      <4>. QED BY <2>1, <4>1
    <3>2. held[Start!One("pool")] = 1 /\ (Start!One("pool") \in rs <=> worker =
              daemon.worker_pool_size)
      BY <1>k, <1>i DEF StartInv, OwnHeld, Start!StopOne, Start!IfHeld
    <3>3. Start!One("pool") \in Start!Resources
      BY ResourceNames
    <3>. HIDE DEF rs
    <3>4. \A r \in Own \ {"pool"} : held'[<<r, 0>>] = held[<<r, 0>>]
      BY <2>2, <3>1, ResourceNames
    <3>5. \A v \in 1..MaxPool \ {worker} : \A r \in Kinds : held'[<<r, v>>] = held[<<r, v>>]
      BY <2>2, <3>1, ResourceNames
    <3>6. held'[Start!One("pool")] = 0
      BY <1>i, <2>2, <3>2, <3>3, <1>2
    <3>. QED BY <3>4, <3>5, <3>6
  <2>6. \A r \in Kinds : held'[<<r, worker>>] = 0
    <3>1. \A r \in Kinds : <<r, worker>> \in Start!Resources /\ held[<<r, worker>>] \in Nat
      BY <1>k, <1>i, ResourceNames
    <3>2. \A r \in Kinds : <<r, worker>> \notin rs => held[<<r, worker>>] = 0
      BY <3>1 DEF Start!StopOne, Start!IfHeld
    <3>. HIDE DEF rs
    <3>. QED BY <2>2, <2>3, <3>1, <3>2
  <2>7. Started' = Started \ {worker} /\ worker' \in 0..MaxPool
    BY <1>2, <1>k, <1>i, <2>2 DEF Started
  <2>8. WorkersHeld'
    <3>. SUFFICES ASSUME NEW w \in 1..MaxPool PROVE WorkerHeld(w)'
      BY DEF WorkersHeld
    <3>1. WorkerHeld(w) /\ pc \notin Workers /\ pc' \notin Workers
      BY <1>k, <2>2 DEF StartInv, WorkersHeld
    <3>2. CASE w = worker
      <4>1. w \notin Started'
        BY <2>7, <3>2
      <4>2. \A r \in Kinds : held'[<<r, w>>] = 0
        BY <2>6, <3>2
      <4>. QED BY <3>1, <4>1, <4>2 DEF WorkerHeld
    <3>3. CASE w # worker
      <4>1. \A r \in Kinds : held'[<<r, w>>] = held[<<r, w>>]
        BY <2>5, <3>3
      <4>2. w \in Started' <=> w \in Started
        BY <2>7, <3>3
      <4>3. pc # "w_thread" /\ pc' # "w_thread" /\ fault' = fault /\ options' = options
        BY <1>k, <3>1
      <4>. QED BY <3>1, <4>1, <4>2, <4>3 DEF WorkerHeld
    <3>. QED BY <3>2, <3>3
  <2>9. /\ held' \in [Start!Resources -> Nat] /\ pc' = "stop_master"
    BY <2>2
  <2>11. StartTypes'
    BY <1>k, <1>2, <1>i, <2>4, <2>5, <2>9, <2>7 DEF StartInv, StartTypes, Start!TypeOK
  <2>12. Blamed'
    BY <1>k, <1>2, <1>i, <2>4, <2>5, <2>9 DEF StartInv, Blamed, WorkerFaults
  <2>13. Chosen'
    BY <1>k, <1>2, <1>i, <2>4, <2>5, <2>9 DEF StartInv, Chosen
  <2>14. Start!IncrementFits'
    BY <1>k, <1>2, <1>i, <2>4, <2>5, <2>9 DEF StartInv, Start!IncrementFits
  <2>15. (OwnHeld /\ PollHeld)'
    BY <1>k, <1>2, <1>i, <2>4, <2>5, <2>9, ResourceNames DEF StartInv, OwnHeld, PollHeld
  <2>16. ListenHeld'
    BY <1>k, <1>2, <1>i, <2>4, <2>5, <2>9, ResourceNames DEF StartInv, ListenHeld, Start!ClosedAgain
  <2>17. WorkersHeld'
    BY <2>8
  <2>18. (Prepared /\ Start!ReleasedOnce)'
    BY <1>k, <1>2, <1>i, <2>4, <2>5, <2>9, ResourceNames
      DEF StartInv, Prepared, Started, Wakes, Start!ReleasedOnce, Blamed
  <2>. QED BY <2>11, <2>12, <2>13, <2>14, <2>15, <2>16, <2>17, <2>18 DEF StartInv
<1>. QED BY <1>1, <1>2 DEF Start!StopWorker

LEMMA StopSingleKeeps ==
  ASSUME StartInv, Start!StopSingle, ask' = ask
  PROVE  StartInv'
<1>k. /\ held \in [Start!Resources -> Nat] /\ twice \subseteq Start!Resources
      /\ pc = "stop_single" /\ ask' = ask
      /\ UNCHANGED <<options, daemon, listen, worker, fault>>
  BY DEF StartInv, StartTypes, Start!TypeOK, Start!StopSingle, Start!Same
<1>1. ASSUME Start!Release(Start!StopOne(0)), pc' = "stop_master" PROVE StartInv'
  <2>. DEFINE rs == Start!StopOne(0)
  <2>1. rs \subseteq Start!Resources
    BY <1>k, ResourceNames DEF Start!StopOne, Start!IfHeld
  <2>2. /\ held' \in [Start!Resources -> Nat] /\ twice' \subseteq Start!Resources
        /\ twice' = twice \cup {r \in rs : held[r] = 0} /\ pc' = "stop_master"
        /\ \A r \in Start!Resources : held'[r] = IF r \in rs /\ held[r] > 0 THEN held[r] - 1
               ELSE held[r]
    <3>. HIDE DEF rs
    <3>1. Start!Release(rs)
      BY <1>1 DEF rs
    <3>. QED BY <1>1, <1>k, <2>1, <3>1, ReleaseDoes
  <2>3. \A r \in Kinds : \A w \in 1..MaxPool : held'[<<r, w>>] = held[<<r, w>>]
    <3>1. \A r \in Kinds : \A w \in 1..MaxPool : <<r, w>> \notin rs
      BY DEF Start!StopOne, Start!IfHeld
    <3>. HIDE DEF rs
    <3>. QED BY <2>2, <3>1, ResourceNames
  <2>4. \A r \in rs : held[r] # 0
    BY <1>k, <1>1, ResourceNames DEF StartInv, OwnHeld, Chosen, Start!StopOne, Start!IfHeld
  <2>5. twice' = twice
    <3>. HIDE DEF rs
    <3>. QED BY <2>2, <2>4
  <2>11. (StartTypes /\ Blamed /\ Chosen /\ Start!IncrementFits)'
    BY <1>k, <2>2, <1>1, <2>5
      DEF StartInv, StartTypes, Start!TypeOK, Blamed, WorkerFaults, Chosen, Start!IncrementFits
  <2>12. (OwnHeld /\ PollHeld)'
    BY <1>k, <2>2, <1>1, ResourceNames DEF StartInv, OwnHeld, Start!StopOne, Start!IfHeld, Chosen,
        PollHeld
  <2>13. ListenHeld'
    BY <1>k, <2>2, <1>1, ResourceNames DEF StartInv, ListenHeld, Start!ClosedAgain, Start!StopOne,
        Start!IfHeld, Chosen
  <2>14. WorkersHeld'
    BY <1>k, <2>2, <1>1, ResourceNames, WorkersUntouched, <2>3 DEF StartInv, Started, Blamed
  <2>15. (Prepared /\ Start!ReleasedOnce)'
    BY <1>k, <2>2, <1>1, ResourceNames, <2>5 DEF StartInv, Prepared, Started, Wakes,
        Start!ReleasedOnce, Blamed
  <2>. QED BY <2>11, <2>12, <2>13, <2>14, <2>15 DEF StartInv
<1>. QED BY <1>1 DEF Start!StopSingle

LEMMA StopMasterKeeps ==
  ASSUME StartInv, Start!StopMaster, ask' = ask
  PROVE  StartInv'
<1>k. /\ held \in [Start!Resources -> Nat] /\ twice \subseteq Start!Resources
      /\ pc = "stop_master" /\ ask' = ask
      /\ UNCHANGED <<options, daemon, listen, worker, fault>>
  BY DEF StartInv, StartTypes, Start!TypeOK, Start!StopMaster, Start!Same
<1>1. ASSUME Start!Release((IF daemon.listen_fd = "none" \/ daemon.was_quiesced THEN {}
                 ELSE {Start!Listen}) \cup Start!TlsPriorities
                 \cup Start!IfHeld({Start!One("dhparams"), Start!One("cred"), Start!One("random"),
                 Start!One("nnc")}) \cup {Start!One("nnc_lock"), Start!One("per_ip"),
                 Start!One("daemon")}),
             pc' = IF fault = "none" THEN "stopped" ELSE "failed"
      PROVE  StartInv'
  <2>. DEFINE rs == (IF daemon.listen_fd = "none" \/ daemon.was_quiesced THEN {}
                  ELSE {Start!Listen}) \cup Start!TlsPriorities
                  \cup Start!IfHeld({Start!One("dhparams"), Start!One("cred"),
                  Start!One("random"), Start!One("nnc")}) \cup {Start!One("nnc_lock"),
                  Start!One("per_ip"), Start!One("daemon")}
  <2>1. rs \subseteq Start!Resources
    BY <1>k, ResourceNames DEF Start!TlsPriorities, Start!CloseListen, Start!IfHeld
  <2>2. /\ held' \in [Start!Resources -> Nat] /\ twice' \subseteq Start!Resources
        /\ twice' = twice \cup {r \in rs : held[r] = 0} /\ pc' = (IF fault = "none"
               THEN "stopped" ELSE "failed")
        /\ \A r \in Start!Resources : held'[r] = IF r \in rs /\ held[r] > 0 THEN held[r] - 1
               ELSE held[r]
    <3>. HIDE DEF rs
    <3>1. Start!Release(rs)
      BY <1>1 DEF rs
    <3>. QED BY <1>1, <1>k, <2>1, <3>1, ReleaseDoes
  <2>3. \A r \in Kinds : \A w \in 1..MaxPool : held'[<<r, w>>] = held[<<r, w>>]
    <3>1. \A r \in Kinds : \A w \in 1..MaxPool : <<r, w>> \notin rs
      BY DEF Start!TlsPriorities, Start!CloseListen, Start!IfHeld
    <3>. HIDE DEF rs
    <3>. QED BY <2>2, <3>1, ResourceNames
  <2>4. \A r \in rs : held[r] # 0
    BY <1>k, <1>1, ResourceNames DEF StartInv, OwnHeld, ListenHeld, Start!TlsPriorities,
        Start!CloseListen, Start!IfHeld
  <2>5. twice' = twice
    <3>. HIDE DEF rs
    <3>. QED BY <2>2, <2>4
  <2>11. (StartTypes /\ Blamed /\ Chosen /\ Start!IncrementFits)'
    BY <1>k, <2>2, <1>1, <2>5
      DEF StartInv, StartTypes, Start!TypeOK, Blamed, WorkerFaults, Chosen, Start!IncrementFits
  <2>12. (OwnHeld /\ PollHeld)'
    BY <1>k, <2>2, <1>1, ResourceNames
      DEF StartInv, OwnHeld, Start!TlsPriorities, Start!CloseListen, Start!IfHeld, Chosen, PollHeld
  <2>13. ListenHeld'
    BY <1>k, <2>2, <1>1, ResourceNames
      DEF StartInv, ListenHeld, Start!ClosedAgain, Start!TlsPriorities, Start!CloseListen,
          Start!IfHeld, Chosen
  <2>14. WorkersHeld'
    BY <1>k, <2>2, <1>1, ResourceNames, WorkersUntouched, <2>3 DEF StartInv, Started, Blamed
  <2>15. (Prepared /\ Start!ReleasedOnce)'
    BY <1>k, <2>2, <1>1, ResourceNames, <2>5 DEF StartInv, Prepared, Started, Wakes,
        Start!ReleasedOnce, Blamed
  <2>. QED BY <2>11, <2>12, <2>13, <2>14, <2>15 DEF StartInv
<1>. QED BY <1>1 DEF Start!StopMaster

-----------------------------------------------------------------------------
(* Sharing the connections out. *)

LEMMA Times ==
  ASSUME NEW n \in Nat, NEW a \in Int, NEW b \in Int, a <= b
  PROVE  n * a <= n * b
OBVIOUS

LEMMA Divided ==
  ASSUME NEW k \in Nat, NEW n \in Nat, n > 0
  PROVE  k \div n \in Nat /\ k % n \in 0..n - 1 /\ k = n * (k \div n) + (k % n)
<1>1. k % n = k - n * (k \div n)
  OBVIOUS
<1>2. k % n \in 0..n - 1
  OBVIOUS
<1>3. k \div n \in Int
  OBVIOUS
<1>4. k = n * (k \div n) + (k % n)
  BY <1>1, <1>2, <1>3
<1>5. k \div n >= 0
  <2>1. ASSUME k \div n <= -1 PROVE FALSE
    <3>1. n * (k \div n) <= n * (-1)
      BY <1>3, <2>1, Times
    <3>. QED BY <1>2, <1>3, <1>4, <3>1
  <2>. QED BY <1>3, <2>1
<1>. QED BY <1>2, <1>3, <1>4, <1>5

LEMMA Remainder ==
  ASSUME NEW n \in Nat, NEW m \in Nat, NEW j \in 0..n - 1
  PROVE  (j + n * m) % n = j
<1>. DEFINE k == j + n * m
            q == k \div n
            r == k % n
<1>1. k \in Nat /\ n > 0
  OBVIOUS
<1>2. q \in Nat /\ r \in 0..n - 1 /\ j + n * m = n * q + r
  BY <1>1, Divided
<1>. HIDE DEF q, r, k
<1>3. CASE q >= m + 1
  <2>1. n * (m + 1) <= n * q
    BY <1>2, <1>3, Times
  <2>2. n * (m + 1) = n * m + n
    OBVIOUS
  <2>. QED BY <1>2, <2>1, <2>2
<1>4. CASE m >= q + 1
  <2>1. n * (q + 1) <= n * m
    BY <1>2, <1>4, Times
  <2>2. n * (q + 1) = n * q + n
    BY <1>2
  <2>. QED BY <1>2, <2>1, <2>2
<1>5. CASE m = q
  BY <1>2, <1>5 DEF r, k
<1>. QED BY <1>2, <1>3, <1>4, <1>5

LEMMA DealtOut ==
  ASSUME NEW k \in Nat, NEW n \in Nat, NEW j \in 0..n - 1
  PROVE  Cardinality({x \in 0..k - 1 : x % n = j}) = k \div n + (IF j < k % n THEN 1 ELSE 0)
<1>. DEFINE q == k \div n
            r == k % n
            c == q + (IF j < r THEN 1 ELSE 0)
            S == {x \in 0..k - 1 : x % n = j}
            f == [m \in 0..c - 1 |-> j + n * m]
<1>1. n > 0 /\ q \in Nat /\ r \in 0..n - 1 /\ k = n * q + r
  BY Divided
<1>2. c \in Nat
  BY <1>1
<1>3. ASSUME NEW m \in 0..c - 1 PROVE j + n * m \in S
  <2>1. m \in Nat /\ (j + n * m) % n = j /\ j + n * m \in Nat
    BY <1>2, Remainder
  <2>. HIDE DEF q, r
  <2>2. CASE j < r
    <3>1. n * m <= n * q
      BY <1>1, <2>1, <2>2, Times
    <3>. QED BY <1>1, <2>1, <2>2, <3>1
  <2>3. CASE ~ (j < r)
    <3>1. n * m <= n * (q - 1) /\ n * (q - 1) = n * q - n
      BY <1>1, <2>1, <2>3, Times
    <3>. QED BY <1>1, <2>1, <2>3, <3>1
  <2>. QED BY <2>2, <2>3
<1>4. ASSUME NEW x \in S PROVE \E m \in 0..c - 1 : j + n * m = x
  <2>. DEFINE m == x \div n
  <2>1. x \in Nat /\ x < k /\ x % n = j
    OBVIOUS
  <2>2. m \in Nat /\ x = n * m + j
    BY <1>1, <2>1, Divided
  <2>. HIDE DEF m, q, r
  <2>3. CASE j < r
    <3>1. ASSUME m >= q + 1 PROVE FALSE
      <4>1. n * (q + 1) <= n * m /\ n * (q + 1) = n * q + n
        BY <1>1, <2>2, <3>1, Times
      <4>. QED BY <1>1, <2>1, <2>2, <4>1
    <3>. QED BY <1>1, <2>2, <2>3, <3>1
  <2>4. CASE ~ (j < r)
    <3>1. ASSUME m >= q PROVE FALSE
      <4>1. n * q <= n * m
        BY <1>1, <2>2, <3>1, Times
      <4>. QED BY <1>1, <2>1, <2>2, <2>4, <4>1
    <3>. QED BY <1>1, <2>2, <2>4, <3>1
  <2>. QED BY <2>3, <2>4
<1>5. ASSUME NEW a \in 0..c - 1, NEW b \in 0..c - 1, f[a] = f[b] PROVE a = b
  <2>1. a \in Nat /\ b \in Nat /\ j + n * a = j + n * b
    BY <1>2, <1>5
  <2>2. ASSUME NEW u \in Nat, NEW v \in Nat, u < v PROVE n * u < n * v
    <3>1. n * (u + 1) <= n * v /\ n * (u + 1) = n * u + n
      BY <2>2, Times
    <3>. QED BY <1>1, <3>1
  <2>. QED BY <2>1, <2>2
<1>. HIDE DEF c, S
<1>6. f \in Bijection(0..c - 1, S)
  <2>1. f \in [0..c - 1 -> S]
    BY <1>3
  <2>2. \A y \in S : \E m \in 0..c - 1 : f[m] = y
    BY <1>4
  <2>. QED BY <1>5, <2>1, <2>2, Fun_IsBij
<1>7. ExistsBijection(0..c - 1, S)
  BY <1>6, Fun_ExistsBij
<1>8. Cardinality(S) = Cardinality(0..c - 1)
  BY <1>2, <1>7, FS_Bijection, FS_Interval
<1>9. Cardinality(0..c - 1) = c
  BY <1>2, FS_Interval
<1>. QED BY <1>8, <1>9 DEF c, S

-----------------------------------------------------------------------------
(* The start as a whole. *)

LEMMA StartInvInit == Start!Init => StartInv
<1>. SUFFICES ASSUME Start!Init PROVE StartInv
  OBVIOUS
<1>1. daemon = Start!Defaults /\ pc = "flags" /\ held = [r \in Start!Resources |-> 0]
          /\ twice = {} /\ worker = 0 /\ fault = "none"
      /\ listen = "none" /\ ask \in Apps /\ options = ask.flags
  BY DEF Start!Init
<1>2. daemon \in Daemons
  BY <1>1, StartAssumption
  DEF Start!Defaults, Start!SizesAssumption, Start!Randoms, Start!CredTypes, Start!FdSetSizes,
      Start!Sockets, Start!Addresses, Start!AddressLengths
<1>3. /\ daemon.worker_pool_size = 0 /\ ~ daemon.priority_cache /\ ~ daemon.was_quiesced
      /\ daemon.listen_fd = "none"
      /\ daemon.pool_size = DefaultPool /\ daemon.pool_increment = DefaultIncrement
  BY <1>1 DEF Start!Defaults
<1>4. held \in [Start!Resources -> Nat] /\ \A r \in Start!Resources : held[r] = 0
  BY <1>1
<1>5. StartTypes
  BY <1>1, <1>2, <1>4, StartAssumption DEF StartTypes, Start!TypeOK, Start!AppsAssumption,
      Start!SizesAssumption
<1>6. Blamed /\ Chosen /\ OwnHeld /\ PollHeld /\ ListenHeld
  BY <1>1, <1>3, <1>4, ResourceNames DEF Blamed, Chosen, OwnHeld, PollHeld, ListenHeld
<1>7. Started = {}
  BY <1>1 DEF Started
<1>8. WorkersHeld
  BY <1>1, <1>4, <1>7, ResourceNames DEF WorkersHeld, WorkerHeld
<1>9. Prepared /\ Start!ReleasedOnce /\ Start!IncrementFits
  BY <1>1, <1>3, StartAssumption DEF Prepared, Start!ReleasedOnce, Start!IncrementFits,
      Start!SizesAssumption
<1>. QED BY <1>5, <1>6, <1>8, <1>9 DEF StartInv

LEMMA StartStep == StartInv /\ [Start!Next]_(Start!vars) => StartInv'
<1>. SUFFICES ASSUME StartInv, [Start!Next]_(Start!vars) PROVE StartInv'
  OBVIOUS
<1>1. CASE UNCHANGED Start!vars
  <2>1. \A w : WorkerHeld(w)' <=> WorkerHeld(w)
    BY <1>1 DEF Start!vars, WorkerHeld, Started
  <2>2. WorkersHeld'
    BY <2>1 DEF StartInv, WorkersHeld
  <2>3. (StartTypes /\ Blamed /\ Chosen /\ OwnHeld /\ PollHeld /\ ListenHeld)'
    BY <1>1 DEF Start!vars, StartInv, StartTypes, Start!TypeOK, Blamed, Chosen, OwnHeld, PollHeld,
        ListenHeld
  <2>4. (Prepared /\ Start!ReleasedOnce /\ Start!IncrementFits)'
    BY <1>1 DEF Start!vars, StartInv, Prepared, Started, Wakes, Start!WorkerLimit,
        Start!ReleasedOnce, Start!IncrementFits
  <2>. QED BY <2>2, <2>3, <2>4 DEF StartInv
<1>2. CASE Start!Start /\ ask' = ask
  BY <1>2, CheckFlagsKeeps, AllocDaemonKeeps, AllocParamsKeeps, OptionsEndKeeps, InterimKeeps,
     DefaultPrioritiesKeeps, InitItcKeeps, CopyRandomKeeps, AllocNoncesKeeps, InitNonceLockKeeps,
     CreateListenKeeps, ReuseAddressKeeps, BindKeeps, UseListenKeeps, SetNonblockingKeeps,
         SetupEpollKeeps,
     InitPerIpKeeps, InitTlsKeeps, InitCleanupKeeps, InitNewKeeps, CreateThreadKeeps,
         AllocPoolKeeps,
     WorkerCleanupKeeps, WorkerNewKeeps, WorkerItcKeeps, WorkerEpollKeeps, WorkerThreadKeeps,
     ThreadFailedKeeps, FreeAndFailKeeps, ParseOptionKeeps DEF Start!Start
<1>3. CASE Start!Stop /\ ask' = ask
  BY <1>3, QuiesceKeeps, StopDaemonKeeps, StopWorkerKeeps, StopSingleKeeps,
      StopMasterKeeps DEF Start!Stop
<1>. QED BY <1>1, <1>2, <1>3 DEF Start!Next

LEMMA ResourceIs ==
  ASSUME NEW r \in Start!Resources
  PROVE  \/ \E n \in Own : r = <<n, 0>>
         \/ \E n \in Kinds : \E w \in 1..MaxPool : r = <<n, w>>
BY StartAssumption DEF Start!Resources, Start!SizesAssumption

LEMMA StartInvMeans == StartInv => Start!StartRight
<1>. SUFFICES ASSUME StartInv PROVE Start!StartRight
  OBVIOUS
<1>1. ASSUME pc \in {"failed", "stopped"}, NEW r \in Start!Resources, held[r] > 0
      PROVE  Start!Forgotten(r)
  <2>1. CASE \E n \in Own : r = <<n, 0>>
    <3>1. PICK n \in Own : r = <<n, 0>>
      BY <2>1
    <3>2. held[<<n, 0>>] # 0
      BY <1>1, <3>1 DEF StartInv, StartTypes, Start!TypeOK
    <3>3. \/ n = "dhparams"
          \/ n = "priorities" /\ fault = "interim"
          \/ n = "itc" /\ fault \in {"random", "nnc", "nnc_lock"}
      <4>1. /\ held[Start!One("daemon")] = 0 /\ held[Start!One("params")] = 0
            /\ held[Start!One("random")] = 0
            /\ held[Start!One("nnc")] = 0 /\ held[Start!One("nnc_lock")] = 0
            /\ held[Start!One("per_ip")] = 0
            /\ held[Start!One("cred")] = 0 /\ held[Start!One("cleanup")] = 0
            /\ held[Start!One("new")] = 0
            /\ held[Start!One("thread")] = 0 /\ held[Start!One("pool")] = 0
        BY <1>1 DEF StartInv, OwnHeld
      <4>2. held[Start!One("priorities")] = 0 \/ fault = "interim"
        BY <1>1 DEF StartInv, OwnHeld
      <4>3. /\ held[Start!One("epoll")] = 0 /\ held[Start!One("epoll_upgrade")] = 0
            /\ held[Start!Listen] = 0
            /\ held[Start!One("itc")] = 0 \/ fault \in {"random", "nnc", "nnc_lock"}
        BY <1>1 DEF StartInv, PollHeld, ListenHeld
      <4>4. \A m \in Own \ {"dhparams", "priorities", "itc"} : held[<<m, 0>>] = 0
        BY <4>1, <4>3
      <4>5. n \in {"dhparams", "priorities", "itc"}
        BY <3>2, <4>4
      <4>6. n = "priorities" => fault = "interim"
        BY <3>2, <4>2
      <4>7. n = "itc" => fault \in {"random", "nnc", "nnc_lock"}
        BY <3>2, <4>3
      <4>. QED BY <4>5, <4>6, <4>7
    <3>. QED BY <3>1, <3>3 DEF Start!Forgotten
  <2>2. CASE \E n \in Kinds : \E w \in 1..MaxPool : r = <<n, w>>
    <3>1. PICK n \in Kinds, w \in 1..MaxPool : r = <<n, w>>
      BY <2>2
    <3>2. held[<<n, w>>] # 0 /\ Started = {} /\ pc \notin Workers
      BY <1>1, <3>1 DEF StartInv, StartTypes, Start!TypeOK, Started
    <3>3. WorkerHeld(w)
      BY DEF StartInv, WorkersHeld
    <3>4. n \in {"epoll", "epoll_upgrade"} /\ fault \in {"w_epoll", "w_thread"}
      BY <3>2, <3>3 DEF WorkerHeld
    <3>5. r[1] = n /\ r[2] = w /\ w > 0
      BY <3>1, StartAssumption DEF Start!SizesAssumption
    <3>. QED BY <3>4, <3>5 DEF Start!Forgotten
  <2>. QED BY <2>1, <2>2, ResourceIs
<1>2. ASSUME pc = "running", NEW w \in 0..MaxPool, held[<<"thread", w>>] > 0
      PROVE  \/ "itc" \in daemon.polled[w]
             \/ HAVE_LISTEN_SHUTDOWN /\ "listen" \in daemon.polled[w] /\ ~ daemon.was_quiesced
  <2>1. Start!UsesThreads /\ Wakes(w)
    <3>1. CASE w = 0
      <4>1. held[Start!One("thread")] # 0
        BY <1>2, <3>1
      <4>2. daemon.worker_pool_size = 0 /\ Start!UsesThreads
        BY <1>2, <4>1 DEF StartInv, OwnHeld
      <4>. QED BY <1>2, <3>1, <4>2 DEF StartInv, Prepared
    <3>2. CASE w # 0
      <4>1. w \in 1..MaxPool /\ held[<<"thread", w>>] # 0
        BY <1>2, <3>2, StartAssumption DEF Start!SizesAssumption
      <4>2. WorkerHeld(w)
        BY <4>1 DEF StartInv, WorkersHeld
      <4>3. w \in Started /\ Started = 1..daemon.worker_pool_size
        BY <1>2, <4>1, <4>2 DEF WorkerHeld, Started
      <4>4. daemon.worker_pool_size > 0
        BY <4>1, <4>3 DEF StartInv, StartTypes
      <4>. QED BY <1>2, <4>3, <4>4 DEF StartInv, Prepared, Chosen
    <3>. QED BY <3>1, <3>2
  <2>2. CASE Start!Has("ITC")
    BY <2>1, <2>2 DEF Wakes
  <2>3. CASE ~ Start!Has("ITC")
    <3>1. HAVE_LISTEN_SHUTDOWN /\ ~ Start!Has("NO_LISTEN_SOCKET")
      BY <1>2, <2>1, <2>3 DEF StartInv, Chosen
    <3>2. daemon.listen_fd # "none" /\ ~ daemon.was_quiesced
      BY <1>2, <2>1, <2>3, <3>1 DEF StartInv, ListenHeld
    <3>. QED BY <2>1, <3>1, <3>2 DEF Wakes
  <2>. QED BY <2>2, <2>3
<1>3. ASSUME pc = "running", held[Start!One("pool")] > 0
      PROVE  /\ \A w \in 1..daemon.worker_pool_size :
                  daemon.limit[w] = Start!Cardinality(Start!Dealt(w))
             /\ \A w, v \in 1..daemon.worker_pool_size : daemon.limit[w] <= daemon.limit[v] + 1
  <2>1. daemon.worker_pool_size \in Nat /\ daemon.connection_limit \in Nat
            /\ daemon.worker_pool_size > 0
    BY <1>3, StartAssumption DEF StartInv, StartTypes, OwnHeld, Start!SizesAssumption
  <2>2. \A w \in 1..daemon.worker_pool_size : daemon.limit[w] = Start!WorkerLimit(w)
    BY <1>3 DEF StartInv, Prepared, Started
  <2>3. daemon.connection_limit \div daemon.worker_pool_size \in Nat
    BY <2>1, Divided
  <2>4. ASSUME NEW w \in 1..daemon.worker_pool_size
        PROVE  Start!Cardinality(Start!Dealt(w)) = Start!WorkerLimit(w)
    <3>1. w - 1 \in 0..daemon.worker_pool_size - 1
      BY <2>1
    <3>2. Cardinality(Start!Dealt(w)) = Start!WorkerLimit(w)
      BY <2>1, <3>1, DealtOut DEF Start!Dealt, Start!WorkerLimit
    <3>3. Start!Cardinality(Start!Dealt(w)) = Cardinality(Start!Dealt(w))
      BY DEF Cardinality, Start!Cardinality
    <3>. QED BY <3>2, <3>3
  <2>5. \A w, v \in 1..daemon.worker_pool_size : Start!WorkerLimit(w) <= Start!WorkerLimit(v) + 1
    BY <2>3 DEF Start!WorkerLimit
  <2>. QED BY <2>2, <2>4, <2>5
<1>. QED BY <1>1, <1>2, <1>3 DEF StartInv, Start!StartRight, Start!NothingLeft,
         Start!CanBeStopped, Start!LimitsShared

-----------------------------------------------------------------------------
(***************************************************************************)
(* What holds of every start and every stop.                               *)
(***************************************************************************)

\* At every place of MHD_start_daemon_va(), of its error paths and of MHD_stop_daemon(),
\* exactly what StartInv tells is held: each resource at most once, each by its owner,
\* and the threads that have been started watch the descriptors that can wake them.
THEOREM StartKept == Start!Spec => []StartInv
<1>1. Start!Init => StartInv
  BY StartInvInit
<1>2. StartInv /\ [Start!Next]_(Start!vars) => StartInv'
  BY StartStep
<1>. QED BY <1>1, <1>2, PTL DEF Start!Spec

\* Whatever fails during a start, and however a daemon is quiesced and stopped, nothing
\* is released twice but what ReleasedOnce names, nothing stays held but what Forgotten
\* lists, every thread can be woken by MHD_stop_daemon(), the increment fits the pool,
\* and the connections are dealt out to the workers evenly.
THEOREM StartsRight == Start!Spec => []StartRight
<1>1. StartInv => StartRight
  BY StartInvMeans DEF StartRight
<1>. QED BY <1>1, StartKept, PTL
=============================================================================
