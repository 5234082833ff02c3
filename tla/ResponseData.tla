---------------------------- MODULE ResponseData ----------------------------
(***************************************************************************)
(* Creation, reading and destruction of the body of a response             *)
(* (response.c).  The application hands over a buffer, a vector of         *)
(* buffers, a file, a pipe or a content reader; every allocation may fail. *)
(* What is modelled is who owns what afterwards, which sizes are refused,  *)
(* and which bytes the new response will deliver.                          *)
(*                                                                         *)
(* Sizes and offsets are unsigned of width W bits (uint64_t in the code),  *)
(* int64_t and ssize_t reach 2^(W-1)-1, and 2^W-1 is MHD_SIZE_UNKNOWN.     *)
(***************************************************************************)
EXTENDS Integers, Sequences, SequencesExt, FiniteSets

CONSTANTS W,           \* width in bits of size_t and uint64_t
          Sizes,       \* the sizes and offsets the application passes
          Buffers,     \* the application's buffers, without NULL
          NULL,        \* a pointer that points nowhere
          MaxIov,      \* longest vector the application passes
          FileLen,     \* length of the application's file
          BlockSize    \* MHD_FILE_READ_BLOCK_SIZE

WidthAssumption == W \in Nat /\ W >= 2 /\ 2^(W - 1) \in Nat \ {0, 1} /\ 2^W = 2 * 2^(W - 1)
SizesAssumption == Sizes \subseteq 0..(2^W - 1)

VARIABLES response,    \* the response, or NULL
          heap,        \* what the library has allocated and not released
          released,    \* how often each resource of the application was released
          given,       \* what the application asked for in the call
          result       \* what the last call returned

vars == <<response, heap, released, given, result>>

SIZE_UNKNOWN == 2^W - 1
SSIZE_MAX == 2^(W - 1) - 1
Wrap(n) == n % 2^W
AsSigned(n) == IF n > SSIZE_MAX THEN n - 2^W ELSE n

(* The pointer to the response, of a failed or not yet made call. *)
NoResponse == NULL

(* Elements of the vector an application may pass: a base and a length. *)
Elements == [base : Buffers \cup {NULL}, len : Sizes]

(* The members of struct MHD_Response that describe the body. *)
Fresh == [total |-> 0, data |-> NULL, size |-> 0, iov |-> << >>, fd |-> FALSE,
          off |-> 0, pipe |-> FALSE, crc |-> "none", crfc |-> "none"]

Nothing == [call |-> "none", parts |-> << >>, size |-> 0, off |-> 0,
            owned |-> "none"]

Init ==
    /\ response = NoResponse
    /\ heap = {}
    /\ released = [x \in {"buffer", "fd", "cls"} |-> 0]
    /\ given = Nothing
    /\ result = "none"

(* A call that failed leaves nothing of its own behind. *)
Refuse(g) ==
    /\ given' = g
    /\ result' = "NULL"
    /\ UNCHANGED <<response, heap, released>>

Accept(g, r, h) ==
    /\ given' = g
    /\ response' = r
    /\ heap' = heap \cup h
    /\ result' = "response"
    /\ UNCHANGED released

(* MHD_create_response_from_callback(): `memory' and `mutex' say whether    *)
(* malloc() and the initialisation of the mutex succeed.                   *)
FromCallback(g, size, block, reader, crfc, memory, mutex, more) ==
    IF reader = "none" \/ block = 0 \/ ~memory \/ ~mutex
    THEN Refuse(g)
    ELSE Accept(g, [Fresh EXCEPT !.total = size, !.size = 0, !.crc = reader,
                                 !.crfc = crfc, !.fd = more.fd, !.off = more.off,
                                 !.pipe = more.pipe], {"response", "mutex"})

CreateFromCallback(size, block, reader, memory, mutex) ==
    /\ response = NoResponse
    /\ FromCallback([Nothing EXCEPT !.call = "callback", !.size = size,
                                    !.owned = "cls"],
                    size, block, reader, "cls", memory, mutex,
                    [fd |-> FALSE, off |-> 0, pipe |-> FALSE])

MutantSumUnchecked(size, off) == AsSigned(size) >= 0 /\ AsSigned(off) >= 0

(* MHD_create_response_from_fd_at_offset64(); the other functions for files *)
(* call it with offset 0 or with an offset they have found not negative.   *)
SizesOfFile(size, off) ==
    /\ AsSigned(size) >= 0
    /\ AsSigned(off) >= 0
    /\ AsSigned(Wrap(size + off)) >= 0

CreateFromFd(size, off, memory, mutex) ==
    LET g == [Nothing EXCEPT !.call = "fd", !.size = size, !.off = off,
                             !.owned = "fd"]
    IN  /\ response = NoResponse
        /\ IF SizesOfFile(size, off)
           THEN FromCallback(g, size, BlockSize, "file_reader", "fd", memory,
                             mutex, [fd |-> TRUE, off |-> off, pipe |-> FALSE])
           ELSE Refuse(g)

(* MHD_create_response_from_pipe() *)
CreateFromPipe(memory, mutex) ==
    /\ response = NoResponse
    /\ FromCallback([Nothing EXCEPT !.call = "pipe", !.size = SIZE_UNKNOWN,
                                    !.owned = "fd"],
                    SIZE_UNKNOWN, BlockSize, "pipe_reader", "fd", memory, mutex,
                    [fd |-> TRUE, off |-> 0, pipe |-> TRUE])

(* MHD_create_response_from_buffer_with_free_callback_cls(): `also' is what *)
(* the caller has allocated for it.                                        *)
BufferRefused(size, buffer, memory, mutex) ==
    \/ buffer = NULL /\ size > 0
    \/ size = SIZE_UNKNOWN
    \/ ~memory
    \/ ~mutex

FromBuffer(g, size, buffer, crfc, memory, mutex, also) ==
    IF BufferRefused(size, buffer, memory, mutex)
    THEN Refuse(g)
    ELSE Accept(g, [Fresh EXCEPT !.total = size, !.data = buffer,
                                 !.size = size, !.crfc = crfc],
                {"response", "mutex"} \cup also)

(* MHD_create_response_from_buffer() with the modes PERSISTENT (also the   *)
(* static variant) and MUST_FREE (also the variants with a free callback). *)
CreateFromBuffer(size, buffer, mustFree, memory, mutex) ==
    LET owner == IF mustFree THEN "buffer" ELSE "none"
    IN  /\ response = NoResponse
        /\ FromBuffer([Nothing EXCEPT !.call = "buffer", !.size = size,
                                      !.parts = <<[base |-> buffer, len |-> size]>>,
                                      !.owned = owner],
                      size, buffer, owner, memory, mutex, {})

MutantCopyLost(size, buffer, copied, memory, mutex) ==
    LET g == [Nothing EXCEPT !.call = "copy", !.size = size,
                             !.parts = <<[base |-> buffer, len |-> size]>>]
    IN  /\ response = NoResponse
        /\ IF size = 0
           THEN FromBuffer(g, 0, NULL, "none", memory, mutex, {})
           ELSE IF buffer = NULL \/ ~copied
           THEN Refuse(g)
           ELSE IF BufferRefused(size, buffer, memory, mutex)
           THEN /\ given' = g
                /\ heap' = heap \cup {"copy"}
                /\ result' = "NULL"
                /\ UNCHANGED <<response, released>>
           ELSE FromBuffer(g, size, buffer, "copy", memory, mutex, {"copy"})

(* MHD_create_response_from_buffer_copy(), which allocates the copy first  *)
(* and releases it when the response cannot be made.                       *)
CreateFromCopy(size, buffer, copied, memory, mutex) ==
    LET g == [Nothing EXCEPT !.call = "copy", !.size = size,
                             !.parts = <<[base |-> buffer, len |-> size]>>]
    IN  /\ response = NoResponse
        /\ IF size = 0
           THEN FromBuffer(g, 0, NULL, "none", memory, mutex, {})
           ELSE IF buffer = NULL \/ ~copied
           THEN Refuse(g)
           ELSE FromBuffer(g, size, buffer, "copy", memory, mutex, {"copy"})

(* Elements that carry data, in order. *)
NonEmpty(iov) == SelectSeq(iov, LAMBDA e : e.len # 0)
SumOf(iov) == FoldSeq(LAMBDA e, n : e.len + n, 0, iov)

MutantNoLimit(iov, i) == iov[i].len # 0 /\ iov[i].base = NULL

(* The loop over the vector stops at the first element without a buffer and *)
(* at the first one that makes the sum too large; the sum is of width W.   *)
BadElement(iov, i) ==
    LET before == Wrap(SumOf(SubSeq(iov, 1, i - 1)))
        sum == Wrap(before + iov[i].len)
    IN  /\ iov[i].len # 0
        /\ \/ iov[i].base = NULL
           \/ before > sum
           \/ SSIZE_MAX < sum

IovRefused(iov) == \E i \in 1..Len(iov) : BadElement(iov, i)

(* MHD_create_response_from_iovec(): nothing, one buffer, or a copy of the *)
(* elements that carry data.                                               *)
CreateFromIovec(iov, copied, memory, mutex) ==
    LET parts == NonEmpty(iov)
        g == [Nothing EXCEPT !.call = "iovec", !.parts = iov, !.owned = "cls"]
        r == [Fresh EXCEPT !.total = SumOf(iov), !.crfc = "cls"]
    IN  /\ response = NoResponse
        /\ CASE ~memory \/ ~mutex \/ IovRefused(iov) -> Refuse(g)
             [] Len(parts) = 0 -> Accept(g, r, {"response", "mutex"})
             [] Len(parts) = 1 ->
                    Accept(g, [r EXCEPT !.data = parts[1].base, !.size = r.total],
                           {"response", "mutex"})
             [] Len(parts) > 1 /\ ~copied -> Refuse(g)
             [] OTHER -> Accept(g, [r EXCEPT !.iov = parts],
                                {"response", "mutex", "iov"})

(* MHD_create_response_empty() *)
CreateEmpty(memory, mutex) ==
    /\ response = NoResponse
    /\ IF memory /\ mutex
       THEN Accept([Nothing EXCEPT !.call = "empty"], Fresh, {"response", "mutex"})
       ELSE Refuse([Nothing EXCEPT !.call = "empty"])

(* file_reader() at position `pos' of the body, when pread() gives n bytes. *)
FileReader(r, pos, n) ==
    LET at == Wrap(pos + r.off)
    IN  IF AsSigned(at) < 0 THEN "END_WITH_ERROR"
        ELSE IF n = 0 THEN "END_OF_STREAM"
        ELSE "data"

(* The numbers of bytes pread() may give. *)
Readable(r, pos, max) ==
    LET at == Wrap(pos + r.off)
    IN  0..(IF at >= FileLen THEN 0
            ELSE IF max < FileLen - at THEN max ELSE FileLen - at)

(* One read of the body by a connection at write position `pos'.           *)
ReadFile(pos) ==
    /\ response # NoResponse
    /\ response.crc = "file_reader"
    /\ pos < response.total
    /\ LET left == response.total - pos
           max == IF BlockSize < left THEN BlockSize ELSE left
       IN  \E n \in Readable(response, pos, max) :
             /\ n = 0 => Readable(response, pos, max) = {0}
             /\ result' = FileReader(response, pos, n)
    /\ UNCHANGED <<response, heap, released, given>>

(* pipe_reader(): the position does not matter. *)
ReadPipe(n) ==
    /\ response # NoResponse
    /\ response.crc = "pipe_reader"
    /\ result' = CASE n = 0 -> "END_OF_STREAM"
                   [] n < 0 -> "END_WITH_ERROR"
                   [] OTHER -> "data"
    /\ UNCHANGED <<response, heap, released, given>>

(* MHD_destroy_response() when the last reference goes: the mutex, what    *)
(* the free callback releases (free_callback() closes the descriptor), the *)
(* copy of the vector and the response itself.                             *)
Destroy ==
    /\ response # NoResponse
    /\ released' = [x \in DOMAIN released |->
                      released[x] + IF x = response.crfc THEN 1 ELSE 0]
    /\ heap' = heap \ ({"mutex", "response"}
                       \cup (IF response.crfc = "copy" THEN {"copy"} ELSE {})
                       \cup (IF response.iov # << >> THEN {"iov"} ELSE {}))
    /\ response' = NoResponse
    /\ result' = "destroyed"
    /\ UNCHANGED given

(* One response per behaviour: the application stops after destroying it   *)
(* or after a refusal.                                                     *)
Next ==
    \/ /\ result = "none"
       /\ \E memory, mutex, other \in BOOLEAN :
            \/ \E size \in Sizes, block \in {0, BlockSize},
                  reader \in {"none", "app"} :
                  CreateFromCallback(size, block, reader, memory, mutex)
            \/ \E size, off \in Sizes : CreateFromFd(size, off, memory, mutex)
            \/ CreateFromPipe(memory, mutex)
            \/ \E size \in Sizes, b \in Buffers \cup {NULL} :
                  CreateFromBuffer(size, b, other, memory, mutex)
            \/ \E size \in Sizes, b \in Buffers \cup {NULL} :
                  CreateFromCopy(size, b, other, memory, mutex)
            \/ \E n \in 0..MaxIov : \E iov \in [1..n -> Elements] :
                  CreateFromIovec(iov, other, memory, mutex)
            \/ CreateEmpty(memory, mutex)
    \/ \E pos \in 0..(2^W - 1) : ReadFile(pos)
    \/ \E n \in -1..1 : ReadPipe(n)
    \/ Destroy

Spec == Init /\ [][Next]_vars

-----------------------------------------------------------------------------
(***************************************************************************)
(* Properties.                                                             *)
(***************************************************************************)
(* Ownership, from creation to MHD_destroy_response(): whatever fails,     *)
(* the library keeps memory only while there is a response, and releases   *)
(* what the application handed over exactly once, when the response is     *)
(* destroyed; after a refused call the application still owns everything.  *)
OwnedOnce ==
    /\ response = NoResponse => heap = {}
    /\ \A x \in DOMAIN released :
          released[x] = IF result = "destroyed" /\ given.owned = x THEN 1 ELSE 0

BodyOf(r) == IF r.iov # << >> THEN r.iov
             ELSE IF r.size > 0 THEN <<[base |-> r.data, len |-> r.size]>>
             ELSE << >>

(* The body of an accepted response made of buffers is what the application *)
(* handed over: the elements in order, those without data left out, and    *)
(* the announced size is their true sum, below the limit of ssize_t for a  *)
(* vector (MHD_create_response_from_iovec and the functions for buffers).        *)
BodyAsGiven ==
    response # NoResponse /\ given.call \in {"buffer", "copy", "iovec", "empty"} =>
        /\ BodyOf(response) = NonEmpty(given.parts)
        /\ response.total = SumOf(given.parts)
        /\ \A i \in 1..Len(BodyOf(response)) : BodyOf(response)[i].base # NULL
        /\ given.call = "iovec" => response.total <= SSIZE_MAX

(* A response made from a file never asks for a negative file offset at    *)
(* any position of its body: creation has refused such sizes, so the error *)
(* return of file_reader() for it is not reached.                          *)
FileOffsetsValid ==
    response # NoResponse /\ response.crc = "file_reader" =>
        result # "END_WITH_ERROR"
=============================================================================
