------------------------------- MODULE MCReply -------------------------------
(***************************************************************************)
(* The body of a reply: the data of a response, a response shared by       *)
(* connections, the functions that send it.  A behaviour is about one of   *)
(* them; its first state chooses which.                                    *)
(***************************************************************************)
EXTENDS SharedResponse, Sequences, TLC

CONSTANTS NULL, b1, b2

(* Headers of one or two bytes, bodies of up to three, one vector longer   *)
(* than a call takes, a file larger than the buffer and than one chunk.    *)
SentReplies ==
  {[kind |-> "data", header |-> 2, body |-> <<2>>],
   [kind |-> "data", header |-> 1, body |-> << >>],
   [kind |-> "iov", header |-> 1, body |-> <<1, 2, 1>>],
   [kind |-> "file", header |-> 1, body |-> <<3>>]}

VARIABLES
  part,  \* the component this behaviour is about
  response, heap, released, given, result, env, sk, rp, wire, epoll, sent_failed, count

Data == INSTANCE ResponseData WITH
  W <- 3, Sizes <- {0, 1, 3, 4, 6, 7}, Buffers <- {b1, b2}, MaxIov <- 2, FileLen <- 3,
  BlockSize <- 2

Sent == INSTANCE Send WITH
  Replies <- SentReplies, Systems <- {"linux", "freebsd", "bsd", "nocork"}, MaxReplies <- 2,
  SendMax <- 3, IovMax <- 2, ChunkMax <- 2, OnePacket <- 4, BufSize <- 2, Failures <- {"cork",
  "nodelay"}, failed <- sent_failed

dvars == <<response, heap, released, given, result>>
svars == <<env, sk, rp, wire, epoll, sent_failed, count>>
allvars == <<vars, part, dvars, svars>>

\* A component that this behaviour is not about.
SharedIdle == Init /\ kind = "crc" /\ ~enforced /\ total = Length
DataIdle == response = NULL /\ heap = NULL /\ released = NULL /\ given = NULL /\ result = NULL
SentIdle ==
  /\ env = NULL /\ sk = NULL /\ rp = NULL /\ wire = NULL /\ epoll = NULL /\ sent_failed = NULL
  /\ count = NULL

AnyInit ==
  \/ part = "shared" /\ Init /\ DataIdle /\ SentIdle
  \/ part = "data" /\ Data!Init /\ SharedIdle /\ SentIdle
  \/ part = "send" /\ Sent!Init /\ SharedIdle /\ DataIdle

AnyNext ==
  \/ part = "shared" /\ Next /\ UNCHANGED <<part, dvars, svars>>
  \/ part = "data" /\ Data!Next /\ UNCHANGED <<part, vars, svars>>
  \/ part = "send" /\ Sent!Next /\ UNCHANGED <<part, vars, dvars>>

AnySpec == AnyInit /\ [][AnyNext]_allvars

-----------------------------------------------------------------------------
(* Properties of the components. *)

(***************************************************************************)
(* Properties.                                                             *)
(***************************************************************************)
(* Ownership, from creation to MHD_destroy_response(): whatever fails,     *)
(* the library keeps memory only while there is a response, and releases   *)
(* what the application handed over exactly once, when the response is     *)
(* destroyed; after a refused call the application still owns everything.  *)
(* The body of an accepted response made of buffers is what the application *)
(* handed over: the elements in order, those without data left out, and    *)
(* the announced size is their true sum, below the limit of ssize_t for a  *)
(* vector (MHD_create_response_from_iovec and the functions for buffers).        *)
(* A response made from a file never asks for a negative file offset at    *)
(* any position of its body: creation has refused such sizes, so the error *)
(* return of file_reader() for it is not reached.                          *)
DataAsGiven ==
  part = "data" =>
    /\ Data!OwnedOnce
    /\ Data!BodyAsGiven
    /\ Data!FileOffsetsValid

(* Whatever parts the kernel takes, whichever of the four senders is used   *)
(* and whenever sendfile() is given up, the client gets the header and the  *)
(* body in order, without gaps or repeats, and a finished reply is          *)
(* complete (MHD_connection_handle_write with all of mhd_send.c).           *)
(* A complete reply is not held back in the kernel by TCP_CORK, Nagle's     *)
(* algorithm or MSG_MORE, unless an option could not be set; on Linux one   *)
(* of the two options is enough (pre_send_setopt and post_send_setopt).     *)
(* A header whose body is not in memory does not wait for the body          *)
(* (push_hdr in MHD_send_hdr_and_body_).                                    *)
(* The remembered options are the options of the socket: a wrong guess would *)
(* skip a system call that is needed (sk_corked, sk_nodelay).               *)
SentRight ==
  part = "send" =>
    /\ Sent!WireInOrder
    /\ Sent!DonePushed
    /\ Sent!HeaderPushed
    /\ Sent!CacheTrue

\* The connections that share a response are alike.
ConnSymmetry == Permutations(Conn)

ASSUME Data!WidthAssumption /\ Data!SizesAssumption
ASSUME ConnAssumption /\ LengthAssumption
=============================================================================
