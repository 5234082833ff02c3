---------------------------- MODULE AccessHandler ----------------------------
(***************************************************************************)
(* What the library promises the application about the calls of its        *)
(* MHD_AccessHandlerCallback and MHD_RequestCompletedCallback for the      *)
(* requests of one connection (src/include/microhttpd.h, lines 2659-2686   *)
(* and the option MHD_OPTION_NOTIFY_COMPLETED): a call when the header has *)
(* been received, a call for every part of the body, in order and without  *)
(* a gap, a call when the request is complete, and one completion for each *)
(* request the application has been told of.  Connection.tla implements it.*)
(***************************************************************************)
EXTENDS Naturals

CONSTANT MaxUpload   \* the longest request body, in units of data

VARIABLES
  calls,      \* the last kind of call made for the request, "none" before the first
  got,        \* how much of the body the application has taken
  whole,      \* the size of the body of the request
  discarded   \* has the library given up reading the rest of the request?

hvars == <<calls, got, whole, discarded>>

Init == calls = "none" /\ got = 0 /\ whole = 0 /\ discarded = FALSE

\* The header is complete.  Repeated when the application suspends the
\* connection in this call, and after a "102 Processing" reply.
First ==
  /\ calls \in {"none", "first", "final"}
  /\ calls' = "first"
  /\ whole' \in IF calls = "none" THEN 0..MaxUpload ELSE {whole}
  /\ UNCHANGED <<got, discarded>>

\* The application takes the next part of the body, or refuses to for now.
Upload ==
  /\ calls \in {"first", "upload"} /\ ~discarded
  /\ calls' = "upload"
  /\ got' \in got..whole
  /\ UNCHANGED <<whole, discarded>>

\* "If response is provided before request is fully received, the rest of the
\* request is discarded"; also after an error in the request.
Discard ==
  /\ calls # "none"
  /\ discarded' = TRUE
  /\ UNCHANGED <<calls, got, whole>>

\* Everything has been received, unless it is discarded (then the call asks
\* for the reply that follows a "102 Processing").
Final ==
  /\ calls # "none"
  /\ got = whole \/ (discarded /\ calls # "upload")
  /\ calls' = "final"
  /\ UNCHANGED <<got, whole, discarded>>

\* MHD_RequestCompletedCallback: only for a request the application knows.
Completed ==
  /\ calls # "none"
  /\ calls' = "none" /\ got' = 0 /\ whole' = 0 /\ discarded' = FALSE

Next == First \/ Upload \/ Discard \/ Final \/ Completed

Spec == Init /\ [][Next]_hvars
=============================================================================
