------------------------------- MODULE MCLoops -------------------------------
(***************************************************************************)
(* The timeouts of the select() and poll() loops, the threads of the       *)
(* connections, and the thread that forwards the data of an upgraded       *)
(* connection.  A behaviour is about one of them; its first state chooses  *)
(* which.                                                                  *)
(***************************************************************************)
EXTENDS Timeouts, Loops, TLC

CONSTANTS NULL, c1, c2

Two == {c1, c2}
Symmetry == Permutations(Two)

allvars == <<vars, part, itc, shutdown, dresuming, connections, at_limit, tpc_place,
  suspended, resuming, thread_joined, sock, pc, was_suspended, dpc, dcon, dset, panic, held,
  waking, nsuspends, app, in, in_size, out, out_size, app_celi, mhd_celi, was_closed,
  tls_ready, fwd_shutdown, seen_closed, fwd_pc, client, csent, net, tls, cgot, fwd_app, shut,
  asent, up, down, agot>>

AnyInit ==
  \/ /\ part = "timeouts" /\ Init
     /\ itc = NULL /\ shutdown = NULL /\ dresuming = NULL /\ connections = NULL
     /\ at_limit = NULL /\ tpc_place = NULL /\ suspended = NULL /\ resuming = NULL
     /\ thread_joined = NULL /\ sock = NULL /\ pc = NULL /\ was_suspended = NULL
     /\ dpc = NULL /\ dcon = NULL /\ dset = NULL /\ panic = NULL /\ held = NULL
     /\ waking = NULL /\ nsuspends = NULL /\ app = NULL /\ in = NULL /\ in_size = NULL
     /\ out = NULL /\ out_size = NULL /\ app_celi = NULL /\ mhd_celi = NULL
     /\ was_closed = NULL /\ tls_ready = NULL /\ fwd_shutdown = NULL /\ seen_closed = NULL
     /\ fwd_pc = NULL /\ client = NULL /\ csent = NULL /\ net = NULL /\ tls = NULL
     /\ cgot = NULL /\ fwd_app = NULL /\ shut = NULL /\ asent = NULL /\ up = NULL
     /\ down = NULL /\ agot = NULL
  \/ /\ part = "threads" /\ Tpc!Init /\ Init
     /\ in = NULL /\ in_size = NULL /\ out = NULL /\ out_size = NULL /\ app_celi = NULL
     /\ mhd_celi = NULL /\ was_closed = NULL /\ tls_ready = NULL /\ fwd_shutdown = NULL
     /\ seen_closed = NULL /\ fwd_pc = NULL /\ client = NULL /\ csent = NULL /\ net = NULL
     /\ tls = NULL /\ cgot = NULL /\ fwd_app = NULL /\ shut = NULL /\ asent = NULL
     /\ up = NULL /\ down = NULL /\ agot = NULL
  \/ /\ part = "forwarding" /\ Fwd!Init /\ Init
     /\ itc = NULL /\ shutdown = NULL /\ dresuming = NULL /\ connections = NULL
     /\ at_limit = NULL /\ tpc_place = NULL /\ suspended = NULL /\ resuming = NULL
     /\ thread_joined = NULL /\ sock = NULL /\ pc = NULL /\ was_suspended = NULL
     /\ dpc = NULL /\ dcon = NULL /\ dset = NULL /\ panic = NULL /\ held = NULL
     /\ waking = NULL /\ nsuspends = NULL /\ app = NULL

AnyNext ==
  \/ /\ part = "timeouts" /\ Next
     /\ UNCHANGED <<part, itc, shutdown, dresuming, connections, at_limit, tpc_place, suspended,
        resuming, thread_joined, sock, pc, was_suspended, dpc, dcon, dset, panic, held,
        waking, nsuspends, app, in, in_size, out, out_size, app_celi, mhd_celi,
        was_closed, tls_ready, fwd_shutdown, seen_closed, fwd_pc, client, csent, net,
        tls, cgot, fwd_app, shut, asent, up, down, agot>>
  \/ /\ part = "threads" /\ Tpc!Next
     /\ UNCHANGED <<part, vars, in, in_size, out, out_size, app_celi, mhd_celi, was_closed,
        tls_ready, fwd_shutdown, seen_closed, fwd_pc, client, csent, net, tls, cgot,
        fwd_app, shut, asent, up, down, agot>>
  \/ /\ part = "forwarding" /\ Fwd!Next
     /\ UNCHANGED <<part, vars, itc, shutdown, dresuming, connections, at_limit, tpc_place,
        suspended, resuming, thread_joined, sock, pc, was_suspended, dpc, dcon, dset,
        panic, held, waking, nsuspends, app>>

AnySpec == AnyInit /\ [][AnyNext]_allvars

ASSUME Fwd!PollAssumption /\ Fwd!SizeAssumption
ASSUME Tpc!ConnAssumption /\ Tpc!LimitAssumption
=============================================================================
