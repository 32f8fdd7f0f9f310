--------------------------- MODULE MCUdpSessions ---------------------------
(***************************************************************************)
(* The settings UdpSessions is checked in.                                 *)
(***************************************************************************)
EXTENDS UdpSessions

Client == [loc |-> "client", lines |-> 2, fails |-> FALSE, calm |-> FALSE]
Server == [Client EXCEPT !.loc = "server"]

\* Packets and checks apart: a slot for each of the three flows, sockets open;
\* too few slots, sockets that may not open.  In any order: two slots, and one,
\* with sockets that open or may not.  A SERVER's flows are more than its
\* reassembly queues.
MCSettings ==
  {[Client EXCEPT !.calm = TRUE, !.lines = 3], [Server EXCEPT !.calm = TRUE, !.lines = 3],
   [Client EXCEPT !.calm = TRUE, !.fails = TRUE], [Server EXCEPT !.calm = TRUE, !.fails = TRUE],
   Client, [Client EXCEPT !.lines = 1, !.fails = TRUE], [Server EXCEPT !.lines = 1]}
=============================================================================
