---------------------------- MODULE MCTcpSession ----------------------------
(***************************************************************************)
(* The environments that the runs of TcpSession cover: one session with    *)
(* enough packets to fill a queue, two sessions that follow each other in  *)
(* the same slot, a server that is removed, and a UDP remote.  The last    *)
(* one lets the second connection come while tasks of the first linger.    *)
(***************************************************************************)
EXTENDS TcpSession

Case(r, s, f, l, n, k) == [remote |-> r, stops |-> s, fails |-> f, late |-> l,
                           conns |-> n, pkts |-> k]
MCSettings == {Case("TCP", FALSE, FALSE, TRUE, 1, 2),
               Case("TCP", FALSE, TRUE, TRUE, 2, 1),
               Case("TCP", FALSE, FALSE, TRUE, 2, 0),
               Case("TCP", TRUE, FALSE, TRUE, 1, 0),
               Case("UDP", TRUE, TRUE, TRUE, 2, 2)}
MCNotLate == {Case("TCP", FALSE, FALSE, FALSE, 2, 0)}
=============================================================================
