----------------------------- MODULE MCTcpProxy -----------------------------
(***************************************************************************)
(* The environments TcpProxy is checked in.                                *)
(***************************************************************************)
EXTENDS TcpProxy

Case(l, f, c, m, t) == [location |-> l, fails |-> f, calm |-> c, more |-> m, late |-> t]

\* The forward proxy, with sockets closed between test and recv only for
\* browsers that send little; the reverse proxy, whose connections may fail,
\* refilled late, and refilled as its code does it.
MCSettings == {Case("CLIENT", FALSE, TRUE, TRUE, FALSE), Case("CLIENT", FALSE, FALSE, FALSE, FALSE),
               Case("SERVER", TRUE, TRUE, TRUE, TRUE), Case("SERVER", FALSE, TRUE, FALSE, FALSE)}
=============================================================================
