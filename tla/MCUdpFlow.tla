----------------------------- MODULE MCUdpFlow -----------------------------
(***************************************************************************)
(* Environments for model-checking UdpFlow.                                *)
(***************************************************************************)
EXTENDS UdpFlow

\* A TCP channel over a link that loses and reorders packets.
Tcp == [heartbeat |-> TRUE, channel |-> "tcp", pkts |-> 9, loss |-> 2,
        losesAnswers |-> FALSE, overtake |-> 2, crossing |-> FALSE,
        refusals |-> 0, givesUp |-> FALSE, silent |-> FALSE, fails |-> FALSE]

\* The same when anything may go wrong.
TcpFaults == [Tcp EXCEPT !.pkts = 5, !.loss = 1, !.losesAnswers = TRUE, !.overtake = 1,
                         !.crossing = TRUE, !.givesUp = TRUE, !.silent = TRUE]

\* A UDP channel when anything may go wrong.
UdpFaults == [TcpFaults EXCEPT !.channel = "udp", !.refusals = 2]

\* Without acknowledgements and requests.
NoHeartbeat == [Tcp EXCEPT !.heartbeat = FALSE, !.loss = 3, !.overtake = 0, !.fails = TRUE]

AllEnvs == {Tcp, TcpFaults, UdpFaults, NoHeartbeat}

\* One lost packet, and packets are sent while a request is on its way.
CrossingEnvs == {[Tcp EXCEPT !.overtake = 0, !.loss = 1, !.crossing = TRUE]}
=============================================================================
