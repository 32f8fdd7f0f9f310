----------------------------- MODULE MCCommConn -----------------------------
(***************************************************************************)
(* The settings CommConn is checked in.                                    *)
(***************************************************************************)
EXTENDS CommConn

One == [quick |-> FALSE, whole |-> FALSE, fails |-> FALSE, conns |-> {1}, most |-> 2, kinds |-> Kinds, lens |-> {2, 3}]
Two == [One EXCEPT !.whole = TRUE, !.conns = {1, 2}, !.lens = {2}]
Three == [Two EXCEPT !.conns = {1, 2, 3}, !.most = 1, !.kinds = {"acked"}]

\* Requests of two lengths in any pieces, three silent ones; whole ones
\* of every kind; two of one kind on each connection; more connections than
\* slots; failures; slots filled too early.
MCSettings == {One, [One EXCEPT !.most = 3, !.kinds = {"silent"}, !.lens = {1, 2, 4}], [Two EXCEPT !.most = 1],
               [Two EXCEPT !.kinds = {"acked"}], Three,
               [Two EXCEPT !.most = 1, !.kinds = {"acked"}, !.fails = TRUE], [Three EXCEPT !.quick = TRUE],
               [Two EXCEPT !.quick = TRUE, !.kinds = {"acked"}]}
=============================================================================
