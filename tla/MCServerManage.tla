-------------------------- MODULE MCServerManage --------------------------
(***************************************************************************)
(* The settings ServerManage is checked in.                                *)
(***************************************************************************)
EXTENDS ServerManage

\* Nothing fails; anything fails after the start; commands come early.
MCSettings ==
  {[kind |-> "tcp", early |-> FALSE, fails |-> FALSE, nomem |-> FALSE],
   [kind |-> "tcp", early |-> FALSE, fails |-> TRUE, nomem |-> TRUE],
   [kind |-> "udp", early |-> FALSE, fails |-> TRUE, nomem |-> FALSE],
   [kind |-> "tcp", early |-> TRUE, fails |-> FALSE, nomem |-> FALSE]}
=============================================================================
