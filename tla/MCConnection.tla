---------------------------- MODULE MCConnection ----------------------------
(***************************************************************************)
(* Connection for TLC: a pipelined pair of commands, one with an invalid    *)
(* header after a valid request, one with an invalid count.                 *)
(***************************************************************************)
EXTENDS Connection

MCPrograms == {<<"PUSH", "DEL">>, <<"GET", "BADHDR">>, <<"BADCOUNT">>}
=============================================================================
