------------------------------ MODULE MCWebUI ------------------------------
(* Two values of each document.  The environment sets everything in which the *)
(* settings differ, or nothing.                                               *)
EXTENDS WebUI
AllSet  == [v \in Values |-> MaxDoc]
NoneSet == [v \in Values |-> v]
=============================================================================
