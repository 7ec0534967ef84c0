---------------------------- MODULE MCServerThreads ----------------------------
(***************************************************************************)
(* A small instance of ServerThreads: one client that makes two calls, one *)
(* that only takes up a connection, and one in-process caller.             *)
(***************************************************************************)
EXTENDS ServerThreads

MCCalls == [c \in Connections |-> IF c = "caller" THEN 2 ELSE 0]
================================================================================
