-------------------------------- MODULE MCHub --------------------------------
(* An instance of Hub for TLC: a connection to one server, and a worker.     *)
EXTENDS Hub

CONSTANTS c1, server, worker

AtServer == [c \in Clients |-> server]
=============================================================================
