-------------------------- MODULE MCRetryingClient --------------------------
(***************************************************************************)
(* Finite instances of RetryingClient: the limits of main.go, client.go    *)
(* and server.go at four ticks to the second, and a word of 10 bits, whose *)
(* largest duration is 127 seconds.                                        *)
(***************************************************************************)
EXTENDS RetryingClient
=============================================================================
