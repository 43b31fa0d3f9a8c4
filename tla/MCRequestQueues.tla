-------------------------- MODULE MCRequestQueues --------------------------
(* The instances MCQueues*.cfg of RequestQueues. Keys and connections are   *)
(* model values; the bound is on the number of requests.                    *)
EXTENDS RequestQueues
============================================================================
