-------------------------- MODULE MCDrainRequests ---------------------------
(* A small instance of DrainRequests for TLC. *)
EXTENDS DrainRequests

CONSTANTS l1, s1, w1, w2, j1, j2, j3, j4
=============================================================================
