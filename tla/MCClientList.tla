---------------------------- MODULE MCClientList ----------------------------
(* ClientList for TLC.                                                      *)
EXTENDS ClientList
=============================================================================
