------------------------------- MODULE MCRelay -------------------------------
(***************************************************************************)
(* Instances of Relay for TLC: the server sends more than the queue to the *)
(* client holds, the client little; three of the bytes have a descriptor.  *)
(***************************************************************************)
EXTENDS Relay

MCDescriptorsAt == [s \in Sides |-> IF s = "server" THEN {0, 4} ELSE {1}]
MCMaxBytes == [s \in Sides |-> IF s = "server" THEN 8 ELSE 2]
=============================================================================
