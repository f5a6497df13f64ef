---------------------------- MODULE MCAuroraDma ----------------------------
(* Two processes that take the device in turn, die and start again, and a   *)
(* firmware with three addresses, of which lost registrations take some.    *)
EXTENDS AuroraDma
MCProcs == {1, 2}
MCAddrs == {11, 12, 13}
=============================================================================
