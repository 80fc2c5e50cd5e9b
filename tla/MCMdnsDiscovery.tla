--------------------------- MODULE MCMdnsDiscovery ---------------------------
(***************************************************************************)
(* The agents of two services, one started while the thread of the other   *)
(* ends, and a machine with two IPv4 addresses.                            *)
(***************************************************************************)
EXTENDS MdnsDiscovery

MCKeys(h) == {<<h, 1>>, <<h, 2>>}
=============================================================================
