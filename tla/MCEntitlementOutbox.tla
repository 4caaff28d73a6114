------------------------ MODULE MCEntitlementOutbox ------------------------
(* EntitlementOutbox on small instances. *)
EXTENDS EntitlementOutbox

CONSTANTS o1, o2, w1, w2
=============================================================================
