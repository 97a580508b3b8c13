--------------------------- MODULE MCRunContainer ---------------------------
(* Two container calls of one name, one of which may meet any fault and may be *)
(* killed.                                                                     *)
EXTENDS RunContainer

CONSTANTS c1, c2, ip1, ip2

BothCalls == {c1, c2}
BothIPs == {ip1, ip2}
OneCall == {c1}
=============================================================================
