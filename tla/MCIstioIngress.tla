--------------------------- MODULE MCIstioIngress ---------------------------
(* Two CIDRs, and the lists that can be made of them.                      *)
EXTENDS IstioIngress

CONSTANTS w1, w2, x, y

TwoLists == {{}, {x}, {x, y}}

=============================================================================
