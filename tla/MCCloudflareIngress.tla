------------------------ MODULE MCCloudflareIngress ------------------------
(* Two CIDRs, and the lists that can be made of them.                      *)
EXTENDS CloudflareIngress

CONSTANTS w1, w2, x, y

TwoLists == {{}, {x}, {x, y}}

NonEmptyLists == {{x}, {y}, {x, y}}

=============================================================================
