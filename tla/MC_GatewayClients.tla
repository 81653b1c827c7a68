------------------------- MODULE MC_GatewayClients -------------------------
(* Model values for GatewayClients: two signers, so that an update of    *)
(* one signer can be told apart from an update of the other, one channel *)
(* per signer's maps, and one Invoke goroutine.                          *)
EXTENDS GatewayClients, TLC

CONSTANTS s1, s2, c1, r1

MCSigners == {s1, s2}
MCChannels == {c1}
MCRequests == {r1}

=============================================================================
