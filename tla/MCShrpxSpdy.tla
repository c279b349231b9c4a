---------------------------- MODULE MCShrpxSpdy -----------------------------
(* Two streams of one client, an upload that fills the window and a request *)
(* that may be a tunnel.                                                     *)
EXTENDS ShrpxSpdy, TLC

CONSTANTS i1, i2, c1, c2
MCStreams == {i1, i2}
MCConns == {c1, c2}
MCMaxUpload == (i1 :> 1) @@ (i2 :> 0)
MCMethods == (i1 :> {"plain"}) @@ (i2 :> {"plain", "CONNECT"})
MCSymmetry == Permutations(MCConns)
=============================================================================
