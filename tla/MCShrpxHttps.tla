---------------------------- MODULE MCShrpxHttps ----------------------------
(* Requests for the runs of ShrpxHttps: a plain GET, an upload that waits   *)
(* for 100 Continue and asks for the connection to be closed, and an upload *)
(* of unknown length.                                                       *)
EXTENDS ShrpxHttps

Kind(chunked, close, expect, body) ==
    [t |-> "hdr", chunked |-> chunked, close |-> close, expect |-> expect, body |-> body]

MCKinds == {Kind(FALSE, FALSE, FALSE, FALSE), Kind(FALSE, TRUE, TRUE, TRUE),
            Kind(TRUE, FALSE, FALSE, TRUE)}

MCKindsSized == {kind \in MCKinds : ~kind.chunked}
=============================================================================
