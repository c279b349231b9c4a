---------------------------- MODULE MCSpdyClient ----------------------------
(* Every program and mode, with two clients but for registering and           *)
(* refreshing ones, which share nothing and come one at a time; the first      *)
(* client reconnects.  Clients that only listen both get pushes.              *)
EXTENDS SpdyClient

MCModes == {"full", "refresh", "listen", "register", "unit", "profile"}
MCPrograms == {"spdycli", "scalecli"}
MCNumClients == [m \in MCModes |-> IF m \in {"full", "refresh"} THEN 1 ELSE 2]
MCMaxRetries == <<1, 0>>
MCMaxPushes == [m \in MCModes |-> CASE m = "refresh" -> <<2, 0>>
                                    [] m = "full" -> <<1, 0>>
                                    [] m = "listen" -> <<1, 1>>
                                    [] OTHER -> <<0, 0>>]
=============================================================================
