---------------------------- MODULE MCConnector ----------------------------
(* Small instances of Connector: three requests of two workers; two of the  *)
(* requests write under the same idempotency key, the third one reads.      *)
EXTENDS Connector, TLC

MCWorkerOf == ("r1" :> "w1") @@ ("r2" :> "w2") @@ ("r3" :> "w1")
MCKeyOf    == ("r1" :> "k") @@ ("r2" :> "k") @@ ("r3" :> "none")

MCStatuses == {200, 429, TimeoutExc}
=============================================================================
