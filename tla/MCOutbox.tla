------------------------------ MODULE MCOutbox ------------------------------
EXTENDS Outbox, TLC

CONSTANTS ready, account1, d1, d2, w1, w2, c1, a1

OneReadyOneAccount == ready :> "ready" @@ account1 :> "account"
BothOfReady == d1 :> ready @@ d2 :> ready
=============================================================================
