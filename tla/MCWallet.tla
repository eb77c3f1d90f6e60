------------------------------ MODULE MCWallet ------------------------------
EXTENDS Wallet, TLC

CONSTANTS w1, s1, s2, r1

OneWallet == r1 :> w1
SmallTopup == r1 :> 1
=============================================================================
