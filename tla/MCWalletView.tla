---------------------------- MODULE MCWalletView ---------------------------
(* The transactions of MCMempoolTracker; p and q may get into blocks.        *)
EXTENDS WalletView, MCMempoolTracker

MCMinable == {p, q}
=============================================================================
