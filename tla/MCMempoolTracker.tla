-------------------------- MODULE MCMempoolTracker -------------------------
(* Three transactions.  p pays alice twice the same amount, q pays bob and   *)
(* alice, s pays no parsed output.  With a bucket of 2 the rates 7 and 6     *)
(* share one, and 4 is just too far below 6; one bucket is kept.             *)
EXTENDS MempoolTracker

CONSTANTS p, q, s, alice, bob

MCTx == {p, q, s}

MCScript == {alice, bob}

Pay(sh, value) == [sh |-> sh, value |-> value]

MCOutputs == [t \in MCTx |->
    CASE t = p -> <<Pay(alice, 2), Pay(alice, 2)>>
      [] t = q -> <<Pay(bob, 3), Pay(alice, 1)>>
      [] t = s -> <<>>]

MCRate == [t \in MCTx |-> CASE t = p -> 7 [] t = q -> 6 [] t = s -> 4]

MCSize == [t \in MCTx |-> CASE t = p -> 10 [] t = q -> 20 [] t = s -> 80]
=============================================================================
