--------------------------- MODULE MCIndexTables ----------------------------
(* Small ledgers for TLC.  Three coinbases pay alice or bob; p, q and r move  *)
(* the money on, q and r by spending p's outputs, so that p and q in one      *)
(* block is a chain of unconfirmed transactions confirmed together.           *)
EXTENDS IndexQueries, Sequences

CONSTANTS c0, c1, c2, p, q, r, alice, bob

MCTx == {c0, c1, c2, p, q, r}

MCScript == {alice, bob}

Out(sh, value) == [sh |-> sh, value |-> value]

List(s) == [i \in 0..(Len(s) - 1) |-> s[i+1]]

\* r also has an output the parser skips.
MCOutputs ==
    [t \in MCTx |->
        CASE t \in {c0, c2} -> List(<<Out(alice, 5)>>)
          [] t = c1 -> List(<<Out(bob, 5)>>)
          [] t = p -> List(<<Out(alice, 2), Out(bob, 3)>>)
          [] t = q -> List(<<Out(alice, 3)>>)
          [] t = r -> List(<<Out(NoScript, 0), Out(alice, 6)>>)]

MCInputs ==
    [t \in MCTx |->
        CASE t = p -> List(<< <<c0, 0>> >>)
          [] t = q -> List(<< <<p, 1>> >>)
          [] t = r -> List(<< <<p, 0>>, <<c1, 0>> >>)
          [] OTHER -> List(<<>>)]

Bodies == {<<>>, <<p>>, <<q>>, <<p, q>>, <<r, q>>}

\* Every block a node could serve.
MCBlocks == {List(<<c>> \o body) : c \in {c0, c1, c2}, body \in Bodies}

ASSUME LedgerFits == PositionsFit /\ PositionsApart
=============================================================================
