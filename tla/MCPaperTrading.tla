--------------------------- MODULE MCPaperTrading ---------------------------
(***************************************************************************)
(* Instances of PaperTrading for TLC.                                      *)
(***************************************************************************)
EXTENDS PaperTrading

CONSTANTS A, B   \* two symbols

Sig(s, q, e, st, x, y, z) ==
  [sym |-> s, qty |-> q, entry |-> e, stop |-> st, t1 |-> x, t2 |-> y, t3 |-> z]

\* In discovery mode: a quantity that is halved to 4, whose parts do not add up to
\* the whole and whose last target is out of reach, so that it ends at a stop; and
\* one that is halved to 2, sold at targets 1 and 3.
Candidates == {Sig(A, 8, 2, 1, 3, 4, 6), Sig(B, 4, 2, 1, 3, 0, 5)}

\* The same quantity with all targets, and a quantity of one, of which nothing
\* remains after target 1, without targets 2 and 3.
Reviewed == {Sig(A, 8, 2, 1, 3, 4, 5), Sig(B, 1, 2, 1, 3, 0, 0)}

=============================================================================
