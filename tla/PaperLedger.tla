---------------------------- MODULE PaperLedger ----------------------------
(***************************************************************************)
(* What a paper account promises, whatever the engine behind it does:      *)
(* shares are sold at prices the market showed and only those there are,   *)
(* every sale moves exactly its proceeds and its profit, shares that a     *)
(* purchase writes over stay known by their cost, and a restart brings     *)
(* back one earlier account as a whole, never a mixture of two.            *)
(***************************************************************************)
EXTENDS Integers

CONSTANTS
  Symbols,
  Capital,
  Quantities,  \* quantities that can be bought
  Costs,       \* prices that can be paid
  Prices       \* prices that can be received

VARIABLES
  account,     \* [cash, gain, lots, lost], lots[s] = [qty, cost]
  checkpoint   \* the account a restart brings back

vars == <<account, checkpoint>>

NoLot == [qty |-> 0, cost |-> 0]
Fresh ==
  [cash |-> Capital, gain |-> 0, lots |-> [s \in Symbols |-> NoLot], lost |-> 0]

Init == account = Fresh /\ checkpoint = Fresh

\* A lot is bought, in the place of what was left of the last one; the purchase may
\* be checkpointed at once.
Buy(s, q, cost) ==
  /\ account' = [cash |-> account.cash - q * cost,
                 gain |-> account.gain,
                 lots |-> [account.lots EXCEPT ![s] = [qty |-> q, cost |-> cost]],
                 lost |-> account.lost + account.lots[s].qty * account.lots[s].cost]
  /\ checkpoint' \in {checkpoint, account'}

\* Part of a lot, or all of it, is sold at one price.
Sell(s, q, price) ==
  LET lot  == account.lots[s]
      rest == lot.qty - q
  IN /\ q <= lot.qty
     /\ account' = [cash |-> account.cash + q * price,
                    gain |-> account.gain + q * (price - lot.cost),
                    lots |-> [account.lots EXCEPT ![s] = IF rest = 0 THEN NoLot
                                              ELSE [lot EXCEPT !.qty = rest]],
                    lost |-> account.lost]
     /\ UNCHANGED checkpoint

Save == checkpoint' = account /\ UNCHANGED account

Recover == account' = checkpoint /\ UNCHANGED checkpoint

Next ==
  \/ \E s \in Symbols, q \in Quantities, cost \in Costs : Buy(s, q, cost)
  \/ \E s \in Symbols, price \in Prices : \E q \in 1 .. account.lots[s].qty :
       Sell(s, q, price)
  \/ Save
  \/ Recover

Spec == Init /\ [][Next]_vars

=============================================================================
