-------------------------- MODULE MCPurchaseEvents --------------------------
EXTENDS PurchaseEvents

MCCredits == [p \in Purchases |-> 2]

\* A trial, an order that needs the credits of two lots, and a small one.
MCPrice == [t1 |-> 2, t2 |-> 2, o1 |-> 3, o2 |-> 1]
MCRank == [w |-> 0, p1 |-> 1, p2 |-> 2, t1 |-> 3, t2 |-> 4, o1 |-> 5, o2 |-> 6]

About(k, p, n, d) == [kind |-> k, purchase |-> p, amount |-> n, object |-> d]

MCFact ==
  [c1   |-> About("capture", "p1", 2, "c1"),  c2   |-> About("capture", "p2", 2, "c2"),
   full |-> About("refund", "p1", 2, "r1"),   part |-> About("refund", "p1", 1, "r2"),
   open |-> About("OPEN", "p1", 2, "d1"),     won  |-> About("WON", "p1", 2, "d1"),
   lost |-> About("LOST", "p1", 2, "d1"),     less |-> About("LOST", "p1", 1, "d2"),
   mist |-> About("mismatch", "p2", 2, "c2"), what |-> About("REVIEW", "p2", 2, "d3")]
=============================================================================
