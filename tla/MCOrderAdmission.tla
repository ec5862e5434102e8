-------------------------- MODULE MCOrderAdmission --------------------------
EXTENDS OrderAdmission, TLC

CONSTANTS r1, r2, r3, r4, p1, w

MCOrders == Requests \X {"trial", "paid"}
MCTrialOrders == Requests \X {"trial"}

\* r2 repeats r1, r3 has their key but another body.
MCKey == [r \in Requests |-> IF r = r4 THEN "k2" ELSE "k1"]
MCPayload == [r \in Requests |-> IF r = r3 THEN "couple" ELSE "single"]

\* COST_SINGLE_GENERATION, COST_COUPLE_LOCAL_GENERATION
MCPrice == [o \in Orders |-> IF o[2] = "paid" /\ Payload[o[1]] = "couple" THEN 3 ELSE 2]
MCCredits == [p \in Purchases |-> 3]

\* Orders of r1 and r2 may tie: OneOrderPerKey leaves them one between them.
MCRank == [l \in Lots |->
  IF l = Welcome THEN 0 ELSE IF l \in Purchases THEN 1
  ELSE IF l[1] = r4 THEN 4 ELSE IF l[1] = r3 THEN 3 ELSE 2]

Symmetry == Permutations({r1, r2})
=============================================================================
