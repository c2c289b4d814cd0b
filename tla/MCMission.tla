----------------------------- MODULE MCMission -----------------------------
(* One mission with one criterion the owner reserved and one a verifier may judge. *)
EXTENDS Mission, TLC

MCCriteria == {1, 2}
MCOwnerJudged == {1}

\* The roles matter only to a mission whose plan assigns work: the verifier is
\* dispatched after a worker that succeeded, and a verifier enabled without the
\* worker is never reached.
Offered(plan, roles) == [plan |-> plan, roles |-> roles]
MCOffers ==
    {Offered({}, {}), Offered({"wait"}, {}),
     Offered({"assign"}, {}), Offered({"assign"}, {"research"}),
     Offered({"assign"}, {"research", "verifier"})}

MCCosts == {1, 2}
MCClaims == {0}

============================================================================
