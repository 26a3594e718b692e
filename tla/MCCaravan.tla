----------------------------- MODULE MCCaravan -----------------------------
(* Caravan on small instances: the values its configurations choose from.  *)
EXTENDS Caravan

CONSTANTS i1, i2, j1, j2, j3, q1, q2, k1

NoJobs == {}
OneJob == {j1}
Jobs == {j1, j2}
ThreeJobs == {j1, j2, j3}

NoInstances == {}
First == {i1}
Both == {i1, i2}

OneQueue == [j \in Job |-> q1]
\* j1 and j2 share a queue; j3 has the other.
PairApart == [j \in Job |-> IF j = j3 THEN q2 ELSE q1]
QueueEach == [j \in Job |-> IF j = j1 THEN q1 ELSE q2]
TwoQueues == {q1, q2}

NoKeys == [j \in Job |-> Null]
SharedKey == [j \in Job |-> k1]

ServesAll == [i \in Instance |-> Job]
\* j2 has no handler anywhere: it only competes with j1 for the unique key.
ServesFirst == [i \in Instance |-> {j1}]

\* j3 is served by the instance that stays up.
ServesApart == [i \in Instance |-> IF i = i1 THEN Jobs ELSE Job]

NoVerbs == {}
CancelOnly == {"cancel"}
CancelAndRetry == {"cancel", "retry"}
CancelAndPurge == {"cancel", "purge"}
RowVerbs == {"cancel", "retry", "purge", "cleanup"}
PauseVerbs == {"pause", "drain", "retry", "purge"}
=============================================================================
