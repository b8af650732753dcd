------------------------------ MODULE MCWorker ------------------------------
\* Three jobs of the worker's four, in its order: the catalogue pull, the slow
\* store mirror and the frequent offer push.
EXTENDS Worker

MCJobs == <<"supplier", "store", "offers">>
MCInterval == [supplier |-> 3, store |-> 5, offers |-> 2]
MCDelay == [supplier |-> 0, store |-> 2, offers |-> 1]
=============================================================================
