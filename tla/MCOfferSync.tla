---------------------------- MODULE MCOfferSync ----------------------------
(***************************************************************************)
(* OfferSync on small instances.  The configurations choose the bounds and *)
(* one of these sets of faults.                                            *)
(***************************************************************************)
EXTENDS OfferSync

\* The store says no, at once or later, or says too little, but every write is
\* answered.
DefiniteErrors == {"call_error", "rate_limited", "no_id", "hidden", "job_failure"}

\* The bridge does not learn what became of a write.
Uncertainty == {"lost_response", "job_failure", "crash"}
=============================================================================
