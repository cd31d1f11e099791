------------------------- MODULE MCReleaseAdmission -------------------------
(* An operation that observes the services, the six reads and one after them. *)
EXTENDS ReleaseAdmission

MCOperations == <<"generation_fence", "six_live_reads", "rollback_verification">>
=============================================================================
