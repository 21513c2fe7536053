------------------------------ MODULE MCTenancy ------------------------------
(* Tenancy alone, with two users of one organisation and one of another.      *)
EXTENDS Tenancy, TLC

CONSTANTS ada, ben, carl, acme, bolt

MCOrgOf == (ada :> acme) @@ (ben :> acme) @@ (carl :> bolt)
=============================================================================
