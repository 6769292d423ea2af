------------------------------ MODULE MCRelay ------------------------------
(***************************************************************************)
(* Small instances of Relay for TLC.                                       *)
(***************************************************************************)
EXTENDS Relay

CONSTANTS a, b, v1

\* Cog assigns a Docker bundle, and then a native one instead.
NewBundle == <<<<[name |-> a, version |-> v1]>>, <<[name |-> b, version |-> v1]>>>>
NewBundleUpdates == {NewBundle[i] : i \in DOMAIN NewBundle}

\* Cog assigns one bundle, once.
OneAssigned == <<<<[name |-> a, version |-> v1]>>>>
OneUpdate == {OneAssigned[1]}
=============================================================================
