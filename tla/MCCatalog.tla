----------------------------- MODULE MCCatalog -----------------------------
(***************************************************************************)
(* The catalog under any sequence of calls of its methods, with every list *)
(* of up to MaxList bundles, names that occur twice included.              *)
(***************************************************************************)
EXTENDS Catalog

CONSTANTS MaxList,  \* bound on the length of an update
          MaxEpoch  \* bound on the epoch

Lists == UNION {[1 .. len -> ListItem] : len \in 0 .. MaxList}

Next == CatalogNext(0 .. MaxEpoch + 1) /\ epoch' <= MaxEpoch

Spec == NewCatalog /\ [][Next]_catalogVars
=============================================================================
