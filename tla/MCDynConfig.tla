---------------------------- MODULE MCDynConfig ----------------------------
(***************************************************************************)
(* Small instances of DynConfig for TLC.                                   *)
(***************************************************************************)
EXTENDS DynConfig

CONSTANTS s1, s2, key, other, COG_key

\* One configuration has two layers, the other has the base layer only.
MCFilesOf == [sig \in Sigs |-> IF sig = s1 THEN {1, 2} ELSE {1}]

MCKeysOf == [sig \in Sigs |->
               [f \in Layers |-> IF sig = s1 /\ f = 1 THEN {key, other}
                                 ELSE {key, COG_key}]]
=============================================================================
