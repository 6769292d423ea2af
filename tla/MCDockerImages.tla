--------------------------- MODULE MCDockerImages ---------------------------
(***************************************************************************)
(* Small instances of DockerImages for TLC.                                *)
(***************************************************************************)
EXTENDS DockerImages, TLC

CONSTANTS pinned, latest, l1, l2

\* The bundles share an image, until a new one is pushed as latest.
SharedImages == (pinned :> {l1}) @@ (latest :> {l1, l2})

\* The routers are alike.
Routers == Permutations(Refreshers)
=============================================================================
