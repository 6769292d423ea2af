---------------------------- MODULE MCAnnouncer ----------------------------
(***************************************************************************)
(* Small instances of Announcer for TLC.                                   *)
(***************************************************************************)
EXTENDS Announcer

\* Cog's lists: nothing, or one bundle.
MCUpdates == {<<>>} \cup {<<item>> : item \in ListItem}
=============================================================================
