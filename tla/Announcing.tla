----------------------------- MODULE Announcing -----------------------------
(***************************************************************************)
(* What the announcer (relay/announcer.go) promises the rest of Relay: Cog *)
(* is told which bundles are available, in announcements whose id is the   *)
(* epoch the catalog had when the announcement was begun; an announcement  *)
(* of the present epoch lists nothing the catalog does not have; only an   *)
(* epoch that Cog was told of is acknowledged; and a call of               *)
(* SendAnnouncement is owed an announcement of the epoch of the call, or   *)
(* of a later one.  How the promise is kept (the loop, its mutex and the   *)
(* retry timers) is in Announcer.                                          *)
(*                                                                         *)
(* When a connection is lost the announcer may get stuck: a publish that   *)
(* is waiting for the broker never returns, and the mutex stays locked.    *)
(***************************************************************************)
EXTENDS Catalog

CONSTANTS None,      \* no epoch
          MayHang    \* whether a lost connection may leave a publish hanging

VARIABLES connected,  \* whether the bus client is connected
          receipts,   \* the ids of Cog's receipts on their way
          online,     \* whether Cog takes Relay to be online
          told,       \* the contents of this epoch's announcements Cog processed
          owed,       \* the epoch of the last SendAnnouncement not served yet
          stuck,      \* a publish hangs with the mutex locked
          halted,     \* Halt was called
          crashed     \* the process died of a panic

cogVars == <<receipts, online, told>>
promiseVars == <<catalogVars, connected, cogVars, owed, stuck, halted, crashed>>

ASSUME PromiseAssumption == /\ None \notin Nat
                            /\ MayHang \in BOOLEAN

PromiseTypeOK == /\ CatalogTypeOK
                 /\ connected \in BOOLEAN
                 /\ receipts \subseteq Nat
                 /\ online \in BOOLEAN
                 /\ told \subseteq SUBSET (Names \X Versions)
                 /\ owed \in Nat \cup {None}
                 /\ stuck \in BOOLEAN
                 /\ halted \in BOOLEAN
                 /\ crashed \in BOOLEAN

\* The first connection is up and the announcer runs.
PromiseInit == /\ NewCatalog
               /\ connected = TRUE
               /\ receipts = {}
               /\ online = FALSE
               /\ told = {}
               /\ owed = None
               /\ stuck = FALSE
               /\ halted = FALSE
               /\ crashed = FALSE

SendAnnouncement ==
    /\ owed' = epoch
    /\ UNCHANGED <<catalogVars, connected, cogVars, stuck, halted, crashed>>

Halt == /\ halted' = TRUE
        /\ UNCHANGED <<catalogVars, connected, cogVars, owed, stuck, crashed>>

\* Cog processes an announcement: a new one, or a late or repeated one.
Announce(id, content) ==
    /\ connected /\ ~stuck
    /\ id <= epoch
    /\ id = epoch => content \subseteq Content
    /\ online' = TRUE
    /\ receipts' = receipts \cup {id}
    /\ told' = IF id = epoch THEN told \cup {content} ELSE told
    /\ owed' = IF owed # None /\ id >= owed THEN None ELSE owed
    /\ UNCHANGED <<catalogVars, connected, stuck, halted, crashed>>

\* A receipt comes in and counts.
Acknowledge(id) ==
    /\ ~stuck
    /\ id \in receipts
    /\ receipts' = receipts \ {id}
    /\ EpochAcked(id)
    /\ crashed' \in BOOLEAN
    /\ UNCHANGED <<bundles, epoch, connected, online, told, owed, stuck, halted>>

\* A receipt is lost, or is not the one waited for.
Ignore(id) ==
    /\ id \in receipts
    /\ receipts' = receipts \ {id}
    /\ UNCHANGED <<catalogVars, connected, online, told, owed, stuck, halted, crashed>>

Die == /\ crashed' = TRUE
       /\ UNCHANGED <<catalogVars, connected, cogVars, owed, stuck, halted>>

\* The broker sends the last will: Cog takes Relay to be offline, and answers
\* with a receipt for announcement "0".
Disconnect ==
    /\ connected
    /\ connected' = FALSE
    /\ online' = FALSE
    /\ receipts' = receipts \cup {0}
    /\ stuck' \in (IF MayHang THEN {stuck, TRUE} ELSE {stuck})
    /\ UNCHANGED <<catalogVars, told, owed, halted, crashed>>

Connect == /\ ~connected
           /\ connected' = TRUE
           /\ UNCHANGED <<catalogVars, cogVars, owed, stuck, halted, crashed>>

\* A change of the catalog starts a new account of what Cog was told.
CatalogStep == /\ Change
               /\ told' = IF epoch' = epoch THEN told ELSE {}
               /\ UNCHANGED <<connected, receipts, online, owed, stuck, halted, crashed>>

PromiseNext == \/ SendAnnouncement \/ Halt \/ Die
               \/ \E id \in 0 .. epoch, content \in SUBSET (Names \X Versions) :
                     Announce(id, content)
               \/ \E id \in receipts : Acknowledge(id) \/ Ignore(id)
               \/ Disconnect \/ Connect
               \/ CatalogStep

PromiseSpec == PromiseInit /\ [][PromiseNext]_promiseVars

(***************************************************************************)
(* Properties.                                                             *)
(***************************************************************************)
\* When the catalog counts as announced (IsChanged is false), Cog has seen
\* an announcement that was begun in this very epoch, and what it was told
\* then lists only bundles, and versions, that the catalog still has.
AckSound == lastAcked = epoch /\ epoch > 0 =>
               told # {} /\ UNION told \subseteq Content
=============================================================================
