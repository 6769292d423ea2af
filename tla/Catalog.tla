------------------------------ MODULE Catalog ------------------------------
(***************************************************************************)
(* The bundle catalog (relay/bundle/catalog.go): the bundles Cog has       *)
(* assigned to this Relay, the epoch that counts changes to them, and the  *)
(* epoch Cog acknowledged last.  Every method runs under the catalog's     *)
(* RWMutex and is one action, except EpochAcked, which takes no lock: it   *)
(* compares with an epoch that only grows and stores one word, so one      *)
(* action stands for it too.                                               *)
(*                                                                         *)
(* A bundle is its version and its availability flag.  The list Replace is *)
(* given is a sequence, because which of two entries of one name counts    *)
(* depends on their order.                                                 *)
(***************************************************************************)
EXTENDS Integers, Sequences, FiniteSetsExt

CONSTANTS Names,     \* bundle names
          Versions,  \* bundle versions
          NoBundle,  \* nil
          Updates    \* the lists of bundles Cog may send

VARIABLES bundles,   \* Catalog.bundles: bundles[n] is NoBundle or a Bundle
          epoch,     \* Catalog.epoch
          lastAcked  \* Catalog.lastAcked

catalogVars == <<bundles, epoch, lastAcked>>

Bundle == [version : Versions, available : BOOLEAN]
ListItem == [name : Names, version : Versions]

ASSUME NoBundleAssumption == NoBundle \notin Bundle
ASSUME UpdatesAssumption == Updates \subseteq Seq(ListItem)

CatalogTypeOK == /\ bundles \in [Names -> Bundle \cup {NoBundle}]
                 /\ epoch \in Nat
                 /\ lastAcked \in Nat

NewCatalog == /\ bundles = [n \in Names |-> NoBundle]
              /\ epoch = 0
              /\ lastAcked = 0

\* Catalog.BundleNames, and its size, Len and Count.
BundleNames == {n \in Names : bundles[n] # NoBundle}

IsChanged == lastAcked < epoch

(***************************************************************************)
(* Replace.                                                                *)
(***************************************************************************)
Positions(n, list) == {i \in DOMAIN list : list[i].name = n}

\* The first of that name (only asked for a name that is in the list).
findByName(n, list) == list[Min(Positions(n, list))]

\* A Bundle decoded from Cog's message is not available yet.
Fresh(item) == [version |-> item.version, available |-> FALSE]

\* Mutant: entries are matched by name only.
diff_ignoresVersion(list) ==
    [n \in Names |->
        IF Positions(n, list) = {} THEN NoBundle
        ELSE IF bundles[n] = NoBundle THEN Fresh(list[Max(Positions(n, list))])
        ELSE bundles[n]]

\* Mutant: a new version takes over the flag of the one it replaces.
diff_keepsFlag(list) ==
    [n \in Names |->
        IF Positions(n, list) = {} THEN NoBundle
        ELSE IF bundles[n] = NoBundle THEN Fresh(list[Max(Positions(n, list))])
        ELSE [bundles[n] EXCEPT !.version = findByName(n, list).version]]

\* diff, as what each name will be once the removals and then the additions
\* have been carried out: a known name takes the first entry of the list if
\* its version differs, an unknown one each of its entries in turn.
diff(list) ==
    [n \in Names |->
        LET known == bundles[n] # NoBundle
            listed == Positions(n, list) # {}
        IN  IF ~listed THEN NoBundle
            ELSE IF ~known THEN Fresh(list[Max(Positions(n, list))])
            ELSE IF findByName(n, list).version = bundles[n].version
                 THEN bundles[n]
                 ELSE Fresh(findByName(n, list))]

\* Mutant: only the number of bundles is compared.
Dirty_count(list) ==
    Cardinality(BundleNames) # Cardinality({n \in Names : Positions(n, list) # {}})

\* Something was added or removed.
Dirty(list) ==
    \E n \in Names :
       LET known == bundles[n] # NoBundle
           listed == Positions(n, list) # {}
       IN  \/ known # listed
           \/ known /\ findByName(n, list).version # bundles[n].version

Replace(list) == /\ bundles' = diff(list)
                 /\ epoch' = IF Dirty(list) THEN epoch + 1 ELSE epoch
                 /\ UNCHANGED lastAcked

(***************************************************************************)
(* The other methods.                                                      *)
(***************************************************************************)
\* Mutant: a removal opens no new epoch.
Remove_keepsEpoch(n) == /\ bundles[n] # NoBundle
                        /\ bundles' = [bundles EXCEPT ![n] = NoBundle]
                        /\ UNCHANGED <<epoch, lastAcked>>

Remove(n) == /\ bundles[n] # NoBundle
             /\ bundles' = [bundles EXCEPT ![n] = NoBundle]
             /\ epoch' = epoch + 1
             /\ UNCHANGED lastAcked

\* Bundle.SetAvailable on the entry Find returned; MarkReady sets it to TRUE.
SetAvailable(n, flag) ==
    /\ bundles[n] # NoBundle
    /\ bundles' = [bundles EXCEPT ![n].available = flag]
    /\ UNCHANGED <<epoch, lastAcked>>

\* Mutant: the acknowledged epoch is not checked.
EpochAcked_unchecked(acked) == lastAcked' = acked

\* Mutant: an acknowledgement of an older epoch is ignored as well.
EpochAcked_newest(acked) ==
    lastAcked' = IF acked > epoch \/ acked < lastAcked THEN lastAcked ELSE acked

\* An acknowledgement from the future is ignored.
EpochAcked(acked) == lastAcked' = IF acked > epoch THEN lastAcked ELSE acked

\* Mutant: the acknowledgement is forgotten instead.
Reconnected_unacked == /\ lastAcked' = 0
                       /\ UNCHANGED <<bundles, epoch>>

Reconnected == /\ epoch' = epoch + 1
               /\ UNCHANGED <<bundles, lastAcked>>

\* The methods by which the rest of Relay changes the bundles or the epoch.
Change == \/ \E list \in Updates : Replace(list)
          \/ \E n \in Names : Remove(n)
          \/ \E n \in Names, flag \in BOOLEAN : SetAvailable(n, flag)
          \/ Reconnected

\* Any sequence of calls, with receipts that name these epochs.
CatalogNext(acks) == \/ Change
                     \/ \E acked \in acks : EpochAcked(acked) /\ UNCHANGED <<bundles, epoch>>

CatalogSpec == NewCatalog /\ [][CatalogNext(Nat)]_catalogVars

(***************************************************************************)
(* Properties.                                                             *)
(***************************************************************************)
\* What a catalog says apart from availability.
ContentOf(cat) == {<<n, cat[n].version>> : n \in {m \in Names : cat[m] # NoBundle}}
Content == ContentOf(bundles)

\* The epoch moves with the content: no method changes which bundles, or
\* which versions, are in the catalog without opening a new epoch, and no
\* epoch is ever used again.
EpochTracksContent == [][/\ epoch' >= epoch
                         /\ Content' # Content => epoch' > epoch]_catalogVars

\* A bundle's availability is a fact about its version: when a new version
\* of it arrives (or it comes back) it starts out unavailable, and a bundle
\* that an update leaves alone keeps its flag.
AvailabilityOfVersion ==
    [][\A n \in Names :
          LET old == bundles[n]
              new == bundles'[n]
          IN  /\ new # NoBundle /\ (old = NoBundle \/ old.version # new.version)
                    => ~new.available
              /\ epoch' # epoch /\ old # NoBundle /\ new # NoBundle
                    /\ old.version = new.version => new = old]_catalogVars

\* Cog never acknowledged more than was announced: EpochAcked ignores
\* acknowledgements from the future, so IsChanged never goes wrong.
AckedNotAhead == lastAcked <= epoch

\* The types, and no acknowledgement of an epoch that has not begun, whatever
\* epoch a receipt names (catalog.go: EpochAcked).
CatalogOK == CatalogTypeOK /\ AckedNotAhead

\* "Replace atomically replaces the current bundle catalog contents with
\* [...] a new snapshot": in every reachable catalog and for every update,
\* the names afterwards are the names of the update, each with a version the
\* update gives it; and the epoch moves exactly if the content does.
ReplaceIsSnapshot ==
    \A list \in Updates :
       LET after == ContentOf(diff(list))
           listed == {<<list[i].name, list[i].version>> : i \in DOMAIN list}
       IN  /\ after \subseteq listed
           /\ {c[1] : c \in after} = {c[1] : c \in listed}
           /\ Dirty(list) <=> after # Content
=============================================================================
