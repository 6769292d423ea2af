---------------------------- MODULE CatalogProofs ----------------------------
(***************************************************************************)
(* Facts about the methods of the catalog, for every set of names and      *)
(* versions and every list Cog may send.                                   *)
(***************************************************************************)
EXTENDS Catalog, WellFoundedInduction, TLAPS

(***************************************************************************)
(* Positions in a list.                                                    *)
(***************************************************************************)
\* A set of positions has a least element (NatLessThanWellFounded).
LEMMA LeastExists ==
    ASSUME NEW S \in SUBSET Nat, S # {}
    PROVE  \E x \in S : \A y \in S : x =< y
<1> DEFINE R == OpToRel(<, Nat)
<1>1. IsWellFoundedOn(R, Nat)
  BY NatLessThanWellFounded, Zenon
<1>2. PICK x \in S : \A y \in S : ~(<<y, x>> \in R)
  <2> HIDE DEF R
  <2> QED BY <1>1, WFMin, Zenon
<1>3. ASSUME NEW y \in S PROVE x =< y
  <2>1. x \in Nat /\ y \in Nat
    OBVIOUS
  <2>2. ~(y < x)
    BY <1>2, <2>1, Zenon DEF OpToRel
  <2> QED BY <2>1, <2>2
<1> QED BY <1>3

\* And, being bounded by the length of the list, a greatest one.
LEMMA GreatestExists ==
    ASSUME NEW m \in Nat, NEW S \in SUBSET (0 .. m), S # {}
    PROVE  \E x \in S : \A y \in S : x >= y
<1> DEFINE T == {k \in Nat : m - k \in S}
<1>1. T # {}
  <2>1. PICK x \in S : TRUE
    BY Zenon
  <2>2. m - x \in Nat /\ m - (m - x) = x
    BY <2>1
  <2>3. m - x \in T
    BY <2>1, <2>2
  <2> QED BY <2>3, Zenon
<1>2. PICK k \in T : \A j \in T : k =< j
  BY <1>1, LeastExists, Zenon
<1>3. ASSUME NEW y \in S PROVE m - k >= y
  <2>1. m - y \in Nat /\ m - (m - y) = y
    OBVIOUS
  <2>2. m - y \in T
    BY <2>1
  <2>3. k =< m - y
    BY <1>2, <2>2, Zenon
  <2> QED BY <2>1, <2>3
<1> QED BY <1>3

\* The entries of a list are items of it.
LEMMA ItemsOfList ==
    ASSUME NEW list \in Seq(ListItem), NEW i \in DOMAIN list
    PROVE  list[i] \in ListItem /\ list[i].name \in Names
<1>1. list[i] \in ListItem
  OBVIOUS
<1> QED BY <1>1 DEF ListItem

\* The first and the last position of a name are positions of it.
LEMMA PositionsInList ==
    ASSUME NEW list \in Seq(ListItem), NEW n \in Names, Positions(n, list) # {}
    PROVE  /\ Min(Positions(n, list)) \in Positions(n, list)
           /\ Max(Positions(n, list)) \in Positions(n, list)
<1> DEFINE S == Positions(n, list)
<1>1. S \in SUBSET (0 .. Len(list)) /\ S \in SUBSET Nat /\ Len(list) \in Nat
  BY DEF Positions
<1>2. Min(S) \in S
  <2>1. \E x \in S : \A y \in S : x =< y
    <3> HIDE DEF S
    <3> QED BY <1>1, LeastExists, SMTT(30) DEF S
  <2> QED BY <2>1 DEF Min
<1>3. Max(S) \in S
  <2>1. \E x \in S : \A y \in S : x >= y
    <3> HIDE DEF S
    <3> QED BY <1>1, GreatestExists, Zenon DEF S
  <2> QED BY <2>1 DEF Max
<1> QED BY <1>2, <1>3

\* findByName, and the last entry of a name, are entries of the list.
LEMMA EntriesAreItems ==
    ASSUME NEW list \in Seq(ListItem), NEW n \in Names, Positions(n, list) # {}
    PROVE  /\ findByName(n, list) \in ListItem
           /\ findByName(n, list).name = n
           /\ list[Max(Positions(n, list))] \in ListItem
           /\ list[Max(Positions(n, list))].name = n
<1>1. \A i \in Positions(n, list) : list[i] \in ListItem /\ list[i].name = n
  BY ItemsOfList, Zenon DEF Positions
<1> QED BY <1>1, PositionsInList, Zenon DEF findByName

(***************************************************************************)
(* The catalog.                                                            *)
(***************************************************************************)
\* What an update leaves of a name is a bundle or nothing.
LEMMA DiffTypes ==
    ASSUME CatalogTypeOK, NEW list \in Seq(ListItem)
    PROVE  diff(list) \in [Names -> Bundle \cup {NoBundle}]
<1>1. ASSUME NEW item \in ListItem PROVE Fresh(item) \in Bundle
  BY DEF Fresh, ListItem, Bundle
<1>2. ASSUME NEW n \in Names PROVE diff(list)[n] \in Bundle \cup {NoBundle}
  <2>1. CASE Positions(n, list) = {}
    BY <2>1 DEF diff
  <2>2. CASE Positions(n, list) # {}
    BY <1>1, <2>2, EntriesAreItems DEF diff, CatalogTypeOK
  <2> QED BY <2>1, <2>2
<1> QED BY <1>2 DEF diff

\* An update that opens no new epoch changes nothing.
LEMMA CleanDiff ==
    ASSUME CatalogTypeOK, NEW list \in Seq(ListItem), ~Dirty(list)
    PROVE  diff(list) = bundles
<1>1. ASSUME NEW n \in Names PROVE diff(list)[n] = bundles[n]
  <2>1. (bundles[n] # NoBundle) <=> (Positions(n, list) # {})
    BY DEF Dirty
  <2>2. bundles[n] # NoBundle => findByName(n, list).version = bundles[n].version
    BY DEF Dirty
  <2> QED BY <2>1, <2>2 DEF diff
<1>2. diff(list) = [n \in Names |-> diff(list)[n]]
  BY DEF diff
<1>3. bundles = [n \in Names |-> bundles[n]]
  BY DEF CatalogTypeOK
<1> QED BY <1>1, <1>2, <1>3

\* Setting a bundle's flag keeps what the catalog holds.
LEMMA FlagKeepsContent ==
    ASSUME CatalogTypeOK, NEW n \in Names, NEW flag \in BOOLEAN, SetAvailable(n, flag)
    PROVE  /\ bundles' \in [Names -> Bundle \cup {NoBundle}]
           /\ Content' = Content
<1>1. bundles[n] \in Bundle
  BY DEF SetAvailable, CatalogTypeOK
<1>2. /\ [bundles[n] EXCEPT !.available = flag] \in Bundle
      /\ [bundles[n] EXCEPT !.available = flag].version = bundles[n].version
  BY <1>1 DEF Bundle
<1>3. bundles' = [bundles EXCEPT ![n] = [bundles[n] EXCEPT !.available = flag]]
  BY DEF SetAvailable
<1>4. bundles' \in [Names -> Bundle \cup {NoBundle}]
  BY <1>2, <1>3 DEF CatalogTypeOK
<1>5. \A m \in Names : /\ (bundles'[m] = NoBundle) <=> (bundles[m] = NoBundle)
                       /\ bundles[m] # NoBundle => bundles'[m].version = bundles[m].version
  BY <1>1, <1>2, <1>3, NoBundleAssumption DEF CatalogTypeOK
<1>6. {m \in Names : bundles'[m] # NoBundle} = {m \in Names : bundles[m] # NoBundle}
  BY <1>5
<1>7. Content' = Content
  BY <1>5, <1>6 DEF Content, ContentOf
<1> QED BY <1>4, <1>7

\* Every change of the catalog keeps its types; the epoch only grows; and
\* without a new epoch the content stays.
LEMMA CatalogChanges ==
    ASSUME CatalogTypeOK, Change
    PROVE  /\ CatalogTypeOK'
           /\ lastAcked' = lastAcked
           /\ epoch' \in {epoch, epoch + 1}
           /\ epoch' = epoch => Content' = Content
<1>1. ASSUME NEW list \in Updates, Replace(list)
      PROVE  /\ CatalogTypeOK' /\ lastAcked' = lastAcked
             /\ epoch' \in {epoch, epoch + 1}
             /\ epoch' = epoch => Content' = Content
  <2>1. list \in Seq(ListItem)
    BY UpdatesAssumption
  <2>2. CatalogTypeOK'
    BY <1>1, <2>1, DiffTypes DEF Replace, CatalogTypeOK
  <2>3. CASE Dirty(list)
    BY <1>1, <2>2, <2>3 DEF Replace, CatalogTypeOK
  <2>4. CASE ~Dirty(list)
    <3>1. bundles' = bundles
      BY <1>1, <2>1, <2>4, CleanDiff DEF Replace
    <3>2. Content' = Content
      BY <3>1 DEF Content, ContentOf
    <3> QED BY <1>1, <2>2, <2>4, <3>2 DEF Replace
  <2> QED BY <2>3, <2>4
<1>2. ASSUME NEW n \in Names, Remove(n)
      PROVE  /\ CatalogTypeOK' /\ lastAcked' = lastAcked
             /\ epoch' = epoch + 1 /\ epoch' # epoch
  BY <1>2 DEF Remove, CatalogTypeOK
<1>3. ASSUME NEW n \in Names, NEW flag \in BOOLEAN, SetAvailable(n, flag)
      PROVE  /\ CatalogTypeOK' /\ lastAcked' = lastAcked /\ epoch' = epoch
             /\ Content' = Content
  BY <1>3, FlagKeepsContent, Zenon DEF SetAvailable, CatalogTypeOK
<1>4. ASSUME Reconnected
      PROVE  /\ CatalogTypeOK' /\ lastAcked' = lastAcked
             /\ epoch' = epoch + 1 /\ epoch' # epoch
  BY <1>4 DEF Reconnected, CatalogTypeOK
<1> QED BY <1>1, <1>2, <1>3, <1>4 DEF Change

\* What AvailabilityOfVersion says of one bundle.
FlagOfVersion(old, new, moved) ==
    /\ new # NoBundle /\ (old = NoBundle \/ old.version # new.version) => ~new.available
    /\ moved /\ old # NoBundle /\ new # NoBundle /\ old.version = new.version => new = old

LEMMA FlagsOfVersions ==
    ASSUME CatalogTypeOK, Change, NEW n \in Names
    PROVE  FlagOfVersion(bundles[n], bundles'[n], epoch' # epoch)
<1>1. ASSUME NEW item \in ListItem
      PROVE  /\ Fresh(item) \in Bundle /\ ~Fresh(item).available
             /\ Fresh(item).version = item.version
  BY DEF Fresh, ListItem, Bundle
<1>2. ASSUME NEW list \in Updates, Replace(list)
      PROVE  FlagOfVersion(bundles[n], bundles'[n], epoch' # epoch)
  <2>1. list \in Seq(ListItem)
    BY UpdatesAssumption
  <2>2. bundles'[n] = diff(list)[n]
    BY <1>2 DEF Replace
  <2>3. CASE Positions(n, list) = {}
    BY <2>2, <2>3 DEF diff, FlagOfVersion
  <2>4. CASE Positions(n, list) # {}
    <3>1. /\ findByName(n, list) \in ListItem
          /\ list[Max(Positions(n, list))] \in ListItem
      BY <2>1, <2>4, EntriesAreItems
    <3>2. CASE bundles[n] = NoBundle
      <4>1. bundles'[n] = Fresh(list[Max(Positions(n, list))])
        BY <2>2, <2>4, <3>2 DEF diff
      <4> QED BY <1>1, <3>1, <3>2, <4>1 DEF FlagOfVersion
    <3>3. CASE bundles[n] # NoBundle /\ findByName(n, list).version = bundles[n].version
      <4>1. bundles'[n] = bundles[n]
        BY <2>2, <2>4, <3>3 DEF diff
      <4> QED BY <3>3, <4>1 DEF FlagOfVersion
    <3>4. CASE bundles[n] # NoBundle /\ findByName(n, list).version # bundles[n].version
      <4>1. bundles'[n] = Fresh(findByName(n, list))
        BY <2>2, <2>4, <3>4 DEF diff
      <4> QED BY <1>1, <3>1, <3>4, <4>1 DEF FlagOfVersion
    <3> QED BY <3>2, <3>3, <3>4
  <2> QED BY <2>3, <2>4
<1>3. ASSUME NEW m \in Names, Remove(m)
      PROVE  FlagOfVersion(bundles[n], bundles'[n], epoch' # epoch)
  <2>1. bundles'[n] \in {NoBundle, bundles[n]}
    BY <1>3 DEF Remove, CatalogTypeOK
  <2> QED BY <2>1 DEF FlagOfVersion
<1>4. ASSUME NEW m \in Names, NEW flag \in BOOLEAN, SetAvailable(m, flag)
      PROVE  FlagOfVersion(bundles[n], bundles'[n], epoch' # epoch)
  <2>1. bundles[m] \in Bundle /\ epoch' = epoch
    BY <1>4 DEF SetAvailable, CatalogTypeOK
  <2>2. \/ bundles'[n] = bundles[n]
        \/ bundles[n] \in Bundle /\ bundles'[n] = [bundles[n] EXCEPT !.available = flag]
    BY <1>4, <2>1 DEF SetAvailable, CatalogTypeOK
  <2>3. \/ bundles'[n] = bundles[n]
        \/ bundles[n] \in Bundle /\ bundles'[n].version = bundles[n].version
    BY <2>2 DEF Bundle
  <2> QED BY <2>1, <2>3, NoBundleAssumption DEF FlagOfVersion
<1>5. CASE Reconnected
  BY <1>5 DEF Reconnected, FlagOfVersion
<1> QED BY <1>2, <1>3, <1>4, <1>5 DEF Change

(***************************************************************************)
(* The catalog under any sequence of calls.                                *)
(***************************************************************************)
LEMMA CatalogStart == NewCatalog => CatalogOK
BY DEF NewCatalog, CatalogOK, CatalogTypeOK, AckedNotAhead

LEMMA CatalogCalls ==
    ASSUME CatalogOK, [CatalogNext(Nat)]_catalogVars
    PROVE  CatalogOK'
<1> USE DEF CatalogOK, CatalogTypeOK, AckedNotAhead
<1>1. CASE Change
  BY <1>1, CatalogChanges
<1>2. CASE \E acked \in Nat : EpochAcked(acked) /\ UNCHANGED <<bundles, epoch>>
  BY <1>2 DEF EpochAcked
<1>3. CASE UNCHANGED catalogVars
  BY <1>3 DEF catalogVars
<1> QED BY <1>1, <1>2, <1>3 DEF CatalogNext

\* Whatever is called and whatever epochs receipts name, the types are right
\* and the acknowledged epoch is not ahead of the catalog's.
THEOREM CatalogSoundness == CatalogSpec => []CatalogOK
BY CatalogStart, CatalogCalls, PTL DEF CatalogSpec

\* What diff leaves of a name that the update lists is an entry of the list.
LEMMA DiffOfListed ==
    ASSUME CatalogTypeOK, NEW list \in Seq(ListItem), NEW n \in Names,
           Positions(n, list) # {}
    PROVE  /\ diff(list)[n] # NoBundle
           /\ \E i \in DOMAIN list : /\ list[i].name = n
                                     /\ list[i].version = diff(list)[n].version
<1> DEFINE first == Min(Positions(n, list))
           last == Max(Positions(n, list))
<1>1. first \in DOMAIN list /\ list[first].name = n /\ list[first] \in ListItem
  BY PositionsInList, ItemsOfList, Zenon DEF Positions
<1>2. last \in DOMAIN list /\ list[last].name = n /\ list[last] \in ListItem
  BY PositionsInList, ItemsOfList, Zenon DEF Positions
<1>3. ASSUME NEW item \in ListItem
      PROVE  Fresh(item) # NoBundle /\ Fresh(item).version = item.version
  <2>1. Fresh(item) \in Bundle /\ Fresh(item).version = item.version
    BY DEF Fresh, ListItem, Bundle
  <2> QED BY <2>1, NoBundleAssumption
<1> HIDE DEF first, last
<1>4. CASE bundles[n] = NoBundle
  <2>1. diff(list)[n] = Fresh(list[last])
    BY <1>4 DEF diff, last
  <2> QED BY <1>2, <1>3, <2>1
<1>5. CASE bundles[n] # NoBundle /\ list[first].version = bundles[n].version
  <2>1. diff(list)[n] = bundles[n]
    BY <1>5 DEF diff, findByName, first
  <2> QED BY <1>1, <1>5, <2>1
<1>6. CASE bundles[n] # NoBundle /\ list[first].version # bundles[n].version
  <2>1. diff(list)[n] = Fresh(list[first])
    BY <1>6 DEF diff, findByName, first
  <2> QED BY <1>1, <1>3, <2>1
<1> QED BY <1>4, <1>5, <1>6

\* An update that opens a new epoch changes what the catalog holds.
LEMMA DirtyDiff ==
    ASSUME CatalogTypeOK, NEW list \in Seq(ListItem), Dirty(list)
    PROVE  ContentOf(diff(list)) # Content
<1>1. PICK n \in Names : \/ (bundles[n] # NoBundle) # (Positions(n, list) # {})
                         \/ /\ bundles[n] # NoBundle
                            /\ findByName(n, list).version # bundles[n].version
  BY Zenon DEF Dirty
<1>2. ASSUME NEW cat PROVE \A v : <<n, v>> \in ContentOf(cat)
                                     <=> cat[n] # NoBundle /\ v = cat[n].version
  BY DEF ContentOf
<1>3. CASE Positions(n, list) = {}
  <2>1. diff(list)[n] = NoBundle /\ bundles[n] # NoBundle
    BY <1>1, <1>3, Zenon DEF diff
  <2>2. <<n, bundles[n].version>> \in Content
    BY <1>2, <2>1 DEF Content
  <2>3. <<n, bundles[n].version>> \notin ContentOf(diff(list))
    BY <1>2, <2>1
  <2> QED BY <2>2, <2>3
<1>4. CASE Positions(n, list) # {} /\ bundles[n] = NoBundle
  <2>1. <<n, diff(list)[n].version>> \in ContentOf(diff(list))
    BY <1>2, <1>4, DiffOfListed
  <2>2. <<n, diff(list)[n].version>> \notin Content
    BY <1>2, <1>4 DEF Content
  <2> QED BY <2>1, <2>2
<1>5. CASE /\ Positions(n, list) # {} /\ bundles[n] # NoBundle
           /\ findByName(n, list).version # bundles[n].version
  <2>1. diff(list)[n] = Fresh(findByName(n, list))
    BY <1>5 DEF diff
  <2>2. diff(list)[n].version # bundles[n].version
    BY <1>5, <2>1 DEF Fresh
  <2>3. <<n, bundles[n].version>> \in Content
    BY <1>2, <1>5 DEF Content
  <2>4. <<n, bundles[n].version>> \notin ContentOf(diff(list))
    BY <1>2, <2>2
  <2> QED BY <2>3, <2>4
<1> QED BY <1>1, <1>3, <1>4, <1>5

\* Replace makes the catalog the snapshot that Cog sent, and opens a new epoch
\* exactly if that changes it: in every reachable catalog and for lists of any
\* length, in any order and with names that occur more than once.
THEOREM ReplaceTakesSnapshot == CatalogSpec => []ReplaceIsSnapshot
<1>1. ASSUME CatalogTypeOK, NEW list \in Updates
      PROVE  LET after == ContentOf(diff(list))
                 listed == {<<list[i].name, list[i].version>> : i \in DOMAIN list}
             IN  /\ after \subseteq listed
                 /\ {c[1] : c \in after} = {c[1] : c \in listed}
                 /\ Dirty(list) <=> after # Content
  <2> DEFINE after == ContentOf(diff(list))
             listed == {<<list[i].name, list[i].version>> : i \in DOMAIN list}
  <2>1. list \in Seq(ListItem) /\ \A i \in DOMAIN list : list[i].name \in Names
    BY UpdatesAssumption, ItemsOfList, Zenon
  <2>2. ASSUME NEW n \in Names
        PROVE  diff(list)[n] # NoBundle <=> Positions(n, list) # {}
    BY <1>1, <2>1, DiffOfListed DEF diff
  <2>3. after \subseteq listed
    <3> SUFFICES ASSUME NEW n \in Names, diff(list)[n] # NoBundle
                 PROVE  <<n, diff(list)[n].version>> \in listed
      BY DEF ContentOf
    <3> QED BY <1>1, <2>1, <2>2, DiffOfListed
  <2>4. ASSUME NEW i \in DOMAIN list
        PROVE  <<list[i].name, diff(list)[list[i].name].version>> \in after
    <3>1. i \in Positions(list[i].name, list)
      BY DEF Positions
    <3> QED BY <2>1, <2>2, <3>1 DEF ContentOf
  <2>5. {c[1] : c \in after} \subseteq {c[1] : c \in listed}
    <3> HIDE DEF after, listed
    <3> QED BY <2>3
  <2>6. {c[1] : c \in listed} \subseteq {c[1] : c \in after}
    <3> SUFFICES ASSUME NEW i \in DOMAIN list
                 PROVE  list[i].name \in {c[1] : c \in after}
      BY DEF listed
    <3>1. PICK c \in after : c = <<list[i].name, diff(list)[list[i].name].version>>
      BY <2>4, Zenon
    <3>2. c[1] = list[i].name
      BY <3>1
    <3> HIDE DEF after
    <3> QED BY <3>2, Zenon
  <2>7. Dirty(list) => after # Content
    BY <1>1, <2>1, DirtyDiff
  <2>8. ~Dirty(list) => after = Content
    BY <1>1, <2>1, CleanDiff DEF Content
  <2> HIDE DEF after, listed
  <2>9. /\ after \subseteq listed
        /\ {c[1] : c \in after} = {c[1] : c \in listed}
        /\ Dirty(list) <=> after # Content
    BY <2>3, <2>5, <2>6, <2>7, <2>8
  <2> QED BY <2>9 DEF after, listed
<1>2. CatalogOK => ReplaceIsSnapshot
  BY <1>1, Zenon DEF CatalogOK, ReplaceIsSnapshot
<1> QED BY <1>2, CatalogSoundness, PTL

\* No call changes which bundles, or which versions, the catalog holds without
\* opening a new epoch, and no epoch is used again.
THEOREM EpochsTrackContent == CatalogSpec => EpochTracksContent
<1> DEFINE Tracks == epoch' >= epoch /\ (Content' # Content => epoch' > epoch)
<1>1. ASSUME CatalogOK, [CatalogNext(Nat)]_catalogVars PROVE [Tracks]_catalogVars
  <2>1. epoch \in Nat /\ CatalogTypeOK
    BY <1>1 DEF CatalogOK, CatalogTypeOK
  <2>2. CASE Change
    BY <2>1, <2>2, CatalogChanges
  <2>3. CASE UNCHANGED <<bundles, epoch>>
    BY <2>1, <2>3 DEF Content, ContentOf
  <2> QED BY <1>1, <2>2, <2>3, Zenon DEF CatalogNext, catalogVars
<1> QED BY <1>1, CatalogStart, CatalogCalls, PTL DEF CatalogSpec, EpochTracksContent

\* A bundle's flag belongs to its version: a new version (or a bundle that
\* comes back) starts out unavailable, and an update that leaves a version
\* alone leaves its flag alone (diff of catalog.go), for lists of any length.
THEOREM FlagsBelongToVersions == CatalogSpec => AvailabilityOfVersion
<1> DEFINE Kept == \A n \in Names : FlagOfVersion(bundles[n], bundles'[n], epoch' # epoch)
<1>1. ASSUME CatalogOK, [CatalogNext(Nat)]_catalogVars PROVE [Kept]_catalogVars
  <2>1. CASE Change
    BY <1>1, <2>1, FlagsOfVersions DEF CatalogOK
  <2>2. CASE UNCHANGED bundles
    BY <2>2 DEF FlagOfVersion
  <2> QED BY <1>1, <2>1, <2>2, Zenon DEF CatalogNext, catalogVars
<1>2. ASSUME [Kept]_catalogVars
      PROVE  [\A n \in Names :
                LET old == bundles[n]
                    new == bundles'[n]
                IN  /\ new # NoBundle /\ (old = NoBundle \/ old.version # new.version)
                          => ~new.available
                    /\ epoch' # epoch /\ old # NoBundle /\ new # NoBundle
                          /\ old.version = new.version => new = old]_catalogVars
  BY <1>2 DEF FlagOfVersion
<1> QED BY <1>1, <1>2, CatalogStart, CatalogCalls, PTL DEF CatalogSpec, AvailabilityOfVersion
=============================================================================
