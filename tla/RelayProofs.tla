----------------------------- MODULE RelayProofs -----------------------------
(***************************************************************************)
(* What the announcer promises implies that acknowledgements are sound;    *)
(* the handlers of any number of connections use it as it promises to be   *)
(* used, count a catalog as announced only when Cog was told on their own  *)
(* connection, and start a refresh cycle only on an empty catalog: for     *)
(* every set of bundles and versions and every list Cog may send.          *)
(***************************************************************************)
EXTENDS Relay, CatalogProofs, FiniteSetTheorems

(***************************************************************************)
(* The promise.                                                            *)
(***************************************************************************)
\* AckSound is not inductive: a receipt on its way, like the acknowledged
\* epoch, is never from the future, and if it is for the present epoch then
\* Cog was told of that epoch; and whatever Cog was told in this epoch, acked
\* or not, is still in the catalog.
AckInv == /\ PromiseTypeOK
          /\ lastAcked <= epoch
          /\ \A id \in receipts : id <= epoch
          /\ epoch > 0 /\ epoch \in receipts \cup {lastAcked} => told # {}
          /\ UNION told \subseteq Content

LEMMA AckInvInit == PromiseInit => AckInv
<1> SUFFICES ASSUME PromiseInit PROVE AckInv
  OBVIOUS
<1>1. CatalogTypeOK
  BY DEF PromiseInit, NewCatalog, CatalogTypeOK
<1>2. PromiseTypeOK
  BY <1>1, Zenon DEF PromiseInit, PromiseTypeOK
<1>3. UNION told \subseteq Content
  BY DEF PromiseInit
<1> QED BY <1>2, <1>3 DEF PromiseInit, NewCatalog, AckInv

LEMMA AckInvCatalogStep ==
    ASSUME AckInv, CatalogStep
    PROVE  AckInv'
<1>1. /\ CatalogTypeOK' /\ lastAcked' = lastAcked
      /\ epoch' \in {epoch, epoch + 1}
      /\ epoch' = epoch => Content' = Content
  BY CatalogChanges DEF CatalogStep, AckInv, PromiseTypeOK
<1>2. /\ receipts' = receipts
      /\ told' = IF epoch' = epoch THEN told ELSE {}
      /\ epoch \in Nat /\ lastAcked \in Nat /\ receipts \subseteq Nat
  BY DEF CatalogStep, AckInv, PromiseTypeOK, CatalogTypeOK
<1>3. PromiseTypeOK'
  BY <1>1, <1>2 DEF CatalogStep, AckInv, PromiseTypeOK
<1>4. CASE epoch' = epoch
  BY <1>1, <1>2, <1>3, <1>4 DEF AckInv
<1>5. CASE epoch' = epoch + 1
  BY <1>1, <1>2, <1>3, <1>5 DEF AckInv
<1> QED BY <1>1, <1>4, <1>5

LEMMA AckInvAnnounce ==
    ASSUME AckInv, NEW id \in 0 .. epoch, NEW content \in SUBSET (Names \X Versions),
           Announce(id, content)
    PROVE  AckInv'
<1>1. Content' = Content
  BY DEF Announce, catalogVars, Content, ContentOf
<1>2. PromiseTypeOK'
  BY DEF Announce, catalogVars, AckInv, PromiseTypeOK, CatalogTypeOK
<1>3. CASE id = epoch
  BY <1>1, <1>2, <1>3 DEF Announce, catalogVars, AckInv, PromiseTypeOK, CatalogTypeOK
<1>4. CASE id # epoch
  BY <1>1, <1>2, <1>4 DEF Announce, catalogVars, AckInv, PromiseTypeOK, CatalogTypeOK
<1> QED BY <1>3, <1>4

LEMMA AckInvReceipt ==
    ASSUME AckInv, NEW id \in receipts, Acknowledge(id) \/ Ignore(id)
    PROVE  AckInv'
<1>1. Content' = Content
  BY DEF Acknowledge, Ignore, catalogVars, Content, ContentOf
<1>2. CASE Acknowledge(id)
  BY <1>1, <1>2 DEF Acknowledge, EpochAcked, AckInv, PromiseTypeOK, CatalogTypeOK
<1>3. CASE Ignore(id)
  BY <1>1, <1>3 DEF Ignore, catalogVars, AckInv, PromiseTypeOK, CatalogTypeOK
<1> QED BY <1>2, <1>3

LEMMA AckInvNext ==
    ASSUME AckInv, [PromiseNext]_promiseVars
    PROVE  AckInv'
<1> USE DEF AckInv, PromiseTypeOK, CatalogTypeOK, catalogVars, cogVars
<1>1. CASE SendAnnouncement
  BY <1>1 DEF SendAnnouncement, Content, ContentOf
<1>2. CASE Halt
  BY <1>2 DEF Halt, Content, ContentOf
<1>3. CASE Die
  BY <1>3 DEF Die, Content, ContentOf
<1>4. CASE Disconnect
  <2>1. Content' = Content
    BY <1>4 DEF Disconnect, Content, ContentOf
  <2>2. stuck' \in BOOLEAN
    BY <1>4, Zenon DEF Disconnect
  <2>3. PromiseTypeOK'
    <3>1. CatalogTypeOK'
      BY <1>4 DEF Disconnect
    <3>2. receipts' \subseteq Nat
      BY <1>4 DEF Disconnect
    <3>3. connected' \in BOOLEAN /\ online' \in BOOLEAN
      BY <1>4, Zenon DEF Disconnect
    <3>4. UNCHANGED <<told, owed, halted, crashed>>
      BY <1>4 DEF Disconnect
    <3> QED BY <2>2, <3>1, <3>2, <3>3, <3>4
  <2>4. /\ epoch' = epoch /\ lastAcked' = lastAcked /\ told' = told
        /\ receipts' = receipts \cup {0}
    BY <1>4 DEF Disconnect
  <2>5. \A id \in receipts' : id <= epoch'
    BY <2>4
  <2>6. epoch' > 0 /\ epoch' \in receipts' \cup {lastAcked'} => told' # {}
    BY <2>4
  <2>7. UNION told' \subseteq Content'
    BY <2>1, <2>4
  <2> QED BY <2>3, <2>4, <2>5, <2>6, <2>7
<1>5. CASE Connect
  BY <1>5 DEF Connect, Content, ContentOf
<1>6. CASE UNCHANGED promiseVars
  BY <1>6 DEF promiseVars, Content, ContentOf
<1>7. CASE CatalogStep
  BY <1>7, AckInvCatalogStep
<1>8. CASE \E id \in 0 .. epoch, content \in SUBSET (Names \X Versions) :
              Announce(id, content)
  BY <1>8, AckInvAnnounce
<1>9. CASE \E id \in receipts : Acknowledge(id) \/ Ignore(id)
  BY <1>9, AckInvReceipt
<1> QED BY <1>1, <1>2, <1>3, <1>4, <1>5, <1>6, <1>7, <1>8, <1>9, Zenon DEF PromiseNext

\* Whatever the catalog, the announcer, the bus and Cog do: the types are
\* right, a catalog that counts as announced (IsChanged of catalog.go) was
\* announced in this very epoch, and what Cog was told then still holds.
THEOREM AckSoundness == PromiseSpec => [](PromiseTypeOK /\ AckSound)
<1>1. AckInv => PromiseTypeOK /\ AckSound
  BY DEF AckInv, AckSound, PromiseTypeOK, CatalogTypeOK
<1> QED BY <1>1, AckInvInit, AckInvNext, PTL DEF PromiseSpec

\* The acknowledged epoch is never ahead of the catalog's (EpochAcked).
THEOREM AckedBehind == PromiseSpec => []AckedNotAhead
<1>1. AckInv => AckedNotAhead
  BY DEF AckInv, AckedNotAhead
<1> QED BY <1>1, AckInvInit, AckInvNext, PTL DEF PromiseSpec

\* The promise changes the catalog by nothing but calls of the catalog's
\* methods, with receipts that name epochs (AnnouncementReceipt of Cog): what
\* holds of every catalog, EpochTracksContent and AvailabilityOfVersion among
\* it, holds of the one that is announced.
THEOREM PromiseIsOfCatalog == PromiseSpec => CatalogSpec
<1>1. PromiseInit => NewCatalog
  BY DEF PromiseInit
<1>2. ASSUME AckInv, [PromiseNext]_promiseVars
      PROVE  [CatalogNext(Nat)]_catalogVars
  <2>1. CASE CatalogStep
    BY <2>1 DEF CatalogStep, CatalogNext
  <2>2. CASE \E id \in receipts : Acknowledge(id)
    <3>1. PICK id \in receipts : Acknowledge(id)
      BY <2>2
    <3>2. id \in Nat
      BY <1>2 DEF AckInv, PromiseTypeOK
    <3> QED BY <3>1, <3>2, Zenon DEF Acknowledge, CatalogNext
  <2>3. CASE UNCHANGED catalogVars
    BY <2>3
  <2> QED BY <1>2, <2>1, <2>2, <2>3, Zenon
          DEF PromiseNext, SendAnnouncement, Halt, Die, Announce, Ignore, Disconnect,
              Connect, promiseVars
<1> QED BY <1>1, <1>2, AckInvInit, AckInvNext, PTL DEF PromiseSpec, CatalogSpec

(***************************************************************************)
(* The invariant of Relay.                                                 *)
(***************************************************************************)
RelayTypes == /\ link \in Links
              /\ subscribed \subseteq {"receipts", "directives"}
              /\ busPc \in [Links -> {"none", "receipts", "announce", "subs", "catalog", "done"}]
              /\ dirPc \in [Links -> {"idle", "check", "refresh", "arm"}]
              /\ refresh \in [Links -> SUBSET Names]
              /\ pulling \in [Links -> [name : Names, current : BOOLEAN] \cup {NoBundle}]
              /\ timers \in Nat
              /\ replies \in Seq(Updates)
              /\ revision \in DOMAIN Assigned
              /\ engines \subseteq EngineTypes /\ fatal \in BOOLEAN

\* The types are not inductive by themselves: the promise has its own
\* invariant, and only a connection that may be lost is followed by another.
RelayInv == AckInv /\ RelayTypes /\ (~connected => link < MaxLosses)

(***************************************************************************)
(* Relay keeps to the promise.                                             *)
(***************************************************************************)
LEMMA ContentTypes ==
    ASSUME CatalogTypeOK
    PROVE  Content \in SUBSET (Names \X Versions)
BY DEF CatalogTypeOK, Content, ContentOf, Bundle

\* A call of one of the catalog's methods is a step of the promise.
LEMMA ChangeIsStep ==
    ASSUME Change, CatalogOnly
    PROVE  PromiseNext
BY DEF CatalogOnly, CatalogStep, PromiseNext

\* The handler of bus events.
LEMMA BusUses ==
    ASSUME NEW c \in Links, BusStep(c)
    PROVE  [PromiseNext]_promiseVars
<1>1. CASE SetSubscriptions(c) \/ setSubscriptions(c) \/ subscribeHung(c)
  BY <1>1 DEF SetSubscriptions, setSubscriptions, subscribeHung
<1>2. CASE reannounce(c)
  BY <1>2 DEF reannounce, PromiseNext
<1>3. CASE loadCatalog(c)
  <2>1. Reconnected => Change
    BY DEF Change
  <2> QED BY <1>3, <2>1, ChangeIsStep DEF loadCatalog
<1> QED BY <1>1, <1>2, <1>3 DEF BusStep

\* The directives handler.
LEMMA RouterUses ==
    ASSUME RelayInv, NEW c \in Links, RouterStep(c)
    PROVE  [PromiseNext]_promiseVars
<1>1. ASSUME NEW n \in Names, NEW flag \in BOOLEAN, SetAvailable(n, flag), CatalogOnly
      PROVE  PromiseNext
  <2>1. Change
    BY <1>1 DEF Change
  <2> QED BY <1>1, <2>1, ChangeIsStep
<1>2. CASE checkChanged(c) \/ armBundleTimer(c)
  BY <1>2 DEF checkChanged, armBundleTimer
<1>3. CASE announceCatalog(c)
  BY <1>3 DEF announceCatalog, PromiseNext
<1>4. ASSUME NEW n \in Names, refreshBundle(c, n)
      PROVE  [PromiseNext]_promiseVars
  BY <1>1, <1>4, Zenon DEF refreshBundle
<1>5. ASSUME NEW available \in BOOLEAN, refreshedImage(c, available)
      PROVE  [PromiseNext]_promiseVars
  <2>1. pulling[c].name \in Names
    BY <1>5 DEF refreshedImage, RelayInv, RelayTypes
  <2> QED BY <1>1, <1>5, <2>1 DEF refreshedImage
<1> QED BY <1>2, <1>3, <1>4, <1>5 DEF RouterStep

LEMMA StepUses ==
    ASSUME RelayInv, [Next]_vars
    PROVE  [PromiseNext]_promiseVars
<1>1. CASE \E c \in Links : BusStep(c) \/ RouterStep(c)
  BY <1>1, BusUses, RouterUses
<1>2. CASE updateCatalog(link)
  <2>1. Head(replies) \in Updates
    BY <1>2 DEF updateCatalog, RelayInv, RelayTypes
  <2>2. Change /\ CatalogOnly
    BY <1>2, <2>1, Zenon DEF updateCatalog, Change
  <2> QED BY <2>2, ChangeIsStep
<1>3. CASE loseReply \/ scheduledBundleRefresh \/ assign
  BY <1>3 DEF loseReply, scheduledBundleRefresh, assign
<1>4. CASE announcements
  <2>1. Content \in SUBSET (Names \X Versions)
    BY ContentTypes DEF RelayInv, AckInv, PromiseTypeOK
  <2>2. PICK id \in 0 .. epoch, content \in SUBSET Content : Announce(id, content)
    BY <1>4 DEF announcements
  <2>3. content \in SUBSET (Names \X Versions)
    BY <2>1
  <2> QED BY <2>2, <2>3, Zenon DEF PromiseNext
<1>5. CASE \E id \in receipts : cogReceipt(id)
  BY <1>5 DEF cogReceipt, PromiseNext
<1>6. CASE loseConnection \/ reconnect
  BY <1>6 DEF loseConnection, reconnect, PromiseNext
<1>7. CASE UNCHANGED vars
  BY <1>7 DEF vars
<1> QED BY <1>1, <1>2, <1>3, <1>4, <1>5, <1>6, <1>7, SMTT(60) DEF Next

(***************************************************************************)
(* The types.                                                              *)
(***************************************************************************)
LEMMA RelayInvInit == Init => RelayInv
<1> SUFFICES ASSUME Init PROVE RelayInv
  OBVIOUS
<1>1. AckInv
  BY AckInvInit DEF Init
<1>2. 0 \in Links /\ 1 \in DOMAIN Assigned
  BY RelayAssumption DEF Links
<1>3. RelayTypes
  <2>1. /\ link \in Links /\ subscribed \subseteq {"receipts", "directives"}
        /\ timers \in Nat /\ replies \in Seq(Updates) /\ revision \in DOMAIN Assigned
    BY <1>2 DEF Init
  <2>2. engines \subseteq EngineTypes /\ fatal \in BOOLEAN
    BY Zenon DEF Init
  <2>3. busPc \in [Links -> {"none", "receipts", "announce", "subs", "catalog", "done"}]
    BY DEF Init
  <2>4. dirPc \in [Links -> {"idle", "check", "refresh", "arm"}]
    BY DEF Init
  <2>5. refresh \in [Links -> SUBSET Names]
    BY DEF Init
  <2>6. pulling \in [Links -> [name : Names, current : BOOLEAN] \cup {NoBundle}]
    BY DEF Init
  <2> QED BY <2>1, <2>2, <2>3, <2>4, <2>5, <2>6, Zenon DEF RelayTypes
<1>4. connected = TRUE
  BY DEF Init, PromiseInit
<1> QED BY <1>1, <1>3, <1>4 DEF RelayInv

LEMMA RequestTypes ==
    ASSUME RelayTypes, requestBundles
    PROVE  replies' \in Seq(Updates) /\ revision' \in DOMAIN Assigned
           /\ engines' \subseteq EngineTypes
<1>1. Assigned[revision] \in Updates
  BY RelayAssumption DEF RelayTypes
<1>2. replies' \in Seq(Updates)
  BY <1>1, SMTT(60) DEF requestBundles, RelayTypes
<1> QED BY <1>2 DEF requestBundles, RelayTypes

LEMMA BusTypes ==
    ASSUME RelayTypes, NEW c \in Links, BusStep(c)
    PROVE  RelayTypes' /\ link' = link
<1> USE DEF BusGoto, routerVars, cogSide, RelayTypes
<1>1. CASE SetSubscriptions(c)
  <2>1. fatal' \in BOOLEAN
    BY <1>1, Zenon DEF SetSubscriptions, Subscribe
  <2>2. subscribed' \subseteq {"receipts", "directives"}
    BY <1>1 DEF SetSubscriptions, Subscribe
  <2> QED BY <1>1, <2>1, <2>2, Zenon DEF SetSubscriptions
<1>2. CASE setSubscriptions(c)
  <2>1. fatal' \in BOOLEAN
    BY <1>2 DEF setSubscriptions, Subscribe
  <2>2. subscribed' \subseteq {"receipts", "directives"}
    BY <1>2, Zenon DEF setSubscriptions, Subscribe
  <2> QED BY <1>2, <2>1, <2>2, Zenon DEF setSubscriptions
<1>3. CASE subscribeHung(c) \/ reannounce(c)
  BY <1>3, ZenonT(60) DEF subscribeHung, reannounce
<1>4. CASE loadCatalog(c)
  <2>1. /\ replies' \in Seq(Updates) /\ revision' \in DOMAIN Assigned
        /\ engines' \subseteq EngineTypes
    BY <1>4, RequestTypes, SMTT(60) DEF loadCatalog
  <2> QED BY <1>4, <2>1, SMTT(60) DEF loadCatalog
<1> QED BY <1>1, <1>2, <1>3, <1>4 DEF BusStep

LEMMA RouterTypes ==
    ASSUME RelayTypes, NEW c \in Links, RouterStep(c)
    PROVE  RelayTypes' /\ link' = link
<1> USE DEF DirGoto, routerVars, cogSide, RelayTypes
<1>1. CASE checkChanged(c)
  <2>1. BundleNames \subseteq Names
    BY DEF BundleNames
  <2> QED BY <1>1, <2>1 DEF checkChanged
<1>2. CASE announceCatalog(c)
  BY <1>2, Zenon DEF announceCatalog
<1>3. CASE armBundleTimer(c)
  BY <1>3 DEF armBundleTimer
<1>4. ASSUME NEW n \in Names, refreshBundle(c, n)
      PROVE  RelayTypes' /\ link' = link
  <2>3. [name |-> n, current |-> TRUE] \in [name : Names, current : BOOLEAN]
    OBVIOUS
  <2>4. \/ pulling' = pulling
        \/ pulling' = [pulling EXCEPT ![c] = [name |-> n, current |-> TRUE]]
    BY <1>4, Zenon DEF refreshBundle
  <2>1. pulling' \in [Links -> [name : Names, current : BOOLEAN] \cup {NoBundle}]
    BY <2>3, <2>4, ZenonT(60)
  <2>2. refresh' \in [Links -> SUBSET Names]
    BY <1>4 DEF refreshBundle
  <2> QED BY <1>4, <2>1, <2>2, Zenon DEF refreshBundle
<1>5. ASSUME NEW available \in BOOLEAN, refreshedImage(c, available)
      PROVE  RelayTypes' /\ link' = link
  BY <1>5 DEF refreshedImage
<1> QED BY <1>1, <1>2, <1>4, <1>5, <1>3, SMTT(60) DEF RouterStep

LEMMA ReplyTypes ==
    ASSUME RelayTypes, updateCatalog(link)
    PROVE  RelayTypes' /\ link' = link
<1> USE DEF RelayTypes
<1>1. replies' \in Seq(Updates)
  BY DEF updateCatalog
<1>2. ASSUME NEW d \in Links
      PROVE  pulling'[d] \in [name : Names, current : BOOLEAN] \cup {NoBundle}
  <2>1. CASE pulling[d] = NoBundle
    BY <2>1 DEF updateCatalog
  <2>2. CASE pulling[d] # NoBundle
    <3>1. pulling[d] \in [name : Names, current : BOOLEAN]
      BY <2>2
    <3>2. PICK flag \in BOOLEAN : pulling'[d] = [pulling[d] EXCEPT !.current = flag]
      BY <2>2, <3>1, Zenon DEF updateCatalog
    <3> QED BY <3>1, <3>2
  <2> QED BY <2>1, <2>2
<1>3. pulling' \in [Links -> [name : Names, current : BOOLEAN] \cup {NoBundle}]
  BY <1>2 DEF updateCatalog
<1> QED BY <1>1, <1>3 DEF updateCatalog, DirGoto

LEMMA RelayInvNext ==
    ASSUME RelayInv, [Next]_vars
    PROVE  RelayInv'
<1>1. AckInv'
  BY StepUses, AckInvNext DEF RelayInv
<1>2. RelayTypes /\ link \in Nat /\ MaxLosses \in Nat
  BY RelayAssumption DEF RelayInv, RelayTypes, Links
<1>3. CASE \E c \in Links : BusStep(c) \/ RouterStep(c)
  <2>1. RelayTypes' /\ link' = link
    BY <1>2, <1>3, BusTypes, RouterTypes
  <2>2. connected' = connected
    <3>1. SendAnnouncement \/ CatalogOnly \/ UNCHANGED promiseVars
      <4>1. ASSUME NEW c \in Links, BusStep(c)
            PROVE  SendAnnouncement \/ CatalogOnly \/ UNCHANGED promiseVars
        BY <4>1 DEF BusStep, SetSubscriptions, setSubscriptions, subscribeHung, reannounce,
              loadCatalog
      <4>2. ASSUME NEW c \in Links, RouterStep(c)
            PROVE  SendAnnouncement \/ CatalogOnly \/ UNCHANGED promiseVars
        <5>1. CASE checkChanged(c) \/ announceCatalog(c) \/ armBundleTimer(c)
          BY <5>1 DEF checkChanged, announceCatalog, armBundleTimer
        <5>2. CASE \E n \in Names : refreshBundle(c, n)
          BY <5>2, Zenon DEF refreshBundle
        <5>3. CASE \E available \in BOOLEAN : refreshedImage(c, available)
          BY <5>3 DEF refreshedImage
        <5> QED BY <4>2, <5>1, <5>2, <5>3, ZenonT(60) DEF RouterStep
      <4> QED BY <1>3, <4>1, <4>2, Zenon
    <3> QED BY <3>1 DEF SendAnnouncement, CatalogOnly, promiseVars
  <2> QED BY <1>1, <2>1, <2>2 DEF RelayInv
<1>4. CASE updateCatalog(link)
  <2>1. RelayTypes' /\ link' = link
    BY <1>2, <1>4, ReplyTypes
  <2>2. connected' = connected
    BY <1>4 DEF updateCatalog, CatalogOnly
  <2> QED BY <1>1, <2>1, <2>2 DEF RelayInv
<1>5. CASE loseReply \/ assign
  <2>1. RelayTypes' /\ link' = link
    <3>1. CASE loseReply
      BY <1>2, <3>1 DEF loseReply, RelayTypes, routerVars
    <3>2. CASE assign
      BY <1>2, <3>2 DEF assign, RelayTypes, routerVars
    <3> QED BY <1>5, <3>1, <3>2
  <2>2. connected' = connected
    BY <1>5, Zenon DEF loseReply, assign, promiseVars
  <2> QED BY <1>1, <2>1, <2>2 DEF RelayInv
<1>6. CASE scheduledBundleRefresh
  <2>1. /\ replies' \in Seq(Updates) /\ revision' \in DOMAIN Assigned
        /\ engines' \subseteq EngineTypes
    BY <1>2, <1>6, RequestTypes, Zenon DEF scheduledBundleRefresh
  <2>2. RelayTypes' /\ link' = link
    BY <1>2, <1>6, <2>1 DEF scheduledBundleRefresh, RelayTypes, routerVars
  <2>3. connected' = connected
    BY <1>6, Zenon DEF scheduledBundleRefresh, promiseVars
  <2> QED BY <1>1, <2>2, <2>3 DEF RelayInv
<1>7. CASE announcements \/ \E id \in receipts : cogReceipt(id)
  <2>1. RelayTypes' /\ link' = link
    BY <1>2, <1>7, ZenonT(60)
       DEF announcements, cogReceipt, RelayTypes, relayVars, routerVars, cogSide
  <2>2. connected' = connected
    BY <1>7 DEF announcements, cogReceipt, Announce, Acknowledge, Ignore
  <2> QED BY <1>1, <2>1, <2>2 DEF RelayInv
<1>8. CASE loseConnection
  <2>1. RelayTypes' /\ link' = link
    BY <1>2, <1>8 DEF loseConnection, RelayTypes, routerVars
  <2> QED BY <1>1, <1>8, <2>1, SMTT(60) DEF loseConnection, RelayInv
<1>9. CASE reconnect
  <2>1. link + 1 \in Links
    BY <1>2, <1>9 DEF reconnect, Connect, RelayInv, Links
  <2>2. RelayTypes'
    BY <1>2, <1>9, <2>1 DEF reconnect, BusGoto, RelayTypes, routerVars, cogSide
  <2>3. connected' = TRUE
    BY <1>9, ZenonT(60) DEF reconnect, Connect
  <2> QED BY <1>1, <2>2, <2>3 DEF RelayInv
<1>10. CASE UNCHANGED vars
  <2>1. RelayTypes' /\ link' = link
    BY <1>2, <1>10 DEF vars, relayVars, routerVars, cogSide, RelayTypes
  <2>2. connected' = connected
    BY <1>10, SMTT(30) DEF vars, promiseVars
  <2> QED BY <1>1, <2>1, <2>2 DEF RelayInv
<1> QED BY <1>3, <1>4, <1>5, <1>6, <1>7, <1>8, <1>9, <1>10, ZenonT(60) DEF Next

\* Every variable of Relay keeps its type, for any number of connections, any
\* lists Cog assigns and any pulls.
THEOREM RelayTypeOK == Spec => []TypeOK
<1>1. RelayInv => TypeOK
  BY DEF RelayInv, RelayTypes, AckInv, TypeOK
<1> QED BY <1>1, RelayInvInit, RelayInvNext, PTL DEF Spec

\* Relay's handlers use the announcer and the catalog as Announcing allows.
LEMMA RelayUsesPromise == Spec => PromiseSpec
<1>1. Init => PromiseInit
  BY DEF Init
<1> QED BY <1>1, RelayInvInit, RelayInvNext, StepUses, PTL DEF Spec, PromiseSpec

\* So a catalog of Relay that counts as announced was announced in this epoch,
\* and what Cog was told still holds, whatever the handlers of old and new
\* connections do at the same time.
THEOREM RelayAckSound == Spec => []AckSound
BY RelayUsesPromise, AckSoundness, PTL

(***************************************************************************)
(* Cog knows a Relay that thinks it is known.                              *)
(***************************************************************************)
\* AckedOnline is not inductive: what Cog was told in this epoch, acknowledged
\* or not, it was told on this connection.
OnlineInv == /\ Content # {} => epoch > 0
             /\ connected /\ busPc[link] = "done" /\ Content # {} /\ told # {} => online

\* What the promise does to it: an announcement tells Cog that Relay is
\* online, and another catalog is one Cog was told nothing of.
LEMMA PromiseOnline ==
    ASSUME AckInv, [PromiseNext]_promiseVars, Content # {} => epoch > 0
    PROVE  /\ Content' # {} => epoch' > 0
           /\ connected' /\ Content' # {} /\ told' # {} =>
                 online' \/ (online' = online /\ Content # {} /\ told # {})
<1> USE DEF catalogVars, cogVars
<1>1. CASE CatalogStep
  <2>1. epoch' \in {epoch, epoch + 1} /\ (epoch' = epoch => Content' = Content) /\ epoch \in Nat
    BY <1>1, CatalogChanges DEF CatalogStep, AckInv, PromiseTypeOK, CatalogTypeOK
  <2>2. told' = (IF epoch' = epoch THEN told ELSE {}) /\ online' = online
    BY <1>1 DEF CatalogStep
  <2>3. CASE epoch' = epoch
    BY <2>1, <2>2, <2>3, Zenon
  <2>4. CASE epoch' = epoch + 1
    BY <2>1, <2>2, <2>4
  <2> QED BY <2>1, <2>3, <2>4
<1>2. CASE UNCHANGED <<bundles, epoch>> /\ (online' = TRUE \/ UNCHANGED <<online, told>> \/ connected' = FALSE)
  <2>1. Content' = Content /\ epoch' = epoch
    BY <1>2 DEF Content, ContentOf
  <2> QED BY <1>2, <2>1, Zenon
<1>3. CASE \/ SendAnnouncement \/ Halt \/ Die \/ Disconnect \/ Connect \/ UNCHANGED promiseVars
           \/ \E id \in receipts : Acknowledge(id) \/ Ignore(id)
  BY <1>2, <1>3, Zenon DEF SendAnnouncement, Halt, Die, Disconnect, Connect, promiseVars,
       Acknowledge, Ignore
<1>4. CASE \E id \in 0 .. epoch, content \in SUBSET (Names \X Versions) : Announce(id, content)
  BY <1>2, <1>4, Zenon DEF Announce
<1> QED BY <1>1, <1>3, <1>4, Zenon DEF PromiseNext

\* The handler of a connection is done when it has opened a new epoch, or has
\* found the catalog empty.
LEMMA BusDone ==
    ASSUME RelayInv, [Next]_vars, connected', busPc'[link'] = "done"
    PROVE  connected /\ (busPc[link] = "done" \/ told' = {} \/ Content' = {})
<1>1. RelayTypes /\ epoch \in Nat
  BY DEF RelayInv, AckInv, PromiseTypeOK, CatalogTypeOK
<1>2. CASE UNCHANGED <<link, busPc, connected>>
  BY <1>2
<1>3. ASSUME NEW c \in Links, BusStep(c)
      PROVE  connected /\ (busPc[link] = "done" \/ told' = {} \/ Content' = {})
  <2>1. link' = link /\ connected' = connected
    BY <1>3, Zenon DEF BusStep, SetSubscriptions, setSubscriptions, subscribeHung, reannounce,
          loadCatalog, SendAnnouncement, CatalogOnly, promiseVars
  <2>2. ASSUME NEW label, BusGoto(c, label), label # "done" \/ c # link
        PROVE  busPc[link] = "done"
    BY <1>1, <2>1, <2>2, SMTT(30) DEF BusGoto, RelayTypes
  <2>3. CASE SetSubscriptions(c) \/ setSubscriptions(c) \/ reannounce(c)
    BY <2>1, <2>2, <2>3 DEF SetSubscriptions, setSubscriptions, reannounce
  <2>4. CASE subscribeHung(c)
    BY <2>1, <2>2, <2>4, Zenon DEF subscribeHung
  <2>5. CASE loadCatalog(c) /\ BundleNames # {}
    <3>1. epoch' = epoch + 1 /\ CatalogOnly
      BY <2>5, Zenon DEF loadCatalog, Reconnected
    <3> QED BY <1>1, <2>1, <3>1 DEF CatalogOnly
  <2>6. CASE loadCatalog(c) /\ BundleNames = {}
    <3>1. UNCHANGED bundles
      BY <2>6 DEF loadCatalog, promiseVars, catalogVars
    <3>2. Content' = {}
      BY <2>6, <3>1 DEF Content, ContentOf, BundleNames
    <3> QED BY <2>1, <3>2
  <2> QED BY <1>3, <2>3, <2>4, <2>5, <2>6, Zenon DEF BusStep
<1>4. ASSUME NEW c \in Links, RouterStep(c) PROVE UNCHANGED <<link, busPc, connected>>
  <2>1. CASE checkChanged(c) \/ announceCatalog(c) \/ armBundleTimer(c)
    BY <2>1, Zenon DEF checkChanged, announceCatalog, armBundleTimer, SendAnnouncement, promiseVars
  <2>2. ASSUME NEW n \in Names, refreshBundle(c, n) PROVE UNCHANGED <<link, busPc, connected>>
    <3>1. CatalogOnly \/ UNCHANGED promiseVars
      BY <2>2, Zenon DEF refreshBundle
    <3> QED BY <2>2, <3>1, Zenon DEF refreshBundle, CatalogOnly, promiseVars
  <2>3. ASSUME NEW available \in BOOLEAN, refreshedImage(c, available)
        PROVE  UNCHANGED <<link, busPc, connected>>
    BY <2>3, Zenon DEF refreshedImage, CatalogOnly, promiseVars
  <2> QED BY <1>4, <2>1, <2>2, <2>3, Zenon DEF RouterStep
<1>5. CASE updateCatalog(link) \/ loseReply \/ scheduledBundleRefresh \/ assign \/ UNCHANGED vars
  BY <1>2, <1>5, Zenon DEF updateCatalog, loseReply, scheduledBundleRefresh, assign, CatalogOnly,
        promiseVars, vars, relayVars
<1>6. CASE announcements \/ \E id \in receipts : cogReceipt(id)
  BY <1>2, <1>6, Zenon DEF announcements, cogReceipt, Announce, Acknowledge, Ignore, relayVars
<1>7. CASE loseConnection
  BY <1>7 DEF loseConnection, Disconnect
<1>8. CASE reconnect
  <2>1. link' = link + 1 /\ link + 1 \in Links
    BY <1>8, RelayAssumption DEF reconnect, Connect, RelayInv, RelayTypes, Links
  <2>2. busPc'[link + 1] = "receipts"
    BY <1>1, <1>8, <2>1 DEF reconnect, BusGoto, RelayTypes
  <2> QED BY <2>1, <2>2
<1> QED BY <1>2, <1>3, <1>4, <1>5, <1>6, <1>7, <1>8, Zenon DEF Next

\* A Relay that takes its catalog to be announced, once the handler of its
\* connection is done, is one that Cog was told of on this connection, for
\* any number of connections, whatever their handlers still do and however
\* late Cog's receipts are.
THEOREM RelayAckedOnline == Spec => []AckedOnline
<1>1. Init => OnlineInv
  BY DEF Init, PromiseInit, OnlineInv, NewCatalog, Content, ContentOf
<1>2. ASSUME RelayInv, OnlineInv, [Next]_vars PROVE OnlineInv'
  <2>1. /\ Content' # {} => epoch' > 0
        /\ connected' /\ Content' # {} /\ told' # {} =>
              online' \/ (online' = online /\ Content # {} /\ told # {})
    BY <1>2, StepUses, PromiseOnline DEF RelayInv, OnlineInv
  <2>2. ASSUME connected', busPc'[link'] = "done", Content' # {}, told' # {} PROVE online'
    <3>1. connected /\ busPc[link] = "done"
      BY <1>2, <2>2, BusDone, Zenon
    <3>2. online' \/ (online' = online /\ Content # {} /\ told # {})
      BY <2>1, <2>2, Zenon
    <3> QED BY <1>2, <3>1, <3>2, Zenon DEF OnlineInv
  <2> QED BY <2>1, <2>2, Zenon DEF OnlineInv
<1>3. ASSUME RelayInv, OnlineInv PROVE AckedOnline
  <2>1. lastAcked \in Nat /\ epoch \in Nat /\ lastAcked <= epoch
        /\ (epoch > 0 /\ epoch = lastAcked => told # {})
    BY <1>3 DEF RelayInv, AckInv, PromiseTypeOK, CatalogTypeOK
  <2>2. ~IsChanged => lastAcked = epoch
    BY <2>1 DEF IsChanged
  <2> QED BY <1>3, <2>1, <2>2, Zenon DEF OnlineInv, AckedOnline
<1> QED BY <1>1, <1>2, <1>3, RelayInvInit, RelayInvNext, PTL DEF Spec

(***************************************************************************)
(* The refresh cycle.                                                      *)
(***************************************************************************)
\* The routers that are in updateCatalog.
Busy == {c \in Links : dirPc[c] # "idle"}

LEMMA BusyFinite == MaxLosses \in Nat => IsFiniteSet(Busy) /\ Cardinality(Busy) \in Nat
<1> SUFFICES ASSUME MaxLosses \in Nat PROVE IsFiniteSet(Busy) /\ Cardinality(Busy) \in Nat
  OBVIOUS
<1>1. IsFiniteSet(Links)
  BY FS_Interval DEF Links
<1>2. Busy \subseteq Links
  BY DEF Busy
<1>3. IsFiniteSet(Busy)
  BY <1>1, <1>2, FS_Subset, Zenon
<1> QED BY <1>3, FS_CardinalityType

\* A router that goes from one place in updateCatalog to another, enters it or
\* leaves it.
LEMMA BusyMoves ==
    ASSUME RelayTypes, NEW c \in Links, NEW label \in {"idle", "check", "refresh", "arm"},
           DirGoto(c, label)
    PROVE  /\ (dirPc[c] = "idle") = (label = "idle") => Cardinality(Busy') = Cardinality(Busy)
           /\ dirPc[c] = "idle" /\ label # "idle"
                => Cardinality(Busy') = Cardinality(Busy) + 1
           /\ dirPc[c] # "idle" /\ label = "idle"
                => Cardinality(Busy') = Cardinality(Busy) - 1
<1>1. IsFiniteSet(Busy)
  BY BusyFinite, RelayAssumption
<1>2. CASE (dirPc[c] = "idle") = (label = "idle")
  <2>1. Busy' = Busy
    BY <1>2 DEF Busy, DirGoto, RelayTypes
  <2> QED BY <1>2, <2>1, Zenon
<1>3. CASE dirPc[c] = "idle" /\ label # "idle"
  <2>1. Busy' = Busy \cup {c} /\ c \notin Busy
    BY <1>3 DEF Busy, DirGoto, RelayTypes
  <2>2. Cardinality(Busy') = Cardinality(Busy) + 1
    BY <1>1, <2>1, FS_AddElement, Zenon
  <2> QED BY <1>3, <2>2, ZenonT(60)
<1>4. CASE dirPc[c] # "idle" /\ label = "idle"
  <2>1. Busy' = Busy \ {c} /\ c \in Busy
    BY <1>4 DEF Busy, DirGoto, RelayTypes
  <2>2. Cardinality(Busy') = Cardinality(Busy) - 1
    BY <1>1, <2>1, FS_RemoveElement, Zenon
  <2> QED BY <1>4, <2>2, ZenonT(60)
<1> QED BY <1>2, <1>3, <1>4, Zenon

\* No step but a request with an empty catalog adds a link to the chain.
LEMMA ChainSteps ==
    ASSUME RelayInv, [Next]_vars
    PROVE  Chains' > Chains => BundleNames = {}
<1> DEFINE N == Cardinality(Busy)
           Same == timers' = timers /\ replies' = replies /\ dirPc' = dirPc
<1>1. RelayTypes /\ timers \in Nat /\ Len(replies) \in Nat /\ N \in Nat
  BY BusyFinite, RelayAssumption DEF RelayInv, RelayTypes
<1>2. Chains = timers + Len(replies) + N /\ Chains' = timers' + Len(replies') + N'
  BY DEF Chains, Busy
<1>3. dirPc' = dirPc => N' = N
  BY DEF Busy
<1>4. ASSUME Same PROVE ~(Chains' > Chains)
  BY <1>1, <1>2, <1>3, <1>4
<1>5. ASSUME NEW c \in Links, BusStep(c) PROVE Chains' > Chains => BundleNames = {}
  <2>1. CASE BundleNames = {}
    BY <2>1
  <2>2. CASE BundleNames # {}
    <3>1. Same
      BY <1>5, <2>2, Zenon
         DEF BusStep, SetSubscriptions, setSubscriptions, subscribeHung, reannounce,
            loadCatalog, routerVars, cogSide
    <3> QED BY <1>4, <3>1, Zenon
  <2> QED BY <2>1, <2>2
<1>6. ASSUME NEW c \in Links, RouterStep(c) PROVE ~(Chains' > Chains)
  <2>1. CASE checkChanged(c) \/ announceCatalog(c)
    <3>1. timers' = timers /\ replies' = replies
      BY <2>1, Zenon DEF checkChanged, announceCatalog, cogSide
    <3>2. N' = N
      BY <1>1, <2>1, BusyMoves, Zenon DEF checkChanged, announceCatalog
    <3> QED BY <1>1, <1>2, <3>1, <3>2, SMTT(60)
  <2>2. CASE armBundleTimer(c)
    <3>1. timers' = timers + 1 /\ replies' = replies
      BY <2>2, Zenon DEF armBundleTimer, cogSide
    <3>2. N' = N - 1
      BY <1>1, <2>2, BusyMoves, Zenon DEF armBundleTimer
    <3> QED BY <1>1, <1>2, <3>1, <3>2
  <2>3. CASE \/ \E n \in Names : refreshBundle(c, n)
             \/ \E available \in BOOLEAN : refreshedImage(c, available)
    <3>1. Same
      BY <2>3, Zenon DEF refreshBundle, refreshedImage, cogSide
    <3> QED BY <1>4, <3>1, Zenon
  <2> QED BY <1>6, <2>1, <2>2, <2>3, ZenonT(60) DEF RouterStep
<1>7. ASSUME replies # <<>>, replies' = Tail(replies) PROVE Len(replies') = Len(replies) - 1
  BY <1>1, <1>7 DEF RelayTypes
<1>8. CASE updateCatalog(link)
  <2>1. timers' = timers /\ replies # <<>> /\ replies' = Tail(replies)
    BY <1>8 DEF updateCatalog
  <2>2. N' = N + 1
    BY <1>1, <1>8, BusyMoves DEF updateCatalog, RelayTypes
  <2> QED BY <1>1, <1>2, <1>7, <2>1, <2>2
<1>9. CASE loseReply
  <2>1. timers' = timers /\ replies # <<>> /\ replies' = Tail(replies) /\ dirPc' = dirPc
    BY <1>9 DEF loseReply, routerVars
  <2> QED BY <1>1, <1>2, <1>3, <1>7, <2>1
<1>10. CASE scheduledBundleRefresh
  <2>1. dirPc' = dirPc
    BY <1>10, Zenon DEF scheduledBundleRefresh, routerVars
  <2>2. timers' + Len(replies') = timers + Len(replies)
    BY <1>1, <1>10 DEF scheduledBundleRefresh, requestBundles, RelayTypes
  <2> QED BY <1>1, <1>2, <1>3, <2>1, <2>2
<1>11. CASE loseConnection
  <2>1. timers' = timers /\ Len(replies') = 0 /\ dirPc' = dirPc
    BY <1>11, Zenon DEF loseConnection, routerVars
  <2> QED BY <1>1, <1>2, <1>3, <2>1, SMTT(60)
<1>12. CASE announcements \/ (\E id \in receipts : cogReceipt(id)) \/ UNCHANGED vars
  BY <1>4, <1>12, ZenonT(60) DEF announcements, cogReceipt, vars, relayVars, routerVars, cogSide
<1>13. CASE reconnect \/ assign
  BY <1>4, <1>13 DEF reconnect, assign, routerVars, cogSide
<1> QED BY <1>5, <1>6, <1>8, <1>9, <1>10, <1>11, <1>12, <1>13, ZenonT(60) DEF Next

\* updateCatalog, its timer and the request never start a second refresh cycle:
\* only a connection that finds the catalog empty does, for any number of
\* connections and lists.
THEOREM RelayNoNewChain == Spec => NoNewChain
<1>1. ASSUME RelayInv, [Next]_vars PROVE [Chains' > Chains => BundleNames = {}]_vars
  BY <1>1, ChainSteps
<1> QED BY <1>1, RelayInvInit, RelayInvNext, PTL DEF Spec, NoNewChain
=============================================================================
