------------------------- MODULE DockerImagesProofs -------------------------
(***************************************************************************)
(* A bundle that is announced has its image, replaced images are removed   *)
(* and the ones tagged "latest" follow the registry, unless somebody else  *)
(* meddled with them: for any references, images they share, refreshes at  *)
(* a time, pushes and errors.                                              *)
(***************************************************************************)
EXTENDS DockerImages, TLAPS

Labels == {"idle", "next", "check", "before", "pull", "after", "remove"}

(***************************************************************************)
(* Types.                                                                  *)
(***************************************************************************)
DaemonTypes == /\ tags \in [Refs -> Images \cup {NoImage}]
               /\ store \subseteq Images
               /\ registry \in [Refs -> Images]
               /\ disturbed \subseteq Refs

LocalTypes == /\ pc \in [Refreshers -> Labels]
              /\ ref \in [Refreshers -> Refs]
              /\ todo \in [Refreshers -> SUBSET Refs]
              /\ beforeID \in [Refreshers -> Images \cup {NoImage}]
              /\ afterID \in [Refreshers -> Images \cup {NoImage}]

\* removeOldImage is called with the ID of an image as the new one.
AfterTypes == \A r \in Refreshers : pc[r] = "remove" => afterID[r] \in Images

FlagTypes == /\ available \in [Refs -> BOOLEAN]
             /\ auth \in [Refreshers -> BOOLEAN]
             /\ devMode \in BOOLEAN
             /\ behind \subseteq Refs

CounterTypes == pushes \in 0 .. MaxPushes /\ errors \in 0 .. MaxErrors

AllTypes == DaemonTypes /\ LocalTypes /\ AfterTypes /\ FlagTypes /\ CounterTypes

LEMMA AllTypesInit == Init => AllTypes
<1> SUFFICES ASSUME Init PROVE AllTypes
  OBVIOUS
<1>1. registry \in [Refs -> Images] /\ tags \in [Refs -> Images \cup {NoImage}] /\ store = Tagged
      /\ disturbed = {}
  BY Zenon DEF Init
<1>2. DaemonTypes
  BY <1>1 DEF DaemonTypes, Tagged
<1>3. AnyRef \in Refs
  BY ImagesAssumption DEF AnyRef
<1>4. LocalTypes
  BY <1>3 DEF Init, LocalTypes, Labels
<1>5. AfterTypes
  BY DEF Init, AfterTypes
<1>6. FlagTypes
  BY Zenon DEF Init, FlagTypes
<1>7. CounterTypes
  BY ImagesAssumption DEF Init, CounterTypes
<1> QED BY <1>2, <1>4, <1>5, <1>6, <1>7 DEF AllTypes

LEMMA DaemonTypesNext ==
    ASSUME AllTypes, [Next]_vars
    PROVE  DaemonTypes'
<1> USE DEF AllTypes, daemon
<1>1. ASSUME UNCHANGED daemon PROVE DaemonTypes'
  BY <1>1 DEF DaemonTypes
<1>2. ASSUME NEW f \in Refs, Pull(f), disturbed' \subseteq Refs PROVE DaemonTypes'
  BY <1>2 DEF Pull, DaemonTypes
<1>3. ASSUME NEW r \in Refreshers, RefreshStep(r) PROVE DaemonTypes'
  <2>1. ref[r] \in Refs
    BY DEF LocalTypes
  <2>2. \/ UNCHANGED daemon \/ IDForName(r) \/ pullImage(r) \/ removeOldImage(r)
    BY <1>3, Zenon DEF RefreshStep, refreshBundles, return, nextBundle, check, checkError,
         ensureConnectedError, attemptAuthError, pullImageError,
         imageAfter, imageAfterError, removeOldImageError
  <2>3. CASE IDForName(r)
    BY <2>1, <2>3 DEF IDForName, DaemonTypes
  <2>4. CASE pullImage(r)
    BY <1>2, <2>1, <2>4 DEF pullImage, DaemonTypes
  <2>5. CASE removeOldImage(r)
    BY <2>5 DEF removeOldImage, DaemonTypes
  <2> QED BY <1>1, <2>2, <2>3, <2>4, <2>5, Zenon
<1>4. ASSUME NEW f \in Refs, push(f) PROVE DaemonTypes'
  <2>1. PICK i \in ImagesOf[f] : registry' = [registry EXCEPT ![f] = i]
    BY <1>4, Zenon DEF push
  <2>2. i \in Images
    BY DEF Images
  <2> QED BY <1>4, <2>1, <2>2 DEF push, DaemonTypes
<1>5. ASSUME NEW f \in Refs, developerModeRefresh(f) PROVE DaemonTypes'
  BY <1>2, <1>5 DEF developerModeRefresh, DaemonTypes
<1>6. CASE UNCHANGED vars
  BY <1>1, <1>6, Zenon DEF vars
<1> QED BY <1>3, <1>4, <1>5, <1>6, Zenon DEF Next

\* A step of refresher r touches its own program counter and its own locals.
LEMMA LocalTypesNext ==
    ASSUME AllTypes, [Next]_vars
    PROVE  LocalTypes' /\ AfterTypes'
<1> USE DEF AllTypes, locals
<1>1. ASSUME UNCHANGED <<pc, ref, todo, locals>> PROVE LocalTypes' /\ AfterTypes'
  BY <1>1, Zenon DEF LocalTypes, AfterTypes
<1>2. ASSUME NEW r \in Refreshers, NEW label \in Labels, Goto(r, label)
      PROVE  pc' \in [Refreshers -> Labels]
             /\ \A s \in Refreshers : pc'[s] = IF s = r THEN label ELSE pc[s]
  BY <1>2 DEF Goto, LocalTypes
<1>3. {"idle", "next", "check", "before", "pull", "after", "remove"} \subseteq Labels
  BY DEF Labels
<1>4. AnyRef \in Refs
  BY ImagesAssumption DEF AnyRef
<1>5. ASSUME NEW r \in Refreshers, RefreshStep(r) PROVE LocalTypes' /\ AfterTypes'
  <2>1. tags[ref[r]] \in Images \cup {NoImage}
    BY DEF LocalTypes, DaemonTypes
  <2>2. ASSUME NEW label \in Labels \ {"remove"}, Goto(r, label),
               UNCHANGED <<ref, todo, beforeID, afterID>>
        PROVE  LocalTypes' /\ AfterTypes'
    BY <1>2, <2>2 DEF LocalTypes, AfterTypes
  <2>3. ASSUME NEW answer \in BOOLEAN, Answer(r, answer), UNCHANGED todo
        PROVE  LocalTypes' /\ AfterTypes'
    <3>1. pc' \in [Refreshers -> Labels]
          /\ \A s \in Refreshers : pc'[s] = IF s = r THEN "next" ELSE pc[s]
      BY <1>2, <1>3, <2>3, Zenon DEF Answer
    <3> QED BY <1>4, <2>3, <3>1, Zenon DEF Answer, LocalTypes, AfterTypes
  <2>4. CASE \E f \in Refs : nextBundle(r, f)
    <3>1. PICK f \in Refs : nextBundle(r, f)
      BY <2>4, Zenon
    <3>2. CASE NeedsRefresh(f)
      BY <1>2, <1>3, <3>1, <3>2 DEF nextBundle, LocalTypes, AfterTypes
    <3>3. CASE ~NeedsRefresh(f)
      BY <3>1, <3>3 DEF nextBundle, LocalTypes, AfterTypes
    <3> QED BY <3>2, <3>3
  <2>5. CASE refreshBundles(r)
    BY <1>2, <1>3, <2>5 DEF refreshBundles, LocalTypes, AfterTypes
  <2>6. CASE IDForName(r)
    <3>1. beforeID' \in [Refreshers -> Images \cup {NoImage}] /\ UNCHANGED <<ref, todo, afterID>>
      BY <2>1, <2>6 DEF IDForName, LocalTypes
    <3>2. Goto(r, "pull")
      BY <2>6, Zenon DEF IDForName
    <3> QED BY <1>2, <1>3, <3>1, <3>2 DEF LocalTypes, AfterTypes
  <2>7. CASE imageAfter(r)
    <3>1. CASE tags[ref[r]] = NoImage
      BY <2>3, <2>7, <3>1, Zenon DEF imageAfter
    <3>2. CASE tags[ref[r]] # NoImage
      <4>1. Goto(r, "remove") /\ UNCHANGED <<ref, todo, beforeID>>
            /\ afterID' = [afterID EXCEPT ![r] = tags[ref[r]]]
        BY <2>7, <3>2, Zenon DEF imageAfter
      <4> QED BY <1>2, <1>3, <2>1, <3>2, <4>1 DEF LocalTypes, AfterTypes
    <3> QED BY <3>1, <3>2
  <2>8. CASE return(r) \/ checkError(r) \/ pullImage(r)
    BY <1>3, <2>2, <2>8, Zenon DEF return, checkError, pullImage, Labels
  <2>9. CASE check(r)
    BY <1>3, <2>2, <2>3, <2>9, Zenon DEF check, Labels
  <2>10. CASE pullImageError(r)
    BY <1>3, <2>2, <2>3, <2>10, Zenon DEF pullImageError, Labels
  <2> QED BY <1>5, <2>3, <2>4, <2>5, <2>6, <2>7, <2>8, <2>9, <2>10, Zenon
          DEF RefreshStep, ensureConnectedError, attemptAuthError, imageAfterError, removeOldImage,
              removeOldImageError
<1>6. ASSUME NEW f \in Refs, developerModeRefresh(f) \/ push(f) PROVE LocalTypes' /\ AfterTypes'
  BY <1>1, <1>6, Zenon DEF developerModeRefresh, push
<1>7. CASE UNCHANGED vars
  BY <1>1, <1>7, Zenon DEF vars
<1> QED BY <1>5, <1>6, <1>7, Zenon DEF Next

LEMMA FlagTypesNext ==
    ASSUME AllTypes, [Next]_vars
    PROVE  FlagTypes'
<1> USE DEF AllTypes, locals
<1>1. devMode' = devMode
  BY Zenon DEF Next, vars
<1>2. ASSUME UNCHANGED <<available, auth>>, behind' \subseteq Refs PROVE FlagTypes'
  BY <1>1, <1>2, Zenon DEF FlagTypes
<1>3. ASSUME NEW r \in Refreshers, RefreshStep(r) PROVE FlagTypes'
  <2>1. ref[r] \in Refs /\ available \in [Refs -> BOOLEAN] /\ auth \in [Refreshers -> BOOLEAN]
        /\ behind \subseteq Refs
    BY DEF LocalTypes, FlagTypes
  <2>2. Error(r) => behind' \subseteq Refs
    BY <2>1 DEF Error
  <2>3. check(r) => behind' \subseteq Refs
    BY <2>1 DEF check
  <2>4. behind' \subseteq Refs
    BY <1>3, <2>1, <2>2, <2>3, Zenon
       DEF RefreshStep, refreshBundles, return, nextBundle, checkError,
           ensureConnectedError, attemptAuthError, IDForName, pullImage,
           pullImageError, imageAfter, imageAfterError, removeOldImage, removeOldImageError
  <2>5. ASSUME NEW answer \in BOOLEAN, Answer(r, answer), UNCHANGED auth PROVE FlagTypes'
    BY <1>1, <2>1, <2>4, <2>5 DEF Answer, FlagTypes
  <2>6. ASSUME NEW set \in BOOLEAN, auth' = [auth EXCEPT ![r] = set], UNCHANGED available
        PROVE  FlagTypes'
    BY <1>1, <2>1, <2>4, <2>6 DEF FlagTypes
  <2> QED BY <1>2, <1>3, <2>4, <2>5, <2>6, ImagesAssumption, Zenon
          DEF RefreshStep, refreshBundles, return, nextBundle, check, checkError,
              ensureConnectedError, attemptAuth, attemptAuthError, IDForName, pullImage,
              pullImageError, imageAfter, imageAfterError, removeOldImage, removeOldImageError
<1>4. ASSUME NEW f \in Refs, developerModeRefresh(f) PROVE FlagTypes'
  BY <1>2, <1>4, Zenon DEF developerModeRefresh, FlagTypes
<1>5. ASSUME NEW f \in Refs, push(f) PROVE FlagTypes'
  <2>1. behind' \subseteq Refs
    BY <1>5 DEF push, FlagTypes
  <2> QED BY <1>2, <1>5, <2>1, Zenon DEF push
<1>6. CASE UNCHANGED vars
  BY <1>2, <1>6, Zenon DEF vars, FlagTypes
<1> QED BY <1>3, <1>4, <1>5, <1>6, Zenon DEF Next

LEMMA CounterTypesNext ==
    ASSUME AllTypes, [Next]_vars
    PROVE  CounterTypes'
<1> USE DEF AllTypes, daemon
<1>1. ASSUME NEW r \in Refreshers, RefreshStep(r) PROVE CounterTypes'
  <2>1. pushes' = pushes /\ (errors' = errors \/ Error(r))
    BY <1>1, Zenon
       DEF RefreshStep, refreshBundles, return, nextBundle, check, checkError,
           ensureConnectedError, attemptAuthError, IDForName, pullImage, Pull,
           pullImageError, imageAfter, imageAfterError, removeOldImage, removeOldImageError
  <2>2. Error(r) => errors' \in 0 .. MaxErrors
    BY ImagesAssumption DEF Error, CounterTypes
  <2> QED BY <2>1, <2>2, Zenon DEF CounterTypes
<1>2. ASSUME NEW f \in Refs, push(f) PROVE CounterTypes'
  BY <1>2, ImagesAssumption DEF push, CounterTypes
<1>3. ASSUME NEW f \in Refs, developerModeRefresh(f) PROVE CounterTypes'
  BY <1>3, Zenon DEF developerModeRefresh, Pull, CounterTypes
<1>4. CASE UNCHANGED vars
  BY <1>4, Zenon DEF vars, CounterTypes
<1> QED BY <1>1, <1>2, <1>3, <1>4, Zenon DEF Next

LEMMA AllTypesNext ==
    ASSUME AllTypes, [Next]_vars
    PROVE  AllTypes'
BY DaemonTypesNext, LocalTypesNext, FlagTypesNext, CounterTypesNext, Zenon DEF AllTypes

\* Every variable keeps its type; and removeOldImage, which forces the
\* removal of the image that is not the new one, is called only when the new
\* one is known (the second error of IDForName is not dropped).
THEOREM RefreshTypes == Spec => []TypeOK
<1>1. AllTypes => TypeOK
  BY Zenon DEF AllTypes, DaemonTypes, LocalTypes, AfterTypes, FlagTypes, CounterTypes, Labels, TypeOK
<1> QED BY <1>1, AllTypesInit, AllTypesNext, PTL DEF Spec

(***************************************************************************)
(* The invariant.                                                          *)
(***************************************************************************)
\* A reference has an image of its own, here and in the registry; and so has
\* the image that was there before the pull.
OwnInv == /\ \A f \in Refs : tags[f] \in ImagesOf[f] \cup {NoImage}
          /\ \A f \in Refs : registry[f] \in ImagesOf[f]
          /\ \A r \in Refreshers : pc[r] \in {"pull", "after", "remove"} =>
                beforeID[r] \in ImagesOf[ref[r]] \cup {NoImage}

\* Two refreshes at a time of one reference meddle with it.
AloneInv == \A r, s \in Refreshers :
               /\ r # s /\ ref[r] = ref[s]
               /\ pc[r] \in {"pull", "after", "remove"} /\ pc[s] \in {"pull", "after", "remove"}
               => ref[r] \in disturbed

\* What removeOldImage compares with is the image the reference has now.
AfterInv == \A r \in Refreshers :
               pc[r] = "remove" /\ ref[r] \notin disturbed => afterID[r] = tags[ref[r]]

\* The image that is replaced is known, and its successor is there.
FetchInv == \A r \in Refreshers : ref[r] \notin disturbed =>
               /\ pc[r] = "pull" => beforeID[r] = tags[ref[r]]
               /\ pc[r] \in {"after", "remove"} => tags[ref[r]] # NoImage

\* Image i is the one refresher r is about to remove.
Removes(r, i) == pc[r] \in {"after", "remove"} /\ beforeID[r] = i

\* An image without a tag is about to be removed, or somebody meddled with it.
LostInv == \A i \in store \ Tagged : \/ \E f \in disturbed : i \in ImagesOf[f]
                                     \/ \E r \in Refreshers : Removes(r, i)

StoreInv == errors = 0 => FetchInv /\ LostInv

\* The image of reference f was pulled, and nobody is about to pull it again.
Fetched(f) == /\ available[f] \/ \E r \in Refreshers : ref[r] = f /\ pc[r] \in {"after", "remove"}
              /\ \A r \in Refreshers : ~(ref[r] = f /\ pc[r] \in {"before", "pull"})

LatestInv == \A f \in Latest \ (behind \cup disturbed) : Fetched(f) => tags[f] = registry[f]

ImageInv == OwnInv /\ AloneInv /\ AfterInv /\ AvailableHasImage /\ StoreInv /\ LatestInv

LEMMA ImageInvInit ==
    ASSUME Init
    PROVE  ImageInv
<1>1. OwnInv
  BY DEF Init, OwnInv
<1>2. AloneInv /\ AfterInv /\ AvailableHasImage /\ StoreInv
  BY DEF Init, AloneInv, AfterInv, AvailableHasImage, StoreInv, FetchInv, LostInv
<1>3. LatestInv
  BY ImagesAssumption DEF Init, LatestInv, Fetched
<1> QED BY <1>1, <1>2, <1>3 DEF ImageInv

(***************************************************************************)
(* The steps that leave the daemon's images alone.                         *)
(***************************************************************************)
\* Refresher r alone moves.
Moves(r) == \A s \in Refreshers \ {r} : /\ pc'[s] = pc[s] /\ ref'[s] = ref[s]
                                        /\ beforeID'[s] = beforeID[s]
                                        /\ afterID'[s] = afterID[s]

LEMMA MovesAlone ==
    ASSUME AllTypes, NEW r \in Refreshers, RefreshStep(r)
    PROVE  Moves(r)
<1>1. LocalTypes
  BY DEF AllTypes
<1>2. ASSUME NEW label, Goto(r, label) PROVE \A s \in Refreshers \ {r} : pc'[s] = pc[s]
  BY <1>1, <1>2 DEF Goto, LocalTypes
<1>3. ASSUME NEW answer, Answer(r, answer) PROVE Moves(r)
  <2>1. \A s \in Refreshers \ {r} : pc'[s] = pc[s]
    BY <1>2, <1>3 DEF Answer
  <2> QED BY <1>1, <1>3, <2>1 DEF Answer, LocalTypes, Moves
<1>4. ASSUME NEW label, Goto(r, label), UNCHANGED <<ref, locals>> PROVE Moves(r)
  BY <1>2, <1>4 DEF Moves, locals
<1>5. CASE \E f \in Refs : nextBundle(r, f)
  <2>1. PICK f \in Refs : nextBundle(r, f)
    BY <1>5, Zenon
  <2>2. UNCHANGED <<beforeID, afterID>>
    BY <2>1, Zenon DEF nextBundle, locals
  <2>3. CASE NeedsRefresh(f)
    <3>1. ref' = [ref EXCEPT ![r] = f] /\ Goto(r, "check")
      BY <2>1, <2>3, Zenon DEF nextBundle
    <3> QED BY <1>1, <1>2, <2>2, <3>1 DEF Moves, LocalTypes
  <2>4. CASE ~NeedsRefresh(f)
    BY <2>1, <2>2, <2>4 DEF nextBundle, Moves
  <2> QED BY <2>3, <2>4
<1>6. CASE IDForName(r)
  <2>1. Goto(r, "pull") /\ UNCHANGED <<ref, afterID>>
    BY <1>6, Zenon DEF IDForName
  <2>2. \A s \in Refreshers \ {r} : beforeID'[s] = beforeID[s]
    BY <1>1, <1>6 DEF IDForName, LocalTypes
  <2> QED BY <1>2, <2>1, <2>2, Zenon DEF Moves
<1>7. CASE imageAfter(r)
  <2>1. CASE tags[ref[r]] = NoImage
    BY <1>3, <1>7, <2>1, Zenon DEF imageAfter
  <2>2. CASE tags[ref[r]] # NoImage
    <3>1. Goto(r, "remove") /\ UNCHANGED <<ref, beforeID>>
          /\ afterID' = [afterID EXCEPT ![r] = tags[ref[r]]]
      BY <1>7, <2>2, Zenon DEF imageAfter
    <3> QED BY <1>1, <1>2, <3>1 DEF Moves, LocalTypes
  <2> QED BY <2>1, <2>2
<1>8. CASE refreshBundles(r) \/ return(r) \/ checkError(r) \/ pullImage(r)
  BY <1>4, <1>8, Zenon DEF refreshBundles, return, checkError, pullImage
<1>9. CASE check(r) \/ pullImageError(r)
  BY <1>3, <1>4, <1>9, Zenon DEF check, pullImageError
<1> QED BY <1>3, <1>5, <1>6, <1>7, <1>8, <1>9, Zenon
        DEF RefreshStep, ensureConnectedError, attemptAuthError, imageAfterError, removeOldImage,
            removeOldImageError

\* Nobody begins a refresh.
LEMMA AloneKept ==
    ASSUME AloneInv, disturbed \subseteq disturbed',
           \A s \in Refreshers : pc'[s] \in {"pull", "after", "remove"} =>
              pc[s] \in {"pull", "after", "remove"} /\ ref'[s] = ref[s]
    PROVE  AloneInv'
BY Zenon DEF AloneInv

\* A step to a place outside of a refresh: nothing is left untagged, what
\* becomes available is there, and who gives up before the pull is behind.
Calm(r) == /\ UNCHANGED <<tags, store, registry, disturbed>>
           /\ pc'[r] \in {"idle", "next", "check", "before"}
           /\ errors' = 0 => errors = 0
           /\ errors' = 0 /\ pc[r] \in {"after", "remove"} =>
                 ref[r] \in disturbed \/ beforeID[r] \in Tagged \cup {NoImage}
           /\ \A f \in Refs : available'[f] /\ f \notin disturbed =>
                 \/ available[f]
                 \/ tags[f] # NoImage /\ (f \in Latest => f = ref[r] /\ pc[r] = "remove")
           /\ \A f \in behind : f \in Latest =>
                 f \in behind' \/ (ref'[r] = f /\ pc'[r] = "before")
           /\ pc[r] \in {"before", "pull"} => ref[r] \in behind'
           /\ store \subseteq Images

LEMMA CalmStep ==
    ASSUME ImageInv, NEW r \in Refreshers, Moves(r), Calm(r)
    PROVE  ImageInv'
<1> USE DEF ImageInv, Moves, Calm
<1>1. OwnInv'
  BY Zenon DEF OwnInv
<1>2. AloneInv'
  <2>1. ASSUME NEW s \in Refreshers, pc'[s] \in {"pull", "after", "remove"}
        PROVE  pc[s] \in {"pull", "after", "remove"} /\ ref'[s] = ref[s]
    BY <2>1
  <2> QED BY <2>1, AloneKept, Zenon
<1>3. AfterInv'
  BY ZenonT(90) DEF AfterInv
<1>4. AvailableHasImage'
  BY Zenon DEF AvailableHasImage
<1>5. StoreInv'
  <2> SUFFICES ASSUME errors' = 0 PROVE FetchInv' /\ LostInv'
    BY DEF StoreInv
  <2>1. FetchInv /\ LostInv /\ Tagged' = Tagged
    BY ZenonT(90) DEF StoreInv, Tagged
  <2>2. FetchInv'
    BY <2>1, Zenon DEF FetchInv
  <2>3. ASSUME NEW i \in store \ Tagged, Removes(r, i), ref[r] \notin disturbed PROVE FALSE
    BY <2>3, ImagesAssumption DEF Removes
  <2>4. ASSUME NEW i \in store \ Tagged, Removes(r, i) PROVE \E f \in disturbed : i \in ImagesOf[f]
    <3>1. i # NoImage /\ pc[r] \in {"after", "remove"} /\ beforeID[r] = i
      BY <2>4, ImagesAssumption DEF Removes
    <3>2. i \in ImagesOf[ref[r]]
      BY <3>1 DEF OwnInv
    <3> QED BY <2>3, <2>4, <3>2, Zenon
  <2>5. ASSUME NEW i \in store \ Tagged, NEW s \in Refreshers, Removes(s, i), s # r
        PROVE  Removes(s, i)'
    BY <2>5, Zenon DEF Removes
  <2>6. LostInv'
    BY <2>1, <2>4, <2>5, ZenonT(120) DEF LostInv
  <2> QED BY <2>2, <2>6
<1>6. LatestInv'
  <2> SUFFICES ASSUME NEW f \in Latest, f \notin behind', f \notin disturbed, Fetched(f)'
               PROVE  tags[f] = registry[f]
    BY Zenon DEF LatestInv
  <2>1. f \in Refs /\ ~(ref'[r] = f /\ pc'[r] \in {"before", "pull"})
    BY ImagesAssumption, Zenon DEF Fetched
  <2>2. f \notin behind
    BY <2>1, Zenon
  <2>3. ASSUME NEW s \in Refreshers PROVE ~(ref[s] = f /\ pc[s] \in {"before", "pull"})
    <3>1. CASE s = r
      BY <3>1
    <3>2. CASE s # r
      BY <3>2, ZenonT(30) DEF Fetched
    <3> QED BY <3>1, <3>2
  <2>4. available[f] \/ \E s \in Refreshers : ref[s] = f /\ pc[s] \in {"after", "remove"}
    BY <2>1 DEF Fetched
  <2> QED BY <2>2, <2>3, <2>4, Zenon DEF LatestInv, Fetched
<1> QED BY <1>1, <1>2, <1>3, <1>4, <1>5, <1>6

(***************************************************************************)
(* Pull and removal.                                                       *)
(***************************************************************************)
LEMMA BeforeStep ==
    ASSUME AllTypes, ImageInv, NEW r \in Refreshers, Moves(r), IDForName(r)
    PROVE  ImageInv'
<1> USE DEF ImageInv, Moves
<1>1. /\ UNCHANGED <<tags, store, registry, available, ref, afterID>> /\ Tagged' = Tagged
      /\ pc[r] = "before"
      /\ disturbed \subseteq disturbed'
  BY DEF IDForName, Tagged
<1>2. /\ pc'[r] = "pull" /\ ref[r] \in Refs
      /\ beforeID'[r] \in {tags[ref[r]], NoImage}
  BY DEF IDForName, Goto, AllTypes, LocalTypes
<1>3. /\ behind \subseteq behind'
      /\ errors' = 0 => errors = 0 /\ beforeID'[r] = tags[ref[r]]
  BY DEF IDForName, Error, AllTypes, LocalTypes, CounterTypes
<1>4. \A s \in Refreshers \ {r} : ref[s] = ref[r] /\ pc[s] \in {"pull", "after", "remove"} =>
         ref[r] \in disturbed'
  BY DEF IDForName, Refreshing
<1>5. OwnInv'
  BY <1>1, <1>2 DEF OwnInv
<1>6. AloneInv'
  <2> SUFFICES ASSUME NEW s \in Refreshers, NEW t \in Refreshers, s # t, ref[s] = ref[t],
                      pc'[s] \in {"pull", "after", "remove"}, pc'[t] \in {"pull", "after", "remove"}
               PROVE  ref[s] \in disturbed'
    BY <1>1, Zenon DEF AloneInv
  <2>1. CASE s = r
    BY <1>4, <2>1
  <2>2. CASE t = r
    BY <1>4, <2>2
  <2>3. CASE s # r /\ t # r
    BY <1>1, <2>3 DEF AloneInv
  <2> QED BY <2>1, <2>2, <2>3
<1>7. AfterInv'
  BY <1>1, <1>2 DEF AfterInv
<1>8. AvailableHasImage'
  BY <1>1 DEF AvailableHasImage
<1>9. StoreInv'
  <2> SUFFICES ASSUME errors' = 0 PROVE FetchInv' /\ LostInv'
    BY DEF StoreInv
  <2>1. FetchInv /\ LostInv
    BY <1>3 DEF StoreInv
  <2>2. FetchInv'
    BY <1>1, <1>2, <1>3, <2>1 DEF FetchInv
  <2>3. ASSUME NEW i, NEW s \in Refreshers, Removes(s, i) PROVE Removes(s, i)'
    BY <1>1, <2>3 DEF Removes
  <2>4. LostInv'
    BY <1>1, <2>1, <2>3, Zenon DEF LostInv
  <2> QED BY <2>2, <2>4
<1>10. LatestInv'
  <2> SUFFICES ASSUME NEW f \in Latest, f \notin behind', f \notin disturbed', Fetched(f)'
               PROVE  tags[f] = registry[f]
    BY <1>1, Zenon DEF LatestInv
  <2>1. f \notin behind /\ f \notin disturbed
    BY <1>1, <1>3, SMTT(30)
  <2>2. Fetched(f)
    BY <1>1, <1>2 DEF Fetched
  <2> QED BY <2>1, <2>2 DEF LatestInv
<1> QED BY <1>5, <1>6, <1>7, <1>8, <1>9, <1>10

\* The image that loses its tag is the one the refresher knows.
LEMMA PullStep ==
    ASSUME AllTypes, ImageInv, NEW r \in Refreshers, Moves(r), pullImage(r)
    PROVE  ImageInv'
<1> USE DEF ImageInv, Moves
<1> DEFINE f == ref[r]
<1>1. /\ UNCHANGED <<registry, disturbed, available, ref, beforeID, afterID, errors, behind>>
      /\ tags' = [tags EXCEPT ![f] = registry[f]]
      /\ store' = store \cup {registry[f]}
      /\ pc[r] = "pull"
  BY DEF pullImage, Pull, locals
<1>2. /\ pc'[r] = "after" /\ f \in Refs /\ registry[f] # NoImage
      /\ tags'[f] = registry[f] /\ \A g \in Refs : g # f => tags'[g] = tags[g]
      /\ ref \in [Refreshers -> Refs]
  BY <1>1, ImagesAssumption DEF pullImage, Goto, AllTypes, LocalTypes, DaemonTypes
<1>3. \A s \in Refreshers \ {r} : pc[s] \in {"pull", "after", "remove"} /\ ref[s] \notin disturbed
         => ref[s] # f /\ tags'[ref[s]] = tags[ref[s]]
  BY <1>1, <1>2 DEF AloneInv
<1>4. OwnInv'
  BY <1>1, <1>2 DEF OwnInv
<1>5. AloneInv'
  <2>1. ASSUME NEW s \in Refreshers, pc'[s] \in {"pull", "after", "remove"}
        PROVE  pc[s] \in {"pull", "after", "remove"} /\ ref'[s] = ref[s]
    BY <1>1, <2>1
  <2> QED BY <1>1, <2>1, AloneKept, Zenon
<1>6. AfterInv'
  BY <1>1, <1>2, <1>3 DEF AfterInv
<1>7. AvailableHasImage'
  BY <1>1, <1>2 DEF AvailableHasImage
<1>8. StoreInv'
  <2> SUFFICES ASSUME errors = 0 PROVE FetchInv' /\ LostInv'
    BY <1>1 DEF StoreInv
  <2>1. FetchInv /\ LostInv
    BY SMTT(30) DEF StoreInv
  <2>2. FetchInv'
    BY <1>1, <1>2, <1>3, <2>1 DEF FetchInv
  <2>3. ASSUME NEW i \in store', i \notin Tagged', i \in Tagged
        PROVE  i = tags[f] /\ i # NoImage
    BY <1>2, <2>3, SMTT(30) DEF Tagged
  <2>4. ASSUME NEW i \in store', i \notin Tagged' PROVE i \in store
    BY <1>1, <1>2, <2>4 DEF Tagged
  <2>5. ASSUME NEW i \in store', i \notin Tagged', i \in Tagged
        PROVE  (\E g \in disturbed : i \in ImagesOf[g]) \/ Removes(r, i)'
    <3>1. CASE f \in disturbed
      BY <1>2, <2>3, <2>5, <3>1 DEF OwnInv
    <3>2. CASE f \notin disturbed
      BY <1>1, <1>2, <2>1, <2>3, <2>5, <3>2, SMTT(30) DEF FetchInv, Removes
    <3> QED BY <3>1, <3>2, SMTT(30)
  <2>6. ASSUME NEW i, NEW s \in Refreshers, Removes(s, i) PROVE Removes(s, i)'
    BY <1>1, <2>6 DEF Removes
  <2>7. LostInv'
    BY <1>1, <2>1, <2>4, <2>5, <2>6, Zenon DEF LostInv
  <2> QED BY <2>2, <2>7
<1>9. LatestInv'
  <2> SUFFICES ASSUME NEW g \in Latest, g \notin behind, g \notin disturbed, Fetched(g)'
               PROVE  tags'[g] = registry[g]
    BY <1>1, Zenon DEF LatestInv
  <2>1. CASE g = f
    BY <1>2, <2>1
  <2>2. CASE g # f
    <3>1. Fetched(g)
      BY <1>1, <1>2, <2>2 DEF Fetched
    <3> QED BY <1>2, <2>2, <3>1, ImagesAssumption, SMTT(30) DEF LatestInv
  <2> QED BY <2>1, <2>2
<1> QED BY <1>4, <1>5, <1>6, <1>7, <1>8, <1>9

\* The transfer fails, or the image is there after the pull.
LEMMA AfterStep ==
    ASSUME AllTypes, ImageInv, NEW r \in Refreshers, Moves(r),
           UNCHANGED <<tags, store, registry, disturbed, available, ref, beforeID>>,
           \/ pc[r] = "pull" /\ Error(r) /\ Goto(r, "after") /\ UNCHANGED afterID
           \/ /\ pc[r] = "after" /\ tags[ref[r]] # NoImage
              /\ Goto(r, "remove") /\ UNCHANGED <<errors, behind>>
              /\ afterID' = [afterID EXCEPT ![r] = tags[ref[r]]]
    PROVE  ImageInv'
<1> USE DEF ImageInv, Moves
<1>1. /\ pc[r] \in {"pull", "after"} /\ pc'[r] \in {"after", "remove"}
      /\ pc'[r] = "remove" => pc[r] = "after" /\ afterID'[r] = tags[ref[r]]
  BY SMTT(30) DEF Goto, AllTypes, LocalTypes
<1>2. /\ errors' = 0 => errors = 0 /\ pc[r] = "after"
      /\ behind \subseteq behind'
      /\ pc[r] = "pull" => ref[r] \in behind'
  BY DEF Error, AllTypes, CounterTypes
<1>3. OwnInv'
  BY <1>1, Zenon DEF OwnInv
<1>4. AloneInv'
  <2>1. ASSUME NEW s \in Refreshers, pc'[s] \in {"pull", "after", "remove"}
        PROVE  pc[s] \in {"pull", "after", "remove"} /\ ref'[s] = ref[s]
    BY <1>1, <2>1
  <2> QED BY <2>1, AloneKept, Zenon
<1>5. AfterInv'
  BY <1>1 DEF AfterInv
<1>6. AvailableHasImage'
  BY SMTT(30) DEF AvailableHasImage
<1>7. StoreInv'
  <2> SUFFICES ASSUME errors' = 0 PROVE FetchInv' /\ LostInv'
    BY DEF StoreInv
  <2>1. FetchInv /\ LostInv /\ Tagged' = Tagged
    BY <1>2, SMTT(30) DEF StoreInv, Tagged
  <2>2. FetchInv'
    BY <1>1, <1>2, <2>1, SMTT(30) DEF FetchInv
  <2>3. ASSUME NEW i, NEW s \in Refreshers, Removes(s, i) PROVE Removes(s, i)'
    BY <1>1, <2>3 DEF Removes
  <2>4. LostInv'
    BY <2>1, <2>3, ZenonT(30) DEF LostInv
  <2> QED BY <2>2, <2>4
<1>8. LatestInv'
  <2> SUFFICES ASSUME NEW f \in Latest, f \notin behind', f \notin disturbed, Fetched(f)'
               PROVE  tags[f] = registry[f]
    BY Zenon DEF LatestInv
  <2>1. f \notin behind /\ (ref[r] = f => pc[r] = "after")
    BY <1>1, <1>2, SMTT(30)
  <2>2. Fetched(f)
    BY <1>1, <2>1, SMTT(30) DEF Fetched
  <2> QED BY <2>1, <2>2 DEF LatestInv
<1> QED BY <1>3, <1>4, <1>5, <1>6, <1>7, <1>8, SMTT(30)

\* Who else has the image that is removed was meddled with.
LEMMA RemoveStep ==
    ASSUME AllTypes, ImageInv, NEW r \in Refreshers, Moves(r), removeOldImage(r), Obsolete(r)
    PROVE  ImageInv'
<1> USE DEF ImageInv, Moves
<1> DEFINE i == beforeID[r]
<1>1. /\ UNCHANGED <<registry, errors, behind>> /\ pc[r] = "remove"
      /\ store' = store \ {i}
      /\ tags' = [f \in Refs |-> IF tags[f] = i THEN NoImage ELSE tags[f]]
      /\ disturbed' = disturbed \cup {f \in Refs \ {ref[r]} : tags[f] = i}
      /\ Answer(r, TRUE)
  BY Zenon DEF removeOldImage
<1>2. /\ ref[r] \in Refs /\ ref \in [Refreshers -> Refs]
      /\ pc'[r] = "next" /\ i # NoImage /\ afterID[r] # i
      /\ available' = [available EXCEPT ![ref[r]] = TRUE] /\ available \in [Refs -> BOOLEAN]
  BY <1>1, SMTT(30) DEF Answer, Goto, AllTypes, LocalTypes, FlagTypes, Obsolete
<1>3. disturbed \subseteq disturbed'
  BY <1>1
<1>4. ASSUME NEW f \in Refs, f \notin disturbed', f # ref[r] PROVE tags'[f] = tags[f]
  BY <1>1, <1>4, SMTT(30)
<1>5. ASSUME ref[r] \notin disturbed
      PROVE  tags'[ref[r]] = tags[ref[r]] /\ tags[ref[r]] = afterID[r]
  BY <1>1, <1>2, <1>5, SMTT(30) DEF AfterInv
<1>6. ASSUME NEW f \in Refs, f \notin disturbed' PROVE tags'[f] = tags[f]
  BY <1>3, <1>4, <1>5, <1>6
<1>7. \A f \in Refs : tags'[f] \in {tags[f], NoImage}
  BY <1>1, SMTT(30)
<1>8. OwnInv'
  BY <1>1, <1>2, <1>7, SMTT(30) DEF OwnInv
<1>9. AloneInv'
  BY <1>2, <1>3, SMTT(30) DEF AloneInv
<1>10. AfterInv'
  BY <1>2, <1>3, <1>6 DEF AfterInv
<1>11. AvailableHasImage'
  <2> SUFFICES ASSUME NEW f \in Refs, available'[f], f \notin disturbed' PROVE tags'[f] # NoImage
    BY DEF AvailableHasImage
  <2>1. CASE f = ref[r]
    <3>1. afterID[r] # NoImage
      BY <1>1, ImagesAssumption, SMTT(30) DEF AllTypes, AfterTypes
    <3> QED BY <1>3, <1>5, <2>1, <3>1, SMTT(30)
  <2>2. CASE f # ref[r]
    BY <1>2, <1>3, <1>6, <2>2 DEF AvailableHasImage
  <2> QED BY <2>1, <2>2
<1>12. StoreInv'
  <2>0. errors' = errors
    BY <1>1, Zenon
  <2> SUFFICES ASSUME errors = 0 PROVE FetchInv' /\ LostInv'
    BY <2>0, Zenon DEF StoreInv
  <2>1. FetchInv /\ LostInv
    BY DEF StoreInv
  <2>2. FetchInv'
    BY <1>2, <1>3, <1>6, <2>1 DEF FetchInv
  <2>3. ASSUME NEW j \in store', j \notin Tagged' PROVE j \in store /\ j \notin Tagged /\ j # i
    BY <1>1, <2>3 DEF Tagged
  <2>4. ASSUME NEW j, j # i, NEW s \in Refreshers, Removes(s, j) PROVE Removes(s, j)'
    BY <2>4, SMTT(30) DEF Removes
  <2>5. LostInv'
    BY <1>3, <2>1, <2>3, <2>4, SMTT(30) DEF LostInv
  <2> QED BY <2>2, <2>5, SMTT(30)
<1>13. LatestInv'
  <2> SUFFICES ASSUME NEW f \in Latest, f \notin behind, f \notin disturbed', Fetched(f)'
               PROVE  tags'[f] = registry[f]
    BY <1>1, Zenon DEF LatestInv
  <2>1. f \in Refs /\ f \notin disturbed /\ tags'[f] = tags[f]
    BY <1>3, <1>6, ImagesAssumption, SMTT(30)
  <2>2. Fetched(f)
    BY <1>1, <1>2, <2>1 DEF Fetched
  <2> QED BY <2>1, <2>2 DEF LatestInv
<1> QED BY <1>8, <1>9, <1>10, <1>11, <1>12, <1>13

(***************************************************************************)
(* All steps.                                                              *)
(***************************************************************************)
LEMMA PushStep ==
    ASSUME ImageInv, AllTypes, NEW f \in Refs, push(f)
    PROVE  ImageInv'
<1>1. /\ UNCHANGED <<tags, store, disturbed, available, pc, ref, beforeID, afterID, errors>>
      /\ behind' = behind \cup {f} /\ Tagged' = Tagged
  BY DEF push, locals, Tagged
<1>2. PICK i \in ImagesOf[f] : registry' = [registry EXCEPT ![f] = i]
  BY ZenonT(30) DEF push
<1>3. OwnInv'
  BY <1>1, <1>2 DEF ImageInv, OwnInv, AllTypes, DaemonTypes
<1>4. AloneInv' /\ AfterInv' /\ AvailableHasImage' /\ StoreInv'
  BY <1>1, Zenon DEF ImageInv, AloneInv, AfterInv, AvailableHasImage, StoreInv, FetchInv, LostInv,
        Removes
<1>5. LatestInv'
  <2> SUFFICES ASSUME NEW g \in Latest, g \notin behind', g \notin disturbed, Fetched(g)'
               PROVE  tags[g] = registry'[g]
    BY <1>1, Zenon DEF LatestInv
  <2>1. g \notin behind /\ registry'[g] = registry[g]
    BY <1>1, <1>2, ImagesAssumption DEF AllTypes, DaemonTypes
  <2>2. Fetched(g)
    BY <1>1, Zenon DEF Fetched
  <2> QED BY <2>1, <2>2, Zenon DEF ImageInv, LatestInv
<1> QED BY <1>3, <1>4, <1>5 DEF ImageInv

\* A worker meddles with the reference it pulls.
LEMMA DeveloperStep ==
    ASSUME ImageInv, AllTypes, NEW f \in Refs, developerModeRefresh(f)
    PROVE  ImageInv'
<1> USE DEF ImageInv
<1>1. /\ UNCHANGED <<registry, available, pc, ref, beforeID, afterID, errors, behind>>
      /\ tags' = [tags EXCEPT ![f] = registry[f]] /\ store' = store \cup {registry[f]}
      /\ disturbed' = disturbed \cup {f}
  BY DEF developerModeRefresh, Pull, locals
<1>2. /\ registry[f] # NoImage /\ ref \in [Refreshers -> Refs]
      /\ tags'[f] = registry[f] /\ \A g \in Refs : g # f => tags'[g] = tags[g]
  BY <1>1, ImagesAssumption DEF AllTypes, LocalTypes, DaemonTypes
<1>3. OwnInv'
  BY <1>1, <1>2 DEF OwnInv
<1>4. AloneInv' /\ AfterInv' /\ AvailableHasImage'
  BY <1>1, <1>2 DEF AloneInv, AfterInv, AvailableHasImage
<1>5. StoreInv'
  <2> SUFFICES ASSUME errors = 0 PROVE FetchInv' /\ LostInv'
    BY <1>1 DEF StoreInv
  <2>1. FetchInv /\ LostInv
    BY DEF StoreInv
  <2>2. FetchInv'
    BY <1>1, <1>2, <2>1 DEF FetchInv
  <2>3. ASSUME NEW i \in store', i \notin Tagged' PROVE i \in store \ Tagged \/ i \in ImagesOf[f]
    BY <1>1, <1>2, <2>3 DEF Tagged, OwnInv
  <2>4. ASSUME NEW i, NEW s \in Refreshers, Removes(s, i) PROVE Removes(s, i)'
    BY <1>1, <2>4, SMTT(30) DEF Removes
  <2>5. LostInv'
    BY <1>1, <2>1, <2>3, <2>4 DEF LostInv
  <2> QED BY <2>2, <2>5
<1>6. LatestInv'
  <2> SUFFICES ASSUME NEW g \in Latest, g \notin behind, g \notin disturbed', Fetched(g)'
               PROVE  tags'[g] = registry[g]
    BY <1>1, Zenon DEF LatestInv
  <2>1. g \notin disturbed /\ tags'[g] = tags[g]
    BY <1>1, <1>2, ImagesAssumption
  <2>2. Fetched(g)
    BY <1>1, Zenon DEF Fetched
  <2> QED BY <2>1, <2>2, Zenon DEF LatestInv
<1> QED BY <1>3, <1>4, <1>5, <1>6

\* IsAvailable gives its answer, and removes nothing.
LEMMA AnswerStep ==
    ASSUME AllTypes, ImageInv, NEW r \in Refreshers, Moves(r), NEW answer \in BOOLEAN,
           UNCHANGED <<tags, store, registry, disturbed>>, Answer(r, answer),
           errors' = 0 => errors = 0,
           errors' = 0 /\ pc[r] \in {"after", "remove"} =>
              ref[r] \in disturbed \/ beforeID[r] \in Tagged \cup {NoImage},
           answer => \/ tags[ref[r]] # NoImage /\ ref[r] \notin Latest
                     \/ pc[r] = "remove",
           \A f \in behind : f \in Latest => f \in behind',
           pc[r] \in {"before", "pull"} => ref[r] \in behind'
    PROVE  ImageInv'
<1>1. /\ available' = [available EXCEPT ![ref[r]] = answer] /\ pc'[r] = "next"
      /\ available \in [Refs -> BOOLEAN] /\ store \subseteq Images
  BY DEF Answer, Goto, AllTypes, LocalTypes, FlagTypes, DaemonTypes
<1>2. pc[r] = "remove" /\ ref[r] \notin disturbed => tags[ref[r]] # NoImage
  BY ImagesAssumption, SMTT(30) DEF ImageInv, AfterInv, AllTypes, AfterTypes
<1>3. ASSUME NEW f \in Refs, available'[f], f \notin disturbed
      PROVE  \/ available[f]
             \/ tags[f] # NoImage /\ (f \in Latest => f = ref[r] /\ pc[r] = "remove")
  BY <1>1, <1>2, <1>3
<1>4. pc'[r] \in {"idle", "next", "check", "before"}
  BY <1>1
<1>5. Calm(r)
  <2>1. \A f \in Refs : available'[f] /\ f \notin disturbed =>
           \/ available[f]
           \/ tags[f] # NoImage /\ (f \in Latest => f = ref[r] /\ pc[r] = "remove")
    BY <1>3, Zenon
  <2>2. \A f \in behind : f \in Latest => f \in behind' \/ (ref'[r] = f /\ pc'[r] = "before")
    BY Zenon
  <2> QED BY <1>1, <1>4, <2>1, <2>2, Zenon DEF Calm
<1> QED BY <1>5, CalmStep, Zenon

LEMMA ErrorCounts ==
    ASSUME AllTypes, NEW r \in Refreshers, Error(r)
    PROVE  errors' # 0 /\ ref[r] \in behind' /\ behind \subseteq behind'
BY DEF Error, AllTypes, CounterTypes

\* An engine is made, a bundle is chosen, or an image is looked for.
LEMMA WalkStep ==
    ASSUME AllTypes, ImageInv, NEW r \in Refreshers, Moves(r),
           \/ refreshBundles(r) \/ return(r) \/ checkError(r)
           \/ \E f \in Refs : nextBundle(r, f)
    PROVE  ImageInv'
<1>1. /\ UNCHANGED <<tags, store, registry, disturbed, available>> /\ store \subseteq Images
      /\ behind \subseteq behind' /\ (errors' = 0 => errors = 0)
  BY ErrorCounts DEF refreshBundles, return, checkError, nextBundle, daemon, AllTypes, DaemonTypes
<1>2. pc[r] \notin {"before", "pull", "after", "remove"}
  BY DEF refreshBundles, return, checkError, nextBundle
<1>3. pc'[r] \in {"idle", "next", "check", "before"}
  BY DEF refreshBundles, return, checkError, nextBundle, Goto, AllTypes, LocalTypes
<1>4. Calm(r)
  <2>1. \A f \in behind : f \in Latest => f \in behind' \/ (ref'[r] = f /\ pc'[r] = "before")
    BY <1>1, Zenon
  <2>2. pc[r] \notin {"after", "remove"} /\ pc[r] \notin {"before", "pull"}
    BY <1>2
  <2>3. /\ \A f \in Refs : available'[f] => available[f]
        /\ UNCHANGED <<tags, store, registry, disturbed>>
    BY <1>1, Zenon
  <2> QED BY <1>1, <1>3, <2>1, <2>2, <2>3, Zenon DEF Calm
<1> QED BY <1>4, CalmStep, Zenon

LEMMA CheckStep ==
    ASSUME AllTypes, ImageInv, NEW r \in Refreshers, Moves(r), check(r)
    PROVE  ImageInv'
<1>1. /\ UNCHANGED <<tags, store, registry, disturbed, errors>> /\ store \subseteq Images
      /\ behind' = behind \ {ref[r]} /\ pc[r] = "check"
  BY DEF check, daemon, AllTypes, DaemonTypes
<1>2. CASE needsUpdate(ref[r])
  <2>1. UNCHANGED <<available, ref>> /\ pc'[r] = "before"
    BY <1>2 DEF check, Goto, AllTypes, LocalTypes
  <2>2. Calm(r)
    BY <1>1, <2>1 DEF Calm
  <2> QED BY <2>2, CalmStep, Zenon
<1>3. CASE ~needsUpdate(ref[r])
  BY <1>1, <1>3, AnswerStep, Zenon DEF check, needsUpdate
<1> QED BY <1>2, <1>3, SMTT(30)

LEMMA FailedStep ==
    ASSUME AllTypes, ImageInv, NEW r \in Refreshers, Moves(r),
           \/ ensureConnectedError(r) \/ attemptAuthError(r) \/ pullImageError(r)
           \/ imageAfterError(r) \/ removeOldImageError(r)
    PROVE  ImageInv'
<1>1. UNCHANGED <<tags, store, registry, disturbed>> /\ Error(r)
  BY Zenon DEF ensureConnectedError, attemptAuthError, pullImageError, imageAfterError,
        removeOldImageError, daemon
<1>2. errors' # 0 /\ ref[r] \in behind' /\ behind \subseteq behind'
  BY <1>1, ErrorCounts
<1>3. CASE Answer(r, FALSE)
  BY <1>1, <1>2, <1>3, AnswerStep, Zenon
<1>4. CASE removeOldImageError(r)
  BY <1>1, <1>2, <1>4, AnswerStep, Zenon DEF removeOldImageError
<1>5. CASE pullImageError(r) /\ Goto(r, "after") /\ UNCHANGED <<available, ref, locals>>
  BY <1>1, <1>5, AfterStep, Zenon DEF pullImageError, locals
<1> QED BY <1>3, <1>4, <1>5, Zenon DEF ensureConnectedError, attemptAuthError, pullImageError,
        imageAfterError

LEMMA ImageAfterStep ==
    ASSUME AllTypes, ImageInv, NEW r \in Refreshers, Moves(r), imageAfter(r)
    PROVE  ImageInv'
<1>1. UNCHANGED <<tags, store, registry, disturbed, errors, behind>> /\ pc[r] = "after"
  BY Zenon DEF imageAfter, daemon
<1>2. CASE tags[ref[r]] # NoImage
  BY <1>1, <1>2, AfterStep, Zenon DEF imageAfter
<1>3. CASE tags[ref[r]] = NoImage
  <2>1. errors = 0 => ref[r] \in disturbed
    BY <1>1, <1>3 DEF ImageInv, StoreInv, FetchInv
  <2> QED BY <1>1, <1>3, <2>1, AnswerStep, Zenon DEF imageAfter
<1> QED BY <1>2, <1>3, SMTT(30)

\* There is no old image, or it is the new one.
LEMMA NothingOld ==
    ASSUME AllTypes, ImageInv, NEW r \in Refreshers, Moves(r), removeOldImage(r), ~Obsolete(r)
    PROVE  ImageInv'
<1>1. /\ UNCHANGED <<tags, store, registry, disturbed, errors, behind>>
      /\ pc[r] = "remove" /\ Answer(r, TRUE)
  BY Zenon DEF removeOldImage
<1>2. ref[r] \in disturbed \/ beforeID[r] \in Tagged \cup {NoImage}
  BY <1>1 DEF ImageInv, AfterInv, Obsolete, Tagged, AllTypes, LocalTypes
<1> QED BY <1>1, <1>2, AnswerStep, Zenon

LEMMA ImageInvNext ==
    ASSUME AllTypes, ImageInv, [Next]_vars
    PROVE  ImageInv'
<1>1. CASE UNCHANGED vars
  <2>1. /\ UNCHANGED <<tags, store, registry, disturbed, available, pc, ref, beforeID, afterID>>
        /\ UNCHANGED <<errors, behind>> /\ Tagged' = Tagged
    BY <1>1 DEF vars, daemon, locals, Tagged
  <2>2. OwnInv' /\ AloneInv' /\ AfterInv' /\ AvailableHasImage'
    BY <2>1, Zenon DEF ImageInv, OwnInv, AloneInv, AfterInv, AvailableHasImage
  <2>3. StoreInv'
    BY <2>1, Zenon DEF ImageInv, StoreInv, FetchInv, LostInv, Removes
  <2>4. LatestInv'
    BY <2>1, Zenon DEF ImageInv, LatestInv, Fetched
  <2> QED BY <2>2, <2>3, <2>4 DEF ImageInv
<1>2. ASSUME NEW r \in Refreshers, RefreshStep(r) PROVE ImageInv'
  BY <1>2, MovesAlone, WalkStep, CheckStep, FailedStep, BeforeStep, PullStep, ImageAfterStep,
     RemoveStep, NothingOld, Zenon DEF RefreshStep
<1> QED BY <1>1, <1>2, PushStep, DeveloperStep, Zenon DEF Next

LEMMA ImagesKept == Spec => [](AllTypes /\ ImageInv)
BY AllTypesInit, AllTypesNext, ImageInvInit, ImageInvNext, PTL DEF Spec

\* A bundle that refreshBundles marks available has an image, whatever the
\* daemon and the registry fail at, for any references, images and number of
\* refreshes, unless a second refresh, a worker in developer mode or the
\* removal of an image it shares meddled with it.
THEOREM AvailableImages == Spec => []AvailableHasImage
<1>1. AllTypes /\ ImageInv => AvailableHasImage
  BY DEF ImageInv
<1> QED BY <1>1, ImagesKept, PTL

\* If nothing fails, removeOldImage leaves no image behind but those of
\* references that somebody else meddled with.
THEOREM NoImageLeft == Spec => []NoneLeftBehind
<1>1. ASSUME ImageInv, Idle, errors = 0, NEW i \in store \ Tagged
      PROVE  \E f \in disturbed : i \in ImagesOf[f]
  <2>1. \A r \in Refreshers : ~Removes(r, i)
    BY <1>1 DEF Idle, Removes
  <2> QED BY <1>1, <2>1, Zenon DEF ImageInv, StoreInv, LostInv
<1>2. AllTypes /\ ImageInv => NoneLeftBehind
  BY <1>1, Zenon DEF NoneLeftBehind
<1> QED BY <1>2, ImagesKept, PTL

\* An available image tagged "latest" is the registry's, unless it is being
\* looked at, the registry may have a newer one since or the refresh failed
\* (behind), or somebody else meddled with it.
THEOREM LatestImages == Spec => []LatestFollows
<1>1. ASSUME ImageInv, NEW f \in Latest \ (behind \cup disturbed), available[f],
             \A r \in Refreshers : ~(ref[r] = f /\ pc[r] \in {"before", "pull"})
      PROVE  tags[f] = registry[f]
  BY <1>1, Zenon DEF ImageInv, LatestInv, Fetched
<1>2. AllTypes /\ ImageInv => LatestFollows
  BY <1>1, Zenon DEF LatestFollows
<1> QED BY <1>2, ImagesKept, PTL
=============================================================================
