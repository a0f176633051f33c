--------------------------- MODULE BathroomMap_proofs ---------------------------
(******************************************************************************)
(* What the map page shows, for any number of bathrooms, overlapping loads,   *)
(* changes of the store and searches.                                         *)
(******************************************************************************)
EXTENDS BathroomMap, TLAPS

--------------------------------------------------------------------------------
(* The inductive invariant                                                    *)

Layers ==
    {Heat(l) : l \in Loads} \cup {Marker(b) : b \in Objects}
        \cup {User(n) : n \in Nat} \cup {Circle(n) : n \in Nat}
        \cup {Route(n, b) : n \in Nat, b \in Objects}

\* What TypeOK leaves unsaid, and the numbers of positions: each position that
\* was delivered was asked for, and a list of bathrooms needs one.
MoreTypes ==
    /\ during \in [Loads -> [Bathrooms -> SUBSET (Data \cup {Absent})]]
    /\ latest \in Loads \cup {0}
    /\ onMap \subseteq Layers
    /\ currentUserLocation \in Nat
    /\ locating + currentUserLocation <= MaxLocates
    /\ closest_list # {} => currentUserLocation # 0

\* A load fetches only after it has its list, and draws last.
LoadsInOrder ==
    /\ \A l \in Loads : pc[l] \in {"idle", "listing", "listed"} =>
          \A i \in Bathrooms : got[l][i] = Waiting
    /\ \A l \in Loads : heatLayer = Heat(l) => pc[l] = "done"
    /\ latest # 0 => pc[latest] = "done"

\* The list and the answers of a load come from the store as it was while the
\* load ran.
Witnessed ==
    \A l \in Loads, i \in Bathrooms :
        /\ Running(l) => store[i] \in during[l][i]
        /\ got[l][i] \notin {Waiting, Failed} => got[l][i] \in during[l][i]
        /\ pc[l] \in {"listed", "fetching"} /\ i \notin ids[l] =>
               Absent \in during[l][i]

Bounded == TypeOK /\ MoreTypes

IInv ==
    /\ Bounded
    /\ LoadsInOrder
    /\ Witnessed
    /\ MapShowsOneLoad
    /\ ShownWasThere
    /\ NothingIsOrphaned

--------------------------------------------------------------------------------
(* Layers                                                                     *)

\* A layer that is not there is none of them.
LEMMA NoLayerIsNone ==
    /\ \A l : Heat(l) # NoLayer
    /\ \A n, b : Route(n, b) # NoLayer
    /\ \A n : User(n) # NoLayer
  <1>1. DOMAIN NoLayer = {}
    BY DEF NoLayer
  <1>2. \A l : DOMAIN Heat(l) = {"kind", "of"}
    BY DEF Heat
  <1>3. \A n, b : DOMAIN Route(n, b) = {"kind", "of"}
    BY DEF Route
  <1>4. \A n : DOMAIN User(n) = {"kind", "of"}
    BY DEF User
  <1> QED
    BY <1>1, <1>2, <1>3, <1>4

--------------------------------------------------------------------------------
(* Types                                                                      *)

\* What a load that ends well puts on the map.
LEMMA LoadedTypes ==
    ASSUME Bounded, NEW l \in Loads, NEW b \in Loaded(l)
    PROVE  b \in Objects /\ b[1] = l /\ b[2] \in ids[l] /\ Shown(b) \in Data \ {"none"}
  BY DEF Bounded, TypeOK, Loaded, HasPosition, Shown, Objects

\* The indicator is on or off.
LEMMA HidingTypes == hideLoading => loading' \in BOOLEAN
  BY DEF hideLoading

LEMMA ThrowTypes == loading \in BOOLEAN /\ Throw => loading' \in BOOLEAN
  BY DEF Throw

LEMMA BoundedInit == Init => Bounded
  <1> SUFFICES ASSUME Init PROVE Bounded
    OBVIOUS
  <1> USE ConstantsAssumption DEF Init
  <1>1. store \in [Bathrooms -> Data \cup {Absent}]
    OBVIOUS
  <1>2. got \in [Loads -> [Bathrooms -> Data \cup {Absent, Waiting, Failed}]]
    OBVIOUS
  <1>3. during \in [Loads -> [Bathrooms -> SUBSET (Data \cup {Absent})]]
    OBVIOUS
  <1>4. loading \in BOOLEAN
    OBVIOUS
  <1>6. TypeOK
    BY <1>1, <1>2, <1>4 DEF TypeOK
  <1>5. MoreTypes
    BY <1>3 DEF MoreTypes
  <1> QED
    BY <1>5, <1>6 DEF Bounded

LEMMA BoundedStays == Bounded /\ LoadsInOrder /\ [Next]_vars => Bounded'
  <1> SUFFICES ASSUME Bounded, LoadsInOrder, [Next]_vars PROVE Bounded'
    OBVIOUS
  <1> USE ConstantsAssumption
  <1>1. ASSUME NEW i \in Bathrooms, NEW d \in Data \cup {Absent}, Change(i, d)
        PROVE  Bounded'
    <2>1. during' \in [Loads -> [Bathrooms -> SUBSET (Data \cup {Absent})]]
      BY <1>1 DEF Change, Bounded, MoreTypes
    <2>2. store' \in [Bathrooms -> Data \cup {Absent}]
      BY <1>1 DEF Change, Bounded, TypeOK
    <2> QED
      BY <1>1, <2>1, <2>2 DEF Change, Bounded, TypeOK, MoreTypes, loadVars, viewVars,
                              userVars, Shown
  <1>2. ASSUME NEW l \in Loads, StartLoad(l) PROVE Bounded'
    <2>1. during' \in [Loads -> [Bathrooms -> SUBSET (Data \cup {Absent})]]
      BY <1>2 DEF StartLoad, Bounded, TypeOK, MoreTypes
    <2>2. /\ pc' \in [Loads -> {"idle", "listing", "listed", "fetching", "done"}]
          /\ \A k \in Loads : pc[k] = "done" => pc'[k] = "done"
      BY <1>2 DEF StartLoad, Bounded, TypeOK
    <2> QED
      BY <1>2, <2>1, <2>2 DEF StartLoad, Bounded, TypeOK, MoreTypes, viewVars,
                              userVars, Shown, showLoading, Objects
  <1>3. ASSUME NEW l \in Loads, ListAnswered(l) PROVE Bounded'
    <2>1. /\ pc' \in [Loads -> {"idle", "listing", "listed", "fetching", "done"}]
          /\ \A k \in Loads : pc[k] = "done" => pc'[k] = "done"
          /\ ids' \in [Loads -> SUBSET Bathrooms]
      BY <1>3 DEF ListAnswered, Bounded, TypeOK
    <2>2. \A k \in Loads, i \in Bathrooms : got[k][i] # Waiting => i \in ids'[k]
      BY <1>3 DEF ListAnswered, Bounded, TypeOK, LoadsInOrder
    <2> QED
      BY <1>3, <2>1, <2>2 DEF ListAnswered, Bounded, TypeOK, MoreTypes, viewVars,
                              userVars, Shown, Objects
  <1>4. ASSUME NEW l \in Loads, ListArrives(l) \/ ListFails(l) PROVE Bounded'
    <2>1. /\ pc' \in [Loads -> {"idle", "listing", "listed", "fetching", "done"}]
          /\ \A k \in Loads : pc[k] = "done" => pc'[k] = "done"
      <3>1. \/ pc' = [pc EXCEPT ![l] = "done"]
            \/ pc' = [pc EXCEPT ![l] = "fetching"] /\ pc[l] = "listed"
        BY <1>4 DEF ListArrives, ListFails
      <3>2. pc \in [Loads -> {"idle", "listing", "listed", "fetching", "done"}]
        BY DEF Bounded, TypeOK
      <3>3. CASE pc' = [pc EXCEPT ![l] = "done"]
        BY <3>2, <3>3
      <3>4. CASE pc' = [pc EXCEPT ![l] = "fetching"] /\ pc[l] = "listed"
        BY <3>2, <3>4
      <3> QED
        BY <3>1, <3>3, <3>4
    <2>2. loading' \in BOOLEAN
      BY <1>4, HidingTypes DEF ListArrives, ListFails, NoneFound, Bounded, TypeOK
    <2>3. UNCHANGED <<store, changes, ids, got, viewVars, onMap, userVars,
                      routingControl, during>>
      BY <1>4 DEF ListArrives, ListFails
    <2> QED
      BY <2>1, <2>2, <2>3 DEF Bounded, TypeOK, MoreTypes, viewVars, userVars, Shown,
                              Objects
  <1>5. ASSUME NEW l \in Loads, NEW i \in Bathrooms, FetchSettles(l, i) PROVE Bounded'
    <2>1. got' \in [Loads -> [Bathrooms -> Data \cup {Absent, Waiting, Failed}]]
      BY <1>5 DEF FetchSettles, Bounded, TypeOK
    <2>2. \A k \in Loads, j \in Bathrooms :
              got'[k][j] # got[k][j] => k = l /\ j = i
      BY <1>5 DEF FetchSettles, Bounded, TypeOK
    <2>3. \A k \in Loads, j \in Bathrooms : got'[k][j] # Waiting => j \in ids[k]
      BY <1>5, <2>2 DEF FetchSettles, Bounded, TypeOK
    <2>4. \A b \in Objects : pc[b[1]] = "done" => Shown(b)' = Shown(b)
      BY <1>5, <2>2 DEF FetchSettles, Shown, Objects
    <2> QED
      BY <1>5, <2>1, <2>3, <2>4 DEF FetchSettles, Bounded, TypeOK, MoreTypes, viewVars,
                                    userVars, Objects
  <1>6. ASSUME NEW l \in Loads, FinishLoad(l) PROVE Bounded'
    <2>1. /\ pc' \in [Loads -> {"idle", "listing", "listed", "fetching", "done"}]
          /\ \A k \in Loads : pc[k] = "done" => pc'[k] = "done"
          /\ pc'[l] = "done"
      BY <1>6 DEF FinishLoad, Bounded, TypeOK
    <2>2. \A b \in allBathrooms' \cup closest_list' :
              b \in Objects /\ pc'[b[1]] = "done" /\ Shown(b)' \in Data \ {"none"}
      BY <1>6, <2>1, LoadedTypes DEF FinishLoad, Bounded, TypeOK, userVars, Shown, Objects
    <2>3. markers' \subseteq {Marker(b) : b \in Objects}
      BY <1>6, LoadedTypes DEF FinishLoad, ReplaceMarkers
    <2>4. onMap' \subseteq Layers
      <3>1. onMap' \subseteq onMap \cup {Heat(l)} \cup markers'
        BY <1>6 DEF FinishLoad, ReplaceMarkers
      <3> QED
        BY <2>3, <3>1 DEF Bounded, MoreTypes, Layers
    <2>5. loading' \in BOOLEAN
      BY <1>6, HidingTypes DEF FinishLoad
    <2>6. /\ heatLayer' = Heat(l) /\ latest' = l
          /\ UNCHANGED <<store, changes, ids, got, userVars, routingControl, during>>
      BY <1>6 DEF FinishLoad
    <2> QED
      BY <2>1, <2>2, <2>3, <2>4, <2>5, <2>6 DEF Bounded, TypeOK, MoreTypes, userVars
  <1>7. ASSUME NEW l \in Loads, DrawFails(l) PROVE Bounded'
    <2>1. /\ pc' \in [Loads -> {"idle", "listing", "listed", "fetching", "done"}]
          /\ \A k \in Loads : pc[k] = "done" => pc'[k] = "done"
          /\ pc'[l] = "done"
      BY <1>7 DEF DrawFails, Bounded, TypeOK
    <2>2. \A b \in allBathrooms' \cup closest_list' :
              b \in Objects /\ pc'[b[1]] = "done" /\ Shown(b)' \in Data \ {"none"}
      BY <1>7, <2>1, LoadedTypes DEF DrawFails, Bounded, TypeOK, userVars, Shown, Objects
    <2>3. onMap' \subseteq Layers
      BY <1>7 DEF DrawFails, Bounded, MoreTypes, Layers
    <2>4. loading' \in BOOLEAN
      BY <1>7, HidingTypes DEF DrawFails
    <2>5. /\ latest' = l
          /\ UNCHANGED <<store, changes, ids, got, heatLayer, markers, userVars,
                         routingControl, during>>
      BY <1>7 DEF DrawFails
    <2> QED
      BY <2>1, <2>2, <2>3, <2>4, <2>5 DEF Bounded, TypeOK, MoreTypes, userVars
  <1>8. CASE FindNearest
    BY <1>8 DEF FindNearest, Bounded, TypeOK, MoreTypes, loadVars, viewVars,
                showLoading, Shown
  <1>9. CASE PositionArrives
    <2>0. currentUserLocation' \in Nat
      BY <1>9 DEF PositionArrives, Bounded, MoreTypes
    <2>1. onMap' \subseteq Layers
      <3>1. onMap' \subseteq onMap \cup {User(currentUserLocation'), Circle(currentUserLocation')}
        BY <1>9 DEF PositionArrives, addUserLocationMarker
      <3> QED
        BY <2>0, <3>1 DEF Bounded, MoreTypes, Layers
    <2>2. closest_list' \subseteq allBathrooms \cup closest_list
      BY <1>9 DEF PositionArrives, Nearest
    <2>3. \A b \in allBathrooms' \cup closest_list' :
              b \in Objects /\ pc'[b[1]] = "done" /\ Shown(b)' \in Data \ {"none"}
      BY <1>9, <2>2 DEF PositionArrives, Bounded, TypeOK, loadVars, viewVars, Shown
    <2>4. /\ userLocationMarker' \in 0 .. currentUserLocation'
          /\ locating' \in 0 .. MaxLocates
          /\ locating' + currentUserLocation' <= MaxLocates
          /\ currentUserLocation' # 0
      <3>1. userLocationMarker' \in {userLocationMarker, currentUserLocation'}
        BY <1>9 DEF PositionArrives, addUserLocationMarker
      <3>2. /\ locating > 0
            /\ locating' = locating - 1
            /\ currentUserLocation' = currentUserLocation + 1
        BY <1>9 DEF PositionArrives
      <3> QED
        BY <3>1, <3>2 DEF Bounded, TypeOK, MoreTypes
    <2>5. loading' \in BOOLEAN
      BY <1>9, HidingTypes, ThrowTypes DEF PositionArrives, Bounded, TypeOK
    <2>6. UNCHANGED <<store, changes, loadVars, viewVars, routingControl, during>>
      BY <1>9 DEF PositionArrives
    <2>7. TypeOK'
      BY <2>3, <2>4, <2>5, <2>6 DEF Bounded, TypeOK, loadVars, viewVars
    <2>8. MoreTypes'
      BY <2>0, <2>1, <2>4, <2>6 DEF Bounded, MoreTypes, viewVars
    <2> QED
      BY <2>7, <2>8 DEF Bounded
  <1>10. CASE PositionFails
    <2>1. loading' \in BOOLEAN
      BY <1>10, HidingTypes DEF PositionFails
    <2> QED
      BY <1>10, <2>1 DEF PositionFails, Bounded, TypeOK, MoreTypes, loadVars, viewVars,
                         Shown
  <1>11. ASSUME NEW b \in Loads \X Bathrooms, ShowRoute(b) PROVE Bounded'
    <2>1. currentUserLocation \in 1 .. MaxLocates
      BY <1>11 DEF ShowRoute, Bounded, TypeOK, MoreTypes
    <2>2. /\ routingControl' \in {NoLayer} \cup {Route(n, c) : n \in 1 .. MaxLocates, c \in Objects}
          /\ onMap' \subseteq Layers
      BY <1>11, <2>1 DEF ShowRoute, WithoutRoute, Bounded, MoreTypes, Layers, Objects
    <2> QED
      BY <1>11, <2>2 DEF ShowRoute, Bounded, TypeOK, MoreTypes, loadVars, viewVars,
                         userVars, Shown
  <1>12. CASE ClearRoute
    BY <1>12 DEF ClearRoute, Bounded, TypeOK, MoreTypes, loadVars, viewVars, userVars,
                 Shown
  <1>13. CASE UNCHANGED vars
    BY <1>13 DEF vars, Bounded, TypeOK, MoreTypes, loadVars, viewVars, userVars, Shown
  <1> QED
    BY <1>1, <1>2, <1>3, <1>4, <1>5, <1>6, <1>7, <1>8, <1>9, <1>10, <1>11, <1>12, <1>13
    DEF Next, LoadStep

--------------------------------------------------------------------------------
(* Loads                                                                      *)

\* A step that is not of a load.
Elsewhere ==
    \/ \E i \in Bathrooms, d \in Data \cup {Absent} : Change(i, d)
    \/ FindNearest \/ PositionArrives \/ PositionFails
    \/ \E b \in Loads \X Bathrooms : ShowRoute(b)
    \/ ClearRoute
    \/ UNCHANGED vars

LEMMA ElsewhereKeepsLoads == Elsewhere => UNCHANGED <<loadVars, viewVars>>
  BY DEF Elsewhere, Change, FindNearest, PositionArrives, PositionFails, ShowRoute,
         ClearRoute, vars

\* An answer that has arrived stays.
LEMMA SettlingAddsOne ==
    ASSUME Bounded, NEW l \in Loads, NEW i \in Bathrooms, FetchSettles(l, i)
    PROVE  /\ got[l][i] = Waiting
           /\ got'[l][i] \in {store[i], Failed}
           /\ \A k \in Loads, j \in Bathrooms :
                  got'[k][j] # got[k][j] => k = l /\ j = i
  BY DEF FetchSettles, Bounded, TypeOK

LEMMA LoadsInOrderInit == Init => LoadsInOrder
  <1>1. \A l \in Loads : Init => heatLayer # Heat(l)
    BY NoLayerIsNone DEF Init
  <1> QED
    BY <1>1 DEF Init, LoadsInOrder

LEMMA LoadsInOrderStays == Bounded /\ LoadsInOrder /\ [Next]_vars => LoadsInOrder'
  <1> SUFFICES ASSUME Bounded, LoadsInOrder, [Next]_vars PROVE LoadsInOrder'
    OBVIOUS
  <1>1. CASE Elsewhere
    BY <1>1, ElsewhereKeepsLoads DEF loadVars, viewVars, LoadsInOrder
  <1>2. ASSUME NEW l \in Loads, StartLoad(l) \/ ListAnswered(l) \/ ListArrives(l) \/ ListFails(l)
        PROVE  LoadsInOrder'
    <2>1. /\ pc[l] \in {"idle", "listing", "listed"}
          /\ \A k \in Loads \ {l} : pc'[k] = pc[k]
          /\ UNCHANGED <<got, viewVars>>
      BY <1>2 DEF StartLoad, ListAnswered, ListArrives, ListFails, Bounded, TypeOK
    <2> QED
      BY <2>1 DEF LoadsInOrder, viewVars, Bounded, MoreTypes
  <1>3. ASSUME NEW l \in Loads, NEW i \in Bathrooms, FetchSettles(l, i)
        PROVE  LoadsInOrder'
    <2>1. pc[l] = "fetching" /\ UNCHANGED <<pc, viewVars>>
      BY <1>3 DEF FetchSettles
    <2> QED
      BY <1>3, <2>1, SettlingAddsOne DEF LoadsInOrder, viewVars
  <1>4. ASSUME NEW l \in Loads, FinishLoad(l) \/ DrawFails(l)
        PROVE  LoadsInOrder'
    <2>1. /\ pc'[l] = "done"
          /\ \A k \in Loads \ {l} : pc'[k] = pc[k]
          /\ latest' = l
          /\ heatLayer' \in {Heat(l), heatLayer}
          /\ UNCHANGED got
      BY <1>4 DEF FinishLoad, DrawFails, Bounded, TypeOK
    <2>2. \A k \in Loads : Heat(k) = Heat(l) => k = l
      BY DEF Heat
    <2> QED
      BY <2>1, <2>2 DEF LoadsInOrder
  <1> QED
    BY <1>1, <1>2, <1>3, <1>4 DEF Next, LoadStep, Elsewhere

LEMMA WitnessedInit == Init => Witnessed
  BY DEF Init, Witnessed, Running

LEMMA WitnessedStays ==
    Bounded /\ LoadsInOrder /\ Witnessed /\ [Next]_vars => Witnessed'
  <1> SUFFICES ASSUME Bounded, LoadsInOrder, Witnessed, [Next]_vars PROVE Witnessed'
    OBVIOUS
  <1>1. ASSUME NEW i \in Bathrooms, NEW d \in Data \cup {Absent}, Change(i, d)
        PROVE  Witnessed'
    <2>1. \A l \in Loads, j \in Bathrooms :
              during'[l][j] = IF Running(l) /\ j = i THEN during[l][j] \cup {d}
                              ELSE during[l][j]
      BY <1>1 DEF Change, Bounded, MoreTypes
    <2>2. \A j \in Bathrooms : store'[j] = IF j = i THEN d ELSE store[j]
      BY <1>1 DEF Change, Bounded, TypeOK
    <2>3. UNCHANGED <<pc, ids, got>>
      BY <1>1 DEF Change, loadVars
    <2> QED
      BY <2>1, <2>2, <2>3, ZenonT(60) DEF Witnessed, Running
  <1>2. CASE Elsewhere /\ UNCHANGED <<store, during>>
    BY <1>2, ElsewhereKeepsLoads DEF loadVars, Witnessed, Running
  <1>3. ASSUME NEW l \in Loads, StartLoad(l) PROVE Witnessed'
    <2>1. /\ pc[l] = "idle" /\ pc'[l] = "listing"
          /\ \A j \in Bathrooms : during'[l][j] = {store[j]}
          /\ \A k \in Loads \ {l} : pc'[k] = pc[k] /\ during'[k] = during[k]
          /\ UNCHANGED <<store, ids, got>>
      BY <1>3 DEF StartLoad, Bounded, TypeOK, MoreTypes
    <2> QED
      BY <2>1 DEF Witnessed, Running, LoadsInOrder
  <1>4. ASSUME NEW l \in Loads, ListAnswered(l) PROVE Witnessed'
    <2>1. /\ pc[l] = "listing" /\ pc'[l] = "listed"
          /\ ids'[l] = {i \in Bathrooms : store[i] # Absent}
          /\ \A k \in Loads \ {l} : pc'[k] = pc[k] /\ ids'[k] = ids[k]
          /\ UNCHANGED <<store, got, during>>
      BY <1>4 DEF ListAnswered, Bounded, TypeOK
    <2> QED
      BY <2>1 DEF Witnessed, Running
  <1>5. ASSUME NEW l \in Loads, ListArrives(l) \/ ListFails(l) PROVE Witnessed'
    <2>1. /\ pc[l] \in {"listing", "listed"}
          /\ pc'[l] = "done" \/ (pc[l] = "listed" /\ pc'[l] = "fetching")
          /\ \A k \in Loads \ {l} : pc'[k] = pc[k]
          /\ UNCHANGED <<store, ids, got, during>>
      BY <1>5 DEF ListArrives, ListFails, Bounded, TypeOK
    <2> QED
      BY <2>1 DEF Witnessed, Running
  <1>6. ASSUME NEW l \in Loads, NEW i \in Bathrooms, FetchSettles(l, i)
        PROVE  Witnessed'
    <2>1. pc[l] = "fetching" /\ UNCHANGED <<store, pc, ids, during>>
      BY <1>6 DEF FetchSettles
    <2> QED
      BY <1>6, <2>1, SettlingAddsOne DEF Witnessed, Running
  <1>7. ASSUME NEW l \in Loads, FinishLoad(l) \/ DrawFails(l) PROVE Witnessed'
    <2>1. /\ pc'[l] = "done"
          /\ \A k \in Loads \ {l} : pc'[k] = pc[k]
          /\ UNCHANGED <<store, ids, got, during>>
      BY <1>7 DEF FinishLoad, DrawFails, Bounded, TypeOK
    <2> QED
      BY <2>1 DEF Witnessed, Running
  <1>8. Elsewhere =>
            \/ \E i \in Bathrooms, d \in Data \cup {Absent} : Change(i, d)
            \/ UNCHANGED <<store, during>>
    BY DEF Elsewhere, FindNearest, PositionArrives, PositionFails, ShowRoute,
           ClearRoute, vars
  <1> QED
    BY <1>1, <1>2, <1>3, <1>4, <1>5, <1>6, <1>7, <1>8 DEF Next, LoadStep, Elsewhere

--------------------------------------------------------------------------------
(* What is offered was there                                                  *)

LEMMA ShownWasThereStays ==
    ASSUME Bounded, LoadsInOrder, Witnessed, ShownWasThere, [Next]_vars
    PROVE  ShownWasThere'
  \* A load that is over keeps its answers and its history.
  <1>1. ASSUME UNCHANGED <<allBathrooms, latest>>,
               latest # 0 => /\ during'[latest] = during[latest]
                             /\ got'[latest] = got[latest]
        PROVE  ShownWasThere'
    BY <1>1 DEF ShownWasThere, Shown
  <1>2. ASSUME NEW i \in Bathrooms, NEW d \in Data \cup {Absent}, Change(i, d)
        PROVE  ShownWasThere'
    <2>1. \A l \in Loads : ~Running(l) => during'[l] = during[l]
      BY <1>2 DEF Change, Bounded, MoreTypes
    <2>2. UNCHANGED <<got, allBathrooms, latest>>
      BY <1>2 DEF Change, loadVars, viewVars
    <2> QED
      BY <1>1, <2>1, <2>2 DEF Bounded, MoreTypes, LoadsInOrder, Running
  <1>3. ASSUME UNCHANGED <<got, allBathrooms, latest, during>> PROVE ShownWasThere'
    BY <1>1, <1>3
  <1>4. ASSUME NEW l \in Loads, StartLoad(l) PROVE ShownWasThere'
    <2>1. /\ pc[l] = "idle"
          /\ \A k \in Loads \ {l} : during'[k] = during[k]
          /\ UNCHANGED <<got, allBathrooms, latest>>
      BY <1>4 DEF StartLoad, viewVars, Bounded, MoreTypes
    <2> QED
      BY <1>1, <2>1 DEF Bounded, MoreTypes, LoadsInOrder
  <1>5. ASSUME NEW l \in Loads, NEW i \in Bathrooms, FetchSettles(l, i)
        PROVE  ShownWasThere'
    <2>1. /\ pc[l] = "fetching"
          /\ \A k \in Loads \ {l} : got'[k] = got[k]
          /\ UNCHANGED <<during, allBathrooms, latest>>
      BY <1>5 DEF FetchSettles, viewVars, Bounded, TypeOK
    <2> QED
      BY <1>1, <2>1 DEF Bounded, MoreTypes, LoadsInOrder
  <1>6. ASSUME NEW l \in Loads, FinishLoad(l) \/ DrawFails(l) PROVE ShownWasThere'
    <2>1. /\ pc[l] = "fetching"
          /\ \A i \in ids[l] : got[l][i] # Waiting
          /\ allBathrooms' = Loaded(l)
          /\ latest' = l
          /\ UNCHANGED <<got, during>>
      BY <1>6 DEF FinishLoad, DrawFails, AllSettled
    <2>2. ASSUME NEW b \in Loaded(l)
          PROVE  b[1] = l /\ Shown(b)' \in during'[l][b[2]]
      <3>1. /\ b[1] = l /\ b[2] \in Bathrooms
            /\ got[l][b[2]] = Shown(b) /\ Shown(b) \in Data
        BY LoadedTypes DEF Shown, Objects
      <3> QED
        BY <2>1, <3>1, ConstantsAssumption DEF Witnessed, Shown, Data, Waiting, Failed
    <2>3. ASSUME NEW i \in Bathrooms, NEW d \in Data,
                 during[l][i] = {d}, HasPosition(d), got[l][i] # Failed
          PROVE  <<l, i>> \in Loaded(l)
      <3>1. d # Absent
        BY ConstantsAssumption DEF Data, Absent
      <3>2. i \in ids[l]
        BY <2>1, <2>3, <3>1 DEF Witnessed
      <3>3. got[l][i] = d
        BY <2>1, <2>3, <3>2 DEF Witnessed
      <3> QED
        BY <2>3, <3>2, <3>3 DEF Loaded
    <2> QED
      BY <2>1, <2>2, <2>3 DEF ShownWasThere
  <1>7. \/ \E i \in Bathrooms, d \in Data \cup {Absent} : Change(i, d)
        \/ \E l \in Loads : StartLoad(l) \/ FinishLoad(l) \/ DrawFails(l)
        \/ \E l \in Loads, i \in Bathrooms : FetchSettles(l, i)
        \/ UNCHANGED <<got, allBathrooms, latest, during>>
    BY DEF Next, LoadStep, ListAnswered, ListArrives, ListFails, FindNearest,
           PositionArrives, PositionFails, ShowRoute, ClearRoute, vars, loadVars,
           viewVars
  <1> QED
    BY <1>2, <1>3, <1>4, <1>5, <1>6, <1>7

--------------------------------------------------------------------------------
(* One load on the map                                                        *)

LEMMA MapShowsOneLoadStays ==
    ASSUME Bounded, LoadsInOrder, MapShowsOneLoad, [Next]_vars
    PROVE  MapShowsOneLoad'
  <1>1. ASSUME UNCHANGED viewVars, \A b \in allBathrooms : Shown(b)' = Shown(b)
        PROVE  MapShowsOneLoad'
    BY <1>1 DEF MapShowsOneLoad, viewVars
  <1>2. ASSUME NEW l \in Loads, NEW i \in Bathrooms, FetchSettles(l, i)
        PROVE  MapShowsOneLoad'
    <2>1. pc[l] = "fetching" /\ UNCHANGED viewVars
      BY <1>2 DEF FetchSettles
    <2>2. \A b \in allBathrooms : Shown(b)' = Shown(b)
      BY <1>2, <2>1, SettlingAddsOne DEF Bounded, TypeOK, Shown, Objects
    <2> QED
      BY <1>1, <2>1, <2>2
  <1>3. ASSUME NEW l \in Loads, FinishLoad(l) PROVE MapShowsOneLoad'
    <2>1. /\ allBathrooms' = Loaded(l)
          /\ latest' = l
          /\ heatLayer' = Heat(l)
          /\ markers' = {Marker(b) : b \in Loaded(l)}
      BY <1>3 DEF FinishLoad, ReplaceMarkers
    <2>2. \A x \in markers' : x.of[1] = l
      BY <2>1, LoadedTypes DEF Marker
    <2> QED
      BY <2>1, <2>2 DEF MapShowsOneLoad
  <1>4. ASSUME NEW l \in Loads, DrawFails(l) PROVE MapShowsOneLoad'
    <2>1. /\ pc[l] = "fetching"
          /\ allBathrooms' = Loaded(l)
          /\ latest' = l
          /\ UNCHANGED <<got, heatLayer, markers>>
          /\ \E b \in Loaded(l) : ~Draws(Shown(b))
      BY <1>4 DEF DrawFails, AllSettled
    <2>2. heatLayer # Heat(l)
      BY <2>1 DEF LoadsInOrder
    <2>3. \E b \in allBathrooms' : ~Draws(Shown(b)')
      BY <2>1 DEF Shown
    <2> QED
      BY <2>1, <2>2, <2>3 DEF MapShowsOneLoad
  <1>5. \/ \E l \in Loads : FinishLoad(l) \/ DrawFails(l)
        \/ \E l \in Loads, i \in Bathrooms : FetchSettles(l, i)
        \/ UNCHANGED <<got, viewVars>>
    BY DEF Next, LoadStep, Change, StartLoad, ListAnswered, ListArrives, ListFails,
           FindNearest, PositionArrives, PositionFails, ShowRoute, ClearRoute, vars,
           loadVars
  <1>6. ASSUME UNCHANGED <<got, viewVars>> PROVE MapShowsOneLoad'
    BY <1>1, <1>6 DEF Shown
  <1> QED
    BY <1>2, <1>3, <1>4, <1>5, <1>6

--------------------------------------------------------------------------------
(* Nothing left behind                                                        *)

\* NothingIsOrphaned by its parts: the layers that the page holds, and a heat
\* layer of a load whose answers it cannot draw.
Held ==
    markers \cup ({heatLayer, routingControl} \ {NoLayer})
        \cup ({User(userLocationMarker)} \ {User(0)})

Threw(x) == x.kind = "heat" /\ \E i \in ids[x.of] : ~Draws(got[x.of][i])

LEMMA OrphansByParts ==
    NothingIsOrphaned <=>
        /\ \A x \in onMap \ Held : x.kind = "circle" \/ Threw(x)
        /\ \A x \in Held \ onMap : x = heatLayer /\ Undrawable # {}
  BY DEF NothingIsOrphaned, Held, Threw

LEMMA OrphansByPartsNext ==
    NothingIsOrphaned' <=>
        /\ \A x \in onMap' \ Held' : x.kind = "circle" \/ Threw(x)'
        /\ \A x \in Held' \ onMap' : x = heatLayer' /\ Undrawable' # {}
  BY DEF NothingIsOrphaned, Held, Threw

\* The layers that are held differ by their kinds.
LEMMA KindsOfHeld ==
    ASSUME Bounded
    PROVE  /\ \A x \in markers : x.kind = "marker"
           /\ heatLayer # NoLayer => heatLayer.kind = "heat"
           /\ routingControl # NoLayer => routingControl.kind = "route"
           /\ \A n : User(n).kind = "user" /\ Circle(n).kind = "circle"
           /\ \A l : Heat(l).kind = "heat"
           /\ \A b : Marker(b).kind = "marker"
           /\ \A n, b : Route(n, b).kind = "route"
           /\ NoLayer \notin onMap
  <1>1. NoLayer \notin Layers
    <2>1. DOMAIN NoLayer = {}
      BY DEF NoLayer
    <2>2. \A x \in Layers : DOMAIN x = {"kind", "of"}
      BY DEF Layers, Heat, Marker, User, Circle, Route
    <2> QED
      BY <2>1, <2>2
  <1>2. NoLayer \notin onMap
    BY <1>1 DEF Bounded, MoreTypes
  <1>3. /\ \A n : User(n).kind = "user" /\ Circle(n).kind = "circle"
        /\ \A l : Heat(l).kind = "heat"
        /\ \A b : Marker(b).kind = "marker"
        /\ \A n, b : Route(n, b).kind = "route"
    BY DEF Heat, Marker, User, Circle, Route
  <1> QED
    BY <1>2, <1>3 DEF Bounded, TypeOK

LEMMA ThrewStays ==
    ASSUME Bounded, LoadsInOrder, [Next]_vars, NEW x \in onMap, Threw(x)
    PROVE  Threw(x)'
  <1>1. x.of \in Loads
    BY DEF Bounded, MoreTypes, Layers, Threw, Heat, Marker, User, Circle, Route
  <1>2. PICK i \in ids[x.of] : ~Draws(got[x.of][i])
    BY DEF Threw
  <1>3. i \in Bathrooms /\ got[x.of][i] # Waiting
    BY <1>1, <1>2 DEF Bounded, TypeOK, Draws, Waiting
  <1>4. CASE UNCHANGED <<ids, got>>
    BY <1>4 DEF Threw
  <1>5. ASSUME NEW l \in Loads, ListAnswered(l) PROVE Threw(x)'
    <2>1. x.of # l
      BY <1>1, <1>3, <1>5 DEF ListAnswered, LoadsInOrder
    <2>2. ids'[x.of] = ids[x.of] /\ got' = got
      BY <1>1, <1>5, <2>1 DEF ListAnswered, Bounded, TypeOK
    <2> QED
      BY <2>2 DEF Threw
  <1>6. ASSUME NEW l \in Loads, NEW j \in Bathrooms, FetchSettles(l, j) PROVE Threw(x)'
    <2>1. got'[x.of][i] = got[x.of][i] /\ ids' = ids
      BY <1>1, <1>3, <1>6, SettlingAddsOne DEF FetchSettles
    <2> QED
      BY <1>2, <2>1 DEF Threw
  <1>7. \/ \E l \in Loads : ListAnswered(l)
        \/ \E l \in Loads, j \in Bathrooms : FetchSettles(l, j)
        \/ UNCHANGED <<ids, got>>
    BY DEF Next, LoadStep, Change, StartLoad, ListArrives, ListFails, FinishLoad,
           DrawFails, FindNearest, PositionArrives, PositionFails, ShowRoute, ClearRoute,
           vars, loadVars
  <1> QED
    BY <1>4, <1>5, <1>6, <1>7

LEMMA NothingIsOrphanedStays ==
    ASSUME Bounded, LoadsInOrder, NothingIsOrphaned, [Next]_vars
    PROVE  NothingIsOrphaned'
  <1>1. /\ \A x \in onMap \ Held : x.kind = "circle" \/ Threw(x)'
        /\ \A x \in Held \ onMap : x = heatLayer /\ Undrawable # {}
    BY OrphansByParts, ThrewStays
  <1>2. CASE UNCHANGED <<heatLayer, markers, routingControl, userLocationMarker, onMap>>
    BY <1>1, <1>2, OrphansByPartsNext DEF Held, Undrawable
  <1>3. ASSUME NEW l \in Loads, FinishLoad(l) PROVE NothingIsOrphaned'
    <2> DEFINE new == {Marker(b) : b \in Loaded(l)}
    <2>1. /\ heatLayer' = Heat(l)
          /\ markers' = new
          /\ onMap' = (onMap \ ({heatLayer} \cup markers)) \cup {Heat(l)} \cup new
          /\ UNCHANGED <<routingControl, userLocationMarker>>
      BY <1>3 DEF FinishLoad, ReplaceMarkers, userVars
    <2>2. \A x \in onMap' \ Held' : x \in onMap \ Held
      BY <2>1, NoLayerIsNone, KindsOfHeld DEF Held
    <2>3. Held' \subseteq onMap'
      <3>1. Held \ (markers \cup {heatLayer}) \subseteq onMap'
        BY <1>1, <2>1
      <3>2. Held' \subseteq {Heat(l)} \cup new \cup (Held \ (markers \cup {heatLayer}))
        BY <2>1, NoLayerIsNone, KindsOfHeld DEF Held
      <3> QED
        BY <2>1, <3>1, <3>2
    <2> QED
      BY <1>1, <2>2, <2>3, OrphansByPartsNext
  <1>4. ASSUME NEW l \in Loads, DrawFails(l) PROVE NothingIsOrphaned'
    <2>1. /\ pc[l] = "fetching"
          /\ onMap' = (onMap \ {heatLayer}) \cup {Heat(l)}
          /\ UNCHANGED <<ids, got, heatLayer, markers, routingControl, userLocationMarker>>
          /\ \E b \in Loaded(l) : ~Draws(Shown(b))
      BY <1>4 DEF DrawFails, AllSettled, userVars
    <2>2. Threw(Heat(l))'
      BY <2>1, LoadedTypes DEF Threw, Heat, Shown
    <2>3. heatLayer # Heat(l)
      BY <2>1 DEF LoadsInOrder
    <2>4. Heat(l) \in Undrawable'
      BY <2>1, <2>3, KindsOfHeld DEF Undrawable
    <2>5. Held' = Held
      BY <2>1 DEF Held
    <2> QED
      BY <1>1, <2>1, <2>2, <2>4, <2>5, OrphansByPartsNext
  <1>5. ASSUME PositionArrives, addUserLocationMarker(currentUserLocation')
        PROVE  NothingIsOrphaned'
    <2> DEFINE n == currentUserLocation'
    <2>1. /\ userLocationMarker' = n
          /\ onMap' = (onMap \ {User(userLocationMarker)}) \cup {User(n), Circle(n)}
          /\ UNCHANGED <<heatLayer, markers, routingControl>>
      BY <1>5 DEF PositionArrives, addUserLocationMarker, viewVars
    <2>2. \A x \in onMap' \ Held' : x \in onMap \ Held \/ x.kind = "circle"
      <3>1. n # 0
        BY <1>5 DEF PositionArrives, Bounded, MoreTypes
      <3>2. User(n) # User(0)
        BY <3>1 DEF User
      <3> QED
        BY <2>1, <3>2, KindsOfHeld DEF Held
    <2>3. \A x \in Held' \ onMap' : x \in Held \ onMap
      BY <2>1, KindsOfHeld DEF Held
    <2>4. Undrawable \subseteq Undrawable'
      BY <2>1, KindsOfHeld DEF Undrawable
    <2> QED
      BY <1>1, <2>1, <2>2, <2>3, <2>4, OrphansByPartsNext
  <1>6. ASSUME NEW b \in Loads \X Bathrooms, ShowRoute(b) PROVE NothingIsOrphaned'
    <2> DEFINE r == Route(currentUserLocation, b)
    <2>1. /\ \/ routingControl' = r /\ onMap' = (onMap \ {routingControl}) \cup {r}
             \/ routingControl' = NoLayer /\ onMap' = onMap \ {routingControl}
          /\ UNCHANGED <<heatLayer, markers, userLocationMarker>>
      BY <1>6 DEF ShowRoute, WithoutRoute, viewVars, userVars
    <2>2. \A x \in onMap' \ Held' : x \in onMap \ Held
      BY <2>1, NoLayerIsNone, KindsOfHeld DEF Held
    <2>3. \A x \in Held' \ onMap' : x \in Held \ onMap
      BY <2>1, KindsOfHeld DEF Held
    <2>4. Undrawable \subseteq Undrawable'
      BY <2>1, KindsOfHeld DEF Undrawable
    <2> QED
      BY <1>1, <2>1, <2>2, <2>3, <2>4, OrphansByPartsNext
  <1>7. CASE ClearRoute
    <2>1. /\ routingControl' = NoLayer
          /\ onMap' = onMap \ {routingControl}
          /\ UNCHANGED <<heatLayer, markers, userLocationMarker>>
      BY <1>7 DEF ClearRoute, viewVars, userVars
    <2>2. \A x \in onMap' \ Held' : x \in onMap \ Held
      BY <2>1, KindsOfHeld DEF Held
    <2>3. \A x \in Held' \ onMap' : x \in Held \ onMap
      BY <2>1, KindsOfHeld DEF Held
    <2>4. Undrawable \subseteq Undrawable'
      BY <2>1, KindsOfHeld DEF Undrawable
    <2> QED
      BY <1>1, <2>1, <2>2, <2>3, <2>4, OrphansByPartsNext
  <1>8. PositionArrives =>
            \/ addUserLocationMarker(currentUserLocation')
            \/ UNCHANGED <<heatLayer, markers, routingControl, userLocationMarker, onMap>>
    BY DEF PositionArrives, viewVars
  <1>9. \/ \E l \in Loads : FinishLoad(l) \/ DrawFails(l)
        \/ PositionArrives
        \/ \E b \in Loads \X Bathrooms : ShowRoute(b)
        \/ ClearRoute
        \/ UNCHANGED <<heatLayer, markers, routingControl, userLocationMarker, onMap>>
    BY DEF Next, LoadStep, Change, StartLoad, ListAnswered, ListArrives, ListFails,
           FetchSettles, FindNearest, PositionFails, vars, viewVars, userVars
  <1> QED
    BY <1>2, <1>3, <1>4, <1>5, <1>6, <1>7, <1>8, <1>9

--------------------------------------------------------------------------------
(* Theorems                                                                   *)

LEMMA InvariantInit == Init => IInv
  <1> SUFFICES ASSUME Init PROVE IInv
    OBVIOUS
  <1>1. ShownWasThere
    BY DEF Init, ShownWasThere
  <1>2. MapShowsOneLoad
    BY DEF Init, MapShowsOneLoad
  <1>3. NothingIsOrphaned
    BY DEF Init, NothingIsOrphaned
  <1> QED
    BY <1>1, <1>2, <1>3, BoundedInit, LoadsInOrderInit, WitnessedInit DEF IInv

LEMMA InvariantStep == IInv /\ [Next]_vars => IInv'
  BY BoundedStays, LoadsInOrderStays, WitnessedStays, ShownWasThereStays,
     MapShowsOneLoadStays, NothingIsOrphanedStays DEF IInv

LEMMA Invariant == Spec => []IInv
  BY InvariantInit, InvariantStep, PTL DEF Spec

\* The page's variables keep their types (app.js:1-20).
THEOREM TypeCorrect == Spec => []TypeOK
  <1>1. IInv => TypeOK
    BY DEF IInv, Bounded
  <1> QED
    BY <1>1, Invariant, PTL

\* However many loads overlap, fail or cannot be drawn, markers, heat layer and
\* list come from one (app.js:59-76).
THEOREM OneLoadShown == Spec => []MapShowsOneLoad
  <1>1. IInv => MapShowsOneLoad
    BY DEF IInv
  <1> QED
    BY <1>1, Invariant, PTL

\* What is offered was in the store while its load ran, and what was there for
\* all of the load is offered (app.js:36-66).
THEOREM OffersWereThere == Spec => []ShownWasThere
  <1>1. IInv => ShownWasThere
    BY DEF IInv
  <1> QED
    BY <1>1, Invariant, PTL

\* Every layer on the map is one that the page will remove, but for the circles
\* of earlier positions and the heat layers that threw (app.js:96-133, 383-420).
THEOREM NoOrphans == Spec => []NothingIsOrphaned
  <1>1. IInv => NothingIsOrphaned
    BY DEF IInv
  <1> QED
    BY <1>1, Invariant, PTL

================================================================================
