------------------------------ MODULE BathroomMap ------------------------------
(******************************************************************************)
(* The map page (assets/bathroom-map/app.js): the loads of the bathrooms,     *)
(* each a list request and then one request per id, which may overlap; the    *)
(* search for the nearest one; the route to one.  JavaScript runs one         *)
(* callback at a time, so what stands between two awaits is one step.  The    *)
(* server behind /api answers each request from one moment (module Resources),*)
(* and other clients change what it stores.                                   *)
(*                                                                            *)
(* Of a bathroom's data only its position counts here: one that every part of *)
(* the page understands; none; one that parseFloat can read but Leaflet's     *)
(* LatLng cannot ("34.07N"); or one that neither can.  Popups, alerts and the *)
(* view do not influence the page and are left out.  Leaflet is external:     *)
(* a layer is on the map from the moment that addTo is called, even if it     *)
(* then throws.                                                               *)
(******************************************************************************)
EXTENDS Integers, FiniteSets

CONSTANTS
    Bathrooms,      \* ids under /api/bathrooms
    Positions,      \* positions that LatLng accepts
    Stores,         \* what the server may hold when the page is opened
    MaxLoads,       \* bound on calls of loadBathrooms
    MaxChanges,     \* bound on changes of the store
    MaxLocates,     \* bound on searches for the nearest bathroom
    list_size       \* entries of the sidebar, 5 in the code

Data == Positions \cup {"none", "suffixed", "garbled"}
Absent == "absent"
Waiting == "waiting"
Failed == "failed"

ASSUME ConstantsAssumption ==
    /\ Positions \cap {"none", "suffixed", "garbled", Absent, Waiting, Failed} = {}
    /\ Stores \subseteq [Bathrooms -> Data \cup {Absent}]
    /\ MaxLoads \in Nat
    /\ MaxChanges \in Nat
    /\ MaxLocates \in Nat
    /\ list_size \in Nat \ {0}

VARIABLES
    store,                  \* what the server has under each id
    changes,
    pc,                     \* where each call of loadBathrooms is
    ids,                    \* the ids it has to fetch
    got,                    \* the answers it has
    loading,                \* the indicator
    allBathrooms,           \* bathroom objects: <<load, id>>
    heatLayer, markers,
    onMap,                  \* layers and controls that the map holds
    locating,               \* positions asked for and not yet delivered
    currentUserLocation, userLocationMarker,    \* number of the position, or 0
    closest_list,           \* bathrooms in the sidebar
    routingControl

\* Ghosts: what each id held while a load ran; the load that last stored
\* allBathrooms (0: none); an exception left the indicator on.
VARIABLES during, latest, stuck

loadVars == <<pc, ids, got>>
viewVars == <<allBathrooms, heatLayer, markers, latest>>
userVars == <<locating, currentUserLocation, userLocationMarker, closest_list>>
vars == <<store, changes, loadVars, loading, viewVars, onMap, userVars,
          routingControl, during, stuck>>

Loads == 1 .. MaxLoads
NoLayer == <<>>

\* Bug that TypeOK catches: the filter lets null through, a fetch that failed.
NullsPass(d) == d # "none"

\* undefined is not a position, whatever else is there passes the filter.
HasPosition(d) == d \in Data \ {"none"}
Draws(d) == d # "garbled"
IsLatLng(d) == d \in Positions

Heat(l) == [kind |-> "heat", of |-> l]
Marker(b) == [kind |-> "marker", of |-> b]
User(n) == [kind |-> "user", of |-> n]
Circle(n) == [kind |-> "circle", of |-> n]
Route(n, b) == [kind |-> "route", of |-> <<n, b>>]

Shown(b) == got[b[1]][b[2]]

Init ==
    /\ store \in Stores
    /\ changes = 0
    /\ pc = [l \in Loads |-> "idle"]
    /\ ids = [l \in Loads |-> {}]
    /\ got = [l \in Loads |-> [i \in Bathrooms |-> Waiting]]
    /\ loading = FALSE
    /\ allBathrooms = {}
    /\ heatLayer = NoLayer
    /\ markers = {}
    /\ onMap = {}
    /\ locating = 0
    /\ currentUserLocation = 0
    /\ userLocationMarker = 0
    /\ closest_list = {}
    /\ routingControl = NoLayer
    /\ during = [l \in Loads |-> [i \in Bathrooms |-> {}]]
    /\ latest = 0
    /\ stuck = FALSE

showLoading == loading' = TRUE /\ UNCHANGED stuck
hideLoading == loading' = FALSE /\ stuck' = FALSE

\* The callback ends at an exception: the indicator stays as it is.
Throw == stuck' = loading /\ UNCHANGED loading

--------------------------------------------------------------------------------
(* Other clients of the API                                                   *)

Running(l) == pc[l] \in {"listing", "listed", "fetching"}

Change(i, d) ==
    /\ changes < MaxChanges
    /\ store[i] # d
    /\ store' = [store EXCEPT ![i] = d]
    /\ changes' = changes + 1
    /\ during' = [l \in Loads |-> IF Running(l)
                                  THEN [during[l] EXCEPT ![i] = @ \cup {d}]
                                  ELSE during[l]]
    /\ UNCHANGED <<loadVars, loading, viewVars, onMap, userVars, routingControl, stuck>>

--------------------------------------------------------------------------------
(* loadBathrooms                                                              *)

\* Called when the page is loaded, and by refreshData.
StartLoad(l) ==
    /\ pc[l] = "idle"
    /\ \A k \in 1 .. l - 1 : pc[k] # "idle"
    /\ pc' = [pc EXCEPT ![l] = "listing"]
    /\ during' = [during EXCEPT ![l] = [i \in Bathrooms |-> {store[i]}]]
    /\ showLoading
    /\ UNCHANGED <<store, changes, ids, got, viewVars, onMap, userVars, routingControl>>

\* The server has the list; the page does not yet.
ListAnswered(l) ==
    /\ pc[l] = "listing"
    /\ pc' = [pc EXCEPT ![l] = "listed"]
    /\ ids' = [ids EXCEPT ![l] = {i \in Bathrooms : store[i] # Absent}]
    /\ UNCHANGED <<store, changes, got, loading, viewVars, onMap, userVars,
                   routingControl, during, stuck>>

\* Bug that IndicatorGoesOut catches: nothing found, and the early return
\* leaves the indicator on.
ReturnsAtOnce == UNCHANGED <<loading, stuck>>

NoneFound == hideLoading

ListArrives(l) ==
    /\ pc[l] = "listed"
    /\ \/ /\ ids[l] = {}
          /\ pc' = [pc EXCEPT ![l] = "done"]
          /\ NoneFound
       \/ /\ ids[l] # {}
          /\ pc' = [pc EXCEPT ![l] = "fetching"]
          /\ UNCHANGED <<loading, stuck>>
    /\ UNCHANGED <<store, changes, ids, got, viewVars, onMap, userVars,
                   routingControl, during>>

\* No answer, a status other than 200, or a body that is not JSON.
ListFails(l) ==
    /\ pc[l] \in {"listing", "listed"}
    /\ pc' = [pc EXCEPT ![l] = "done"]
    /\ hideLoading
    /\ UNCHANGED <<store, changes, ids, got, viewVars, onMap, userVars,
                   routingControl, during>>

\* Every fetch of a load runs at the same time; each failure is its own.
FetchSettles(l, i) ==
    /\ pc[l] = "fetching"
    /\ i \in ids[l]
    /\ got[l][i] = Waiting
    /\ \E answer \in {store[i], Failed} : got' = [got EXCEPT ![l][i] = answer]
    /\ UNCHANGED <<store, changes, pc, ids, loading, viewVars, onMap, userVars,
                   routingControl, during, stuck>>

\* Bug that ShownWasThere catches: what could not be fetched is taken over from
\* the load before.
KeepsKnown(l) ==
    {<<l, i>> : i \in {j \in ids[l] : HasPosition(got[l][j])}}
        \cup {b \in allBathrooms : b[2] \notin ids[l]}

\* Promise.all and the filter.
Loaded(l) == {<<l, i>> : i \in {j \in ids[l] : HasPosition(got[l][j])}}

AllSettled(l) == pc[l] = "fetching" /\ \A i \in ids[l] : got[l][i] # Waiting

\* Bug that MapShowsOneLoad catches: the new markers join the old ones.
AddsMarkers(new) ==
    /\ markers' = markers \cup new
    /\ onMap' = (onMap \ {heatLayer}) \cup {heatLayer'} \cup new

ReplaceMarkers(new) ==
    /\ markers' = new
    /\ onMap' = (onMap \ ({heatLayer} \cup markers)) \cup {heatLayer'} \cup new

FinishLoad(l) ==
    /\ AllSettled(l)
    /\ \A b \in Loaded(l) : Draws(Shown(b))
    /\ pc' = [pc EXCEPT ![l] = "done"]
    /\ allBathrooms' = Loaded(l)
    /\ latest' = l
    /\ heatLayer' = Heat(l)
    /\ ReplaceMarkers({Marker(b) : b \in Loaded(l)})
    /\ hideLoading
    /\ UNCHANGED <<store, changes, ids, got, userVars, routingControl, during>>

\* The heat layer is on the map when it throws, and heatLayer is not assigned:
\* the markers stay those of an earlier load.
DrawFails(l) ==
    /\ AllSettled(l)
    /\ \E b \in Loaded(l) : ~Draws(Shown(b))
    /\ pc' = [pc EXCEPT ![l] = "done"]
    /\ allBathrooms' = Loaded(l)
    /\ latest' = l
    /\ onMap' = (onMap \ {heatLayer}) \cup {Heat(l)}
    /\ hideLoading
    /\ UNCHANGED <<store, changes, ids, got, heatLayer, markers, userVars,
                   routingControl, during>>

LoadStep(l) ==
    \/ ListAnswered(l) \/ ListArrives(l) \/ ListFails(l)
    \/ \E i \in Bathrooms : FetchSettles(l, i)
    \/ FinishLoad(l) \/ DrawFails(l)

--------------------------------------------------------------------------------
(* findNearestBathroom                                                        *)

FindNearest ==
    /\ allBathrooms # {}
    /\ locating + currentUserLocation < MaxLocates
    /\ locating' = locating + 1
    /\ showLoading
    /\ UNCHANGED <<store, changes, loadVars, viewVars, onMap, currentUserLocation,
                   userLocationMarker, closest_list, routingControl, during>>

\* A heat layer that could not be drawn tries again, and throws again, whenever
\* the view has moved.
Undrawable == {x \in onMap : x.kind = "heat" /\ x # heatLayer}

\* The sidebar after a search that found b: the nearest ones, b the first.
Nearest(b) ==
    {list \in SUBSET allBathrooms :
        /\ b \in list
        /\ Cardinality(list) <= list_size
        /\ Cardinality(list) = list_size \/ list = allBathrooms}

addUserLocationMarker(n) ==
    /\ userLocationMarker' = n
    /\ onMap' = (onMap \ {User(userLocationMarker)}) \cup {User(n), Circle(n)}

\* The success callback; distances decide which bathroom is the closest, so that
\* it may be any.
PositionArrives ==
    /\ locating > 0
    /\ locating' = locating - 1
    /\ currentUserLocation' = currentUserLocation + 1
    /\ \/ /\ allBathrooms = {}
          /\ hideLoading
          /\ UNCHANGED <<onMap, userLocationMarker, closest_list>>
       \/ /\ \/ \E closest \in allBathrooms : ~IsLatLng(Shown(closest))
             \/ allBathrooms # {} /\ Undrawable # {}
          /\ Throw
          /\ UNCHANGED <<onMap, userLocationMarker, closest_list>>
       \/ \E closest \in allBathrooms :
             /\ IsLatLng(Shown(closest))
             /\ addUserLocationMarker(currentUserLocation')
             /\ \/ closest_list' \in Nearest(closest) /\ hideLoading
                \/ Undrawable # {} /\ Throw /\ UNCHANGED closest_list
    /\ UNCHANGED <<store, changes, loadVars, viewVars, routingControl, during>>

\* No permission, no position, or none within 10 seconds.
PositionFails ==
    /\ locating > 0
    /\ locating' = locating - 1
    /\ hideLoading
    /\ UNCHANGED <<store, changes, loadVars, viewVars, onMap, currentUserLocation,
                   userLocationMarker, closest_list, routingControl, during>>

--------------------------------------------------------------------------------
(* Routes                                                                     *)

\* Bug that NothingIsOrphaned catches: the route before is not removed.
WithoutRemoval == onMap

WithoutRoute == onMap \ {routingControl}

\* A click on a button of the sidebar; waypoints are checked after the old route
\* is gone.
ShowRoute(b) ==
    /\ b \in closest_list
    /\ \/ /\ IsLatLng(Shown(b))
          /\ routingControl' = Route(currentUserLocation, b)
          /\ onMap' = WithoutRoute \cup {routingControl'}
       \/ /\ ~IsLatLng(Shown(b))
          /\ routingControl' = NoLayer
          /\ onMap' = WithoutRoute
    /\ UNCHANGED <<store, changes, loadVars, loading, viewVars, userVars, during, stuck>>

ClearRoute ==
    /\ routingControl # NoLayer
    /\ onMap' = onMap \ {routingControl}
    /\ routingControl' = NoLayer
    /\ UNCHANGED <<store, changes, loadVars, loading, viewVars, userVars, during, stuck>>

--------------------------------------------------------------------------------
Next ==
    \/ \E i \in Bathrooms, d \in Data \cup {Absent} : Change(i, d)
    \/ \E l \in Loads : StartLoad(l) \/ LoadStep(l)
    \/ FindNearest
    \/ PositionArrives
    \/ PositionFails
    \/ \E b \in Loads \X Bathrooms : ShowRoute(b)
    \/ ClearRoute

\* A request that was sent is answered or given up by the browser; nobody has to
\* change, refresh, click, or answer the browser's question for permission.
Spec == Init /\ [][Next]_vars /\ \A l \in Loads : WF_vars(LoadStep(l))

--------------------------------------------------------------------------------
(* Properties                                                                 *)

Objects == Loads \X Bathrooms

\* Each variable holds what app.js puts there: loads in one of their stages with
\* answers for the ids they were told, bathroom objects of loads that are over,
\* layers of the kind that the variable is for.
TypeOK ==
    /\ store \in [Bathrooms -> Data \cup {Absent}]
    /\ pc \in [Loads -> {"idle", "listing", "listed", "fetching", "done"}]
    /\ ids \in [Loads -> SUBSET Bathrooms]
    /\ got \in [Loads -> [Bathrooms -> Data \cup {Absent, Waiting, Failed}]]
    /\ \A l \in Loads, i \in Bathrooms : got[l][i] # Waiting => i \in ids[l]
    /\ loading \in BOOLEAN
    /\ \A b \in allBathrooms \cup closest_list :
          b \in Objects /\ pc[b[1]] = "done" /\ Shown(b) \in Data \ {"none"}
    /\ heatLayer \in {NoLayer} \cup {Heat(l) : l \in Loads}
    /\ markers \subseteq {Marker(b) : b \in Objects}
    /\ locating \in 0 .. MaxLocates
    /\ userLocationMarker \in 0 .. currentUserLocation
    /\ routingControl \in {NoLayer} \cup {Route(n, b) : n \in 1 .. MaxLocates, b \in Objects}

\* However loads overlap, fail or fail to draw, the markers, the heat layer and
\* the list that searches use come from one load, and not a part of each; only
\* when the latest load could not be drawn is the list newer than the markers.
MapShowsOneLoad ==
    /\ \A x, y \in markers : x.of[1] = y.of[1]
    /\ Heat(latest) = heatLayer => markers = {Marker(b) : b \in allBathrooms}
    /\ latest # 0 /\ heatLayer # Heat(latest) =>
          \E b \in allBathrooms : ~Draws(Shown(b))
    /\ \A x \in markers : Heat(x.of[1]) = heatLayer

\* Nothing is left on the map that the page has lost hold of: each layer and
\* control is the one that the page will remove, except the circles around
\* earlier positions, which are never removed, and heat layers that threw.
\* Whatever the page holds is there, except a heat layer that another one,
\* which threw, was to replace.
NothingIsOrphaned ==
    LET held == markers \cup ({heatLayer, routingControl} \ {NoLayer})
                    \cup ({User(userLocationMarker)} \ {User(0)})
    IN  /\ \A x \in onMap \ held :
              \/ x.kind = "circle"
              \/ x.kind = "heat" /\ \E i \in ids[x.of] : ~Draws(got[x.of][i])
        /\ \A x \in held \ onMap : x = heatLayer /\ Undrawable # {}

\* What searches and routes offer was in the store, as it is offered, at some
\* moment of the load that it comes from, and what was there unchanged for all
\* of that load is offered, unless its own fetch failed or it has no position.
\* Loads overlap and the store changes between the list and the fetches.
ShownWasThere ==
    latest # 0 =>
        /\ \A b \in allBathrooms : b[1] = latest /\ Shown(b) \in during[latest][b[2]]
        /\ \A i \in Bathrooms, d \in Data :
              during[latest][i] = {d} /\ HasPosition(d) /\ got[latest][i] # Failed
                  => <<latest, i>> \in allBathrooms

\* The indicator goes out, whatever loads, failures and searches overlap, unless
\* a position is still awaited or a callback threw while it was on.
IndicatorGoesOut == loading ~> (~loading \/ locating > 0 \/ stuck)
================================================================================
