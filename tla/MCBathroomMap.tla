----------------------------- MODULE MCBathroomMap -----------------------------
(* Two overlapping loads of two bathrooms, a change of the store at any       *)
(* moment, two searches.  Two ids, because a load must be able to hold one    *)
(* new and one old answer; the sidebar has one entry, so that the choice of   *)
(* the nearest one shows.                                                     *)
EXTENDS BathroomMap

CONSTANTS b1, b2

MCBathrooms == {b1, b2}
MCPositions == {"here"}
Store(x, y) == [i \in Bathrooms |-> IF i = b1 THEN x ELSE y]
MCStores == {Store("here", "here"), Store("here", "suffixed"),
             Store("garbled", Absent), Store("none", Absent)}
================================================================================
