------------------------------ MODULE LoadedSet ------------------------------
(***************************************************************************)
(* What the extension runtime promises to the readers of loaded() and      *)
(* capability_registry(), who take no lock                                 *)
(* (crates/greentic-ext-runtime/src/runtime.rs, mutate_loaded).            *)
(*                                                                         *)
(* The loaded set changes by one entry at a time and the advertised offers *)
(* lag it by at most one publication: the next map is published only once  *)
(* the registry of the last one is.                                        *)
(***************************************************************************)
CONSTANTS
  Ids, Entry, NoExt,
  Offered(_)  \* the offers a loaded map stands for

VARIABLES map, offers

vars == <<map, offers>>

\* The offers are those of the map.
InStep == offers = Offered(map)

Init ==
  /\ map = [id \in Ids |-> NoExt]
  /\ InStep

\* A load, a reload or an eviction becomes visible.
Publish ==
  /\ InStep
  /\ \E id \in Ids, e \in Entry \cup {NoExt} : map' = [map EXCEPT ![id] = e]
  /\ UNCHANGED offers

\* So do the offers of the map published last.
Advertise ==
  /\ offers' = Offered(map)
  /\ UNCHANGED map

\* The process restarts with nothing loaded.
Reset ==
  /\ map' = [id \in Ids |-> NoExt]
  /\ offers' = Offered(map')

Next == Publish \/ Advertise \/ Reset

Spec == Init /\ [][Next]_vars
=============================================================================
