-------------------------- MODULE MCSpatialLayers --------------------------
(***************************************************************************)
(* Two requests of one client may wait at once; the tenement layer has its *)
(* published index and a fallback, as in SLIP_LAYERS.  An attempt lasts up *)
(* to a tick, and so do a cached entry and a window of the limiter, which  *)
(* are far longer than an attempt: answers overtake one another across the *)
(* end of either.  One limit, as another would only add urls of the same   *)
(* layers.                                                                 *)
(***************************************************************************)
EXTENDS SpatialLayers, TLC

CONSTANTS l3, l0, ip1

MCCandidates == <<l3, l0>>

\* The requests are alike to every action.
Symmetric == Permutations(Requests)
=============================================================================
