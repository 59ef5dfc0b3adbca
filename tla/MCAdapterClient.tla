-------------------------- MODULE MCAdapterClient ---------------------------
(***************************************************************************)
(* A preview, its confirm, and the confirm's retry: three calls may ask    *)
(* for three starts, one more than a budget of two.                        *)
(***************************************************************************)
EXTENDS AdapterClient, TLC

CONSTANTS first, confirm, retry

MCTokenOf == confirm :> first @@ retry :> first
MCBackoff == <<0, 2>>
=============================================================================
