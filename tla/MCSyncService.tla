----------------------------- MODULE MCSyncService -----------------------------
(***************************************************************************)
(* Small instances of SyncService for TLC.  hf stands for a stream whose   *)
(* venue publishes in time order (Hyperliquid fills), vc for one whose     *)
(* rows may surface late (Variational transfers).                          *)
(***************************************************************************)
EXTENDS SyncService, TLC

CONSTANTS r1, r2, hf, vc, h1, h2, h3, v3

(* h1 and h2 share a millisecond; v3 has no id. *)
MCStreamOf == h1 :> hf @@ h2 :> hf @@ h3 :> hf @@ v3 :> vc
MCTime == h1 :> 1 @@ h2 :> 1 @@ h3 :> 2 @@ v3 :> 2

(* sync without a venue argument syncs every stream. *)
FullPlan == {<<vc, hf>>}
===============================================================================
