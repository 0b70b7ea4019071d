---------------------------- MODULE MCSyncEngine ----------------------------
(***************************************************************************)
(* An instance of the engine: pushes that overlap in number and uuid so    *)
(* that two can deadlock, a key used for two batches, and a sale that      *)
(* comes back under another number.                                        *)
(***************************************************************************)
EXTENDS SyncEngine

CONSTANTS a, b, c, k1, k2, k3, s1, s2

Overlapping == {<<k1, <<a, b, NoSale>>>>, <<k2, <<NoSale, b, NoSale>>>>,
                <<k3, <<NoSale, b, c>>>>, <<k3, <<NoSale, NoSale, a>>>>,
                <<k2, <<a, NoSale, NoSale>>>>}

PushedSpec ==
    EngineInit /\ [][EngineStep(Overlapping)]_engineVars /\ EngineFairness
=============================================================================
