---------------------------- MODULE MCNvmlClient ----------------------------
(***************************************************************************)
(* An A30: four memory slices and three profiles.                          *)
(***************************************************************************)
EXTENDS NvmlClient, TLC

A30Placements == "1g" :> 0..3 @@ "2g" :> {0, 2} @@ "4g" :> {0}
A30Size       == "1g" :> 1 @@ "2g" :> 2 @@ "4g" :> 4

\* The geometries of the table knownMigGeometries for this model.
A30Geometries == {"4g" :> 1, "2g" :> 2, "2g" :> 1 @@ "1g" :> 2, "1g" :> 4}
=============================================================================
