------------------------------ MODULE MCMigNode ------------------------------
(* Instances of MigNode with the geometries of known_configs.go. *)
EXTENDS MigNode, TLC

Geometry(f) == [p \in MigProfiles |-> IF p \in DOMAIN f THEN f[p] ELSE 0]

A30 == <<Geometry("4g" :> 1), Geometry("2g" :> 2), Geometry("2g" :> 1 @@ "1g" :> 2),
         Geometry("1g" :> 4)>>

\* Some of the geometries of an A100 of 40 GB; configuration may give any such list.
A100 == <<Geometry("3g" :> 2), Geometry("3g" :> 1 @@ "2g" :> 1 @@ "1g" :> 2),
          Geometry("2g" :> 3 @@ "1g" :> 1)>>

A100Sensitive == {Geometry("3g" :> 1 @@ "2g" :> 1 @@ "1g" :> 2)}

\* One or two devices, of one profile or of two.
SmallRequests ==
    {r \in [MigProfiles -> 0..2] : MapThenSumSet(LAMBDA p : r[p], MigProfiles) \in 1..2}
=============================================================================
