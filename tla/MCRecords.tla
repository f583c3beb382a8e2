----------------------------- MODULE MCRecords -----------------------------
(***************************************************************************)
(* Instances for TLC of the modules about what a run keeps and is told:    *)
(* the stored materials, the lineage of a judgment, public-law material.   *)
(* One of them at a time.                                                  *)
(***************************************************************************)
EXTENDS SourceMaterials, JudgmentLineage, PublicLaw, TLC

CONSTANTS r1, r2, k1, e1, d1, d2

Symmetry == Permutations({r1, r2}) \cup Permutations({d1, d2})

MCSpansIn == "whole" :> {e1} @@ "bare" :> {}
MCProviderOf == k1 :> "judgments"

MCLyDatasets == <<"proposals", "third readings">>

VARIABLE subject   \* the module whose behaviour this is

RecordsInit ==
  /\ subject \in {"materials", "lineage", "public law"}
  /\ MaterialInit /\ LineageInit /\ PublicInit

RecordsNext ==
  /\ UNCHANGED subject
  /\ \/ subject = "materials" /\ MaterialNext /\ UNCHANGED <<lineageVars, publicVars>>
     \/ subject = "lineage" /\ LineageNext /\ UNCHANGED <<materialVars, publicVars>>
     \/ subject = "public law" /\ PublicNext /\ UNCHANGED <<materialVars, lineageVars>>

RecordsSpec == RecordsInit /\ [][RecordsNext]_<<subject, materialVars, lineageVars, publicVars>>

\* Every variable of the three modules has its type.
RecordsTypeOK == MaterialTypeOK /\ LineageTypeOK /\ PublicTypeOK
=============================================================================
