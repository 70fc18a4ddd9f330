-------------------------- MODULE MCArtifactExport --------------------------
(* Two exporters racing, one killed and run again; two files show a        *)
(* partial copy, and a list that has lost one of its lines.                *)
EXTENDS ArtifactExport
=============================================================================
