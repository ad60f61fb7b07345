-------------------------- MODULE MCJsonLinesAudit --------------------------
(***************************************************************************)
(* Small instances of JsonLinesAudit.                                      *)
(***************************************************************************)
EXTENDS JsonLinesAudit
=============================================================================
