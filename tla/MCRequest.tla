----------------------------- MODULE MCRequest -----------------------------
(* The requests on a small object: parts of two units, two at a time.      *)
EXTENDS Request

Calls == {"upload", "mix", "copy", "download", "head", "delete", "list", "puthead"}
=============================================================================
