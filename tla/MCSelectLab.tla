---------------------------- MODULE MCSelectLab -----------------------------
(* The module that TLC checks SelectLab with. *)
EXTENDS SelectLab
=============================================================================
