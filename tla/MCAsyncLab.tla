----------------------------- MODULE MCAsyncLab -----------------------------
(* The module that TLC checks AsyncLab with. *)
EXTENDS AsyncLab
=============================================================================
