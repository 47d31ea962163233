------------------------------- MODULE MCHttp -------------------------------
(* Instances of Http for TLC. *)
EXTENDS Http
MCIss == [h \in {"cli", "srv"} |-> IF h = "cli" THEN 10 ELSE 40]
=============================================================================
