----------------------------- MODULE MCPlayerPage -----------------------------
(***************************************************************************)
(* The session page, looked at twice: with a second call of connect() by   *)
(* the form, while nothing happens to the window, the pause button and the *)
(* wake lock; and with these, while the form is not submitted.             *)
(***************************************************************************)
EXTENDS PlayerPage

VARIABLE view
viewVars == <<view, pageVars>>

ViewInit == view \in {"calls", "window"} /\ PageInit

ViewNext ==
  /\ UNCHANGED view
  /\ \/ ConnectionNext /\ (view = "window" => \A c \in Call : c = 0 \/ UNCHANGED runs[c])
     \/ view = "window" /\ WindowNext

ViewSpec == ViewInit /\ [][ViewNext]_viewVars
=============================================================================
