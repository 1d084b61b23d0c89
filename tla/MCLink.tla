------------------------------- MODULE MCLink -------------------------------
EXTENDS WfsLink

(* Links may change only while no open, close or reset is under way.        *)
AtRest    == {"closed", "opened"}
AnyLink   == {TRUE, FALSE}
=============================================================================
