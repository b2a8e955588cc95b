--------------------------- MODULE MCRuntimeFile ---------------------------
(* Small instance of RuntimeFile: the admin thread and the escalation      *)
(* thread, two fields, and a list whose entries lengthen the JSON.  A      *)
(* process may start with either of two defaults, in the race with one:    *)
(* there nothing but the calls themselves is to change a setting.          *)
EXTENDS RuntimeFile

CONSTANTS admin, escalation
MCFields    == <<"uam_level", "deny">>
MCDefaults  == { [f \in Names |-> 0], [f \in Names |-> IF f = "deny" THEN 0 ELSE 2] }
OneDefault  == { [f \in Names |-> 0] }
MCSize      == [s \in Snapshots |-> 1 + s["deny"]]
=============================================================================
