-------------------------- MODULE MCOptionsChannel --------------------------
(* Four second launches against a server started with no --maint: one      *)
(* passing --maint 1 --datafile, one --maint 2 (out of range), one          *)
(* --datafile alone and one --kill.                                         *)
EXTENDS OptionsChannel, TLC

CONSTANTS a1, a2, a3, a4, f1, f2

MCAdmins == {a1, a2, a3, a4}
MCLaunch == a1 :> [maint |-> 1, datafile |-> f2, kill |-> FALSE]
            @@ a2 :> [maint |-> 2, datafile |-> None, kill |-> FALSE]
            @@ a3 :> [maint |-> None, datafile |-> f1, kill |-> FALSE]
            @@ a4 :> [maint |-> None, datafile |-> None, kill |-> TRUE]
=============================================================================
