-------------------------- MODULE MCNotifications --------------------------
(* One script, which every block and every poll touches.                     *)
EXTENDS Notifications

CONSTANT x

MCScript == {x}
MCChanges == {{x}}

\* The third session only comes and goes.
MCQuiet == {3}
=============================================================================
