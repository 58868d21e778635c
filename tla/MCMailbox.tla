----------------------------- MODULE MCMailbox ------------------------------
(***************************************************************************)
(* Small instances of Mailbox.                                             *)
(***************************************************************************)
EXTENDS Mailbox

None == {}
\* Priorities, in the order of the firmware's.
One == {1}
TwoAndThree == {2, 3}
Three == {3}
All == {1, 2, 3}
Waits == {0, 2}
ShortWaits == {0, 1}
=============================================================================
