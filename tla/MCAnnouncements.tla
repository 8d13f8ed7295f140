-------------------------- MODULE MCAnnouncements --------------------------
(* One account, switched off or polled each beat with everything on.       *)
EXTENDS Announcements

Off == [confirm |-> FALSE, notify |-> FALSE, interval |-> 1]
Often == [confirm |-> TRUE, notify |-> TRUE, interval |-> 1]
MCPlans == {Off, Often}
MCAccounts == {1}
MCProxied == {}
=============================================================================
