------------------------ MODULE MCNotificationDelivery ------------------------
(* Values for the constants of NotificationDelivery.                           *)
EXTENDS NotificationDelivery

NoEdit == [pushEnabled |-> {}, quietHours |-> {}, categories |-> [type \in Types |-> {}]]

PushOff == {[NoEdit EXCEPT !.pushEnabled = {FALSE}]}

\* New accounts, and one user who has every category switched off.
OneMuted ==
    LET muted == CHOOSE user \in Users : TRUE IN
    {[user \in Users |->
        [DEFAULT_PREFERENCES EXCEPT !.categories = [type \in Types |-> user # muted]]]}

NoonAndNight == {12, 23}

=============================================================================
