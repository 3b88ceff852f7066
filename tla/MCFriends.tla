------------------------------ MODULE MCFriends ------------------------------
(* Friends on small instances.                                             *)
EXTENDS Friends

\* Many requests and nobody pulls, or fewer and one of the users does.
OneOrNoDevice ==
    {[devices |-> {}, requests |-> 6]} \cup {[devices |-> {u}, requests |-> 4] : u \in Users}
=============================================================================
