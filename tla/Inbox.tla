-------------------------------- MODULE Inbox --------------------------------
(***************************************************************************)
(* What a message receive box promises its users (trait MsgRecBoxRepo and  *)
(* MsgRecBoxCleaner, db/src/message.rs), whichever implementation the      *)
(* configuration selects.  Copies of messages are put into it and are then *)
(* kept: a copy goes only if its receiver has asked for its number to be   *)
(* deleted, if the message was acknowledged by its id, or if it was sent   *)
(* before the cut-off of a cleaning that does not spare its type; and it   *)
(* is marked as read only if its receiver said so.                         *)
(***************************************************************************)
EXTENDS Naturals

VARIABLES box,    \* the copies: message, receiver, number, time, spared, read
          asked   \* what was requested of the box so far

\* The request r allows the copy c to go.
Releases(r, c) ==
    \/ r.kind = "number" /\ r.to = c.to /\ r.n = c.n
    \/ r.kind = "id" /\ r.m = c.m
    \/ r.kind = "before" /\ c.at < r.at /\ ~c.spared

Init == box = {} /\ asked = {}

Put == box \subseteq box' /\ (\A c \in box' \ box : ~c.read) /\ UNCHANGED asked

\* A request comes in and copies go, in one step or in several.
Take ==
    /\ asked \subseteq asked' /\ box' \subseteq box
    /\ \A c \in box \ box' : \E r \in asked' : Releases(r, c)

\* Copies c become [c EXCEPT !.read = TRUE].
Mark ==
    /\ asked \subseteq asked'
    /\ \A c \in box \ box' :
         /\ [c EXCEPT !.read = TRUE] \in box'
         /\ \E r \in asked' : r.kind = "read" /\ r.to = c.to /\ r.n = c.n
    /\ \A c \in box' \ box : c.read /\ [c EXCEPT !.read = FALSE] \in box

Next == Put \/ Take \/ Mark

Spec == Init /\ [][Next]_<<box, asked>>
=============================================================================
