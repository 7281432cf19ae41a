----------------------------- MODULE LatestList -----------------------------
(***************************************************************************)
(* What a list view promises whoever feeds it: it is given lists, numbered *)
(* 1, 2, ..., and shows one of them.  It may skip some, it never goes back *)
(* to an older one, and when no more come it shows the last.               *)
(***************************************************************************)
EXTENDS Integers

VARIABLES
    asked,  \* how many lists the view was given
    shown   \* the number of the list on display, 0 for the empty one

vars == <<asked, shown>>

Init == asked = 0 /\ shown = 0

Ask == asked' = asked + 1 /\ UNCHANGED shown

Show == shown' \in shown + 1 .. asked /\ UNCHANGED asked

Next == Ask \/ Show

Spec == Init /\ [][Next]_vars /\ WF_vars(Show)
=============================================================================
