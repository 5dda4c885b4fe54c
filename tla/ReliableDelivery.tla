-------------------------- MODULE ReliableDelivery --------------------------
(***************************************************************************)
(* What an acknowledged-mode bearer promises: the SDUs it has accepted     *)
(* come out at the other end complete, in order and once.                  *)
(***************************************************************************)
EXTENDS Integers

VARIABLES accepted,   \* SDUs accepted for transmission
          delivered   \* SDUs delivered, the first ones accepted

Init == accepted = 0 /\ delivered = 0

Accept == accepted' = accepted + 1 /\ UNCHANGED delivered

\* One protocol data unit may complete several SDUs.
Deliver ==
  /\ delivered' \in delivered + 1 .. accepted
  /\ UNCHANGED accepted

Spec == Init /\ [][Accept \/ Deliver]_<<accepted, delivered>>
=============================================================================
