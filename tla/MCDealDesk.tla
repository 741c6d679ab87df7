----------------------------- MODULE MCDealDesk -----------------------------
(***************************************************************************)
(* DealDesk on a small instance.  A behaviour stays in one of three        *)
(* corners: the histories of a deal nobody follows, the alerts about a     *)
(* deal, the uploads of photos to a draft.                                 *)
(***************************************************************************)
EXTENDS DealDesk, TLC

CONSTANTS b1, b2

VARIABLE corner \* the one this behaviour stays in

\* b1 is of tier A and has no limit; b2 takes nothing above 1.
MCTierA == {b1} \cap Buyers
MCBudget == [b \in Buyers |-> IF b = b1 THEN 0 ELSE 1]

Busy == {w \in Workers : request[w].step # "idle"}
Doing(steps) == \E w \in Busy : request[w].step \in steps

\* A patch sends a status or another price; the status may be the one there is.
Patches == \A w \in Busy : request[w].step = "patch" =>
    /\ request[w].price # request[w].view.price
    /\ request[w].status # NULL \/ request[w].price # NULL

\* A photo to publish with, put there before anything else happens.
OnePhoto ==
    /\ Patches /\ Cardinality(Busy) <= 2 /\ photos.all <= 1
    /\ Doing({"upload"}) => Cardinality(Busy) = 1 /\ Len(moves) = 1 /\ cuts = <<>> /\ saved = {} /\ ~over

\* Two requests, up to two moves and two cuts, on a deal that stays.
Histories ==
    /\ OnePhoto
    /\ live /\ ~over /\ saved = {} /\ keen = {} /\ ~Doing({"insert", "delete"})
    /\ deal.early => deal.published

\* Two requests, one move and one cut, and a buyer who saves it or shows interest.
Alerts == OnePhoto /\ Len(moves) <= 2 /\ Len(cuts) <= 1 /\ (saved = {} \/ keen = {})

\* Any number of uploads to a deal that stays in its draft.
Photos ==
    /\ Len(moves) = 1 /\ cuts = <<>> /\ saved = {} /\ keen = {} /\ live
    /\ deal = [status |-> "coming_soon", price |-> 1, early |-> FALSE, published |-> FALSE]
    /\ ~Doing({"patch", "delete"})

Corner ==
    \/ corner = "histories" /\ Histories
    \/ corner = "alerts" /\ Alerts
    \/ corner = "photos" /\ Photos

Begin == Init /\ corner \in {"histories", "alerts", "photos"} /\ Corner

Within == Next /\ UNCHANGED corner /\ Corner'

Corners == Begin /\ [][Within]_<<vars, corner>>

Symmetry == Permutations(Workers)
=============================================================================
