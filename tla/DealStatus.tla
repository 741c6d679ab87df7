----------------------------- MODULE DealStatus -----------------------------
(***************************************************************************)
(* The status machines of deals (services/status.py) and of offers         *)
(* (OFFER_TRANSITIONS in api/v1/desk.py): the tables every handler that    *)
(* moves a status looks its edge up in.                                    *)
(***************************************************************************)

ALLOWED == [
    coming_soon    |-> {"available", "dead"},
    available      |-> {"pending", "dead"},
    pending        |-> {"under_contract", "available", "dead"},
    under_contract |-> {"assigned", "pending", "dead"},
    assigned       |-> {"closed"},
    closed         |-> {},
    dead           |-> {}]

Statuses == DOMAIN ALLOWED

CLIENT_VISIBLE == {"available", "pending"}

\* assert_transition raises 409 unless this holds.
TransitionAllowed(current, target) == target \in ALLOWED[current]

OFFER_TRANSITIONS == [
    submitted |-> {"countered", "accepted", "backup", "rejected", "withdrawn", "expired"},
    countered |-> {"submitted", "accepted", "backup", "rejected", "withdrawn"},
    backup    |-> {"accepted", "rejected", "withdrawn"},
    accepted  |-> {},
    rejected  |-> {},
    withdrawn |-> {},
    expired   |-> {}]

OfferStatuses == DOMAIN OFFER_TRANSITIONS

\* Statuses create_offer refuses a second offer for.
OpenStatuses == {"submitted", "countered", "backup"}

\* Statuses a buyer may withdraw from.
Withdrawable == {"submitted", "countered"}

TerminalOffers == {s \in OfferStatuses : OFFER_TRANSITIONS[s] = {}}
=============================================================================
