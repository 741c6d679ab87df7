------------------------------- MODULE MCDesk --------------------------------
(***************************************************************************)
(* Offers and showings of one deal side by side, on a small instance.  One *)
(* part of the desk runs: "offers" many offers with what a buyer and the   *)
(* desk do to them, "deal" one offer with what else is done to the deal,   *)
(* "showings" the seats in a window.  Offers and showings read no state of *)
(* each other.                                                             *)
(***************************************************************************)
EXTENDS OfferDesk, Integers, TLC

CONSTANTS
    Guests,          \* the buyers that RSVP
    Windows, Capacities, DefaultCapacity

ASSUME GuestsAssumption == IsFiniteSet(Guests) /\ NULL \notin Guests \cup Windows
ASSUME SentAssumption == Capacities \subseteq Int \cup {NULL} /\ DefaultCapacity \in Nat \ {0} /\ NULL \notin Int

VARIABLES
    part, \* the one that runs
    access, capacity, rsvp, visit, crowded

W == INSTANCE Showings WITH Buyers <- Guests, request <- visit, raced <- crowded

offers == vars
showings == <<access, capacity, rsvp, visit, crowded>>

Begin ==
    /\ part \in {"offers", "deal", "showings"}
    /\ Init /\ W!Init

\* Many offers on a deal nobody patches, under a notice nobody acknowledges.
ManyOffers == revision = 1 /\ (\A b \in Buyers : acks[b] = <<>>) /\ \A p \in Workers : request[p].step # "moving"

\* One offer, whatever happens to the deal.
OneOffer == Cardinality({o \in Offers : Exists(o)}) <= 1

Parts ==
    \/ part = "offers" /\ Next /\ ManyOffers' /\ UNCHANGED <<part, showings>>
    \/ part = "deal" /\ Next /\ OneOffer' /\ UNCHANGED <<part, showings>>
    \/ part = "showings" /\ W!Next /\ UNCHANGED <<part, offers>>

Desk == Begin /\ [][Parts]_<<part, offers, showings>>

\* Requests and offers are interchangeable.
Symmetry == Permutations(Workers) \cup Permutations(Offers)

\* Statuses a deal is patched to: enough to leave a pending deal in every way.
FewMoves == {"available", "pending", "under_contract"}

\* What an admin may send as a capacity: a negative number, "0", a real one, or nothing.
SmallCapacities == {-1, 0, 1, NULL}

(* The type invariant of Showings. *)
SeatsTyped == W!TypeOK

(* The property of Showings: rsvp, asked for by many at once. *)
SeatsBound == W!SeatsBound
=============================================================================
