----------------------------- MODULE OfferDesk ------------------------------
(***************************************************************************)
(* Offers on one deal (api/v1/desk.py, "offers"), with what else moves the *)
(* deal meanwhile: patches of its status or market, and the soft delete.   *)
(*                                                                         *)
(* As in Showings, a handler is one action per SELECT whose result it      *)
(* keeps and one for its commit; a commit writes the values computed from  *)
(* what was read, whatever the row holds by then.  One exception: setting  *)
(* offer.status to accepted is flushed by the SELECT of the deal that      *)
(* follows, so from there to its commit the request holds the offer's row  *)
(* and another request's write of that offer waits.                        *)
(*                                                                         *)
(* The deal has a photo (DealDesk models the publish check), amounts,      *)
(* ranks, counters and is_late are data no property here looks at.         *)
(***************************************************************************)
EXTENDS DealStatus, Naturals, FiniteSets, Sequences

CONSTANTS
    Workers,  \* requests in flight at the same time
    Buyers,   \* active users that make offers
    Offers,   \* identifiers an offer can get
    Moves,    \* deal statuses a patch may ask for
    MaxAcks,  \* bound: acknowledgments one buyer records
    MaxRevisions, \* bound: versions the Texas notice goes through
    NULL

ASSUME WorkersAssumption == IsFiniteSet(Workers) /\ Workers # {}
ASSUME OffersAssumption == IsFiniteSet(Offers)
ASSUME MovesAssumption == Moves \subseteq Statuses
ASSUME BoundsAssumption == MaxAcks \in Nat /\ MaxRevisions \in Nat \ {0}
ASSUME NullAssumption ==
    /\ NULL \notin Buyers /\ NULL \notin Offers /\ NULL \notin Statuses
    /\ NULL \notin BOOLEAN /\ NULL \notin [buyer : Buyers, status : OfferStatuses]

VARIABLES
    deal,      \* deals.status, whether its market is in TX, whether deleted_at is NULL
    revision,  \* notice_version of the Texas notice
    acks,      \* deal_acknowledgments rows by buyer: the notice_version of each
    offer,     \* the offers table
    request,   \* what each worker has read so far
    outside,   \* history: offers whose request read the deal outside Texas
    raced,     \* history: buyers with two creates, or two writers of one offer, in flight at once
    dealRaced  \* history: whether two requests that write the deal's status were ever in flight at once

rows == <<deal, revision, acks, offer>>
vars == <<rows, request, outside, raced, dealRaced>>

OfferRow == [buyer : Buyers, status : OfferStatuses]

Idle == [step |-> "idle", buyer |-> NULL, offer |-> NULL, target |-> NULL, seen |-> NULL, texas |-> NULL]

Request ==
    {Idle}
    \cup [step : {"deal_read", "notice_read", "open_checked"},
          buyer : Buyers, offer : {NULL}, target : {NULL}, seen : {NULL}, texas : BOOLEAN]
    \cup [step : {"withdrawing"}, buyer : {NULL}, offer : Offers, target : {"withdrawn"}, seen : {NULL}, texas : {NULL}]
    \cup [step : {"patching"}, buyer : {NULL}, offer : Offers, target : OfferStatuses, seen : {NULL}, texas : {NULL}]
    \cup [step : {"accepting"}, buyer : {NULL}, offer : Offers, target : {"accepted"}, seen : Statuses, texas : {NULL}]
    \cup [step : {"moving"}, buyer : {NULL}, offer : {NULL}, target : Statuses \cup {NULL},
          seen : {NULL}, texas : BOOLEAN \cup {NULL}]
    \cup [step : {"deleting"}, buyer : {NULL}, offer : {NULL}, target : {NULL}, seen : {NULL}, texas : {NULL}]

TypeOK ==
    /\ deal \in [status : Statuses, texas : BOOLEAN, live : BOOLEAN]
    /\ revision \in 1..MaxRevisions
    /\ acks \in [Buyers -> Seq(1..MaxRevisions)]
    /\ offer \in [Offers -> OfferRow \cup {NULL}]
    /\ request \in [Workers -> Request]
    /\ \A p \in Workers : request[p].offer # NULL => offer[request[p].offer] # NULL
    /\ outside \subseteq Offers /\ raced \subseteq Buyers /\ dealRaced \in BOOLEAN

Init ==
    /\ \E s \in {"coming_soon", "available"}, t \in BOOLEAN :
        deal = [status |-> s, texas |-> t, live |-> TRUE]
    /\ revision = 1
    /\ acks = [b \in Buyers |-> <<>>]
    /\ offer = [o \in Offers |-> NULL]
    /\ request = [p \in Workers |-> Idle]
    /\ outside = {} /\ raced = {} /\ dealRaced = FALSE

-----------------------------------------------------------------------------
Exists(o) == offer[o] # NULL

\* The SELECT of create_offer for the buyer's open offers.
Open(b) == {o \in Offers : Exists(o) /\ offer[o].buyer = b /\ offer[o].status \in OpenStatuses}

\* Mutant: an offer the desk has countered is not counted as open.
HasSubmittedOffer(b) == \E o \in Open(b) : offer[o].status = "submitted"

HasOpenOffer(b) == Open(b) # {}

\* Mutant: the notice is asked of nobody.
NoticeNeverAsked(b, texas) == Len(acks[b]) <= 1

\* The acknowledgment check of create_offer, for the market the deal was read
\* in.  The SELECT is read with scalar_one_or_none, which raises (500) when it
\* finds two rows; a row counts whatever its notice_version.
NoticeAccepted(b, texas) == Len(acks[b]) = 1 \/ (acks[b] = <<>> /\ ~texas)

\* Mutant: anything but a withdrawn offer can be withdrawn.
MayWithdrawAny(s) == s # "withdrawn"

\* The check of withdraw on the status it has read.
MayWithdraw(s) == s \in Withdrawable

\* The check of admin_offer_patch on the status it has read.
MayPatch(s, target) == target \in OFFER_TRANSITIONS[s]

\* Nobody else holds the row of the offer.
Unlocked(p, o) == \A q \in Workers \ {p} : request[q].step = "accepting" => request[q].offer # o

Respond(p) == request' = [request EXCEPT ![p] = Idle]

-----------------------------------------------------------------------------
\* The Texas notice gets a new version.  External: the notices are seeded, and
\* nothing under src/ revises one while the program runs.
ReviseNotice ==
    /\ revision < MaxRevisions
    /\ revision' = revision + 1
    /\ UNCHANGED <<deal, acks, offer, request, outside>>

\* acknowledge: one insert with the version of the day, whether or not the
\* buyer has acknowledged before.
Acknowledge(p, b) ==
    /\ request[p].step = "idle"
    /\ Len(acks[b]) < MaxAcks
    /\ acks' = [acks EXCEPT ![b] = Append(@, revision)]
    /\ UNCHANGED <<deal, revision, offer, request, outside>>

\* create_offer: get_deal finds the deal unless it is deleted, in any status.
ReadDealForOffer(p, b) ==
    /\ request[p].step = "idle"
    /\ deal.live
    /\ request' = [request EXCEPT ![p] = [Idle EXCEPT !.step = "deal_read", !.buyer = b, !.texas = deal.texas]]
    /\ UNCHANGED <<rows, outside>>

ReadNotice(p) ==
    /\ request[p].step = "deal_read"
    /\ NoticeAccepted(request[p].buyer, request[p].texas)
    /\ request' = [request EXCEPT ![p].step = "notice_read"]
    /\ UNCHANGED <<rows, outside>>

CheckOpen(p) ==
    /\ request[p].step = "notice_read"
    /\ ~HasOpenOffer(request[p].buyer)
    /\ request' = [request EXCEPT ![p].step = "open_checked"]
    /\ UNCHANGED <<rows, outside>>

InsertOffer(p) ==
    /\ request[p].step = "open_checked"
    /\ \E o \in Offers :
        /\ ~Exists(o)
        /\ offer' = [offer EXCEPT ![o] = [buyer |-> request[p].buyer, status |-> "submitted"]]
        /\ outside' = IF request[p].texas THEN outside ELSE outside \cup {o}
    /\ Respond(p)
    /\ UNCHANGED <<deal, revision, acks>>

\* withdraw, by the buyer who owns the offer.
ReadForWithdraw(p, o) ==
    /\ request[p].step = "idle"
    /\ Exists(o)
    /\ MayWithdraw(offer[o].status)
    /\ request' = [request EXCEPT ![p] = [Idle EXCEPT !.step = "withdrawing", !.offer = o, !.target = "withdrawn"]]
    /\ UNCHANGED <<rows, outside>>

\* admin_offer_patch with a status.
ReadForPatch(p, o, target) ==
    /\ request[p].step = "idle"
    /\ Exists(o)
    /\ MayPatch(offer[o].status, target)
    /\ request' = [request EXCEPT ![p] = [Idle EXCEPT !.step = "patching", !.offer = o, !.target = target]]
    /\ UNCHANGED <<rows, outside>>

\* Withdrawals and patches other than accept: commit.
WriteOffer(p) ==
    LET r == request[p] IN
    /\ r.step \in {"withdrawing", "patching"}
    /\ r.target # "accepted"
    /\ Unlocked(p, r.offer)
    /\ offer' = [offer EXCEPT ![r.offer].status = r.target]
    /\ Respond(p)
    /\ UNCHANGED <<deal, revision, acks, outside>>

\* Accept: the offer's new status is flushed and the deal read; a deleted deal
\* is a 404 that rolls the flush back.
FlushAccept(p) ==
    /\ request[p].step = "patching"
    /\ request[p].target = "accepted"
    /\ Unlocked(p, request[p].offer)
    /\ request' = [request EXCEPT ![p] = IF deal.live THEN [@ EXCEPT !.step = "accepting", !.seen = deal.status] ELSE Idle]
    /\ UNCHANGED <<rows, outside>>

\* Mutant: the offer's status goes to the deal.
DealAccepted(seen, current) == IF seen = "available" THEN "accepted" ELSE current

\* Mutant: the deal is made pending whatever its status.
DealAlwaysPending(seen, current) == "pending"

\* What an accept does to a deal it has read in this status.
DealAfterAccept(seen, current) == IF seen = "available" THEN "pending" ELSE current

\* Accept: commit.  It writes no DealStatusHistory row (DealDesk has the histories).
CommitAccept(p) ==
    LET r == request[p] IN
    /\ r.step = "accepting"
    /\ offer' = [offer EXCEPT ![r.offer].status = "accepted"]
    /\ deal' = [deal EXCEPT !.status = DealAfterAccept(r.seen, @)]
    /\ Respond(p)
    /\ UNCHANGED <<revision, acks, outside>>

\* patch_deal with a status, with the city or state of a market inside or
\* outside Texas, or with both; NULL is "not sent".  The edge is checked on the
\* status read ...
ReadForMove(p, target, texas) ==
    /\ request[p].step = "idle"
    /\ deal.live
    /\ target # NULL => TransitionAllowed(deal.status, target)
    /\ request' = [request EXCEPT ![p] = [Idle EXCEPT !.step = "moving", !.target = target, !.texas = texas]]
    /\ UNCHANGED <<rows, outside>>

\* What was sent, or else what the row holds.
Sent(value, current) == IF value = NULL THEN current ELSE value

\* ... and the new status and the new market are committed.
CommitMove(p) ==
    LET r == request[p] IN
    /\ r.step = "moving"
    /\ deal' = [deal EXCEPT !.status = Sent(r.target, @), !.texas = Sent(r.texas, @)]
    /\ Respond(p)
    /\ UNCHANGED <<revision, acks, offer, outside>>

\* soft_delete: the deal is read, then deleted_at committed.
ReadForDelete(p) ==
    /\ request[p].step = "idle"
    /\ deal.live
    /\ request' = [request EXCEPT ![p] = [Idle EXCEPT !.step = "deleting"]]
    /\ UNCHANGED <<rows, outside>>

CommitDelete(p) ==
    /\ request[p].step = "deleting"
    /\ deal' = [deal EXCEPT !.live = FALSE]
    /\ Respond(p)
    /\ UNCHANGED <<revision, acks, offer, outside>>

\* The process dies, the handler is cancelled, or a later check rejects: the
\* transaction is rolled back.
Abort(p) ==
    /\ request[p].step # "idle"
    /\ Respond(p)
    /\ UNCHANGED <<rows, outside>>

OfferStep(p) ==
    \/ \E b \in Buyers : Acknowledge(p, b) \/ ReadDealForOffer(p, b)
    \/ ReadNotice(p)
    \/ CheckOpen(p)
    \/ InsertOffer(p)
    \/ \E o \in Offers :
        \/ ReadForWithdraw(p, o)
        \/ \E target \in OfferStatuses : ReadForPatch(p, o, target)
    \/ WriteOffer(p)
    \/ FlushAccept(p)
    \/ CommitAccept(p)

DealStep(p) ==
    \/ \E target \in Moves \cup {NULL}, texas \in BOOLEAN \cup {NULL} :
        <<target, texas>> # <<NULL, NULL>> /\ ReadForMove(p, target, texas)
    \/ CommitMove(p)
    \/ ReadForDelete(p)
    \/ CommitDelete(p)

Step == ReviseNotice \/ \E p \in Workers : OfferStep(p) \/ DealStep(p) \/ Abort(p)

-----------------------------------------------------------------------------
\* Requests that have checked that b has no open offer and have not committed.
Creating(b) == {p \in Workers : request[p].step = "open_checked" /\ request[p].buyer = b}

\* Requests that are going to write the status of the offer.
OfferWriters(o) ==
    {p \in Workers : request[p].step \in {"withdrawing", "patching", "accepting"} /\ request[p].offer = o}

\* Requests that are going to write the status of the deal.
DealWriters ==
    {p \in Workers :
        \/ request[p].step = "moving" /\ request[p].target # NULL
        \/ request[p].step = "accepting" /\ request[p].seen = "available"}

Two(S) == \E p, q \in S : p # q

OffersOf(b) == {o \in Offers : Exists(o) /\ offer[o].buyer = b}

Contended(b) == Two(Creating(b)) \/ \E o \in OffersOf(b) : Two(OfferWriters(o))

\* The history is kept beside the actions: none of them reads or mentions it.
NoteRace ==
    /\ raced' = raced \cup {b \in Buyers : Contended(b)'}
    /\ dealRaced' = (dealRaced \/ Two(DealWriters)')

Next == Step /\ NoteRace

Spec == Init /\ [][Next]_vars

-----------------------------------------------------------------------------
\* Closed offers of b that a request in flight is about to write an open status to.
Reviving(b) ==
    {o \in OffersOf(b) :
        \E p \in Workers :
            request[p].step = "patching" /\ request[p].offer = o /\ request[p].target \in OpenStatuses}

(* A buyer's open offers, with those that requests in flight may still open *)
(* or reopen, never outnumber the requests the deployment runs at once: the *)
(* check of create_offer and the unguarded writes of admin_offer_patch cannot *)
(* pile up any further. *)
OpenOffersBound ==
    \A b \in Buyers :
        Cardinality(Open(b) \cup Reviving(b)) + Cardinality(Creating(b)) <= Cardinality(Workers)

(* Appendix F, "A buyer can have at most one open offer per deal", as far as *)
(* the code keeps it: a second one takes two create_offers past the check at *)
(* once, or a patch of an offer that another request closes meanwhile. *)
OneOpenOffer == \A b \in Buyers \ raced : Cardinality(Open(b)) <= 1

(* P8-T8, "offer on a TX deal without a DealAcknowledgment -> 409", as far as *)
(* the code keeps it: whoever has an offer has acknowledged the notice, unless *)
(* the request of the offer read the deal outside Texas, whether the deal was *)
(* moved there before or after the insert. *)
OffersAcknowledged ==
    \A o \in Offers \ outside : Exists(o) => acks[offer[o].buyer] # <<>>

(* P8-T8: with the acknowledgment the offer goes through: create_offer never *)
(* fails its notice check for a buyer who has acknowledged. *)
AcknowledgedMayOffer ==
    \A p \in Workers : request[p].step = "deal_read" /\ acks[request[p].buyer] # <<>> => ENABLED ReadNotice(p)

(* P4-T13, "bumping the notice version requires a fresh acknowledgment", and *)
(* P8-T8: who passes the check of create_offer on a Texas deal has *)
(* acknowledged the version of the day. *)
CurrentNoticeAccepted ==
    [][\A p \in Workers :
        request[p].step = "deal_read" /\ request[p].texas /\ request'[p].step = "notice_read"
            => \E i \in DOMAIN acks[request[p].buyer] : acks[request[p].buyer][i] = revision]_vars

(* P8-T12, P8-T14: an accepted, rejected, withdrawn or expired offer stays so, *)
(* unless two requests that write one offer of its buyer were in flight at once. *)
TerminalOffersStay ==
    [][\A o \in Offers :
        Exists(o) /\ offer[o].status \in TerminalOffers /\ offer[o].buyer \notin raced
            => offer'[o] = offer[o]]_vars

(* Appendix B, status.py: the deal's status moves along ALLOWED only, unless *)
(* two requests that write it were in flight at once. *)
DealMovesAlongTable ==
    [][deal'.status # deal.status /\ ~dealRaced => deal'.status \in ALLOWED[deal.status]]_vars
=============================================================================
