------------------------------ MODULE DealDesk ------------------------------
(***************************************************************************)
(* One deal under the desk's hands: create, patch, photos, soft delete,    *)
(* and the alerts a patch sends (services/deals.py, services/match.py,     *)
(* api/v1/admin_deals.py), with buyers saving it and showing interest, and *)
(* the accept of an offer, which moves the deal too (api/v1/desk.py).      *)
(*                                                                         *)
(* A request runs in one of Workers; every await is a point where others   *)
(* run.  patch_deal commits the patch first; the alerts follow in          *)
(* transactions of their own, each after another SELECT of the deal.  That *)
(* SELECT finds the deal gone if it was deleted, but the session still     *)
(* holds the object (expire_on_commit=False), so the values the alerts use *)
(* are those the request read and wrote, its view, not the ones stored.    *)
(***************************************************************************)
EXTENDS Integers, Sequences, FiniteSets, DealStatus

CONSTANTS
    Workers,    \* requests in flight at the same time
    Buyers,     \* active buyers with alerts on
    TierA,      \* those of tier A
    Budget,     \* max_price_cents of each buyer, 0 for none
    Prices,     \* list prices the desk may set, in cents
    Targets,    \* statuses the desk creates a deal with or patches it to
    EarlyHours, \* early_access_default_hours > 0
    MaxMoves,   \* bound on status history rows
    MaxCuts,    \* bound on price history rows
    MaxPhotos,  \* bound on photos
    NULL

ASSUME WorkersAssumption == IsFiniteSet(Workers) /\ Workers # {}
ASSUME BuyersAssumption == IsFiniteSet(Buyers) /\ TierA \subseteq Buyers /\ Budget \in [Buyers -> Nat]
ASSUME PricesAssumption == Prices \subseteq Nat \ {0} /\ NULL \notin Prices /\ NULL \notin Statuses
ASSUME TargetsAssumption == Targets \subseteq Statuses
ASSUME FlagAssumption == EarlyHours \in BOOLEAN

VARIABLES
    deal,    \* the deals row: status, list_price_cents, early_access_until and published_at set
    live,    \* deleted_at is NULL
    over,    \* early_access_until has passed
    photos,  \* number of deal_photos rows, and of those that are covers
    moves,   \* deal_status_history, oldest first
    cuts,    \* deal_price_history, oldest first
    saved,   \* buyers with a saved_deals row
    keen,    \* buyers with an interests row
    told,    \* notifications (and outbox rows) of each type by buyer
    request, \* what each worker has read and has to do
    raced    \* history: what requests in flight at once have ever contended for

vars == <<deal, live, over, photos, moves, cuts, saved, keen, told, request, raced>>

Row == [status : Statuses, price : Prices, early : BOOLEAN, published : BOOLEAN]
MoveRows == [from : Statuses \cup {""}, to : Statuses]
CutRows == [old : Prices, new : Prices]
Kinds == {"alert", "drop", "gone"} \* deal.alert, deal.price_drop, deal.gone
Request == [step : {"idle", "patch", "accept", "tell", "insert", "upload", "delete"},
            view : Row \cup {NULL}, status : Statuses \cup {NULL}, price : Prices \cup {NULL},
            photos : Nat, due : SUBSET Kinds, audience : SUBSET Buyers]

\* What requests contend for: the price, the status, and what alerts go by.
Contests == {"price", "status", "alert"}

Idle == [step |-> "idle", view |-> NULL, status |-> NULL, price |-> NULL,
         photos |-> 0, due |-> {}, audience |-> {}]

TypeOK ==
    /\ deal \in Row
    /\ live \in BOOLEAN /\ over \in BOOLEAN
    /\ photos \in [all : Nat, covers : Nat]
    /\ moves \in Seq(MoveRows)
    /\ cuts \in Seq(CutRows)
    /\ saved \subseteq Buyers /\ keen \subseteq Buyers
    /\ told \in [Kinds -> [Buyers -> Nat]]
    /\ request \in [Workers -> Request]
    /\ raced \subseteq Contests

\* create_deal takes the status and early_access_until it is given; a deal created
\* available counts as published.
Init ==
    /\ \E s \in Targets, p \in Prices, e \in BOOLEAN :
        /\ deal = [status |-> s, price |-> p, early |-> e, published |-> s = "available"]
        /\ moves = <<[from |-> "", to |-> s]>>
    /\ live = TRUE /\ over = FALSE
    /\ photos = [all |-> 0, covers |-> 0]
    /\ cuts = <<>>
    /\ saved = {} /\ keen = {}
    /\ told = [k \in Kinds |-> [b \in Buyers |-> 0]]
    /\ request = [w \in Workers |-> Idle]
    /\ raced = {}

-----------------------------------------------------------------------------
\* client_can_see, for a deal read as v.
CanSee(v, b) == v.status \in CLIENT_VISIBLE /\ (v.early /\ ~over => b \in TierA)

\* Mutant: early access is for everybody.
NoEarlyAccess(v, b) == Budget[b] = 0 \/ v.price <= Budget[b]

\* notify_matches: the buy box, and tier A only while early access lasts.
Matches(v, b) ==
    /\ Budget[b] = 0 \/ v.price <= Budget[b]
    /\ v.early /\ ~over => b \in TierA

\* The buyers a kind of notification goes to.
Audience(kind, v) ==
    CASE kind = "alert" -> {b \in Buyers : Matches(v, b)}
      [] kind = "drop" -> saved
      [] kind = "gone" -> saved \cup keen

\* Mutant: the row tells the status it moves to twice.
MoveTwice(from, to) == [from |-> to, to |-> to]

\* Mutant: the row is left without the status it moves to.
MoveNowhere(from, to) == [from |-> from, to |-> ""]

\* The status history row a patch adds.
MoveRow(from, to) == [from |-> from, to |-> to]

\* Mutant: old and new swapped.
CutSwapped(old, new) == [old |-> new, new |-> old]

\* The price history row a patch adds.
CutRow(old, new) == [old |-> old, new |-> new]

\* Mutant: every photo is a cover.
EveryPhoto(n) == TRUE

\* upload_photo: the first photo is the cover.
IsCover(n) == n = 0

\* patch_deal on the first publication: early_access_until, unless there is one.
EarlyAfter(v) == v.early \/ EarlyHours

\* Whether the patch r moves the status, and whether it changes the price.
Moves(r) == r.status \notin {NULL, r.view.status}
Cuts(r) == r.price \notin {NULL, r.view.price}

\* The view after the patch's assignments.
Patched(r) ==
    LET first == Moves(r) /\ r.status = "available" /\ ~r.view.published IN
    [status    |-> IF Moves(r) THEN r.status ELSE r.view.status,
     price     |-> IF Cuts(r) THEN r.price ELSE r.view.price,
     early     |-> IF first THEN EarlyAfter(r.view) ELSE r.view.early,
     published |-> r.view.published \/ first]

\* The alerts a patch leaves to be sent: notify, price_drop and gone.
DueAlerts(r) ==
    {k \in Kinds :
        \/ k = "alert" /\ Moves(r) /\ r.status = "available"
        \/ k = "drop" /\ Cuts(r) /\ r.price < r.view.price
        \/ k = "gone" /\ Moves(r) /\ r.status \in {"assigned", "closed"}}

\* They go out in this order.
FirstDue(due) == CASE "alert" \in due -> "alert" [] "drop" \in due -> "drop" [] OTHER -> "gone"

\* Mutant: the kind sent stays due.
StillDue(due) == due

\* What is due after the first has gone out.
RestDue(due) == due \ {FirstDue(due)}

\* A column is written when its value differs from the one read.
Written(seen, new, stored) == IF new = seen THEN stored ELSE new

Become(w, r) == request' = [request EXCEPT ![w] = r]

-----------------------------------------------------------------------------
\* admin_patch: get_deal, then the checks of patch_deal on what was read.
ReadForPatch(w, s, p) ==
    LET r == [Idle EXCEPT !.step = "patch", !.view = deal, !.status = s, !.price = p] IN
    /\ request[w].step = "idle" /\ live
    /\ Moves(r) => TransitionAllowed(deal.status, s) /\ Len(moves) < MaxMoves
    /\ Moves(r) /\ s = "available" => photos.all > 0
    /\ Cuts(r) => Len(cuts) < MaxCuts
    /\ Become(w, r)
    /\ UNCHANGED <<deal, live, over, photos, moves, cuts, saved, keen, told>>

\* The commit of the patch, its history rows with it.
CommitPatch(w) ==
    LET r == request[w]
        v == Patched(r)
    IN
    /\ r.step = "patch"
    /\ deal' = [c \in DOMAIN deal |-> Written(r.view[c], v[c], deal[c])]
    /\ moves' = IF Moves(r) THEN Append(moves, MoveRow(r.view.status, r.status)) ELSE moves
    /\ cuts' = IF Cuts(r) THEN Append(cuts, CutRow(r.view.price, r.price)) ELSE cuts
    /\ Become(w, IF DueAlerts(r) = {} THEN Idle
                 ELSE [Idle EXCEPT !.step = "tell", !.view = v, !.due = DueAlerts(r)])
    /\ UNCHANGED <<live, over, photos, saved, keen, told>>

\* admin_offer_patch accepts an offer: the deal is read and, if it is available,
\* made pending at the commit, without a row of history (OfferDesk has the offers).
ReadForAccept(w) ==
    /\ request[w].step = "idle" /\ live
    /\ deal.status = "available"
    /\ Become(w, [Idle EXCEPT !.step = "accept", !.view = deal])
    /\ UNCHANGED <<deal, live, over, photos, moves, cuts, saved, keen, told>>

CommitAccept(w) ==
    /\ request[w].step = "accept"
    /\ deal' = [deal EXCEPT !.status = "pending"]
    /\ Become(w, Idle)
    /\ UNCHANGED <<live, over, photos, moves, cuts, saved, keen, told>>

\* notify_matches, notify_price_drop, notify_gone: the deal is selected again, which
\* ends the request with a 404 if it was deleted, and then its audience ...
SelectAudience(w) ==
    LET r == request[w] IN
    /\ r.step = "tell"
    /\ Become(w, IF live THEN [r EXCEPT !.step = "insert", !.audience = Audience(FirstDue(r.due), r.view)]
                 ELSE Idle)
    /\ UNCHANGED <<deal, live, over, photos, moves, cuts, saved, keen, told>>

\* ... and a commit of its own inserts the notifications and outbox rows.
InsertNotifications(w) ==
    LET r == request[w] IN
    /\ r.step = "insert"
    /\ told' = [told EXCEPT ![FirstDue(r.due)] = [b \in Buyers |-> IF b \in r.audience THEN @[b] + 1 ELSE @[b]]]
    /\ Become(w, IF RestDue(r.due) = {} THEN Idle
                 ELSE [r EXCEPT !.step = "tell", !.due = RestDue(r.due), !.audience = {}])
    /\ UNCHANGED <<deal, live, over, photos, moves, cuts, saved, keen>>

\* upload_photo: the deal with its photos is read, and the file processed ...
ReadForUpload(w) ==
    /\ request[w].step = "idle" /\ live /\ photos.all < MaxPhotos
    /\ Become(w, [Idle EXCEPT !.step = "upload", !.photos = photos.all])
    /\ UNCHANGED <<deal, live, over, photos, moves, cuts, saved, keen, told>>

\* ... and the row committed.
CommitUpload(w) ==
    /\ request[w].step = "upload"
    /\ photos' = [all    |-> photos.all + 1,
                  covers |-> IF IsCover(request[w].photos) THEN photos.covers + 1 ELSE photos.covers]
    /\ Become(w, Idle)
    /\ UNCHANGED <<deal, live, over, moves, cuts, saved, keen, told>>

\* admin_delete and soft_delete.
ReadForDelete(w) ==
    /\ request[w].step = "idle" /\ live
    /\ Become(w, [Idle EXCEPT !.step = "delete"])
    /\ UNCHANGED <<deal, live, over, photos, moves, cuts, saved, keen, told>>

CommitDelete(w) ==
    /\ request[w].step = "delete"
    /\ live' = FALSE
    /\ Become(w, Idle)
    /\ UNCHANGED <<deal, over, photos, moves, cuts, saved, keen, told>>

\* The process dies or the handler is cancelled: what was committed stays.
Abort(w) ==
    /\ request[w].step # "idle"
    /\ Become(w, Idle)
    /\ UNCHANGED <<deal, live, over, photos, moves, cuts, saved, keen, told>>

-----------------------------------------------------------------------------
\* save_deal, unsave_deal and interest: one row, or none, per buyer.
Save(b) ==
    /\ saved' = saved \cup {b} /\ b \notin saved
    /\ UNCHANGED <<deal, live, over, photos, moves, cuts, keen, told, request>>

Unsave(b) ==
    /\ saved' = saved \ {b} /\ b \in saved
    /\ UNCHANGED <<deal, live, over, photos, moves, cuts, keen, told, request>>

ShowInterest(b) ==
    /\ keen' = keen \cup {b} /\ b \notin keen
    /\ UNCHANGED <<deal, live, over, photos, moves, cuts, saved, told, request>>

\* The clock passes early_access_until.
EarlyAccessEnds ==
    /\ deal.early /\ ~over
    /\ over' = TRUE
    /\ UNCHANGED <<deal, live, photos, moves, cuts, saved, keen, told, request>>

Desk(w) ==
    \/ \E s \in Targets \cup {NULL}, p \in Prices \cup {NULL} : ReadForPatch(w, s, p)
    \/ ReadForAccept(w) \/ CommitAccept(w)
    \/ CommitPatch(w) \/ SelectAudience(w) \/ InsertNotifications(w)
    \/ ReadForUpload(w) \/ CommitUpload(w)
    \/ ReadForDelete(w) \/ CommitDelete(w)
    \/ Abort(w)

Buyer(b) == Save(b) \/ Unsave(b) \/ ShowInterest(b)

Step == (\E w \in Workers : Desk(w)) \/ (\E b \in Buyers : Buyer(b)) \/ EarlyAccessEnds

\* Requests on their way to write the price, or the status, of the deal, and those
\* on their way to delete it, or to alert the buyers it matches.
PriceWriters == {w \in Workers : request[w].step = "patch" /\ Cuts(request[w])}
StatusWriters ==
    {w \in Workers : \/ request[w].step = "patch" /\ Moves(request[w])
                     \/ request[w].step = "accept"}
Deleters == {w \in Workers : request[w].step = "delete"}
Alerters == {w \in Workers : request[w].step \in {"tell", "insert"} /\ "alert" \in request[w].due}

Contenders(c) ==
    CASE c = "price" -> PriceWriters
      [] c = "status" -> StatusWriters
      [] c = "alert" -> StatusWriters \cup Deleters \cup Alerters

\* The history is kept beside the actions: none of them reads or mentions it.
NoteRace == raced' = raced \cup {c \in Contests : \E v, w \in Contenders(c)' : v # w}

Next == Step /\ NoteRace

Spec == Init /\ [][Next]_vars

-----------------------------------------------------------------------------
\* The committed changes that call for a kind of notification.
Occasions(kind) ==
    CASE kind = "alert" -> {i \in 2..Len(moves) : moves[i].to = "available"}
      [] kind = "drop" -> {i \in 1..Len(cuts) : cuts[i].new < cuts[i].old}
      [] kind = "gone" -> {i \in 2..Len(moves) : moves[i].to \in {"assigned", "closed"}}

(* A buyer is never told more often than there was something to tell: under *)
(* any interleaving and any crash, the notifications of a kind are no more *)
(* than the committed changes that call for it (patch_deal and the notify functions). *)
ToldOncePerOccasion ==
    \A k \in Kinds, b \in Buyers : told[k][b] <= Cardinality(Occasions(k))

(* The price history is a chain that ends in the list price, so that the *)
(* "Reduced" badge and the watchers' alerts tell the same story, unless two *)
(* patches of the price were in flight at once (patch_deal). *)
PriceHistoryChains ==
    "price" \notin raced =>
        /\ \A i \in 1 .. Len(cuts) - 1 : cuts[i].new = cuts[i + 1].old
        /\ cuts # <<>> => cuts[Len(cuts)].new = deal.price

\* Where the history leaves the deal and where it is next found are the same, or
\* an offer was accepted in between, which the history does not tell.
Link(left, found) == left = found \/ (left = "available" /\ found = "pending")

(* The status history runs from creation to the status of the deal along edges *)
(* of ALLOWED, with no gap but the silent move of an accept, unless two requests *)
(* that write the status were in flight at once (create_deal, patch_deal, *)
(* admin_offer_patch). *)
StatusHistoryChains ==
    "status" \notin raced =>
        /\ \A i \in 1 .. Len(moves) - 1 :
            /\ Link(moves[i].to, moves[i + 1].from)
            /\ TransitionAllowed(moves[i + 1].from, moves[i + 1].to)
        /\ Link(moves[Len(moves)].to, deal.status)

(* DESIGN phase 9, "tier-A alerts first": an alert reaches no buyer who cannot *)
(* see the deal when it is inserted, unless another request that moves, deletes *)
(* or alerts about the deal ran into the publication or its alerts, which are *)
(* transactions of their own and check early access later (notify_matches). *)
AlertedCanSee ==
    [][\A b \in Buyers :
        told["alert"][b] # told'["alert"][b] => "alert" \in raced \/ (live /\ CanSee(deal, b))]_vars

\* Uploads in flight that found the deal without a photo.
FoundNone == {w \in Workers : request[w].step = "upload" /\ request[w].photos = 0}

(* Two uploads that both find no photo both insert a cover, but the covers and *)
(* those to come are never more than the requests in flight (upload_photo). *)
CoversBound == photos.covers + Cardinality(FoundNone) <= Cardinality(Workers)
=============================================================================
