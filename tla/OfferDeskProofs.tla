-------------------------- MODULE OfferDeskProofs ---------------------------
(***************************************************************************)
(* What holds of the offers on a deal for any number of buyers, offers and *)
(* concurrent requests.                                                    *)
(***************************************************************************)
EXTENDS OfferDesk, FiniteSetTheorems, SequenceTheorems, TLAPS

(* The status tables are closed: an edge leads to a status, and only an open *)
(* offer can be moved to an open status. *)
LEMMA Tables ==
    /\ \A s \in Statuses : \A t : TransitionAllowed(s, t) => t \in Statuses
    /\ \A s \in OfferStatuses, t \in OpenStatuses : MayPatch(s, t) => s \in OpenStatuses
    /\ "available" \in Statuses /\ "pending" \in Statuses /\ "coming_soon" \in Statuses
    /\ {"submitted", "withdrawn", "accepted"} \subseteq OfferStatuses
    /\ OpenStatuses \subseteq OfferStatuses
    /\ "submitted" \in OpenStatuses /\ "withdrawn" \notin OpenStatuses /\ "accepted" \notin OpenStatuses
BY DEF Statuses, ALLOWED, TransitionAllowed, OfferStatuses, OFFER_TRANSITIONS, MayPatch, OpenStatuses

\* The kinds of requests, by step.
Creates == [step : {"deal_read", "notice_read", "open_checked"},
            buyer : Buyers, offer : {NULL}, target : {NULL}, seen : {NULL}, texas : BOOLEAN]
Patches == [step : {"patching"}, buyer : {NULL}, offer : Offers, target : OfferStatuses, seen : {NULL}, texas : {NULL}]

(* The step of a request tells what it holds. *)
LEMMA RequestKinds ==
    ASSUME NEW r \in Request
    PROVE  /\ r.step \in {"deal_read", "notice_read", "open_checked"} => r \in Creates
           /\ r.step = "patching" => r \in Patches
           /\ r.step \in {"withdrawing", "patching", "accepting"} => r.offer \in Offers /\ r.target \in OfferStatuses
           /\ r.step \in {"withdrawing", "patching", "accepting"} => r.offer # NULL
           /\ r.step = "withdrawing" => r.target = "withdrawn"
           /\ r.step = "accepting" => r.seen \in Statuses
           /\ r.step = "moving" => r.target \in Statuses \cup {NULL} /\ r.texas \in BOOLEAN \cup {NULL}
<1>1. CASE r = Idle
  BY <1>1 DEF Idle
<1>2. CASE r # Idle
  BY <1>2, Tables, NullAssumption DEF Request, Creates, Patches
<1> QED BY <1>1, <1>2

(* The tables and the requests keep their types. *)
THEOREM OfferDeskTyping == Spec => []TypeOK
<1>1. Init => TypeOK
  <2> SUFFICES ASSUME Init PROVE TypeOK
    OBVIOUS
  <2>1. acks \in [Buyers -> Seq(1..MaxRevisions)]
    BY EmptySeq DEF Init
  <2>2. request \in [Workers -> Request]
    BY DEF Init, Request
  <2>3. \A p \in Workers : request[p].offer = NULL
    BY DEF Init, Idle
  <2>4. deal \in [status : Statuses, texas : BOOLEAN, live : BOOLEAN]
    BY Tables DEF Init
  <2>5. revision \in 1..MaxRevisions
    BY BoundsAssumption DEF Init
  <2> QED BY <2>1, <2>2, <2>3, <2>4, <2>5 DEF Init, TypeOK
<1>2. TypeOK /\ [Next]_vars => TypeOK'
  <2> SUFFICES ASSUME TypeOK, [Next]_vars PROVE TypeOK'
    OBVIOUS
  <2>0. CASE UNCHANGED vars
    BY <2>0 DEF vars, rows, TypeOK
  <2> SUFFICES ASSUME Step, raced' \subseteq Buyers, dealRaced' \in BOOLEAN PROVE TypeOK'
    BY <2>0 DEF Next, NoteRace, TypeOK
  <2> USE DEF TypeOK, Idle, Respond, rows
  <2>r. ASSUME ReviseNotice PROVE TypeOK'
    BY <2>r, BoundsAssumption DEF ReviseNotice
  <2>1. ASSUME NEW p \in Workers, NEW b \in Buyers, Acknowledge(p, b) PROVE TypeOK'
    <3>1. Append(acks[b], revision) \in Seq(1..MaxRevisions)
      BY BoundsAssumption
    <3> QED BY <2>1, <3>1 DEF Acknowledge
  <2>2. ASSUME NEW p \in Workers, NEW b \in Buyers, ReadDealForOffer(p, b) PROVE TypeOK'
    BY <2>2 DEF ReadDealForOffer, Request
  <2>3. ASSUME NEW p \in Workers, ReadNotice(p) PROVE TypeOK'
    <3>1. request[p] \in Creates
      BY <2>3, RequestKinds DEF ReadNotice
    <3>2. [request[p] EXCEPT !.step = "notice_read"] \in Request /\ request[p].offer = NULL
      BY <3>1 DEF Creates, Request
    <3> QED BY <2>3, <3>2 DEF ReadNotice, Creates
  <2>4. ASSUME NEW p \in Workers, CheckOpen(p) PROVE TypeOK'
    <3>1. request[p] \in Creates
      BY <2>4, RequestKinds DEF CheckOpen
    <3>2. [request[p] EXCEPT !.step = "open_checked"] \in Request /\ request[p].offer = NULL
      BY <3>1 DEF Creates, Request
    <3> QED BY <2>4, <3>2 DEF CheckOpen, Creates
  <2>5. ASSUME NEW p \in Workers, InsertOffer(p) PROVE TypeOK'
    <3>1. request[p].buyer \in Buyers
      BY <2>5 DEF InsertOffer, Request
    <3>2. PICK o \in Offers : ~Exists(o) /\ offer' = [offer EXCEPT ![o] = [buyer |-> request[p].buyer, status |-> "submitted"]]
                         /\ outside' \subseteq Offers
      BY <2>5 DEF InsertOffer
    <3>3. offer' \in [Offers -> OfferRow \cup {NULL}] /\ \A q \in Offers : offer[q] # NULL => offer'[q] # NULL
      BY <3>1, <3>2, Tables DEF OfferRow, Exists
    <3> QED BY <2>5, <3>3, NullAssumption DEF InsertOffer, Request
  <2>6. ASSUME NEW p \in Workers, NEW o \in Offers, ReadForWithdraw(p, o) PROVE TypeOK'
    <3>1. request'[p] \in Request /\ request'[p].offer = o
      BY <2>6, Tables DEF ReadForWithdraw, Request
    <3> QED BY <2>6, <3>1 DEF ReadForWithdraw, Exists
  <2>7. ASSUME NEW p \in Workers, NEW o \in Offers, NEW t \in OfferStatuses, ReadForPatch(p, o, t) PROVE TypeOK'
    <3>1. request'[p] \in Request /\ request'[p].offer = o
      BY <2>7 DEF ReadForPatch, Request
    <3> QED BY <2>7, <3>1 DEF ReadForPatch, Exists
  <2>8. ASSUME NEW p \in Workers, WriteOffer(p) PROVE TypeOK'
    <3>1. request[p].offer \in Offers /\ request[p].target \in OfferStatuses
      BY <2>8, Tables DEF WriteOffer, Request
    <3>2. offer[request[p].offer] \in OfferRow
      BY <3>1, NullAssumption
    <3>3. [offer[request[p].offer] EXCEPT !.status = request[p].target] \in OfferRow
      BY <3>1, <3>2 DEF OfferRow
    <3>4. offer' \in [Offers -> OfferRow \cup {NULL}] /\ \A q \in Offers : offer[q] # NULL => offer'[q] # NULL
      BY <2>8, <3>1, <3>3, NullAssumption DEF WriteOffer, OfferRow
    <3> QED BY <2>8, <3>4 DEF WriteOffer, Request
  <2>9. ASSUME NEW p \in Workers, FlushAccept(p) PROVE TypeOK'
    <3> DEFINE seen == [request[p] EXCEPT !.step = "accepting", !.seen = deal.status]
    <3>1. request[p] \in Patches /\ request[p].target = "accepted" /\ deal.status \in Statuses
      BY <2>9, RequestKinds DEF FlushAccept
    <3>2. seen \in Request /\ seen.offer = request[p].offer
      <4>1. seen \in [step : {"accepting"}, buyer : {NULL}, offer : Offers, target : {"accepted"}, seen : Statuses, texas : {NULL}]
        BY <3>1 DEF Patches
      <4> QED BY <4>1, <3>1 DEF Request, Patches
    <3>3. request' = [request EXCEPT ![p] = IF deal.live THEN seen ELSE Idle]
      BY <2>9 DEF FlushAccept
    <3> HIDE DEF seen
    <3> QED BY <2>9, <3>2, <3>3 DEF FlushAccept, Request
  <2>10. ASSUME NEW p \in Workers, CommitAccept(p) PROVE TypeOK'
    <3>1. request[p].offer \in Offers
      BY <2>10 DEF CommitAccept, Request
    <3>2. offer[request[p].offer] \in OfferRow
      BY <3>1, NullAssumption
    <3>3. [offer[request[p].offer] EXCEPT !.status = "accepted"] \in OfferRow
      BY <3>2, Tables DEF OfferRow
    <3>4. offer' \in [Offers -> OfferRow \cup {NULL}] /\ \A q \in Offers : offer[q] # NULL => offer'[q] # NULL
      BY <2>10, <3>1, <3>3, NullAssumption DEF CommitAccept, OfferRow
    <3> QED BY <2>10, <3>4, Tables DEF CommitAccept, DealAfterAccept, Request
  <2>11. ASSUME NEW p \in Workers, NEW t \in Moves \cup {NULL}, NEW x \in BOOLEAN \cup {NULL}, ReadForMove(p, t, x) PROVE TypeOK'
    BY <2>11, MovesAssumption DEF ReadForMove, Request
  <2>12. ASSUME NEW p \in Workers, CommitMove(p) PROVE TypeOK'
    <3>1. request[p].target \in Statuses \cup {NULL} /\ request[p].texas \in BOOLEAN \cup {NULL}
      BY <2>12 DEF CommitMove, Request
    <3>2. \A s \in Statuses : Sent(request[p].target, s) \in Statuses
      BY <3>1 DEF Sent
    <3>3. \A x \in BOOLEAN : Sent(request[p].texas, x) \in BOOLEAN
      BY <3>1 DEF Sent
    <3>4. deal' \in [status : Statuses, texas : BOOLEAN, live : BOOLEAN]
      BY <2>12, <3>2, <3>3 DEF CommitMove
    <3> QED BY <2>12, <3>2, <3>4 DEF CommitMove, Request
  <2>13. ASSUME NEW p \in Workers, ReadForDelete(p) PROVE TypeOK'
    BY <2>13 DEF ReadForDelete, Request
  <2>14. ASSUME NEW p \in Workers, CommitDelete(p) PROVE TypeOK'
    BY <2>14 DEF CommitDelete, Request
  <2>15. ASSUME NEW p \in Workers, Abort(p) PROVE TypeOK'
    BY <2>15 DEF Abort, Request
  <2> QED
    BY <2>r, <2>1, <2>2, <2>3, <2>4, <2>5, <2>6, <2>7, <2>8, <2>9, <2>10, <2>11, <2>12, <2>13, <2>14, <2>15
    DEF Step, OfferStep, DealStep
<1> QED BY <1>1, <1>2, PTL DEF Spec

-----------------------------------------------------------------------------
\* The offers of b that are open or may be made so by a request in flight.
MayBeOpen(b) == Open(b) \cup Reviving(b)

(* The sets the bound counts are finite. *)
LEMMA Counted ==
    ASSUME NEW b
    PROVE  /\ IsFiniteSet(MayBeOpen(b)) /\ Cardinality(MayBeOpen(b)) \in Nat
           /\ IsFiniteSet(Creating(b)) /\ Cardinality(Creating(b)) \in Nat
           /\ Cardinality(Workers) \in Nat \ {0}
<1>1. MayBeOpen(b) \in SUBSET Offers /\ Creating(b) \in SUBSET Workers
  BY DEF MayBeOpen, Open, Reviving, OffersOf, Creating
<1>2. IsFiniteSet(MayBeOpen(b)) /\ IsFiniteSet(Creating(b))
  BY <1>1, FS_Subset, WorkersAssumption, OffersAssumption
<1>3. Cardinality(Workers) \in Nat /\ Cardinality(Workers) # 0
  BY FS_CardinalityType, FS_EmptySet, WorkersAssumption
<1> QED BY <1>2, <1>3, FS_CardinalityType

(* Requests that write an open status to an offer: each revives one offer, so *)
(* there are at least as many of them as offers being revived. *)
Patching == {p \in Workers : request[p].step = "patching"}

LEMMA RevivingFewer ==
    ASSUME NEW b
    PROVE  /\ IsFiniteSet(Reviving(b)) /\ IsFiniteSet(Patching)
           /\ Cardinality(Reviving(b)) <= Cardinality(Patching)
<1> DEFINE P == {p \in Patching : request[p].offer \in Reviving(b)}
           f == [p \in P |-> request[p].offer]
<1>1. IsFiniteSet(Patching) /\ IsFiniteSet(P) /\ Cardinality(P) <= Cardinality(Patching)
  <2>1. Patching \in SUBSET Workers /\ P \in SUBSET Patching
    BY DEF Patching
  <2> QED BY <2>1, FS_Subset, WorkersAssumption
<1>2. f \in [P -> Reviving(b)] /\ \A o \in Reviving(b) : \E p \in P : f[p] = o
  BY DEF Reviving, OffersOf, Patching
<1>3. f \in Surjection(P, Reviving(b))
  BY <1>2 DEF Surjection
<1>4. IsFiniteSet(Reviving(b)) /\ Cardinality(Reviving(b)) <= Cardinality(P)
  BY <1>1, <1>3, FS_Surjection
<1>5. Cardinality(P) \in Nat /\ Cardinality(Patching) \in Nat /\ Cardinality(Reviving(b)) \in Nat
  BY <1>1, <1>4, FS_CardinalityType
<1> QED BY <1>1, <1>4, <1>5

(* A step that neither opens an offer of b nor admits a new one keeps the bound. *)
LEMMA BoundKept ==
    ASSUME NEW b,
           Cardinality(MayBeOpen(b)) + Cardinality(Creating(b)) <= Cardinality(Workers),
           MayBeOpen(b)' \subseteq MayBeOpen(b), Creating(b)' \subseteq Creating(b)
    PROVE  Cardinality(MayBeOpen(b)') + Cardinality(Creating(b)') <= Cardinality(Workers)
<1>1. /\ Cardinality(MayBeOpen(b)') <= Cardinality(MayBeOpen(b)) /\ Cardinality(MayBeOpen(b)') \in Nat
      /\ Cardinality(Creating(b)') <= Cardinality(Creating(b)) /\ Cardinality(Creating(b)') \in Nat
  BY Counted, FS_Subset, FS_CardinalityType
<1> QED BY <1>1, Counted

(* A buyer's open offers on a deal, and those that requests in flight may still *)
(* open, never outnumber the requests in flight at once (create_offer checks for *)
(* an open offer and inserts in separate statements, admin_offer_patch writes *)
(* the status it computed from an earlier read). *)
THEOREM OpenOffersBounded == Spec => []OpenOffersBound
<1>1. Init => OpenOffersBound
  <2> SUFFICES ASSUME Init, NEW b \in Buyers
               PROVE  Cardinality(Open(b) \cup Reviving(b)) + Cardinality(Creating(b)) <= Cardinality(Workers)
    BY DEF OpenOffersBound
  <2>1. Open(b) \cup Reviving(b) = {} /\ Creating(b) = {}
    BY DEF Init, Open, Reviving, OffersOf, Creating, Exists, Idle
  <2> QED BY <2>1, FS_EmptySet, Counted
<1>2. TypeOK /\ TypeOK' /\ OpenOffersBound /\ [Next]_vars => OpenOffersBound'
  <2> SUFFICES ASSUME TypeOK, TypeOK', OpenOffersBound, [Next]_vars, NEW b \in Buyers
               PROVE  Cardinality(MayBeOpen(b)') + Cardinality(Creating(b)') <= Cardinality(Workers)
    BY DEF OpenOffersBound, MayBeOpen
  <2>0. Cardinality(MayBeOpen(b)) + Cardinality(Creating(b)) <= Cardinality(Workers)
    BY DEF OpenOffersBound, MayBeOpen
  <2>17. CASE UNCHANGED vars
    <3>1. offer' = offer /\ request' = request
      BY <2>17 DEF vars, rows
    <3>2. Open(b)' = Open(b)
      BY <3>1 DEF Open, Exists
    <3>3. Reviving(b)' = Reviving(b)
      BY <3>1 DEF Reviving, OffersOf, Exists
    <3>4. Creating(b)' = Creating(b)
      BY <3>1 DEF Creating
    <3> QED BY <2>0, <3>2, <3>3, <3>4 DEF MayBeOpen
  <2> SUFFICES ASSUME Step
               PROVE  Cardinality(MayBeOpen(b)') + Cardinality(Creating(b)') <= Cardinality(Workers)
    BY <2>17 DEF Next
  <2> USE DEF rows
  <2> DEFINE Kept == MayBeOpen(b)' \subseteq MayBeOpen(b) /\ Creating(b)' \subseteq Creating(b)
  <2>a. ASSUME NEW p \in Workers, UNCHANGED offer,
               \A q \in Workers \ {p} : request'[q] = request[q],
               request'[p].step \notin {"patching", "open_checked"}
        PROVE  Kept
    BY <2>a DEF MayBeOpen, Open, Reviving, OffersOf, Creating, Exists
  <2>r. ASSUME ReviseNotice PROVE Kept
    BY <2>r DEF ReviseNotice, MayBeOpen, Open, Reviving, OffersOf, Creating, Exists
  <2>1. ASSUME NEW p \in Workers, NEW c \in Buyers, Acknowledge(p, c) PROVE Kept
    BY <2>1 DEF Acknowledge, MayBeOpen, Open, Reviving, OffersOf, Creating, Exists
  <2>2. ASSUME NEW p \in Workers, NEW c \in Buyers, ReadDealForOffer(p, c) PROVE Kept
    BY <2>2, <2>a DEF ReadDealForOffer, TypeOK, Idle
  <2>3. ASSUME NEW p \in Workers, ReadNotice(p) PROVE Kept
    <3>1. request'[p].step = "notice_read" /\ \A q \in Workers \ {p} : request'[q] = request[q]
      BY <2>3 DEF ReadNotice, TypeOK, Request
    <3> QED BY <2>3, <2>a, <3>1 DEF ReadNotice
  <2>4. ASSUME NEW p \in Workers, CheckOpen(p), request[p].buyer # b PROVE Kept
    <3>1. request'[p].step = "open_checked" /\ request'[p].buyer # b /\ \A q \in Workers \ {p} : request'[q] = request[q]
      BY <2>4 DEF CheckOpen, TypeOK, Request
    <3> QED BY <2>4, <3>1 DEF CheckOpen, MayBeOpen, Open, Reviving, OffersOf, Creating, Exists
  <2>5. ASSUME NEW p \in Workers, CheckOpen(p), request[p].buyer = b
        PROVE  Cardinality(MayBeOpen(b)') + Cardinality(Creating(b)') <= Cardinality(Workers)
    <3>1. request'[p].step = "open_checked" /\ \A q \in Workers \ {p} : request'[q] = request[q]
      BY <2>5 DEF CheckOpen, TypeOK, Request
    <3>2. Open(b)' = {}
      BY <2>5 DEF CheckOpen, HasOpenOffer, Open, Exists
    <3>3. MayBeOpen(b)' = Reviving(b)'
      BY <3>2 DEF MayBeOpen
    <3>4. /\ IsFiniteSet(Reviving(b)') /\ IsFiniteSet(Patching')
          /\ Cardinality(Reviving(b)') <= Cardinality(Patching')
      <4>1. UNCHANGED offer /\ Reviving(b)' = Reviving(b) /\ Patching' = Patching
        BY <2>5, <3>1 DEF CheckOpen, Reviving, OffersOf, Patching, Exists
      <4> QED BY <4>1, RevivingFewer
    <3>5. Patching' \cap Creating(b)' = {} /\ Patching' \cup Creating(b)' \in SUBSET Workers
      BY DEF Patching, Creating
    <3>6. IsFiniteSet(Creating(b)') /\ Cardinality(Patching' \cup Creating(b)') <= Cardinality(Workers)
      <4>1. Creating(b)' \in SUBSET Workers
        BY DEF Creating
      <4> QED BY <4>1, <3>5, FS_Subset, WorkersAssumption
    <3>7. Cardinality(Patching' \cup Creating(b)') = Cardinality(Patching') + Cardinality(Creating(b)')
      <4>1. Cardinality(Patching' \cap Creating(b)') = 0
        BY <3>5, FS_EmptySet
      <4>2. Cardinality(Patching') \in Nat /\ Cardinality(Creating(b)') \in Nat
        BY <3>4, <3>6, FS_CardinalityType
      <4>3. Cardinality(Patching' \cup Creating(b)')
              = Cardinality(Patching') + Cardinality(Creating(b)') - Cardinality(Patching' \cap Creating(b)')
        BY <3>4, <3>6, FS_Union
      <4> QED BY <4>1, <4>2, <4>3
    <3>8. Cardinality(Patching') \in Nat /\ Cardinality(Creating(b)') \in Nat /\ Cardinality(Reviving(b)') \in Nat
      BY <3>4, <3>6, FS_CardinalityType
    <3> QED BY <3>3, <3>4, <3>6, <3>7, <3>8, Counted
  <2>6. ASSUME NEW p \in Workers, InsertOffer(p)
        PROVE  Cardinality(MayBeOpen(b)') + Cardinality(Creating(b)') <= Cardinality(Workers)
    <3>1. PICK o \in Offers : ~Exists(o) /\ offer' = [offer EXCEPT ![o] = [buyer |-> request[p].buyer, status |-> "submitted"]]
      BY <2>6 DEF InsertOffer
    <3>2. /\ \A q \in Offers \ {o} : offer'[q] = offer[q]
          /\ offer'[o].buyer = request[p].buyer /\ offer'[o].status = "submitted"
      BY <3>1 DEF TypeOK
    <3>3. request'[p].step = "idle" /\ \A q \in Workers \ {p} : request'[q] = request[q]
      BY <2>6 DEF InsertOffer, Respond, TypeOK, Idle
    <3>4. CASE request[p].buyer # b
      <4>1. Open(b)' \subseteq Open(b) /\ Reviving(b)' \subseteq Reviving(b) /\ Creating(b)' \subseteq Creating(b)
        BY <3>2, <3>3, <3>4 DEF Open, Reviving, OffersOf, Creating, Exists
      <4> QED BY <4>1, <2>0, BoundKept DEF MayBeOpen
    <3>5. CASE request[p].buyer = b
      <4>1. MayBeOpen(b)' \subseteq MayBeOpen(b) \cup {o}
        BY <3>2, <3>3 DEF MayBeOpen, Open, Reviving, OffersOf, Exists
      <4>2. Creating(b)' = Creating(b) \ {p} /\ p \in Creating(b)
        BY <2>6, <3>3, <3>5 DEF InsertOffer, Creating
      <4>3. Cardinality(Creating(b)') = Cardinality(Creating(b)) - 1
        BY <4>2, Counted, FS_RemoveElement
      <4>4. IsFiniteSet(MayBeOpen(b) \cup {o}) /\ Cardinality(MayBeOpen(b) \cup {o}) <= Cardinality(MayBeOpen(b)) + 1
        <5>1. /\ IsFiniteSet(MayBeOpen(b) \cup {o})
              /\ Cardinality(MayBeOpen(b) \cup {o}) =
                   IF o \in MayBeOpen(b) THEN Cardinality(MayBeOpen(b)) ELSE Cardinality(MayBeOpen(b)) + 1
          BY Counted, FS_AddElement, Zenon
        <5> QED BY <5>1, Counted
      <4>5. Cardinality(MayBeOpen(b)') <= Cardinality(MayBeOpen(b) \cup {o}) /\ IsFiniteSet(MayBeOpen(b)')
        BY <4>1, <4>4, FS_Subset
      <4>6. Cardinality(MayBeOpen(b)') \in Nat /\ Cardinality(MayBeOpen(b) \cup {o}) \in Nat
        BY <4>4, <4>5, FS_CardinalityType
      <4> QED BY <2>0, <4>3, <4>4, <4>5, <4>6, Counted
    <3> QED BY <3>4, <3>5
  <2>7. ASSUME NEW p \in Workers, NEW o \in Offers, ReadForWithdraw(p, o) PROVE Kept
    BY <2>7, <2>a DEF ReadForWithdraw, TypeOK, Idle
  <2>8. ASSUME NEW p \in Workers, NEW o \in Offers, NEW t \in OfferStatuses, ReadForPatch(p, o, t) PROVE Kept
    <3>1. /\ request'[p].step = "patching" /\ request'[p].offer = o /\ request'[p].target = t
          /\ \A q \in Workers \ {p} : request'[q] = request[q]
      BY <2>8 DEF ReadForPatch, TypeOK, Idle
    <3>2. t \in OpenStatuses => offer[o].status \in OpenStatuses
      <4>1. offer[o] \in OfferRow
        BY <2>8 DEF ReadForPatch, Exists, TypeOK
      <4> QED BY <2>8, <4>1, Tables DEF ReadForPatch, OfferRow
    <3> QED BY <2>8, <3>1, <3>2 DEF ReadForPatch, MayBeOpen, Open, Reviving, OffersOf, Creating, Exists
  <2>9. ASSUME NEW p \in Workers, WriteOffer(p) PROVE Kept
    <3> DEFINE o == request[p].offer
    <3>1. request[p].offer \in Offers /\ offer[o] \in OfferRow
      <4>1. request[p].offer \in Offers
        BY <2>9 DEF WriteOffer, TypeOK, Request
      <4> QED BY <4>1, NullAssumption DEF TypeOK
    <3>2. /\ \A q \in Offers \ {o} : offer'[q] = offer[q]
          /\ offer'[o].buyer = offer[o].buyer /\ offer'[o].status = request[p].target /\ Exists(o)
      BY <2>9, <3>1, NullAssumption DEF WriteOffer, TypeOK, OfferRow, Exists
    <3>3. request'[p].step = "idle" /\ \A q \in Workers \ {p} : request'[q] = request[q]
      BY <2>9 DEF WriteOffer, Respond, TypeOK, Idle
    <3>4. request[p].target \in OpenStatuses => request[p].step = "patching"
      <4>1. request[p] \in Request /\ request[p].step \in {"withdrawing", "patching"}
        BY <2>9 DEF WriteOffer, TypeOK
      <4>2. request[p].step = "withdrawing" => request[p].target = "withdrawn"
        BY <4>1 DEF Request, Idle
      <4> QED BY <4>1, <4>2, Tables
    <3>5. Creating(b)' \subseteq Creating(b)
      BY <3>3 DEF Creating
    <3>6. ASSUME NEW x \in MayBeOpen(b)' PROVE x \in MayBeOpen(b)
      <4>1. x \in Offers /\ Exists(x) /\ offer[x].buyer = b
        BY <3>2 DEF MayBeOpen, Open, Reviving, OffersOf, Exists
      <4>2. CASE x \in Reviving(b)'
        BY <4>1, <4>2, <3>3 DEF MayBeOpen, Reviving, OffersOf
      <4>3. CASE x \in Open(b)' /\ x # o
        BY <4>1, <4>3, <3>2 DEF MayBeOpen, Open
      <4>4. CASE x \in Open(b)' /\ x = o
        BY <4>1, <4>4, <3>2, <3>4 DEF MayBeOpen, Open, Reviving, OffersOf
      <4> QED BY <4>2, <4>3, <4>4 DEF MayBeOpen
    <3> QED BY <3>5, <3>6
  <2>10. ASSUME NEW p \in Workers, FlushAccept(p) PROVE Kept
    <3>1. request'[p].step \in {"accepting", "idle"} /\ \A q \in Workers \ {p} : request'[q] = request[q]
      BY <2>10 DEF FlushAccept, TypeOK, Request, Idle
    <3> QED BY <2>10, <2>a, <3>1 DEF FlushAccept
  <2>11. ASSUME NEW p \in Workers, CommitAccept(p) PROVE Kept
    <3> DEFINE o == request[p].offer
    <3>1. request[p].offer \in Offers /\ offer[o] \in OfferRow
      <4>1. request[p].offer \in Offers
        BY <2>11 DEF CommitAccept, TypeOK, Request
      <4> QED BY <4>1, NullAssumption DEF TypeOK
    <3>2. /\ \A q \in Offers \ {o} : offer'[q] = offer[q]
          /\ offer'[o].buyer = offer[o].buyer /\ offer'[o].status = "accepted" /\ Exists(o)
      BY <2>11, <3>1, NullAssumption DEF CommitAccept, TypeOK, OfferRow, Exists
    <3>3. request'[p].step = "idle" /\ \A q \in Workers \ {p} : request'[q] = request[q]
      BY <2>11 DEF CommitAccept, Respond, TypeOK, Idle
    <3> QED BY <3>2, <3>3, Tables DEF MayBeOpen, Open, Reviving, OffersOf, Creating, Exists
  <2>12. ASSUME NEW p \in Workers, NEW t \in Moves \cup {NULL}, NEW x \in BOOLEAN \cup {NULL}, ReadForMove(p, t, x) PROVE Kept
    BY <2>12, <2>a DEF ReadForMove, TypeOK, Idle
  <2>13. ASSUME NEW p \in Workers, CommitMove(p) PROVE Kept
    BY <2>13, <2>a DEF CommitMove, Respond, TypeOK, Idle
  <2>14. ASSUME NEW p \in Workers, ReadForDelete(p) PROVE Kept
    BY <2>14, <2>a DEF ReadForDelete, TypeOK, Idle
  <2>15. ASSUME NEW p \in Workers, CommitDelete(p) PROVE Kept
    BY <2>15, <2>a DEF CommitDelete, Respond, TypeOK, Idle
  <2>16. ASSUME NEW p \in Workers, Abort(p) PROVE Kept
    BY <2>16, <2>a DEF Abort, Respond, TypeOK, Idle
  <2>18. Kept => Cardinality(MayBeOpen(b)') + Cardinality(Creating(b)') <= Cardinality(Workers)
    BY <2>0, BoundKept
  <2> HIDE DEF Kept
  <2> QED
    BY <2>1, <2>2, <2>3, <2>4, <2>5, <2>6, <2>7, <2>8, <2>9, <2>10, <2>11, <2>12, <2>13, <2>14, <2>15, <2>16, <2>18, <2>r
    DEF Step, OfferStep, DealStep
<1> QED BY <1>1, <1>2, OfferDeskTyping, PTL DEF Spec

-----------------------------------------------------------------------------
\* Requests past the notice check that read the deal in Texas belong to buyers
\* who have acknowledged.
PassedNotice ==
    \A p \in Workers :
        request[p].step \in {"notice_read", "open_checked"} /\ request[p].texas => acks[request[p].buyer] # <<>>

AckInv == OffersAcknowledged /\ PassedNotice

(* An offer without its buyer's acknowledgment comes from a request that read *)
(* the deal outside Texas, whatever ran between the check and the insert: an *)
(* acknowledgment is never taken back, and the deal is read once. *)
THEOREM TexasGate == Spec => []OffersAcknowledged
<1>1. Init => AckInv
  BY DEF Init, AckInv, OffersAcknowledged, PassedNotice, Exists, Idle
<1>2. TypeOK /\ AckInv /\ [Next]_vars => AckInv'
  <2> SUFFICES ASSUME TypeOK, AckInv, [Next]_vars PROVE AckInv'
    OBVIOUS
  <2>1. OffersAcknowledged /\ PassedNotice
    BY DEF AckInv
  <2>17. CASE UNCHANGED vars
    BY <2>17, <2>1 DEF vars, rows, AckInv, OffersAcknowledged, PassedNotice, Exists
  <2> SUFFICES ASSUME Step PROVE AckInv'
    BY <2>17 DEF Next
  <2> USE DEF TypeOK, Idle, Respond, rows
  \* Steps that keep offers and acknowledgments, and let nobody past the check.
  <2>a. ASSUME NEW p \in Workers, UNCHANGED <<offer, acks, outside>>,
               \A q \in Workers \ {p} : request'[q] = request[q],
               request'[p].step \notin {"notice_read", "open_checked"}
        PROVE  AckInv'
    BY <2>a, <2>1 DEF AckInv, OffersAcknowledged, PassedNotice, Exists
  \* Steps that rewrite the status of an existing offer.
  <2>b. ASSUME NEW p \in Workers, UNCHANGED <<acks, outside>>, NEW o \in Offers, Exists(o),
               \A q \in Offers \ {o} : offer'[q] = offer[q], offer'[o].buyer = offer[o].buyer,
               \A q \in Workers \ {p} : request'[q] = request[q], request'[p].step = "idle"
        PROVE  AckInv'
    <3>1. OffersAcknowledged'
      BY <2>b, <2>1 DEF OffersAcknowledged, Exists
    <3>2. PassedNotice'
      BY <2>b, <2>1 DEF PassedNotice
    <3> QED BY <3>1, <3>2 DEF AckInv
  <2>2. ASSUME NEW p \in Workers, NEW b \in Buyers, Acknowledge(p, b) PROVE AckInv'
    <3>1. \A c \in Buyers : acks[c] # <<>> => acks'[c] # <<>>
      <4>1. Append(acks[b], revision) # <<>>
        BY AppendProperties
      <4> QED BY <2>2, <4>1 DEF Acknowledge
    <3>2. \A o \in Offers : Exists(o) => offer[o].buyer \in Buyers
      BY NullAssumption DEF Exists, OfferRow
    <3>3. \A q \in Workers : request[q].step \in {"notice_read", "open_checked"} => request[q].buyer \in Buyers
      BY DEF Request
    <3>4. OffersAcknowledged'
      BY <2>1, <2>2, <3>1, <3>2 DEF Acknowledge, OffersAcknowledged, Exists
    <3>5. PassedNotice'
      BY <2>1, <2>2, <3>1, <3>3 DEF Acknowledge, PassedNotice
    <3> QED BY <3>4, <3>5 DEF AckInv
  <2>3. ASSUME NEW p \in Workers, NEW b \in Buyers, ReadDealForOffer(p, b) PROVE AckInv'
    BY <2>3, <2>a DEF ReadDealForOffer
  <2>4. ASSUME NEW p \in Workers, ReadNotice(p) PROVE AckInv'
    <3>1. request[p].texas => acks[request[p].buyer] # <<>>
      <4>1. request[p].buyer \in Buyers
        BY <2>4, RequestKinds DEF ReadNotice, Creates
      <4>2. acks[request[p].buyer] = <<>> => Len(acks[request[p].buyer]) = 0
        BY EmptySeq, Zenon
      <4>3. Len(acks[request[p].buyer]) = 1 \/ (acks[request[p].buyer] = <<>> /\ ~request[p].texas)
        BY <2>4 DEF ReadNotice, NoticeAccepted
      <4>4. Len(acks[request[p].buyer]) = 1 => acks[request[p].buyer] # <<>>
        <5> SUFFICES ASSUME Len(acks[request[p].buyer]) = 1, acks[request[p].buyer] = <<>> PROVE FALSE
          OBVIOUS
        <5>1. Len(acks[request[p].buyer]) = 0
          BY <4>2, Zenon
        <5> QED BY <5>1
      <4> QED BY <4>3, <4>4, Zenon
    <3>2. request'[p].buyer = request[p].buyer /\ request'[p].texas = request[p].texas /\ \A q \in Workers \ {p} : request'[q] = request[q]
      BY <2>4 DEF ReadNotice
    <3> QED BY <2>1, <2>4, <3>1, <3>2 DEF ReadNotice, AckInv, OffersAcknowledged, PassedNotice, Exists
  <2>5. ASSUME NEW p \in Workers, CheckOpen(p) PROVE AckInv'
    <3>1. request'[p].buyer = request[p].buyer /\ request'[p].texas = request[p].texas /\ \A q \in Workers \ {p} : request'[q] = request[q]
      BY <2>5 DEF CheckOpen
    <3> QED BY <2>1, <2>5, <3>1 DEF CheckOpen, AckInv, OffersAcknowledged, PassedNotice, Exists
  <2>6. ASSUME NEW p \in Workers, InsertOffer(p) PROVE AckInv'
    <3>1. PICK o \in Offers : offer' = [offer EXCEPT ![o] = [buyer |-> request[p].buyer, status |-> "submitted"]]
                                  /\ outside' = IF request[p].texas THEN outside ELSE outside \cup {o}
      BY <2>6 DEF InsertOffer
    <3>2. request[p].texas => acks[request[p].buyer] # <<>>
      BY <2>1, <2>6 DEF InsertOffer, PassedNotice
    <3>3. \A q \in Offers \ {o} : offer'[q] = offer[q]
      BY <3>1
    <3>4. offer'[o].buyer = request[p].buyer
      BY <3>1
    <3>5. OffersAcknowledged'
      BY <2>1, <2>6, <3>1, <3>2, <3>3, <3>4 DEF InsertOffer, OffersAcknowledged, Exists
    <3>6. PassedNotice'
      BY <2>1, <2>6 DEF InsertOffer, PassedNotice
    <3> QED BY <3>5, <3>6 DEF AckInv
  <2>7. ASSUME NEW p \in Workers, NEW o \in Offers, ReadForWithdraw(p, o) PROVE AckInv'
    BY <2>7, <2>a DEF ReadForWithdraw
  <2>8. ASSUME NEW p \in Workers, NEW o \in Offers, NEW t \in OfferStatuses, ReadForPatch(p, o, t) PROVE AckInv'
    BY <2>8, <2>a DEF ReadForPatch
  <2>9. ASSUME NEW p \in Workers, WriteOffer(p) PROVE AckInv'
    <3> DEFINE o == request[p].offer
    <3>1. o \in Offers
      BY <2>9 DEF WriteOffer, Request
    <3>2. Exists(o) /\ offer[o] \in OfferRow
      BY <3>1, NullAssumption DEF Exists
    <3>3. offer'[o].buyer = offer[o].buyer /\ \A q \in Offers \ {o} : offer'[q] = offer[q]
      BY <2>9, <3>1, <3>2 DEF WriteOffer, OfferRow
    <3> QED BY <2>9, <3>1, <3>2, <3>3, <2>b DEF WriteOffer
  <2>10. ASSUME NEW p \in Workers, FlushAccept(p) PROVE AckInv'
    BY <2>10, <2>a DEF FlushAccept
  <2>11. ASSUME NEW p \in Workers, CommitAccept(p) PROVE AckInv'
    <3> DEFINE o == request[p].offer
    <3>1. o \in Offers
      BY <2>11, RequestKinds DEF CommitAccept
    <3>2. Exists(o) /\ offer[o] \in OfferRow
      BY <3>1, NullAssumption DEF Exists
    <3>3. offer'[o].buyer = offer[o].buyer /\ \A q \in Offers \ {o} : offer'[q] = offer[q]
      BY <2>11, <3>1, <3>2 DEF CommitAccept, OfferRow
    <3> QED BY <2>11, <3>1, <3>2, <3>3, <2>b DEF CommitAccept
  <2>12. ASSUME NEW p \in Workers, NEW t \in Moves \cup {NULL}, NEW x \in BOOLEAN \cup {NULL}, ReadForMove(p, t, x) PROVE AckInv'
    BY <2>12, <2>a DEF ReadForMove
  <2>13. ASSUME NEW p \in Workers, CommitMove(p) PROVE AckInv'
    BY <2>13, <2>a DEF CommitMove
  <2>14. ASSUME NEW p \in Workers, ReadForDelete(p) PROVE AckInv'
    BY <2>14, <2>a DEF ReadForDelete
  <2>15. ASSUME NEW p \in Workers, CommitDelete(p) PROVE AckInv'
    BY <2>15, <2>a DEF CommitDelete
  <2>16. ASSUME NEW p \in Workers, Abort(p) PROVE AckInv'
    BY <2>16, <2>a DEF Abort
  <2>r. ASSUME ReviseNotice PROVE AckInv'
    BY <2>r, <2>1 DEF ReviseNotice, AckInv, OffersAcknowledged, PassedNotice, Exists
  <2> QED
    BY <2>r, <2>2, <2>3, <2>4, <2>5, <2>6, <2>7, <2>8, <2>9, <2>10, <2>11, <2>12, <2>13, <2>14, <2>15, <2>16
    DEF Step, OfferStep, DealStep
<1>3. AckInv => OffersAcknowledged
  BY DEF AckInv
<1> QED BY <1>1, <1>2, <1>3, OfferDeskTyping, PTL DEF Spec

-----------------------------------------------------------------------------
\* What is true of the offers of a buyer whose requests never raced.
Orderly(b) ==
    /\ Creating(b) # {} => Open(b) = {}
    /\ \A o1, o2 \in Open(b) : o1 = o2
    /\ \A o \in OffersOf(b) : OfferWriters(o) # {} => offer[o].status \in OpenStatuses

OrderlyInv == \A b \in Buyers \ raced : ~Contended(b) /\ Orderly(b)

\* A request other than p holds what it held.
OthersKeep(p) == \A q \in Workers \ {p} : request'[q] = request[q]

(* The open offers are those with an edge out, and a deal pending was available. *)
LEMMA Edges ==
    /\ \A s \in OfferStatuses, t \in OfferStatuses : MayPatch(s, t) => s \in OpenStatuses
    /\ \A s : MayWithdraw(s) => s \in OpenStatuses
    /\ \A s \in OpenStatuses : s \notin TerminalOffers
    /\ "pending" \in ALLOWED["available"]
BY DEF OfferStatuses, OFFER_TRANSITIONS, MayPatch, OpenStatuses, MayWithdraw, Withdrawable, TerminalOffers, ALLOWED

(* A step that writes no offer and readies no request to write one keeps the *)
(* offers of every buyer in order. *)
LEMMA OrderKept ==
    ASSUME NEW b, NEW p \in Workers, Orderly(b), UNCHANGED offer, OthersKeep(p),
           request'[p].step \notin {"withdrawing", "patching", "accepting", "open_checked"}
    PROVE  Orderly(b)'
<1>1. Open(b)' = Open(b) /\ OffersOf(b)' = OffersOf(b)
  BY DEF Open, OffersOf, Exists
<1>2. Creating(b)' \subseteq Creating(b)
  BY DEF Creating, OthersKeep
<1>3. \A o \in OffersOf(b) : OfferWriters(o)' \subseteq OfferWriters(o)
  BY DEF OfferWriters, OthersKeep
<1> QED BY <1>1, <1>2, <1>3 DEF Orderly

(* The one request that writes an offer of b leaves it alone afterwards, and *)
(* opens nothing that was closed. *)
LEMMA WrittenOnce ==
    ASSUME TypeOK, NEW b \in Buyers, NEW p \in Workers, NEW o \in Offers, NEW s \in OfferStatuses,
           ~Contended(b), Orderly(b), p \in OfferWriters(o), OthersKeep(p), request'[p].step = "idle",
           offer' = [offer EXCEPT ![o].status = s]
    PROVE  Orderly(b)'
<1>1. offer[o] \in OfferRow /\ offer[o] # NULL
  BY RequestKinds DEF TypeOK, OfferWriters
<1>2. /\ \A q \in Offers \ {o} : offer'[q] = offer[q]
      /\ offer'[o].buyer = offer[o].buyer /\ offer'[o].status = s /\ offer'[o] # NULL
  BY <1>1, NullAssumption DEF TypeOK, OfferRow
<1>3. OffersOf(b)' = OffersOf(b) /\ Creating(b)' \subseteq Creating(b)
  BY <1>1, <1>2 DEF OffersOf, Creating, Exists, OthersKeep
<1>4. \A q \in Offers : OfferWriters(q)' \subseteq OfferWriters(q)
  BY DEF OfferWriters, OthersKeep
<1>5. CASE o \notin OffersOf(b)
  <2>1. Open(b)' = Open(b)
    BY <1>1, <1>2, <1>5 DEF Open, OffersOf, Exists
  <2>2. \A q \in OffersOf(b) : offer'[q] = offer[q]
    BY <1>2, <1>5 DEF OffersOf
  <2> QED BY <1>3, <1>4, <2>1, <2>2 DEF Orderly, OffersOf
<1>6. CASE o \in OffersOf(b)
  <2>1. offer[o].status \in OpenStatuses /\ o \in Open(b)
    BY <1>6 DEF Orderly, OffersOf, Open
  <2>2. Creating(b)' = {} /\ Open(b)' \subseteq Open(b)
    BY <1>2, <1>3, <2>1 DEF Orderly, Open, Exists
  <2>3. OfferWriters(o)' = {}
    BY <1>4, <1>6 DEF Contended, Two, OfferWriters
  <2>4. \A q \in OffersOf(b) \ {o} : offer'[q] = offer[q]
    BY <1>2 DEF OffersOf
  <2> QED BY <1>3, <1>4, <2>2, <2>3, <2>4 DEF Orderly, OffersOf
<1> QED BY <1>5, <1>6

(* Two offers of a buyer are never open at once, unless the buyer's requests or *)
(* the writers of one of the offers raced (create_offer, withdraw and *)
(* admin_offer_patch). *)
LEMMA OrderlyInductive == Spec => []OrderlyInv
<1>1. Init => OrderlyInv
  BY DEF Init, OrderlyInv, Orderly, Contended, Two, Creating, Open, OffersOf, OfferWriters, Exists, Idle
<1>2. TypeOK /\ TypeOK' /\ OrderlyInv /\ [Next]_vars => OrderlyInv'
  <2> SUFFICES ASSUME TypeOK, TypeOK', OrderlyInv, [Next]_vars PROVE OrderlyInv'
    OBVIOUS
  <2>0. CASE UNCHANGED vars
    <3>1. raced' = raced /\ \A b \in Buyers : Contended(b)' = Contended(b) /\ Orderly(b)' = Orderly(b)
      BY <2>0 DEF vars, rows, Orderly, Contended, Two, Creating, Open, OffersOf, OfferWriters, Exists
    <3> QED BY <3>1 DEF OrderlyInv
  <2> SUFFICES ASSUME Step, NEW b \in Buyers, ~Contended(b), Orderly(b) PROVE Orderly(b)'
    <3>1. ASSUME Step, NoteRace PROVE OrderlyInv'
      BY <3>1 DEF OrderlyInv, NoteRace
    <3> QED BY <2>0, <3>1 DEF Next
  <2> USE DEF rows
  <2>r. ASSUME ReviseNotice PROVE Orderly(b)'
    BY <2>r DEF ReviseNotice, Orderly, Creating, Open, OffersOf, OfferWriters, Exists
  <2>1. ASSUME NEW p \in Workers, NEW c \in Buyers, Acknowledge(p, c) PROVE Orderly(b)'
    BY <2>1 DEF Acknowledge, Orderly, Creating, Open, OffersOf, OfferWriters, Exists
  <2>2. ASSUME NEW p \in Workers, NEW c \in Buyers, ReadDealForOffer(p, c) PROVE Orderly(b)'
    BY <2>2, OrderKept DEF ReadDealForOffer, OthersKeep, TypeOK, Idle
  <2>3. ASSUME NEW p \in Workers, ReadNotice(p) PROVE Orderly(b)'
    <3>1. request'[p].step = "notice_read" /\ OthersKeep(p)
      BY <2>3, RequestKinds DEF ReadNotice, TypeOK, Creates, OthersKeep
    <3> QED BY <2>3, <3>1, OrderKept DEF ReadNotice
  <2>4. ASSUME NEW p \in Workers, CheckOpen(p) PROVE Orderly(b)'
    <3>1. /\ request'[p].step = "open_checked" /\ request'[p].buyer = request[p].buyer
          /\ OthersKeep(p) /\ Open(request[p].buyer) = {}
      BY <2>4, RequestKinds DEF CheckOpen, HasOpenOffer, TypeOK, Creates, OthersKeep
    <3>2. Open(b)' = Open(b) /\ OffersOf(b)' = OffersOf(b) /\ \A o \in Offers : offer'[o] = offer[o]
      BY <2>4 DEF CheckOpen, Open, OffersOf, Exists
    <3>3. \A o \in Offers : OfferWriters(o)' \subseteq OfferWriters(o)
      BY <3>1 DEF OfferWriters, OthersKeep
    <3>4. Creating(b)' # {} => Creating(b) # {} \/ request[p].buyer = b
      BY <3>1 DEF Creating, OthersKeep
    <3> QED BY <3>1, <3>2, <3>3, <3>4 DEF Orderly, OffersOf
  <2>5. ASSUME NEW p \in Workers, InsertOffer(p) PROVE Orderly(b)'
    <3>1. PICK o \in Offers : ~Exists(o) /\ offer' = [offer EXCEPT ![o] = [buyer |-> request[p].buyer, status |-> "submitted"]]
      BY <2>5 DEF InsertOffer
    <3>2. /\ \A q \in Offers \ {o} : offer'[q] = offer[q]
          /\ offer'[o].buyer = request[p].buyer /\ offer'[o].status = "submitted"
      BY <3>1 DEF TypeOK
    <3>3. request'[p].step = "idle" /\ OthersKeep(p)
      BY <2>5 DEF InsertOffer, Respond, TypeOK, Idle, OthersKeep
    <3>4. \A q \in Offers : OfferWriters(q)' \subseteq OfferWriters(q)
      BY <3>3 DEF OfferWriters, OthersKeep
    <3>5. CASE request[p].buyer # b
      <4>1. Open(b)' = Open(b) /\ OffersOf(b)' = OffersOf(b) /\ o \notin OffersOf(b)
        BY <3>1, <3>2, <3>5 DEF Open, OffersOf, Exists
      <4>2. Creating(b)' \subseteq Creating(b)
        BY <3>3 DEF Creating, OthersKeep
      <4> QED BY <3>2, <3>4, <4>1, <4>2 DEF Orderly, OffersOf
    <3>6. CASE request[p].buyer = b
      <4>1. p \in Creating(b) /\ Creating(b)' = {}
        BY <2>5, <3>3, <3>6 DEF InsertOffer, Creating, OthersKeep, Contended, Two
      <4>2. Open(b) = {}
        BY <4>1 DEF Orderly
      <4>3. Open(b)' \subseteq {o} /\ OffersOf(b)' \subseteq OffersOf(b) \cup {o}
        BY <3>2, <4>2 DEF Open, OffersOf, Exists
      <4>4. \A q \in OffersOf(b) \ {o} : offer'[q] = offer[q]
        BY <3>2 DEF OffersOf
      <4> QED BY <3>2, <3>4, <4>1, <4>3, <4>4, Tables DEF Orderly, OffersOf
    <3> QED BY <3>5, <3>6
  <2>6. ASSUME NEW p \in Workers, NEW o \in Offers, Exists(o), UNCHANGED offer, OthersKeep(p),
               request'[p].step # "open_checked", request'[p].offer = o, offer[o].status \in OpenStatuses
        PROVE  Orderly(b)'
    <3>1. Open(b)' = Open(b) /\ OffersOf(b)' = OffersOf(b) /\ Creating(b)' \subseteq Creating(b)
      BY <2>6 DEF Open, OffersOf, Creating, Exists, OthersKeep
    <3>2. \A q \in Offers \ {o} : OfferWriters(q)' \subseteq OfferWriters(q)
      BY <2>6 DEF OfferWriters, OthersKeep
    <3> QED BY <2>6, <3>1, <3>2 DEF Orderly, OffersOf
  <2>7. ASSUME NEW p \in Workers, NEW o \in Offers, ReadForWithdraw(p, o) PROVE Orderly(b)'
    <3>1. request'[p].step = "withdrawing" /\ request'[p].offer = o /\ OthersKeep(p)
      BY <2>7 DEF ReadForWithdraw, TypeOK, Idle, OthersKeep
    <3> QED BY <2>6, <2>7, <3>1, Edges DEF ReadForWithdraw
  <2>8. ASSUME NEW p \in Workers, NEW o \in Offers, NEW t \in OfferStatuses, ReadForPatch(p, o, t) PROVE Orderly(b)'
    <3>1. request'[p].step = "patching" /\ request'[p].offer = o /\ OthersKeep(p)
      BY <2>8 DEF ReadForPatch, TypeOK, Idle, OthersKeep
    <3>2. offer[o].status \in OfferStatuses
      BY <2>8 DEF ReadForPatch, Exists, TypeOK, OfferRow
    <3> QED BY <2>6, <2>8, <3>1, <3>2, Edges DEF ReadForPatch
  <2>9. ASSUME NEW p \in Workers, WriteOffer(p) PROVE Orderly(b)'
    <3>1. request[p].offer \in Offers /\ request[p].target \in OfferStatuses
      BY <2>9, RequestKinds DEF WriteOffer, TypeOK
    <3>2. request'[p].step = "idle" /\ OthersKeep(p) /\ p \in OfferWriters(request[p].offer)
      BY <2>9 DEF WriteOffer, Respond, TypeOK, Idle, OthersKeep, OfferWriters
    <3> QED BY <2>9, <3>1, <3>2, WrittenOnce DEF WriteOffer
  <2>10. ASSUME NEW p \in Workers, FlushAccept(p) PROVE Orderly(b)'
    <3>1. request[p] \in Patches
      BY <2>10, RequestKinds DEF FlushAccept, TypeOK
    <3>2. /\ request'[p].step \in {"accepting", "idle"} /\ OthersKeep(p)
          /\ request'[p].step = "accepting" => request'[p].offer = request[p].offer
      BY <2>10, <3>1 DEF FlushAccept, TypeOK, Idle, OthersKeep, Patches
    <3>3. Open(b)' = Open(b) /\ OffersOf(b)' = OffersOf(b) /\ Creating(b)' \subseteq Creating(b)
      BY <2>10, <3>2 DEF FlushAccept, Open, OffersOf, Creating, Exists, OthersKeep
    <3>4. \A o \in Offers : OfferWriters(o)' \subseteq OfferWriters(o)
      BY <2>10, <3>2 DEF FlushAccept, OfferWriters, OthersKeep
    <3> QED BY <2>10, <3>3, <3>4 DEF FlushAccept, Orderly, OffersOf
  <2>11. ASSUME NEW p \in Workers, CommitAccept(p) PROVE Orderly(b)'
    <3>1. request[p].offer \in Offers
      BY <2>11, RequestKinds DEF CommitAccept, TypeOK
    <3>2. request'[p].step = "idle" /\ OthersKeep(p) /\ p \in OfferWriters(request[p].offer)
      BY <2>11 DEF CommitAccept, Respond, TypeOK, Idle, OthersKeep, OfferWriters
    <3> QED BY <2>11, <3>1, <3>2, WrittenOnce, Tables DEF CommitAccept
  <2>12. ASSUME NEW p \in Workers, NEW t \in Moves \cup {NULL}, NEW x \in BOOLEAN \cup {NULL}, ReadForMove(p, t, x)
         PROVE Orderly(b)'
    BY <2>12, OrderKept DEF ReadForMove, OthersKeep, TypeOK, Idle
  <2>13. ASSUME NEW p \in Workers, CommitMove(p) PROVE Orderly(b)'
    BY <2>13, OrderKept DEF CommitMove, OthersKeep, Respond, TypeOK, Idle
  <2>14. ASSUME NEW p \in Workers, ReadForDelete(p) PROVE Orderly(b)'
    BY <2>14, OrderKept DEF ReadForDelete, OthersKeep, TypeOK, Idle
  <2>15. ASSUME NEW p \in Workers, CommitDelete(p) PROVE Orderly(b)'
    BY <2>15, OrderKept DEF CommitDelete, OthersKeep, Respond, TypeOK, Idle
  <2>16. ASSUME NEW p \in Workers, Abort(p) PROVE Orderly(b)'
    BY <2>16, OrderKept DEF Abort, OthersKeep, Respond, TypeOK, Idle
  <2> QED
    BY <2>r, <2>1, <2>2, <2>3, <2>4, <2>5, <2>7, <2>8, <2>9, <2>10, <2>11, <2>12, <2>13, <2>14, <2>15, <2>16
    DEF Step, OfferStep, DealStep
<1> QED BY <1>1, <1>2, OfferDeskTyping, PTL DEF Spec

(* A buyer has two open offers on a deal only after a race: of two create_offers *)
(* past the check, or of two writers of one of the buyer's offers. *)
THEOREM OneOpenUnlessRaced == Spec => []OneOpenOffer
<1>1. TypeOK /\ OrderlyInv => OneOpenOffer
  <2> SUFFICES ASSUME OrderlyInv, NEW b \in Buyers \ raced PROVE Cardinality(Open(b)) <= 1
    BY DEF OneOpenOffer
  <2>1. \A o1, o2 \in Open(b) : o1 = o2
    BY DEF OrderlyInv, Orderly
  <2>2. CASE Open(b) = {}
    BY <2>2, FS_EmptySet
  <2>3. CASE Open(b) # {}
    <3>1. PICK o : Open(b) = {o}
      BY <2>1, <2>3
    <3>2. Cardinality({o}) = 1
      BY FS_Singleton, Zenon
    <3> QED BY <3>1, <3>2
  <2> QED BY <2>2, <2>3
<1> QED BY <1>1, OfferDeskTyping, OrderlyInductive, PTL

(* An accepted, rejected, withdrawn or expired offer is rewritten only after a *)
(* race of two writers of one offer (withdraw and admin_offer_patch write the *)
(* status they computed from an earlier read). *)
THEOREM DecidedUnlessRaced == Spec => TerminalOffersStay
<1> DEFINE Stays == \A o \in Offers :
        Exists(o) /\ offer[o].status \in TerminalOffers /\ offer[o].buyer \notin raced => offer'[o] = offer[o]
<1>1. TypeOK /\ OrderlyInv /\ [Next]_vars => [Stays]_vars
  <2> SUFFICES ASSUME TypeOK, OrderlyInv, Step, NEW o \in Offers,
                      Exists(o), offer[o].status \in TerminalOffers, offer[o].buyer \notin raced
               PROVE  offer'[o] = offer[o]
    BY DEF Next
  <2>1. offer[o].buyer \in Buyers
    BY DEF TypeOK, Exists, OfferRow
  <2>2. OfferWriters(o) = {}
    BY <2>1, Edges DEF OrderlyInv, Orderly, OffersOf
  <2>3. ASSUME NEW p \in Workers, InsertOffer(p) PROVE offer'[o] = offer[o]
    BY <2>3 DEF InsertOffer, TypeOK
  <2>4. ASSUME NEW p \in Workers, WriteOffer(p) \/ CommitAccept(p) PROVE offer'[o] = offer[o]
    BY <2>2, <2>4 DEF WriteOffer, CommitAccept, OfferWriters, TypeOK
  <2>5. CASE UNCHANGED offer
    BY <2>5
  <2> QED
    BY <2>3, <2>4, <2>5
    DEF Step, OfferStep, DealStep, rows, ReviseNotice, Acknowledge, ReadDealForOffer, ReadNotice, CheckOpen,
        ReadForWithdraw, ReadForPatch, FlushAccept, ReadForMove, CommitMove, ReadForDelete, CommitDelete, Abort
<1> HIDE DEF Stays
<1>2. Spec => [][Stays]_vars
  BY <1>1, OfferDeskTyping, OrderlyInductive, PTL DEF Spec
<1> QED BY <1>2 DEF Stays, TerminalOffersStay

-----------------------------------------------------------------------------
\* The request that writes the deal's status has read the status it holds.
DealInv ==
    ~dealRaced =>
        /\ ~Two(DealWriters)
        /\ \A p \in DealWriters :
            /\ request[p].step = "moving" => TransitionAllowed(deal.status, request[p].target)
            /\ request[p].step = "accepting" => deal.status = "available"

(* The deal moves off the table of statuses only after a race of two requests *)
(* that write its status (patch_deal and the accept of admin_offer_patch check *)
(* the edge on the status they have read). *)
THEOREM DealMovesUnlessRaced == Spec => DealMovesAlongTable
<1> DEFINE Moved == deal'.status # deal.status /\ ~dealRaced => deal'.status \in ALLOWED[deal.status]
<1>1. Init => DealInv
  BY DEF Init, DealInv, Two, DealWriters, Idle
<1>2. TypeOK /\ DealInv /\ [Next]_vars => DealInv' /\ [Moved]_vars
  <2> SUFFICES ASSUME TypeOK, DealInv, [Next]_vars PROVE DealInv' /\ [Moved]_vars
    OBVIOUS
  <2>0. CASE UNCHANGED vars
    BY <2>0 DEF vars, rows, DealInv, Two, DealWriters
  <2>1. CASE dealRaced /\ Next
    BY <2>1 DEF Next, NoteRace, DealInv
  <2> DEFINE Fit(q) == /\ request[q].step = "moving" => TransitionAllowed(deal.status, request[q].target)
                       /\ request[q].step = "accepting" => deal.status = "available"
  <2> SUFFICES ASSUME Step, ~Two(DealWriters), \A q \in DealWriters : Fit(q)
               PROVE  /\ Moved
                      /\ ~Two(DealWriters)' => \A q \in DealWriters' : Fit(q)'
    <3>1. CASE ~dealRaced /\ Step /\ NoteRace
      BY <3>1 DEF DealInv, NoteRace
    <3> QED BY <2>0, <2>1, <3>1 DEF Next
  <2> USE DEF TypeOK, Respond, Idle, rows
  \* Steps that keep the deal's status and ready no request to write it.
  <2>a. ASSUME NEW p \in Workers, deal'.status = deal.status, OthersKeep(p), request'[p].step \notin {"moving", "accepting"}
        PROVE  Moved /\ \A q \in DealWriters' : Fit(q)'
    <3>1. DealWriters' \subseteq DealWriters /\ p \notin DealWriters'
      BY <2>a DEF DealWriters, OthersKeep
    <3> QED BY <2>a, <3>1 DEF OthersKeep, DealWriters
  \* The one request that writes the status leaves nobody who still would.
  <2>b. ASSUME NEW p \in DealWriters, OthersKeep(p), request'[p].step = "idle" PROVE DealWriters' = {}
    BY <2>b DEF DealWriters, OthersKeep, Two
  <2>r. ASSUME ReviseNotice PROVE Moved /\ \A q \in DealWriters' : Fit(q)'
    BY <2>r DEF ReviseNotice, DealWriters
  <2>2. ASSUME NEW p \in Workers, NEW b \in Buyers, Acknowledge(p, b) PROVE Moved /\ \A q \in DealWriters' : Fit(q)'
    BY <2>2 DEF Acknowledge, DealWriters
  <2>3. ASSUME NEW p \in Workers, NEW b \in Buyers, ReadDealForOffer(p, b) PROVE Moved /\ \A q \in DealWriters' : Fit(q)'
    BY <2>3, <2>a DEF ReadDealForOffer, OthersKeep
  <2>4. ASSUME NEW p \in Workers, ReadNotice(p) \/ CheckOpen(p) PROVE Moved /\ \A q \in DealWriters' : Fit(q)'
    <3>1. request[p] \in Creates
      BY <2>4, RequestKinds DEF ReadNotice, CheckOpen
    <3>2. request'[p].step \in {"notice_read", "open_checked"} /\ OthersKeep(p)
      BY <2>4, <3>1 DEF ReadNotice, CheckOpen, OthersKeep, Creates
    <3> QED BY <2>4, <2>a, <3>2 DEF ReadNotice, CheckOpen
  <2>5. ASSUME NEW p \in Workers, InsertOffer(p) \/ WriteOffer(p) \/ Abort(p) PROVE Moved /\ \A q \in DealWriters' : Fit(q)'
    BY <2>5, <2>a DEF InsertOffer, WriteOffer, Abort, OthersKeep
  <2>6. ASSUME NEW p \in Workers, NEW o \in Offers, ReadForWithdraw(p, o)
        PROVE  Moved /\ \A q \in DealWriters' : Fit(q)'
    BY <2>6, <2>a DEF ReadForWithdraw, OthersKeep
  <2>12. ASSUME NEW p \in Workers, NEW o \in Offers, NEW t \in OfferStatuses, ReadForPatch(p, o, t)
         PROVE  Moved /\ \A q \in DealWriters' : Fit(q)'
    BY <2>12, <2>a DEF ReadForPatch, OthersKeep
  <2>7. ASSUME NEW p \in Workers, FlushAccept(p) PROVE Moved /\ \A q \in DealWriters' : Fit(q)'
    <3>1. request[p] \in Patches
      BY <2>7, RequestKinds DEF FlushAccept
    <3>2. OthersKeep(p) /\ request'[p].step # "moving" /\ (request'[p].step = "accepting" => request'[p].seen = deal.status)
      BY <2>7, <3>1 DEF FlushAccept, OthersKeep, Patches
    <3>3. \A q \in Workers \ {p} : q \in DealWriters' <=> q \in DealWriters
      BY <3>2 DEF DealWriters, OthersKeep
    <3> QED BY <2>7, <3>2, <3>3 DEF FlushAccept, DealWriters, OthersKeep
  <2>8. ASSUME NEW p \in Workers, CommitAccept(p)
        PROVE  Moved /\ \A q \in DealWriters' : Fit(q)'
    <3>1. OthersKeep(p) /\ request'[p].step = "idle" /\ deal'.status = DealAfterAccept(request[p].seen, deal.status)
      BY <2>8 DEF CommitAccept, OthersKeep
    <3>2. CASE request[p].seen = "available"
      <4>1. p \in DealWriters /\ deal.status = "available" /\ deal'.status = "pending"
        BY <2>8, <3>1, <3>2 DEF CommitAccept, DealWriters, DealAfterAccept
      <4> QED BY <2>b, <3>1, <4>1, Edges
    <3>3. CASE request[p].seen # "available"
      BY <2>a, <3>1, <3>3 DEF DealAfterAccept
    <3> QED BY <3>2, <3>3
  <2>9. ASSUME NEW p \in Workers, NEW t \in Moves \cup {NULL}, NEW x \in BOOLEAN \cup {NULL}, ReadForMove(p, t, x)
        PROVE  Moved /\ \A q \in DealWriters' : Fit(q)'
    <3>1. OthersKeep(p) /\ request'[p].step = "moving" /\ request'[p].target = t
      BY <2>9 DEF ReadForMove, OthersKeep
    <3>2. \A q \in Workers \ {p} : q \in DealWriters' <=> q \in DealWriters
      BY <3>1 DEF DealWriters, OthersKeep
    <3> QED BY <2>9, <3>1, <3>2 DEF ReadForMove, DealWriters, OthersKeep
  <2>10. ASSUME NEW p \in Workers, CommitMove(p) PROVE Moved /\ \A q \in DealWriters' : Fit(q)'
    <3>1. OthersKeep(p) /\ request'[p].step = "idle" /\ deal'.status = Sent(request[p].target, deal.status)
      BY <2>10 DEF CommitMove, OthersKeep
    <3>2. CASE request[p].target # NULL
      <4>1. p \in DealWriters /\ deal'.status = request[p].target
        BY <2>10, <3>1, <3>2 DEF CommitMove, DealWriters, Sent
      <4>2. deal'.status \in ALLOWED[deal.status]
        BY <2>10, <4>1 DEF CommitMove, TransitionAllowed
      <4> QED BY <2>b, <3>1, <4>1, <4>2
    <3>3. CASE request[p].target = NULL
      BY <2>a, <3>1, <3>3 DEF Sent
    <3> QED BY <3>2, <3>3
  <2>11. ASSUME NEW p \in Workers, ReadForDelete(p) \/ CommitDelete(p) PROVE Moved /\ \A q \in DealWriters' : Fit(q)'
    BY <2>11, <2>a DEF ReadForDelete, CommitDelete, OthersKeep
  <2> QED
    BY <2>r, <2>2, <2>3, <2>4, <2>5, <2>6, <2>7, <2>8, <2>9, <2>10, <2>11, <2>12 DEF Step, OfferStep, DealStep
<1> HIDE DEF Moved
<1>3. Spec => [][Moved]_vars
  BY <1>1, <1>2, OfferDeskTyping, PTL DEF Spec
<1> QED BY <1>3 DEF Moved, DealMovesAlongTable
=============================================================================
