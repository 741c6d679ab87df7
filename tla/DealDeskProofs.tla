--------------------------- MODULE DealDeskProofs ---------------------------
(***************************************************************************)
(* What holds of one deal for any number of buyers, concurrent requests    *)
(* and changes: the rows keep their types, no alert is sent twice, and the *)
(* histories and the alerts are right as long as nobody raced.             *)
(***************************************************************************)
EXTENDS DealDesk, FiniteSetTheorems, TLAPS

\* A patch in flight holds the deal it read, and one that is still alerting has an
\* alert to send.
Sound(r) ==
    /\ r.step \in {"patch", "tell", "insert"} => r.view \in Row
    /\ r.step \in {"tell", "insert"} => r.due # {}

DeskInv == TypeOK /\ moves # <<>> /\ \A w \in Workers : Sound(request[w])

(* Names used as statuses are statuses. *)
LEMMA StatusNames == "available" \in Statuses /\ \A s \in Statuses : \A t : TransitionAllowed(s, t) => t \in Statuses
BY DEF Statuses, ALLOWED, TransitionAllowed

(* An idle request is a sound one. *)
LEMMA IdleIsSound == Idle \in Request /\ Sound(Idle)
BY DEF Idle, Request, Sound

(* The kind that is sent first is one of those due. *)
LEMMA FirstIsDue == ASSUME NEW due \in SUBSET Kinds, due # {} PROVE FirstDue(due) \in due
BY DEF FirstDue, Kinds

(* A request that becomes a sound request leaves the requests sound. *)
LEMMA Becoming ==
    ASSUME DeskInv, NEW w \in Workers, NEW r \in Request, Sound(r), Become(w, r)
    PROVE  request' \in [Workers -> Request] /\ \A v \in Workers : Sound(request'[v])
BY DEF DeskInv, TypeOK, Become

(* What a patch makes of the deal it read is a deal. *)
LEMMA PatchedIsRow ==
    ASSUME NEW r \in Request, r.view \in Row
    PROVE  /\ Patched(r) \in Row
           /\ Moves(r) => r.status \in Statuses
           /\ Cuts(r) => r.price \in Prices
           /\ DueAlerts(r) \in SUBSET Kinds
<1>1. Moves(r) => r.status \in Statuses
  BY DEF Moves, Request
<1>2. Cuts(r) => r.price \in Prices
  BY DEF Cuts, Request
<1>3. EarlyAfter(r.view) \in BOOLEAN
  BY FlagAssumption DEF EarlyAfter, Row
<1>4. Patched(r) \in Row
  BY <1>1, <1>2, <1>3 DEF Patched, Row
<1> QED BY <1>1, <1>2, <1>4 DEF DueAlerts

(* The rows and the requests keep their types, and a request knows what it is *)
(* doing. *)
LEMMA DeskInvariant == Spec => []DeskInv
<1>1. Init => DeskInv
  <2> SUFFICES ASSUME Init PROVE DeskInv
    OBVIOUS
  <2>1. PICK s \in Targets, p \in Prices, e \in BOOLEAN :
           /\ deal = [status |-> s, price |-> p, early |-> e, published |-> s = "available"]
           /\ moves = <<[from |-> "", to |-> s]>>
    BY DEF Init
  <2>2. deal \in Row
    BY <2>1, TargetsAssumption DEF Row
  <2>3. moves \in Seq(MoveRows) /\ moves # <<>>
    <3>1. [from |-> "", to |-> s] \in MoveRows
      BY TargetsAssumption DEF MoveRows
    <3>2. \A x \in MoveRows : <<x>> \in Seq(MoveRows) /\ <<x>> # <<>>
      OBVIOUS
    <3> QED BY <2>1, <3>1, <3>2
  <2>4. cuts \in Seq(CutRows)
    <3>1. cuts = <<>>
      BY DEF Init
    <3> QED BY <3>1
  <2>5. told \in [Kinds -> [Buyers -> Nat]]
    BY DEF Init
  <2>6. request \in [Workers -> Request] /\ \A w \in Workers : Sound(request[w])
    BY IdleIsSound DEF Init
  <2>7. photos \in [all : Nat, covers : Nat] /\ live \in BOOLEAN /\ over \in BOOLEAN
    BY DEF Init
  <2>8. saved \subseteq Buyers /\ keen \subseteq Buyers /\ raced \subseteq Contests
    BY DEF Init
  <2> QED BY <2>2, <2>3, <2>4, <2>5, <2>6, <2>7, <2>8 DEF DeskInv, TypeOK
<1>2. DeskInv /\ [Next]_vars => DeskInv'
  <2> SUFFICES ASSUME DeskInv, [Next]_vars PROVE DeskInv'
    OBVIOUS
  <2>0. raced' \subseteq Contests
    BY DEF Next, NoteRace, vars, DeskInv, TypeOK
  <2>1. ASSUME NEW w \in Workers, NEW s \in Targets \cup {NULL}, NEW p \in Prices \cup {NULL},
               ReadForPatch(w, s, p) PROVE DeskInv'
    <3> DEFINE r == [Idle EXCEPT !.step = "patch", !.view = deal, !.status = s, !.price = p]
    <3>1. r \in Request /\ Sound(r)
      BY TargetsAssumption DEF DeskInv, TypeOK, Idle, Request, Sound
    <3>2. Become(w, r) /\ UNCHANGED <<deal, live, over, photos, moves, cuts, saved, keen, told>>
      BY <2>1 DEF ReadForPatch
    <3> HIDE DEF r
    <3>3. request' \in [Workers -> Request] /\ \A v \in Workers : Sound(request'[v])
      BY <3>1, <3>2, Becoming
    <3> QED BY <2>0, <3>2, <3>3 DEF DeskInv, TypeOK, Sound
  <2>2. ASSUME NEW w \in Workers, CommitPatch(w) PROVE DeskInv'
    <3> DEFINE r == request[w]
               v == Patched(r)
               q == IF DueAlerts(r) = {} THEN Idle
                      ELSE [Idle EXCEPT !.step = "tell", !.view = v, !.due = DueAlerts(r)]
    <3>1. r \in Request /\ r.view \in Row
      BY <2>2 DEF CommitPatch, DeskInv, TypeOK, Sound
    <3>2. /\ v \in Row /\ DueAlerts(r) \in SUBSET Kinds
          /\ Moves(r) => r.status \in Statuses
          /\ Cuts(r) => r.price \in Prices
      BY <3>1, PatchedIsRow
    <3>3. q \in Request /\ Sound(q)
      BY <3>2, IdleIsSound DEF Idle, Request, Sound
    <3>4. /\ deal' = [c \in DOMAIN deal |-> Written(r.view[c], v[c], deal[c])]
          /\ moves' = IF Moves(r) THEN Append(moves, MoveRow(r.view.status, r.status)) ELSE moves
          /\ cuts' = IF Cuts(r) THEN Append(cuts, CutRow(r.view.price, r.price)) ELSE cuts
          /\ Become(w, q)
          /\ UNCHANGED <<live, over, photos, saved, keen, told>>
      BY <2>2 DEF CommitPatch
    <3> HIDE DEF q, v, r
    <3>5. deal' \in Row
      BY <3>1, <3>2, <3>4 DEF DeskInv, TypeOK, Row, Written
    <3>6. moves' \in Seq(MoveRows) /\ moves' # <<>>
      <4>1. Moves(r) => MoveRow(r.view.status, r.status) \in MoveRows
        BY <3>1, <3>2 DEF MoveRow, MoveRows, Row
      <4> QED BY <3>4, <4>1 DEF DeskInv, TypeOK
    <3>7. cuts' \in Seq(CutRows)
      <4>1. Cuts(r) => CutRow(r.view.price, r.price) \in CutRows
        BY <3>1, <3>2 DEF CutRow, CutRows, Row
      <4> QED BY <3>4, <4>1 DEF DeskInv, TypeOK
    <3>8. request' \in [Workers -> Request] /\ \A x \in Workers : Sound(request'[x])
      BY <3>3, <3>4, Becoming
    <3> QED BY <2>0, <3>4, <3>5, <3>6, <3>7, <3>8 DEF DeskInv, TypeOK, Sound
  <2>3. ASSUME NEW w \in Workers, SelectAudience(w) PROVE DeskInv'
    <3> DEFINE r == request[w]
               q == IF live THEN [r EXCEPT !.step = "insert", !.audience = Audience(FirstDue(r.due), r.view)]
                    ELSE Idle
    <3>1. r \in Request /\ r.view \in Row /\ r.due # {} /\ r.step = "tell"
      BY <2>3 DEF SelectAudience, DeskInv, TypeOK, Sound
    <3>2. FirstDue(r.due) \in Kinds
      BY <3>1, FirstIsDue DEF Request
    <3>3. Audience(FirstDue(r.due), r.view) \in SUBSET Buyers
      BY <3>2 DEF Audience, Kinds, DeskInv, TypeOK
    <3>4. q \in Request /\ Sound(q)
      BY <3>1, <3>3, IdleIsSound DEF Request, Sound
    <3>5. Become(w, q) /\ UNCHANGED <<deal, live, over, photos, moves, cuts, saved, keen, told>>
      BY <2>3 DEF SelectAudience
    <3> HIDE DEF q
    <3>6. request' \in [Workers -> Request] /\ \A v \in Workers : Sound(request'[v])
      BY <3>4, <3>5, Becoming
    <3> QED BY <2>0, <3>5, <3>6 DEF DeskInv, TypeOK, Sound
  <2>4. ASSUME NEW w \in Workers, InsertNotifications(w) PROVE DeskInv'
    <3> DEFINE r == request[w]
               q == IF RestDue(r.due) = {} THEN Idle
                    ELSE [r EXCEPT !.step = "tell", !.due = RestDue(r.due), !.audience = {}]
    <3>1. r \in Request /\ r.view \in Row /\ r.due # {} /\ r.step = "insert"
      BY <2>4 DEF InsertNotifications, DeskInv, TypeOK, Sound
    <3>2. FirstDue(r.due) \in Kinds /\ RestDue(r.due) \in SUBSET Kinds
      BY <3>1, FirstIsDue DEF Request, RestDue
    <3>3. q \in Request /\ Sound(q)
      BY <3>1, <3>2, IdleIsSound DEF Request, Sound
    <3>4. /\ Become(w, q)
          /\ told' = [told EXCEPT ![FirstDue(r.due)] =
                        [b \in Buyers |-> IF b \in r.audience THEN told[FirstDue(r.due)][b] + 1 ELSE told[FirstDue(r.due)][b]]]
          /\ UNCHANGED <<deal, live, over, photos, moves, cuts, saved, keen>>
      BY <2>4 DEF InsertNotifications
    <3> HIDE DEF q
    <3>5. told' \in [Kinds -> [Buyers -> Nat]]
      <4> DEFINE k == FirstDue(r.due)
                 new == [b \in Buyers |-> IF b \in r.audience THEN told[k][b] + 1 ELSE told[k][b]]
      <4>1. told \in [Kinds -> [Buyers -> Nat]] /\ k \in Kinds
        BY <3>2 DEF DeskInv, TypeOK
      <4>2. new \in [Buyers -> Nat]
        BY <4>1
      <4> HIDE DEF new, k
      <4> QED BY <3>4, <4>1, <4>2 DEF new, k
    <3>6. request' \in [Workers -> Request] /\ \A v \in Workers : Sound(request'[v])
      BY <3>3, <3>4, Becoming
    <3> QED BY <2>0, <3>4, <3>5, <3>6 DEF DeskInv, TypeOK, Sound
  <2>5. ASSUME NEW w \in Workers, ReadForUpload(w) PROVE DeskInv'
    <3> DEFINE q == [Idle EXCEPT !.step = "upload", !.photos = photos.all]
    <3>1. q \in Request /\ Sound(q)
      BY DEF DeskInv, TypeOK, Idle, Request, Sound
    <3>2. Become(w, q) /\ UNCHANGED <<deal, live, over, photos, moves, cuts, saved, keen, told>>
      BY <2>5 DEF ReadForUpload
    <3> HIDE DEF q
    <3>3. request' \in [Workers -> Request] /\ \A v \in Workers : Sound(request'[v])
      BY <3>1, <3>2, Becoming
    <3> QED BY <2>0, <3>2, <3>3 DEF DeskInv, TypeOK, Sound
  <2>6. ASSUME NEW w \in Workers, CommitUpload(w) PROVE DeskInv'
    <3>1. request' \in [Workers -> Request] /\ \A v \in Workers : Sound(request'[v])
      BY <2>6, Becoming, IdleIsSound DEF CommitUpload
    <3>2. photos' \in [all : Nat, covers : Nat]
      BY <2>6 DEF CommitUpload, DeskInv, TypeOK
    <3> QED BY <2>0, <2>6, <3>1, <3>2 DEF CommitUpload, DeskInv, TypeOK, Sound
  <2>7. ASSUME NEW w \in Workers, ReadForDelete(w) PROVE DeskInv'
    <3> DEFINE q == [Idle EXCEPT !.step = "delete"]
    <3>1. q \in Request /\ Sound(q)
      BY DEF Idle, Request, Sound
    <3>2. Become(w, q) /\ UNCHANGED <<deal, live, over, photos, moves, cuts, saved, keen, told>>
      BY <2>7 DEF ReadForDelete
    <3> HIDE DEF q
    <3>3. request' \in [Workers -> Request] /\ \A v \in Workers : Sound(request'[v])
      BY <3>1, <3>2, Becoming
    <3> QED BY <2>0, <3>2, <3>3 DEF DeskInv, TypeOK, Sound
  <2>8. ASSUME NEW w \in Workers, CommitDelete(w) PROVE DeskInv'
    <3>1. request' \in [Workers -> Request] /\ \A v \in Workers : Sound(request'[v])
      BY <2>8, Becoming, IdleIsSound DEF CommitDelete
    <3> QED BY <2>0, <2>8, <3>1 DEF CommitDelete, DeskInv, TypeOK, Sound
  <2>9. ASSUME NEW w \in Workers, Abort(w) PROVE DeskInv'
    <3>1. request' \in [Workers -> Request] /\ \A v \in Workers : Sound(request'[v])
      BY <2>9, Becoming, IdleIsSound DEF Abort
    <3> QED BY <2>0, <2>9, <3>1 DEF Abort, DeskInv, TypeOK, Sound
  <2>13. ASSUME NEW w \in Workers, ReadForAccept(w) PROVE DeskInv'
    <3> DEFINE q == [Idle EXCEPT !.step = "accept", !.view = deal]
    <3>1. q \in Request /\ Sound(q)
      BY DEF DeskInv, TypeOK, Idle, Request, Sound
    <3>2. Become(w, q) /\ UNCHANGED <<deal, live, over, photos, moves, cuts, saved, keen, told>>
      BY <2>13 DEF ReadForAccept
    <3> HIDE DEF q
    <3>3. request' \in [Workers -> Request] /\ \A v \in Workers : Sound(request'[v])
      BY <3>1, <3>2, Becoming
    <3> QED BY <2>0, <3>2, <3>3 DEF DeskInv, TypeOK, Sound
  <2>14. ASSUME NEW w \in Workers, CommitAccept(w) PROVE DeskInv'
    <3>1. request' \in [Workers -> Request] /\ \A v \in Workers : Sound(request'[v])
      BY <2>14, Becoming, IdleIsSound DEF CommitAccept
    <3>2. deal' \in Row
      <4>1. "pending" \in Statuses
        BY DEF Statuses, ALLOWED
      <4> QED BY <2>14, <4>1 DEF CommitAccept, DeskInv, TypeOK, Row
    <3> QED BY <2>0, <2>14, <3>1, <3>2 DEF CommitAccept, DeskInv, TypeOK, Sound
  <2>10. ASSUME NEW b \in Buyers, Buyer(b) PROVE DeskInv'
    BY <2>0, <2>10 DEF Buyer, Save, Unsave, ShowInterest, DeskInv, TypeOK, Sound
  <2>11. ASSUME EarlyAccessEnds PROVE DeskInv'
    BY <2>0, <2>11 DEF EarlyAccessEnds, DeskInv, TypeOK, Sound
  <2>12. CASE UNCHANGED vars
    BY <2>12 DEF vars, DeskInv, TypeOK, Sound
  <2> QED BY <2>1, <2>2, <2>3, <2>4, <2>5, <2>6, <2>7, <2>8, <2>9, <2>10, <2>11, <2>12, <2>13, <2>14 DEF Next, Step, Desk
<1> QED BY <1>1, <1>2, PTL DEF Spec

(* The rows, the histories, the notifications and the requests keep their *)
(* types, whatever runs at the same time (create_deal, patch_deal, the *)
(* notify functions, upload_photo). *)
THEOREM DealDeskTyping == Spec => []TypeOK
<1>1. DeskInv => TypeOK
  BY DEF DeskInv
<1> QED BY <1>1, DeskInvariant, PTL
-----------------------------------------------------------------------------
\* Requests that have still to send an alert of a kind.
Holding(k) == {w \in Workers : k \in request[w].due}

\* The alerts sent and those still to be sent are no more than their occasions.
Accounted ==
    \A k \in Kinds, b \in Buyers : told[k][b] + Cardinality(Holding(k)) <= Cardinality(Occasions(k))

(* The occasions of a kind can be counted, and so can the requests. *)
LEMMA Countable ==
    ASSUME DeskInv, NEW k \in Kinds
    PROVE  /\ IsFiniteSet(Occasions(k)) /\ Cardinality(Occasions(k)) \in Nat
           /\ IsFiniteSet(Holding(k)) /\ Cardinality(Holding(k)) \in Nat
<1>1. Len(moves) \in Nat /\ Len(cuts) \in Nat
  BY DEF DeskInv, TypeOK
<1>2. IsFiniteSet(1 .. Len(moves)) /\ IsFiniteSet(1 .. Len(cuts))
  BY <1>1, FS_Interval
<1>3. Occasions(k) \subseteq 1 .. Len(moves) \/ Occasions(k) \subseteq 1 .. Len(cuts)
  BY <1>1 DEF Occasions, Kinds
<1>4. IsFiniteSet(Occasions(k))
  BY <1>2, <1>3, FS_Subset
<1>5. IsFiniteSet(Holding(k))
  BY WorkersAssumption, FS_Subset DEF Holding
<1> QED BY <1>4, <1>5, FS_CardinalityType

(* A request that becomes another one holds what that one has due. *)
LEMMA HoldingBecomes ==
    ASSUME DeskInv, NEW w \in Workers, NEW r, Become(w, r), NEW k \in Kinds
    PROVE  Holding(k)' = IF k \in r.due THEN Holding(k) \cup {w} ELSE Holding(k) \ {w}
BY DEF DeskInv, TypeOK, Become, Holding

(* A step that makes no history and sends nothing keeps the account, when the *)
(* request that takes it ends up with nothing more to send. *)
LEMMA QuietStep ==
    ASSUME DeskInv, Accounted, NEW w \in Workers, NEW r, Become(w, r),
           r.due \subseteq request[w].due, UNCHANGED <<moves, cuts, told>>
    PROVE  Accounted'
<1> SUFFICES ASSUME NEW k \in Kinds, NEW b \in Buyers
             PROVE  told[k][b] + Cardinality(Holding(k)') <= Cardinality(Occasions(k))
  BY DEF Accounted, Occasions
<1>1. Holding(k)' \subseteq Holding(k)
  BY HoldingBecomes DEF Holding
<1>2. Cardinality(Holding(k)') <= Cardinality(Holding(k)) /\ Cardinality(Holding(k)') \in Nat
  BY <1>1, Countable, FS_Subset, FS_CardinalityType
<1>3. told[k][b] \in Nat
  BY DEF DeskInv, TypeOK
<1> QED BY <1>2, <1>3, Countable DEF Accounted

(* The histories grow only, and a patch that leaves an alert due makes an *)
(* occasion for it. *)
LEMMA PatchMakesOccasion ==
    ASSUME DeskInv, NEW w \in Workers, CommitPatch(w), NEW k \in Kinds
    PROVE  /\ Occasions(k) \subseteq Occasions(k)'
           /\ IsFiniteSet(Occasions(k)')
           /\ k \in DueAlerts(request[w]) => Occasions(k)' # Occasions(k)
<1> DEFINE r == request[w]
           m == MoveRow(r.view.status, r.status)
           c == CutRow(r.view.price, r.price)
<1>1. /\ moves' = IF Moves(r) THEN Append(moves, m) ELSE moves
      /\ cuts' = IF Cuts(r) THEN Append(cuts, c) ELSE cuts
  BY DEF CommitPatch
<1>2. m.to = r.status /\ c.old = r.view.price /\ c.new = r.price
  BY DEF MoveRow, CutRow
<1>3. /\ moves \in Seq(MoveRows) /\ Len(moves) \in Nat /\ Len(moves) >= 1
      /\ cuts \in Seq(CutRows) /\ Len(cuts) \in Nat
  BY DEF DeskInv, TypeOK
<1>4. r \in Request /\ r.view \in Row
  BY DEF CommitPatch, DeskInv, TypeOK, Sound
<1>5. /\ Moves(r) => m \in MoveRows
      /\ Cuts(r) => c \in CutRows
  BY <1>4, PatchedIsRow DEF MoveRow, MoveRows, CutRow, CutRows, Row
<1>6. /\ k = "alert" /\ k \in DueAlerts(r) => Moves(r) /\ r.status = "available"
      /\ k = "gone" /\ k \in DueAlerts(r) => Moves(r) /\ r.status \in {"assigned", "closed"}
      /\ k = "drop" /\ k \in DueAlerts(r) => Cuts(r) /\ r.price < r.view.price
  BY DEF DueAlerts
<1> HIDE DEF m, c, r
<1>7. /\ Moves(r) => /\ Len(moves') = Len(moves) + 1 /\ moves'[Len(moves) + 1] = m
                     /\ \A i \in 1 .. Len(moves) : moves'[i] = moves[i]
      /\ ~Moves(r) => moves' = moves
  BY <1>1, <1>3, <1>5
<1>8. /\ Cuts(r) => /\ Len(cuts') = Len(cuts) + 1 /\ cuts'[Len(cuts) + 1] = c
                    /\ \A i \in 1 .. Len(cuts) : cuts'[i] = cuts[i]
      /\ ~Cuts(r) => cuts' = cuts
  BY <1>1, <1>3, <1>5
<1>9. CASE k = "alert"
  <2>1. Occasions(k) = {i \in 2 .. Len(moves) : moves[i].to = "available"}
        /\ Occasions(k)' = {i \in 2 .. Len(moves') : moves'[i].to = "available"}
    BY <1>9 DEF Occasions
  <2>2. Occasions(k) \subseteq Occasions(k)'
    BY <1>3, <1>7, <2>1
  <2>3. k \in DueAlerts(r) => Len(moves) + 1 \in Occasions(k)' /\ Len(moves) + 1 \notin Occasions(k)
    BY <1>2, <1>3, <1>6, <1>7, <1>9, <2>1
  <2>4. Occasions(k)' \subseteq 1 .. Len(moves') /\ Len(moves') \in Nat
    BY <2>1, <1>3, <1>7
  <2>5. IsFiniteSet(1 .. Len(moves'))
    BY <2>4, FS_Interval
  <2>6. IsFiniteSet(Occasions(k)')
    BY <2>4, <2>5, FS_Subset
  <2> QED BY <2>2, <2>3, <2>6 DEF r
<1>10. CASE k = "gone"
  <2>1. Occasions(k) = {i \in 2 .. Len(moves) : moves[i].to \in {"assigned", "closed"}}
        /\ Occasions(k)' = {i \in 2 .. Len(moves') : moves'[i].to \in {"assigned", "closed"}}
    BY <1>10 DEF Occasions
  <2>2. Occasions(k) \subseteq Occasions(k)'
    BY <1>3, <1>7, <2>1
  <2>3. k \in DueAlerts(r) => Len(moves) + 1 \in Occasions(k)' /\ Len(moves) + 1 \notin Occasions(k)
    BY <1>2, <1>3, <1>6, <1>7, <1>10, <2>1
  <2>4. Occasions(k)' \subseteq 1 .. Len(moves') /\ Len(moves') \in Nat
    BY <2>1, <1>3, <1>7
  <2>5. IsFiniteSet(1 .. Len(moves'))
    BY <2>4, FS_Interval
  <2>6. IsFiniteSet(Occasions(k)')
    BY <2>4, <2>5, FS_Subset
  <2> QED BY <2>2, <2>3, <2>6 DEF r
<1>11. CASE k = "drop"
  <2>1. Occasions(k) = {i \in 1 .. Len(cuts) : cuts[i].new < cuts[i].old}
        /\ Occasions(k)' = {i \in 1 .. Len(cuts') : cuts'[i].new < cuts'[i].old}
    BY <1>11 DEF Occasions
  <2>2. Occasions(k) \subseteq Occasions(k)'
    BY <1>3, <1>8, <2>1
  <2>3. k \in DueAlerts(r) => Len(cuts) + 1 \in Occasions(k)' /\ Len(cuts) + 1 \notin Occasions(k)
    BY <1>2, <1>3, <1>6, <1>8, <1>11, <2>1
  <2>4. Occasions(k)' \subseteq 1 .. Len(cuts') /\ Len(cuts') \in Nat
    BY <2>1, <1>3, <1>8
  <2>5. IsFiniteSet(1 .. Len(cuts'))
    BY <2>4, FS_Interval
  <2>6. IsFiniteSet(Occasions(k)')
    BY <2>4, <2>5, FS_Subset
  <2> QED BY <2>2, <2>3, <2>6 DEF r
<1> QED BY <1>9, <1>10, <1>11 DEF Kinds

(* A commit keeps the account: what it leaves due it has made an occasion for. *)
LEMMA PatchAccounted ==
    ASSUME DeskInv, Accounted, NEW w \in Workers, CommitPatch(w)
    PROVE  Accounted'
<1> DEFINE r == request[w]
           q == IF DueAlerts(r) = {} THEN Idle
                  ELSE [Idle EXCEPT !.step = "tell", !.view = Patched(r), !.due = DueAlerts(r)]
<1>1. Become(w, q) /\ told' = told
  BY DEF CommitPatch
<1>2. q.due = DueAlerts(r)
  BY DEF Idle
<1> HIDE DEF q
<1> SUFFICES ASSUME NEW k \in Kinds, NEW b \in Buyers
             PROVE  told[k][b] + Cardinality(Holding(k)') <= Cardinality(Occasions(k)')
  BY <1>1 DEF Accounted
<1>3. told[k][b] \in Nat
  BY DEF DeskInv, TypeOK
<1>4. told[k][b] + Cardinality(Holding(k)) <= Cardinality(Occasions(k))
  BY DEF Accounted
<1>5. Cardinality(Occasions(k)) <= Cardinality(Occasions(k)') /\ Cardinality(Occasions(k)') \in Nat
  BY PatchMakesOccasion, FS_Subset, FS_CardinalityType
<1>6. CASE k \in DueAlerts(r)
  <2>1. Holding(k)' = Holding(k) \cup {w}
    BY <1>1, <1>2, <1>6, HoldingBecomes
  <2>2. Cardinality(Holding(k)') <= Cardinality(Holding(k)) + 1 /\ Cardinality(Holding(k)') \in Nat
    <3> DEFINE n == Cardinality(Holding(k))
               u == Cardinality(Holding(k) \cup {w})
    <3>1. n \in Nat
      BY Countable
    <3>2. u = n \/ u = n + 1
      BY Countable, FS_AddElement
    <3>3. Cardinality(Holding(k)') = u
      BY <2>1
    <3> HIDE DEF u
    <3> QED BY <3>1, <3>2, <3>3
  <2>3. Cardinality(Occasions(k)) + 1 <= Cardinality(Occasions(k)')
    <3>1. PICK i \in Occasions(k)' : i \notin Occasions(k)
      BY <1>6, PatchMakesOccasion
    <3>2. Cardinality(Occasions(k) \cup {i}) = Cardinality(Occasions(k)) + 1
      BY <3>1, Countable, FS_AddElement
    <3>3. Occasions(k) \cup {i} \subseteq Occasions(k)'
      BY <3>1, PatchMakesOccasion
    <3> QED BY <3>2, <3>3, PatchMakesOccasion, FS_Subset
  <2> QED BY <1>3, <1>4, <1>5, <2>2, <2>3, Countable
<1>7. CASE k \notin DueAlerts(r)
  <2>1. Holding(k)' \subseteq Holding(k)
    BY <1>1, <1>2, <1>7, HoldingBecomes
  <2>2. Cardinality(Holding(k)') <= Cardinality(Holding(k)) /\ Cardinality(Holding(k)') \in Nat
    BY <2>1, Countable, FS_Subset, FS_CardinalityType
  <2> QED BY <1>3, <1>4, <1>5, <2>2, Countable
<1> QED BY <1>6, <1>7

(* Sending trades an alert due for one sent. *)
LEMMA InsertAccounted ==
    ASSUME DeskInv, Accounted, NEW w \in Workers, InsertNotifications(w)
    PROVE  Accounted'
<1> DEFINE r == request[w]
           f == FirstDue(r.due)
           q == IF RestDue(r.due) = {} THEN Idle
                ELSE [r EXCEPT !.step = "tell", !.due = RestDue(r.due), !.audience = {}]
<1>1. /\ Become(w, q)
      /\ told' = [told EXCEPT ![f] = [b \in Buyers |-> IF b \in r.audience THEN told[f][b] + 1 ELSE told[f][b]]]
      /\ UNCHANGED <<moves, cuts>>
  BY DEF InsertNotifications
<1>2. r \in Request /\ r.due # {} /\ r.due \in SUBSET Kinds
  BY DEF InsertNotifications, DeskInv, TypeOK, Sound, Request
<1>3. f \in r.due /\ f \in Kinds
  BY <1>2, FirstIsDue
<1>4. q.due = r.due \ {f}
  BY <1>2, <1>3 DEF Idle, RestDue, Request
<1>5. told \in [Kinds -> [Buyers -> Nat]]
  BY DEF DeskInv, TypeOK
<1> HIDE DEF q, f
<1> SUFFICES ASSUME NEW k \in Kinds, NEW b \in Buyers
             PROVE  told'[k][b] + Cardinality(Holding(k)') <= Cardinality(Occasions(k))
  BY <1>1 DEF Accounted, Occasions
<1>6. told[k][b] + Cardinality(Holding(k)) <= Cardinality(Occasions(k)) /\ told[k][b] \in Nat
  BY <1>5 DEF Accounted
<1>7. CASE k = f
  <2>1. told'[k][b] <= told[k][b] + 1 /\ told'[k][b] \in Nat
    BY <1>1, <1>3, <1>5, <1>7
  <2>2. Holding(k)' = Holding(k) \ {w} /\ w \in Holding(k)
    BY <1>1, <1>3, <1>4, <1>7, HoldingBecomes DEF Holding
  <2>3. Cardinality(Holding(k)') = Cardinality(Holding(k)) - 1
    BY <2>2, Countable, FS_RemoveElement
  <2> QED BY <1>6, <2>1, <2>3, Countable
<1>8. CASE k # f
  <2>1. told'[k][b] = told[k][b]
    BY <1>1, <1>3, <1>5, <1>8
  <2>2. Holding(k)' = Holding(k)
    BY <1>1, <1>4, <1>8, HoldingBecomes DEF Holding
  <2> QED BY <1>6, <2>1, <2>2
<1> QED BY <1>7, <1>8

(* Every other step of the desk is a quiet one. *)
LEMMA DeskAccounted ==
    ASSUME DeskInv, Accounted, NEW w \in Workers, Desk(w)
    PROVE  Accounted'
<1>1. request[w] \in Request
  BY DEF DeskInv, TypeOK
<1>2. Idle.due = {} /\ Idle.due \subseteq request[w].due
  BY DEF Idle
<1>3. ASSUME NEW s \in Targets \cup {NULL}, NEW p \in Prices \cup {NULL}, ReadForPatch(w, s, p)
      PROVE  Accounted'
  <2> DEFINE r == [Idle EXCEPT !.step = "patch", !.view = deal, !.status = s, !.price = p]
  <2>1. Become(w, r) /\ UNCHANGED <<moves, cuts, told>>
    BY <1>3 DEF ReadForPatch
  <2>2. r.due \subseteq request[w].due
    BY DEF Idle
  <2> HIDE DEF r
  <2> QED BY <2>1, <2>2, QuietStep
<1>4. CASE SelectAudience(w)
  <2> DEFINE r == IF live THEN [request[w] EXCEPT !.step = "insert",
                                                  !.audience = Audience(FirstDue(request[w].due), request[w].view)]
                  ELSE Idle
  <2>1. Become(w, r) /\ UNCHANGED <<moves, cuts, told>>
    BY <1>4 DEF SelectAudience
  <2>2. r.due \subseteq request[w].due
    BY <1>1, <1>2 DEF Request
  <2> HIDE DEF r
  <2> QED BY <2>1, <2>2, QuietStep
<1>5. CASE ReadForUpload(w)
  <2> DEFINE r == [Idle EXCEPT !.step = "upload", !.photos = photos.all]
  <2>1. Become(w, r) /\ UNCHANGED <<moves, cuts, told>>
    BY <1>5 DEF ReadForUpload
  <2>2. r.due \subseteq request[w].due
    BY DEF Idle
  <2> HIDE DEF r
  <2> QED BY <2>1, <2>2, QuietStep
<1>6. CASE ReadForDelete(w)
  <2> DEFINE r == [Idle EXCEPT !.step = "delete"]
  <2>1. Become(w, r) /\ UNCHANGED <<moves, cuts, told>>
    BY <1>6 DEF ReadForDelete
  <2>2. r.due \subseteq request[w].due
    BY DEF Idle
  <2> HIDE DEF r
  <2> QED BY <2>1, <2>2, QuietStep
<1>7. CASE CommitAccept(w) \/ CommitUpload(w) \/ CommitDelete(w) \/ Abort(w)
  <2>1. Become(w, Idle) /\ UNCHANGED <<moves, cuts, told>>
    BY <1>7 DEF CommitAccept, CommitUpload, CommitDelete, Abort
  <2> QED BY <2>1, <1>2, QuietStep
<1>8. CASE ReadForAccept(w)
  <2> DEFINE r == [Idle EXCEPT !.step = "accept", !.view = deal]
  <2>1. Become(w, r) /\ UNCHANGED <<moves, cuts, told>>
    BY <1>8 DEF ReadForAccept
  <2>2. r.due \subseteq request[w].due
    BY DEF Idle
  <2> HIDE DEF r
  <2> QED BY <2>1, <2>2, QuietStep
<1> QED BY <1>3, <1>4, <1>5, <1>6, <1>7, <1>8, PatchAccounted, InsertAccounted DEF Desk

(* Whatever runs at the same time and wherever a request is cut off, nobody is *)
(* told more often than there was something to tell (patch_deal and the *)
(* notify functions). *)
THEOREM NobodyToldTwice == Spec => []ToldOncePerOccasion
<1>1. Init => Accounted
  <2> SUFFICES ASSUME Init, NEW k \in Kinds, NEW b \in Buyers
               PROVE  told[k][b] + Cardinality(Holding(k)) <= Cardinality(Occasions(k))
    BY DEF Accounted
  <2>1. told[k][b] = 0
    BY DEF Init
  <2>2. Holding(k) = {}
    BY DEF Init, Holding, Idle
  <2>3. PICK x : moves = <<x>>
    BY DEF Init
  <2>4. cuts = <<>>
    BY DEF Init
  <2>5. Occasions(k) = {}
    BY <2>3, <2>4 DEF Occasions, Kinds
  <2> QED BY <2>1, <2>2, <2>5, FS_EmptySet
<1>2. DeskInv /\ Accounted /\ [Next]_vars => Accounted'
  <2> SUFFICES ASSUME DeskInv, Accounted, [Next]_vars PROVE Accounted'
    OBVIOUS
  <2>1. ASSUME NEW b \in Buyers, Buyer(b) PROVE Accounted'
    <3>1. UNCHANGED <<moves, cuts, told, request>>
      BY <2>1 DEF Buyer, Save, Unsave, ShowInterest
    <3> QED BY <3>1 DEF Accounted, Holding, Occasions
  <2>2. CASE EarlyAccessEnds
    BY <2>2 DEF EarlyAccessEnds, Accounted, Holding, Occasions
  <2>3. CASE UNCHANGED vars
    BY <2>3 DEF vars, Accounted, Holding, Occasions
  <2> QED BY <2>1, <2>2, <2>3, DeskAccounted DEF Next, Step
<1>3. DeskInv /\ Accounted => ToldOncePerOccasion
  <2> SUFFICES ASSUME DeskInv, Accounted, NEW k \in Kinds, NEW b \in Buyers
               PROVE  told[k][b] <= Cardinality(Occasions(k))
    BY DEF ToldOncePerOccasion
  <2>1. told[k][b] \in Nat /\ told[k][b] + Cardinality(Holding(k)) <= Cardinality(Occasions(k))
    BY DEF DeskInv, TypeOK, Accounted
  <2> QED BY <2>1, Countable
<1> QED BY <1>1, <1>2, <1>3, DeskInvariant, PTL DEF Spec

-----------------------------------------------------------------------------
\* The covers are photos, and they are bounded together with those to come.
Covered == photos.covers <= photos.all /\ CoversBound

(* A request that becomes anything but an upload that found no photo leaves the *)
(* bound on covers alone. *)
LEMMA NoUpload ==
    ASSUME DeskInv, Covered, NEW w \in Workers, NEW r, Become(w, r),
           r.step # "upload" \/ r.photos # 0, UNCHANGED photos
    PROVE  Covered'
<1>1. FoundNone' \subseteq FoundNone /\ IsFiniteSet(FoundNone)
  <2>1. FoundNone' \subseteq FoundNone
    BY DEF DeskInv, TypeOK, Become, FoundNone
  <2>2. IsFiniteSet(FoundNone)
    BY WorkersAssumption, FS_Subset DEF FoundNone
  <2> QED BY <2>1, <2>2
<1>2. Cardinality(FoundNone') <= Cardinality(FoundNone)
  BY <1>1, FS_Subset
<1>3. Cardinality(FoundNone') \in Nat /\ Cardinality(FoundNone) \in Nat
  BY <1>1, FS_Subset, FS_CardinalityType
<1>4. Cardinality(Workers) \in Nat /\ photos.covers \in Nat
  BY WorkersAssumption, FS_CardinalityType DEF DeskInv, TypeOK
<1> QED BY <1>2, <1>3, <1>4 DEF Covered, CoversBound

(* An upload joins those that found no photo only while there is no cover. *)
LEMMA UploadRead ==
    ASSUME DeskInv, Covered, NEW w \in Workers, ReadForUpload(w)
    PROVE  Covered'
<1> DEFINE r == [Idle EXCEPT !.step = "upload", !.photos = photos.all]
<1>1. Become(w, r) /\ UNCHANGED photos
  BY DEF ReadForUpload
<1>2. r.photos = photos.all
  BY DEF Idle
<1> HIDE DEF r
<1>3. CASE photos.all = 0
  <2>1. photos.covers = 0
    BY <1>3 DEF Covered, DeskInv, TypeOK
  <2>2. FoundNone' \subseteq Workers
    BY DEF FoundNone
  <2>3. Cardinality(FoundNone') <= Cardinality(Workers) /\ Cardinality(FoundNone') \in Nat
    BY <2>2, WorkersAssumption, FS_Subset, FS_CardinalityType
  <2> QED BY <1>1, <1>3, <2>1, <2>3 DEF Covered, CoversBound
<1>4. CASE photos.all # 0
  BY <1>1, <1>2, <1>4, NoUpload
<1> QED BY <1>3, <1>4

(* The commit of an upload trades its place among those for a cover. *)
LEMMA UploadCommit ==
    ASSUME DeskInv, Covered, NEW w \in Workers, CommitUpload(w)
    PROVE  Covered'
<1>1. /\ photos' = [all |-> photos.all + 1,
                    covers |-> IF request[w].photos = 0 THEN photos.covers + 1 ELSE photos.covers]
      /\ Become(w, Idle) /\ request[w].step = "upload"
  BY DEF CommitUpload, IsCover
<1>2. photos.all \in Nat /\ photos.covers \in Nat /\ Cardinality(Workers) \in Nat
  BY WorkersAssumption, FS_CardinalityType DEF DeskInv, TypeOK
<1>3. IsFiniteSet(FoundNone) /\ Cardinality(FoundNone) \in Nat
  BY WorkersAssumption, FS_Subset, FS_CardinalityType DEF FoundNone
<1>4. FoundNone' = FoundNone \ {w}
  BY <1>1 DEF DeskInv, TypeOK, Become, FoundNone, Idle
<1>5. photos'.covers <= photos'.all
  BY <1>1, <1>2 DEF Covered
<1>6. CASE request[w].photos = 0
  <2>1. w \in FoundNone
    BY <1>1, <1>6 DEF FoundNone
  <2>2. Cardinality(FoundNone') = Cardinality(FoundNone) - 1
    BY <1>3, <1>4, <2>1, FS_RemoveElement
  <2>3. photos'.covers = photos.covers + 1
    BY <1>1, <1>6
  <2> QED BY <1>2, <1>3, <1>5, <2>2, <2>3 DEF Covered, CoversBound
<1>7. CASE request[w].photos # 0
  <2>1. FoundNone' = FoundNone
    BY <1>4, <1>7 DEF FoundNone
  <2>2. photos'.covers = photos.covers
    BY <1>1, <1>7
  <2> QED BY <1>5, <2>1, <2>2 DEF Covered, CoversBound
<1> QED BY <1>6, <1>7

(* Whatever runs at the same time, covers are no more than requests in flight *)
(* (upload_photo). *)
THEOREM CoversBounded == Spec => []CoversBound
<1>1. Init => Covered
  <2> SUFFICES ASSUME Init PROVE Covered
    OBVIOUS
  <2>1. photos = [all |-> 0, covers |-> 0]
    BY DEF Init
  <2>2. FoundNone = {}
    BY DEF Init, FoundNone, Idle
  <2>3. Cardinality(FoundNone) = 0 /\ Cardinality(Workers) \in Nat
    BY <2>2, WorkersAssumption, FS_EmptySet, FS_CardinalityType
  <2> QED BY <2>1, <2>3 DEF Covered, CoversBound
<1>2. DeskInv /\ Covered /\ [Next]_vars => Covered'
  <2> SUFFICES ASSUME DeskInv, Covered, [Next]_vars PROVE Covered'
    OBVIOUS
  <2>1. ASSUME NEW w \in Workers, NEW s \in Targets \cup {NULL}, NEW p \in Prices \cup {NULL},
               ReadForPatch(w, s, p) PROVE Covered'
    <3> DEFINE r == [Idle EXCEPT !.step = "patch", !.view = deal, !.status = s, !.price = p]
    <3>1. Become(w, r) /\ UNCHANGED photos
      BY <2>1 DEF ReadForPatch
    <3>2. r.step = "patch"
      BY DEF Idle
    <3> HIDE DEF r
    <3> QED BY <3>1, <3>2, NoUpload
  <2>2. ASSUME NEW w \in Workers, CommitPatch(w) PROVE Covered'
    <3> DEFINE r == request[w]
               q == IF DueAlerts(r) = {} THEN Idle
                      ELSE [Idle EXCEPT !.step = "tell", !.view = Patched(r), !.due = DueAlerts(r)]
    <3>1. Become(w, q) /\ UNCHANGED photos
      BY <2>2 DEF CommitPatch
    <3>2. q.step # "upload"
      BY DEF Idle
    <3> HIDE DEF q
    <3> QED BY <3>1, <3>2, NoUpload
  <2>3. ASSUME NEW w \in Workers, SelectAudience(w) PROVE Covered'
    <3> DEFINE q == IF live THEN [request[w] EXCEPT !.step = "insert",
                                                    !.audience = Audience(FirstDue(request[w].due), request[w].view)]
                    ELSE Idle
    <3>1. Become(w, q) /\ UNCHANGED photos
      BY <2>3 DEF SelectAudience
    <3>2. q.step # "upload"
      BY DEF Idle, DeskInv, TypeOK, Request
    <3> HIDE DEF q
    <3> QED BY <3>1, <3>2, NoUpload
  <2>4. ASSUME NEW w \in Workers, InsertNotifications(w) PROVE Covered'
    <3> DEFINE r == request[w]
               q == IF RestDue(r.due) = {} THEN Idle
                    ELSE [r EXCEPT !.step = "tell", !.due = RestDue(r.due), !.audience = {}]
    <3>1. Become(w, q) /\ UNCHANGED photos
      BY <2>4 DEF InsertNotifications
    <3>2. q.step # "upload"
      BY DEF Idle, DeskInv, TypeOK, Request
    <3> HIDE DEF q
    <3> QED BY <3>1, <3>2, NoUpload
  <2>5. ASSUME NEW w \in Workers, ReadForDelete(w) PROVE Covered'
    <3> DEFINE q == [Idle EXCEPT !.step = "delete"]
    <3>1. Become(w, q) /\ UNCHANGED photos
      BY <2>5 DEF ReadForDelete
    <3>2. q.step # "upload"
      BY DEF Idle
    <3> HIDE DEF q
    <3> QED BY <3>1, <3>2, NoUpload
  <2>9. ASSUME NEW w \in Workers, ReadForAccept(w) PROVE Covered'
    <3> DEFINE q == [Idle EXCEPT !.step = "accept", !.view = deal]
    <3>1. Become(w, q) /\ UNCHANGED photos
      BY <2>9 DEF ReadForAccept
    <3>2. q.step # "upload"
      BY DEF Idle
    <3> HIDE DEF q
    <3> QED BY <3>1, <3>2, NoUpload
  <2>6. ASSUME NEW w \in Workers, CommitAccept(w) \/ CommitDelete(w) \/ Abort(w) PROVE Covered'
    <3>1. Become(w, Idle) /\ UNCHANGED photos
      BY <2>6 DEF CommitAccept, CommitDelete, Abort
    <3>2. Idle.step # "upload"
      BY DEF Idle
    <3> QED BY <3>1, <3>2, NoUpload
  <2>7. ASSUME NEW b \in Buyers, Buyer(b) PROVE Covered'
    <3>1. UNCHANGED <<photos, request>>
      BY <2>7 DEF Buyer, Save, Unsave, ShowInterest
    <3> QED BY <3>1 DEF Covered, CoversBound, FoundNone
  <2>8. CASE EarlyAccessEnds \/ UNCHANGED vars
    BY <2>8 DEF EarlyAccessEnds, vars, Covered, CoversBound, FoundNone
  <2> QED BY <2>1, <2>2, <2>3, <2>4, <2>5, <2>6, <2>7, <2>8, <2>9, UploadRead, UploadCommit DEF Next, Step, Desk
<1>3. Covered => CoversBound
  BY DEF Covered
<1> QED BY <1>1, <1>2, <1>3, DeskInvariant, PTL DEF Spec

-----------------------------------------------------------------------------
\* Two contenders for the same thing have been noted.
Noted == \A c \in Contests : (\E v, w \in Contenders(c) : v # w) => c \in raced

\* What a request has read is what is stored, of the columns nobody has raced for,
\* and those it is about to alert may see the deal.
Current(w) ==
    LET r == request[w] IN
    /\ r.step = "patch" /\ Moves(r) => TransitionAllowed(r.view.status, r.status)
    /\ "price" \notin raced /\ w \in PriceWriters => r.view.price = deal.price
    /\ "status" \notin raced /\ w \in StatusWriters =>
          IF r.step = "patch" THEN r.view.status = deal.status ELSE deal.status = "available"
    /\ "alert" \notin raced /\ w \in StatusWriters /\ r.step = "patch" => r.view.early = deal.early
    /\ "alert" \notin raced /\ w \in Alerters =>
          deal.status = "available" /\ r.view.early = deal.early
    /\ "alert" \notin raced /\ w \in Alerters /\ r.step = "insert" =>
          live /\ (FirstDue(r.due) = "alert" => \A b \in r.audience : CanSee(deal, b))

Chains ==
    /\ StatusHistoryChains /\ PriceHistoryChains /\ Noted
    /\ \A w \in Workers : Current(w)

(* Every step notes the contenders it leaves, and forgets none noted before. *)
LEMMA Noting == ASSUME Noted, [Next]_vars PROVE Noted' /\ raced \subseteq raced'
<1>1. CASE Next
  BY <1>1 DEF Next, NoteRace, Noted
<1>2. CASE UNCHANGED vars
  BY <1>2 DEF vars, Noted, Contenders, PriceWriters, StatusWriters, Deleters, Alerters, Moves, Cuts
<1> QED BY <1>1, <1>2

(* Whom a worker contends with, if it contends at all, is noted. *)
LEMMA Contended ==
    ASSUME Noted, NEW v \in Workers, NEW w \in Workers, v # w
    PROVE  /\ v \in PriceWriters /\ w \in PriceWriters => "price" \in raced
           /\ v \in StatusWriters /\ w \in StatusWriters => "status" \in raced
           /\ v \in StatusWriters \cup Deleters \cup Alerters /\ w \in StatusWriters \cup Deleters \cup Alerters
                => "alert" \in raced
<1>1. Contenders("price") = PriceWriters /\ Contenders("status") = StatusWriters
      /\ Contenders("alert") = StatusWriters \cup Deleters \cup Alerters
  BY DEF Contenders
<1>2. {"price", "status", "alert"} \subseteq Contests
  BY DEF Contests
<1> QED BY <1>1, <1>2 DEF Noted

(* What the commit of a patch stores: the columns it moved, and no other. *)
LEMMA PatchStores ==
    ASSUME DeskInv, NEW w \in Workers, CommitPatch(w)
    PROVE  LET r == request[w] IN
           /\ deal'.status = IF Moves(r) THEN r.status ELSE deal.status
           /\ deal'.price = IF Cuts(r) THEN r.price ELSE deal.price
           /\ ~Moves(r) => deal'.early = deal.early
           /\ r.view.early = deal.early => deal'.early = Patched(r).early
<1> DEFINE r == request[w]
           v == Patched(r)
<1>1. r.step = "patch" /\ deal' = [c \in DOMAIN deal |-> Written(r.view[c], v[c], deal[c])]
  BY DEF CommitPatch
<1>2. DOMAIN deal = {"status", "price", "early", "published"}
  BY DEF DeskInv, TypeOK, Row
<1>3. /\ deal'.status = Written(r.view.status, v.status, deal.status)
      /\ deal'.price = Written(r.view.price, v.price, deal.price)
      /\ deal'.early = Written(r.view.early, v.early, deal.early)
  BY <1>1, <1>2
<1>4. /\ v.status = IF Moves(r) THEN r.status ELSE r.view.status
      /\ v.price = IF Cuts(r) THEN r.price ELSE r.view.price
      /\ ~Moves(r) => v.early = r.view.early
  BY DEF Patched
<1>5. (Moves(r) => r.status # r.view.status) /\ (Cuts(r) => r.price # r.view.price)
  BY DEF Moves, Cuts
<1> HIDE DEF v, r
<1>6. /\ deal'.status = IF Moves(r) THEN r.status ELSE deal.status
      /\ deal'.price = IF Cuts(r) THEN r.price ELSE deal.price
  BY <1>3, <1>4, <1>5 DEF Written
<1>7. (~Moves(r) => deal'.early = deal.early) /\ (r.view.early = deal.early => deal'.early = v.early)
  BY <1>3, <1>4 DEF Written
<1> QED BY <1>6, <1>7 DEF r, v

(* The status row a patch adds goes on where the history or a silent accept ends, *)
(* and ends where the deal now is, unless the status was raced for. *)
LEMMA PatchStatusChain ==
    ASSUME DeskInv, Chains, "status" \notin raced, NEW w \in Workers, CommitPatch(w), raced \subseteq raced'
    PROVE  StatusHistoryChains'
<1> DEFINE r == request[w]
           m == MoveRow(r.view.status, r.status)
<1>1. moves' = IF Moves(r) THEN Append(moves, m) ELSE moves
  BY DEF CommitPatch
<1>2. m.from = r.view.status /\ m.to = r.status
  BY DEF MoveRow
<1>3. moves \in Seq(MoveRows) /\ Len(moves) \in Nat /\ Len(moves) >= 1
  BY DEF DeskInv, TypeOK
<1>4. r \in Request /\ r.view \in Row
  BY DEF CommitPatch, DeskInv, TypeOK, Sound
<1>5. Moves(r) => r.view.status = deal.status /\ TransitionAllowed(deal.status, r.status)
  BY DEF CommitPatch, Chains, Current, StatusWriters
<1>6. Moves(r) => m \in MoveRows
  BY <1>4, PatchedIsRow DEF MoveRow, MoveRows, Row
<1>7. deal'.status = IF Moves(r) THEN r.status ELSE deal.status
  BY PatchStores
<1>8. /\ \A i \in 1 .. Len(moves) - 1 : /\ Link(moves[i].to, moves[i + 1].from)
                                        /\ TransitionAllowed(moves[i + 1].from, moves[i + 1].to)
      /\ Link(moves[Len(moves)].to, deal.status)
  BY DEF Chains, StatusHistoryChains
<1> HIDE DEF m, r
<1>9. CASE ~Moves(r)
  BY <1>1, <1>7, <1>8, <1>9 DEF StatusHistoryChains
<1>10. CASE Moves(r)
  <2>1. /\ Len(moves') = Len(moves) + 1 /\ moves'[Len(moves) + 1] = m
        /\ \A i \in 1 .. Len(moves) : moves'[i] = moves[i]
    BY <1>1, <1>3, <1>6, <1>10
  <2>2. Link(moves'[Len(moves')].to, deal'.status)
    BY <1>2, <1>3, <1>7, <1>10, <2>1 DEF Link
  <2>3. ASSUME NEW i \in 1 .. Len(moves)
        PROVE  /\ Link(moves'[i].to, moves'[i + 1].from)
               /\ TransitionAllowed(moves'[i + 1].from, moves'[i + 1].to)
    <3>1. CASE i = Len(moves)
      <4>1. moves'[i] = moves[Len(moves)] /\ moves'[i + 1] = m
        BY <1>3, <2>1, <3>1
      <4> QED BY <1>2, <1>5, <1>8, <1>10, <4>1
    <3>2. CASE i # Len(moves)
      <4>1. i \in 1 .. Len(moves) - 1 /\ i + 1 \in 1 .. Len(moves)
        BY <1>3, <3>2
      <4>2. moves'[i] = moves[i] /\ moves'[i + 1] = moves[i + 1]
        BY <2>1, <4>1
      <4> QED BY <1>8, <4>1, <4>2
    <3> QED BY <3>1, <3>2
  <2>4. Len(moves') - 1 = Len(moves)
    BY <1>3, <2>1
  <2> QED BY <2>2, <2>3, <2>4 DEF StatusHistoryChains
<1> QED BY <1>9, <1>10

(* The price row a patch adds goes on where the history ends, and ends with the *)
(* list price, unless the price was raced for. *)
LEMMA PatchPriceChain ==
    ASSUME DeskInv, Chains, "price" \notin raced, NEW w \in Workers, CommitPatch(w), raced \subseteq raced'
    PROVE  PriceHistoryChains'
<1> DEFINE r == request[w]
           c == CutRow(r.view.price, r.price)
<1>1. cuts' = IF Cuts(r) THEN Append(cuts, c) ELSE cuts
  BY DEF CommitPatch
<1>2. c.old = r.view.price /\ c.new = r.price
  BY DEF CutRow
<1>3. cuts \in Seq(CutRows) /\ Len(cuts) \in Nat
  BY DEF DeskInv, TypeOK
<1>4. r \in Request /\ r.view \in Row
  BY DEF CommitPatch, DeskInv, TypeOK, Sound
<1>5. Cuts(r) => r.view.price = deal.price
  BY DEF CommitPatch, Chains, Current, PriceWriters
<1>6. Cuts(r) => c \in CutRows
  BY <1>4, PatchedIsRow DEF CutRow, CutRows, Row
<1>7. deal'.price = IF Cuts(r) THEN r.price ELSE deal.price
  BY PatchStores
<1>8. /\ \A i \in 1 .. Len(cuts) - 1 : cuts[i].new = cuts[i + 1].old
      /\ cuts # <<>> => cuts[Len(cuts)].new = deal.price
  BY DEF Chains, PriceHistoryChains
<1> HIDE DEF c, r
<1>9. CASE ~Cuts(r)
  BY <1>1, <1>7, <1>8, <1>9 DEF PriceHistoryChains
<1>10. CASE Cuts(r)
  <2>1. /\ Len(cuts') = Len(cuts) + 1 /\ cuts'[Len(cuts) + 1] = c
        /\ \A i \in 1 .. Len(cuts) : cuts'[i] = cuts[i]
    BY <1>1, <1>3, <1>6, <1>10
  <2>2. cuts'[Len(cuts')].new = deal'.price
    BY <1>2, <1>3, <1>7, <1>10, <2>1
  <2>3. ASSUME NEW i \in 1 .. Len(cuts) PROVE cuts'[i].new = cuts'[i + 1].old
    <3>1. CASE i = Len(cuts)
      <4>1. cuts # <<>> /\ cuts'[i] = cuts[Len(cuts)] /\ cuts'[i + 1] = c
        BY <1>3, <2>1, <3>1
      <4> QED BY <1>2, <1>5, <1>8, <1>10, <4>1
    <3>2. CASE i # Len(cuts)
      <4>1. i \in 1 .. Len(cuts) - 1 /\ i + 1 \in 1 .. Len(cuts)
        BY <1>3, <3>2
      <4> QED BY <1>8, <2>1, <4>1
    <3> QED BY <3>1, <3>2
  <2>4. Len(cuts') - 1 = Len(cuts)
    BY <1>3, <2>1
  <2> QED BY <2>2, <2>3, <2>4 DEF PriceHistoryChains
<1> QED BY <1>9, <1>10

(* A request that takes no step stays current as long as nobody else writes what *)
(* it goes by. *)
LEMMA Bystander ==
    ASSUME NEW v \in Workers, Current(v), request'[v] = request[v], raced \subseteq raced', over => over',
           "price" \notin raced /\ v \in PriceWriters => deal'.price = deal.price,
           "status" \notin raced /\ v \in StatusWriters => deal'.status = deal.status,
           "alert" \notin raced /\ v \in StatusWriters => deal'.early = deal.early,
           "alert" \notin raced /\ v \in Alerters =>
               deal'.status = deal.status /\ deal'.early = deal.early /\ live' = live
    PROVE  Current(v)'
<1> DEFINE r == request[v]
<1>1. /\ v \in PriceWriters' <=> v \in PriceWriters
      /\ v \in StatusWriters' <=> v \in StatusWriters
      /\ v \in Alerters' <=> v \in Alerters
  BY DEF PriceWriters, StatusWriters, Alerters, Moves, Cuts
<1>2. /\ r.step = "patch" /\ Moves(r) => TransitionAllowed(r.view.status, r.status)
      /\ "price" \notin raced' /\ v \in PriceWriters => r.view.price = deal'.price
  BY DEF Current
<1>3. "status" \notin raced' /\ v \in StatusWriters =>
          IF r.step = "patch" THEN r.view.status = deal'.status ELSE deal'.status = "available"
  BY DEF Current
<1>4. /\ "alert" \notin raced' /\ v \in StatusWriters /\ r.step = "patch" => r.view.early = deal'.early
      /\ "alert" \notin raced' /\ v \in Alerters => deal'.status = "available" /\ r.view.early = deal'.early
  BY DEF Current
<1>5. "alert" \notin raced' /\ v \in Alerters /\ r.step = "insert" =>
          live' /\ (FirstDue(r.due) = "alert" => \A b \in r.audience : CanSee(deal, b)')
  BY DEF Current, CanSee
<1> QED BY <1>1, <1>2, <1>3, <1>4, <1>5 DEF Current, Moves

(* The histories stay chains while nothing is written but what they do not tell. *)
LEMMA QuietChains ==
    ASSUME Chains, raced \subseteq raced', UNCHANGED <<deal, moves, cuts>>
    PROVE  StatusHistoryChains' /\ PriceHistoryChains'
BY DEF Chains, StatusHistoryChains, PriceHistoryChains

(* A step of w that leaves the deal alone leaves the other requests current. *)
LEMMA QuietOthers ==
    ASSUME DeskInv, Chains, NEW w \in Workers, NEW r, Become(w, r), raced \subseteq raced',
           UNCHANGED <<deal, live>>, over => over', NEW v \in Workers, v # w
    PROVE  Current(v)'
<1>1. Current(v) /\ request'[v] = request[v]
  BY DEF Chains, Become, DeskInv, TypeOK
<1> QED BY <1>1, Bystander

(* A request that has read nothing it goes by is current. *)
LEMMA NothingRead ==
    ASSUME NEW w \in Workers, request'[w].step \notin {"patch", "accept", "tell", "insert"}
    PROVE  Current(w)'
BY DEF Current, PriceWriters, StatusWriters, Alerters

(* The requests that go by what they read stay current, the one that takes the *)
(* step and the others. *)
LEMMA ReadsCurrent ==
    ASSUME DeskInv, Chains, raced \subseteq raced', NEW w \in Workers,
           \/ \E s \in Targets \cup {NULL}, p \in Prices \cup {NULL} : ReadForPatch(w, s, p)
           \/ ReadForAccept(w)
    PROVE  Current(w)'
<1>1. ASSUME NEW s \in Targets \cup {NULL}, NEW p \in Prices \cup {NULL}, ReadForPatch(w, s, p)
      PROVE  Current(w)'
  <2> DEFINE r == [Idle EXCEPT !.step = "patch", !.view = deal, !.status = s, !.price = p]
  <2>1. Become(w, r) /\ deal' = deal /\ (Moves(r) => TransitionAllowed(deal.status, s))
    BY <1>1 DEF ReadForPatch
  <2>2. r.step = "patch" /\ r.view = deal /\ r.status = s
    BY DEF Idle
  <2> HIDE DEF r
  <2>3. request'[w] = r
    BY <2>1 DEF Become, DeskInv, TypeOK
  <2>4. w \notin Alerters'
    BY <2>2, <2>3 DEF Alerters
  <2> QED BY <2>1, <2>2, <2>3, <2>4 DEF Current, Moves
<1>2. CASE ReadForAccept(w)
  <2> DEFINE r == [Idle EXCEPT !.step = "accept", !.view = deal]
  <2>1. Become(w, r) /\ deal' = deal /\ deal.status = "available"
    BY <1>2 DEF ReadForAccept
  <2>2. r.step = "accept"
    BY DEF Idle
  <2> HIDE DEF r
  <2>3. request'[w] = r
    BY <2>1 DEF Become, DeskInv, TypeOK
  <2>4. w \notin Alerters' /\ w \notin PriceWriters'
    BY <2>2, <2>3 DEF Alerters, PriceWriters
  <2> QED BY <2>1, <2>2, <2>3, <2>4 DEF Current
<1> QED BY <1>1, <1>2

(* A request that alerts knows the deal as it is stored, and whom it may tell. *)
LEMMA AlertsCurrent ==
    ASSUME DeskInv, Chains, raced \subseteq raced', NEW w \in Workers,
           SelectAudience(w) \/ InsertNotifications(w)
    PROVE  Current(w)'
<1> DEFINE q == request[w]
<1>1. q \in Request /\ q.due # {} /\ q.due \in SUBSET Kinds /\ Current(w)
  BY DEF SelectAudience, InsertNotifications, DeskInv, TypeOK, Sound, Request, Chains
<1>2. UNCHANGED <<deal, live, over>> /\ q.step \in {"tell", "insert"}
  BY DEF SelectAudience, InsertNotifications
<1>3. "alert" \notin raced /\ "alert" \in q.due => deal.status = "available" /\ q.view.early = deal.early
  BY <1>1, <1>2 DEF Current, Alerters
<1>4. ASSUME NEW r, Become(w, r), r.step \in {"tell", "insert"}, r.due \subseteq q.due, r.view = q.view,
             r.step = "insert" => live /\ r.due = q.due /\ r.audience = Audience(FirstDue(q.due), q.view)
      PROVE  Current(w)'
  <2>1. request'[w] = r
    BY <1>4 DEF Become, DeskInv, TypeOK
  <2>2. w \notin PriceWriters' /\ w \notin StatusWriters'
    BY <1>4, <2>1 DEF PriceWriters, StatusWriters
  <2>3. "alert" \notin raced' /\ w \in Alerters' => deal'.status = "available" /\ r.view.early = deal'.early
    BY <1>2, <1>3, <1>4, <2>1 DEF Alerters
  <2>4. ASSUME "alert" \notin raced', w \in Alerters', r.step = "insert", FirstDue(r.due) = "alert",
               NEW b \in r.audience
        PROVE  CanSee(deal, b)'
    <3>1. r.audience = {x \in Buyers : Matches(q.view, x)}
      BY <1>4, <2>4 DEF Audience
    <3>2. Matches(q.view, b)
      BY <2>4, <3>1
    <3>3. deal'.status = "available" /\ q.view.early = deal'.early
      BY <1>4, <2>3, <2>4
    <3> QED BY <1>2, <3>2, <3>3 DEF CanSee, Matches, CLIENT_VISIBLE
  <2> QED BY <1>2, <1>4, <2>1, <2>2, <2>3, <2>4 DEF Current
<1>5. CASE SelectAudience(w)
  <2> DEFINE r == [q EXCEPT !.step = "insert", !.audience = Audience(FirstDue(q.due), q.view)]
  <2>1. CASE ~live
    <3>1. request'[w] = Idle
      BY <1>5, <2>1 DEF SelectAudience, Become, DeskInv, TypeOK
    <3> QED BY <3>1, NothingRead DEF Idle
  <2>2. CASE live
    <3>1. Become(w, r)
      BY <1>5, <2>2 DEF SelectAudience
    <3>2. r.step = "insert" /\ r.view = q.view /\ r.due = q.due /\ r.audience = Audience(FirstDue(q.due), q.view)
      BY <1>1 DEF Request
    <3> HIDE DEF r, q
    <3> QED BY <1>4, <2>2, <3>1, <3>2
  <2> QED BY <2>1, <2>2
<1>6. CASE InsertNotifications(w)
  <2> DEFINE r == [q EXCEPT !.step = "tell", !.due = RestDue(q.due), !.audience = {}]
  <2>1. CASE RestDue(q.due) = {}
    <3>1. request'[w] = Idle
      BY <1>6, <2>1 DEF InsertNotifications, Become, DeskInv, TypeOK
    <3> QED BY <3>1, NothingRead DEF Idle
  <2>2. CASE RestDue(q.due) # {}
    <3>1. Become(w, r)
      BY <1>6, <2>2 DEF InsertNotifications
    <3>2. r.step = "tell" /\ r.view = q.view /\ r.due = RestDue(q.due)
      BY <1>1 DEF Request
    <3>3. r.due \subseteq q.due
      BY <3>2 DEF RestDue
    <3> HIDE DEF r, q
    <3> QED BY <1>4, <3>1, <3>2, <3>3
  <2> QED BY <2>1, <2>2
<1> QED BY <1>5, <1>6

(* The commit of a patch writes only what the others do not go by, unless they *)
(* raced, and goes on to its alerts with what it stored. *)
LEMMA PatchCurrent ==
    ASSUME DeskInv, Chains, raced \subseteq raced', NEW w \in Workers, CommitPatch(w), NEW v \in Workers
    PROVE  Current(v)'
<1> DEFINE q == request[w]
           r == IF DueAlerts(q) = {} THEN Idle
                ELSE [Idle EXCEPT !.step = "tell", !.view = Patched(q), !.due = DueAlerts(q)]
<1>1. Become(w, r) /\ q.step = "patch" /\ UNCHANGED <<live, over>>
  BY DEF CommitPatch
<1>2. /\ deal'.status = IF Moves(q) THEN q.status ELSE deal.status
      /\ deal'.price = IF Cuts(q) THEN q.price ELSE deal.price
      /\ ~Moves(q) => deal'.early = deal.early
      /\ q.view.early = deal.early => deal'.early = Patched(q).early
  BY PatchStores
<1>3. (Cuts(q) <=> w \in PriceWriters) /\ (Moves(q) <=> w \in StatusWriters)
  BY <1>1 DEF PriceWriters, StatusWriters
<1>4. CASE v # w
  <2>1. request'[v] = request[v] /\ Current(v)
    BY <1>1, <1>4 DEF Become, DeskInv, TypeOK, Chains
  <2>2. /\ "price" \notin raced /\ v \in PriceWriters => ~Cuts(q)
        /\ "status" \notin raced /\ v \in StatusWriters => ~Moves(q)
        /\ "alert" \notin raced /\ v \in StatusWriters \cup Alerters => ~Moves(q)
    BY <1>3, <1>4, Contended DEF Chains
  <2> HIDE DEF q
  <2> QED BY <1>1, <1>2, <2>1, <2>2, Bystander
<1>5. CASE v = w
  <2>1. request'[w] = r
    BY <1>1 DEF Become, DeskInv, TypeOK
  <2>2. CASE r = Idle
    BY <1>5, <2>1, <2>2, NothingRead DEF Idle
  <2>3. CASE r # Idle
    <3>1. r.step = "tell" /\ r.due = DueAlerts(q) /\ r.view = Patched(q)
      BY <2>3 DEF Idle
    <3>2. "alert" \in DueAlerts(q) => Moves(q) /\ q.status = "available"
      BY DEF DueAlerts
    <3>3. "alert" \notin raced /\ Moves(q) => q.view.early = deal.early
      BY <1>1, <1>3 DEF Chains, Current
    <3>4. w \notin PriceWriters' /\ w \notin StatusWriters'
      BY <2>1, <3>1 DEF PriceWriters, StatusWriters
    <3>5. w \in Alerters' => "alert" \in DueAlerts(q)
      BY <2>1, <3>1 DEF Alerters
    <3> HIDE DEF r
    <3> QED BY <1>2, <1>5, <2>1, <3>1, <3>2, <3>3, <3>4, <3>5 DEF Current
  <2> QED BY <2>2, <2>3
<1> QED BY <1>4, <1>5

(* An accept finds the deal available, unless the status was raced for, and a *)
(* history that ends there. *)
LEMMA AcceptChains ==
    ASSUME DeskInv, Chains, raced \subseteq raced', NEW w \in Workers, CommitAccept(w)
    PROVE  StatusHistoryChains' /\ PriceHistoryChains' /\ \A v \in Workers : Current(v)'
<1>1. /\ request[w].step = "accept" /\ Become(w, Idle) /\ UNCHANGED <<live, over, moves, cuts>>
      /\ deal' = [deal EXCEPT !.status = "pending"]
  BY DEF CommitAccept
<1>2. deal'.status = "pending" /\ deal'.price = deal.price /\ deal'.early = deal.early
  BY <1>1 DEF DeskInv, TypeOK, Row
<1>3. w \in StatusWriters
  BY <1>1 DEF StatusWriters
<1>4. "status" \notin raced => deal.status = "available"
  BY <1>1, <1>3 DEF Chains, Current
<1>5. StatusHistoryChains'
  BY <1>1, <1>2, <1>4 DEF Chains, StatusHistoryChains, Link
<1>6. PriceHistoryChains'
  BY <1>1, <1>2 DEF Chains, PriceHistoryChains
<1>7. ASSUME NEW v \in Workers, v # w PROVE Current(v)'
  <2>1. request'[v] = request[v] /\ Current(v)
    BY <1>1, <1>7 DEF Become, DeskInv, TypeOK, Chains
  <2>2. /\ "status" \notin raced => v \notin StatusWriters
        /\ "alert" \notin raced => v \notin Alerters
    BY <1>3, <1>7, Contended DEF Chains
  <2> QED BY <1>1, <1>2, <2>1, <2>2, Bystander
<1>8. Current(w)'
  <2>1. request'[w] = Idle
    BY <1>1 DEF Become, DeskInv, TypeOK
  <2> QED BY <2>1, NothingRead DEF Idle
<1> QED BY <1>5, <1>6, <1>7, <1>8

(* A delete runs into no alert, unless they raced. *)
LEMMA DeleteCurrent ==
    ASSUME DeskInv, Chains, raced \subseteq raced', NEW w \in Workers, CommitDelete(w), NEW v \in Workers
    PROVE  Current(v)'
<1>1. request[w].step = "delete" /\ Become(w, Idle) /\ UNCHANGED <<deal, over>>
  BY DEF CommitDelete
<1>2. CASE v # w
  <2>1. request'[v] = request[v] /\ Current(v)
    BY <1>1, <1>2 DEF Become, DeskInv, TypeOK, Chains
  <2>2. "alert" \notin raced => v \notin Alerters
    BY <1>1, <1>2, Contended DEF Chains, Deleters
  <2> QED BY <1>1, <2>1, <2>2, Bystander
<1>3. CASE v = w
  <2>1. request'[w] = Idle
    BY <1>1 DEF Become, DeskInv, TypeOK
  <2> QED BY <1>3, <2>1, NothingRead DEF Idle
<1> QED BY <1>2, <1>3

(* Whatever a worker does, the histories stay chains and the requests current, as *)
(* far as nobody raced. *)
LEMMA DeskChains ==
    ASSUME DeskInv, Chains, raced \subseteq raced', NEW w \in Workers, Desk(w)
    PROVE  StatusHistoryChains' /\ PriceHistoryChains' /\ \A v \in Workers : Current(v)'
<1>1. CASE \/ \E s \in Targets \cup {NULL}, p \in Prices \cup {NULL} : ReadForPatch(w, s, p)
           \/ ReadForAccept(w)
  <2>1. PICK r : Become(w, r) /\ UNCHANGED <<deal, live, over, moves, cuts>>
    BY <1>1 DEF ReadForPatch, ReadForAccept
  <2>2. Current(w)'
    BY <1>1, ReadsCurrent
  <2> QED BY <2>1, <2>2, QuietChains, QuietOthers
<1>2. CASE SelectAudience(w) \/ InsertNotifications(w)
  <2>1. PICK r : Become(w, r) /\ UNCHANGED <<deal, live, over, moves, cuts>>
    BY <1>2 DEF SelectAudience, InsertNotifications
  <2>2. Current(w)'
    BY <1>2, AlertsCurrent
  <2> QED BY <2>1, <2>2, QuietChains, QuietOthers
<1>3. CASE CommitPatch(w)
  <2>1. StatusHistoryChains'
    <3>1. CASE "status" \in raced
      BY <3>1 DEF StatusHistoryChains
    <3> QED BY <1>3, <3>1, PatchStatusChain
  <2>2. PriceHistoryChains'
    <3>1. CASE "price" \in raced
      BY <3>1 DEF PriceHistoryChains
    <3> QED BY <1>3, <3>1, PatchPriceChain
  <2> QED BY <1>3, <2>1, <2>2, PatchCurrent
<1>4. CASE CommitAccept(w)
  BY <1>4, AcceptChains
<1>5. CASE CommitDelete(w)
  <2>1. UNCHANGED <<deal, moves, cuts>>
    BY <1>5 DEF CommitDelete
  <2> QED BY <1>5, <2>1, QuietChains, DeleteCurrent
<1>6. CASE ReadForUpload(w) \/ CommitUpload(w) \/ ReadForDelete(w) \/ Abort(w)
  <2>1. PICK r : /\ Become(w, r) /\ r.step \in {"idle", "upload", "delete"}
                 /\ UNCHANGED <<deal, live, over, moves, cuts>>
    BY <1>6 DEF ReadForUpload, CommitUpload, ReadForDelete, Abort, Idle
  <2>2. request'[w] = r
    BY <2>1 DEF Become, DeskInv, TypeOK
  <2>3. Current(w)'
    BY <2>1, <2>2, NothingRead
  <2> QED BY <2>1, <2>3, QuietChains, QuietOthers
<1> QED BY <1>1, <1>2, <1>3, <1>4, <1>5, <1>6 DEF Desk

(* So does every step: the chains hold by induction. *)
LEMMA ChainsStep ==
    ASSUME DeskInv, Chains, [Next]_vars
    PROVE  Chains'
<1>1. Noted' /\ raced \subseteq raced'
  BY Noting DEF Chains
<1>2. ASSUME NEW w \in Workers, Desk(w) PROVE Chains'
  BY <1>1, <1>2, DeskChains DEF Chains
<1>3. ASSUME UNCHANGED <<deal, live, moves, cuts, request>>, over => over' PROVE Chains'
  <2>1. ASSUME NEW v \in Workers PROVE Current(v)'
    BY <1>1, <1>3, Bystander DEF Chains
  <2> QED BY <1>1, <1>3, <2>1, QuietChains DEF Chains
<1>4. CASE EarlyAccessEnds
  BY <1>3, <1>4 DEF EarlyAccessEnds
<1>5. ASSUME NEW b \in Buyers, Buyer(b) PROVE Chains'
  BY <1>3, <1>5 DEF Buyer, Save, Unsave, ShowInterest
<1>6. CASE UNCHANGED vars
  BY <1>3, <1>6 DEF vars
<1> QED BY <1>2, <1>4, <1>5, <1>6 DEF Next, Step

(* Both histories begin as chains, with nobody to race. *)
LEMMA ChainsStart == Init => Chains
<1> SUFFICES ASSUME Init PROVE Chains
  OBVIOUS
<1>1. PICK s \in Targets, p \in Prices, e \in BOOLEAN :
         /\ deal = [status |-> s, price |-> p, early |-> e, published |-> s = "available"]
         /\ moves = <<[from |-> "", to |-> s]>>
  BY DEF Init
<1>2. StatusHistoryChains
  <2> DEFINE m == [from |-> "", to |-> s]
  <2>1. moves = <<m>> /\ m.to = s /\ deal.status = s
    BY <1>1
  <2> HIDE DEF m
  <2>2. Len(moves) = 1 /\ moves[1] = m
    BY <2>1
  <2> QED BY <2>1, <2>2 DEF StatusHistoryChains, Link
<1>3. PriceHistoryChains
  <2>1. cuts = <<>> /\ Len(cuts) = 0
    BY DEF Init
  <2> QED BY <2>1 DEF PriceHistoryChains
<1>4. PriceWriters = {} /\ StatusWriters = {} /\ Deleters = {} /\ Alerters = {}
  BY DEF Init, PriceWriters, StatusWriters, Deleters, Alerters, Idle
<1>5. \A w \in Workers : Current(w)
  BY <1>4 DEF Init, Current, Idle
<1>6. Noted
  BY <1>4 DEF Noted, Contenders, Contests
<1> QED BY <1>2, <1>3, <1>5, <1>6 DEF Chains

(* Unless two requests that write the status were in flight at once, patches and *)
(* accepts make a status history that is a path through ALLOWED, from creation to *)
(* the status stored, with no gap but that of an accept (create_deal, patch_deal, *)
(* admin_offer_patch). *)
THEOREM StatusPathUnlessRaced == Spec => []StatusHistoryChains
<1>1. DeskInv /\ Chains /\ [Next]_vars => Chains'
  BY ChainsStep
<1>2. Chains => StatusHistoryChains
  BY DEF Chains
<1> QED BY <1>1, <1>2, ChainsStart, DeskInvariant, PTL DEF Spec

(* Unless two patches of the price were in flight at once, they make a price *)
(* history without gaps that ends in the list price, whatever else runs (patch_deal). *)
THEOREM PricePathUnlessRaced == Spec => []PriceHistoryChains
<1>1. DeskInv /\ Chains /\ [Next]_vars => Chains'
  BY ChainsStep
<1>2. Chains => PriceHistoryChains
  BY DEF Chains
<1> QED BY <1>1, <1>2, ChainsStart, DeskInvariant, PTL DEF Spec

(* Unless another request that moves, deletes or alerts about the deal ran into a *)
(* publication or its alerts, no buyer is alerted who cannot see the deal then, *)
(* whenever early access ends (notify_matches). *)
THEOREM AlertsSeenUnlessRaced == Spec => AlertedCanSee
<1>1. DeskInv /\ Chains /\ [Next]_vars => Chains'
  BY ChainsStep
<1> DEFINE Seen == \A b \in Buyers :
                      told["alert"][b] # told'["alert"][b] => "alert" \in raced \/ (live /\ CanSee(deal, b))
<1>2. DeskInv /\ Chains /\ [Next]_vars => Seen
  <2> SUFFICES ASSUME DeskInv, Chains, [Next]_vars PROVE Seen
    OBVIOUS
  <2>1. ASSUME NEW w \in Workers, InsertNotifications(w) PROVE Seen
    <3> DEFINE r == request[w]
               k == FirstDue(r.due)
               new == [b \in Buyers |-> IF b \in r.audience THEN told[k][b] + 1 ELSE told[k][b]]
    <3>0. r.step = "insert" /\ r.due \in SUBSET Kinds /\ r.due # {}
      BY <2>1 DEF InsertNotifications, DeskInv, TypeOK, Sound, Request
    <3>1. "alert" \notin raced /\ k = "alert" => live /\ \A b \in r.audience : CanSee(deal, b)
      <4>1. k \in r.due
        BY <3>0, FirstIsDue
      <4>2. k = "alert" => w \in Alerters
        BY <3>0, <4>1 DEF Alerters
      <4> QED BY <3>0, <4>2 DEF Chains, Current
    <3>2. told' = [told EXCEPT ![k] = new]
      BY <2>1 DEF InsertNotifications
    <3>3. told \in [Kinds -> [Buyers -> Nat]] /\ "alert" \in Kinds
      BY DEF DeskInv, TypeOK, Kinds
    <3> HIDE DEF k
    <3>4. \A b \in Buyers : b \notin r.audience => new[b] = told[k][b]
      OBVIOUS
    <3> HIDE DEF new, r
    <3>5. CASE k = "alert"
      <4>1. told'["alert"] = new
        BY <3>2, <3>3, <3>5
      <4> QED BY <3>1, <3>4, <3>5, <4>1
    <3>6. CASE k # "alert"
      BY <3>2, <3>3, <3>6
    <3> QED BY <3>5, <3>6
  <2>2. CASE UNCHANGED told
    BY <2>2
  <2> QED BY <2>1, <2>2 DEF Next, Step, Desk, Buyer, vars, ReadForPatch, CommitPatch, ReadForAccept, CommitAccept,
             SelectAudience, ReadForUpload, CommitUpload, ReadForDelete, CommitDelete, Abort, Save, Unsave,
             ShowInterest, EarlyAccessEnds
<1> QED BY <1>1, <1>2, ChainsStart, DeskInvariant, PTL DEF Spec, AlertedCanSee
=============================================================================
