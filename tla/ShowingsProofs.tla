--------------------------- MODULE ShowingsProofs ---------------------------
(***************************************************************************)
(* A showing window is overbooked only after a race of two RSVPs for it,   *)
(* and then by fewer seats than there are requests in flight, whatever the *)
(* numbers of buyers, windows and requests.  Showings runs beside the      *)
(* offers, in Desk.                                                        *)
(***************************************************************************)
EXTENDS MCDesk, FiniteSetTheorems, TLAPS

(* Showings runs by its own specification. *)
LEMMA ShowingsRun == Desk => W!Spec
<1>1. Begin => W!Init
  BY DEF Begin
<1>2. [Parts]_<<part, offers, showings>> => [W!Next]_(W!vars)
  BY DEF Parts, showings, W!vars
<1> QED BY <1>1, <1>2, PTL DEF Desk, W!Spec

(* What Showings counts with is the Cardinality of FiniteSets. *)
LEMMA SeatCounts == \A X : W!Cardinality(X) = Cardinality(X)
BY Zenon DEF W!Cardinality, Cardinality

(* The tables and the requests keep their types. *)
LEMMA SeatsInvariant == W!Spec => []W!TypeOK
<1>1. W!Init => W!TypeOK
  BY GuestsAssumption, SentAssumption DEF W!Init, W!TypeOK, W!Access, W!RsvpStatus, W!Unbound, W!Bound, W!Request, W!Idle
<1>2. W!TypeOK /\ [W!Next]_(W!vars) => W!TypeOK'
  <2> SUFFICES ASSUME W!TypeOK, [W!Next]_(W!vars) PROVE W!TypeOK'
    OBVIOUS
  <2>0. CASE UNCHANGED W!vars
    BY <2>0 DEF W!vars, W!TypeOK
  <2> SUFFICES ASSUME NEW p \in Workers, W!Step(p), W!NoteRace PROVE W!TypeOK'
    BY <2>0 DEF W!Next
  <2>r. crowded' \subseteq Windows
    BY DEF W!NoteRace, W!TypeOK
  <2> USE <2>r DEF W!TypeOK, W!Access, W!RsvpStatus, W!Unbound, W!Bound, W!Request, W!Idle
  <2>1. ASSUME W!SetAccess(p) PROVE W!TypeOK'
    BY <2>1 DEF W!SetAccess
  <2>2. ASSUME W!ReadAccess(p) PROVE W!TypeOK'
    BY <2>2 DEF W!ReadAccess
  <2>3. ASSUME W!InsertWindow(p) PROVE W!TypeOK'
    <3>1. \A c \in Capacities : W!EffectiveCapacity(c) \in Int
      BY SentAssumption DEF W!EffectiveCapacity
    <3> QED BY <2>3, <3>1 DEF W!InsertWindow
  <2>4. ASSUME NEW w \in Windows, NEW b \in Guests, W!CountSeats(p, w, b)
        PROVE W!TypeOK'
    BY <2>4 DEF W!CountSeats
  <2>5. ASSUME NEW w \in Windows, NEW b \in Guests, W!FindSeat(p, w, b)
        PROVE W!TypeOK'
    BY <2>5 DEF W!FindSeat
  <2>6. ASSUME W!FindRow(p) PROVE W!TypeOK'
    <3>1. visit[p] \in W!Bound
      BY <2>6 DEF W!FindRow
    <3>2. rsvp[visit[p].window][visit[p].buyer] \in W!RsvpStatus
      BY <3>1
    <3> QED BY <2>6, <3>1, <3>2 DEF W!FindRow
  <2>7. ASSUME W!Confirm(p) PROVE W!TypeOK'
    BY <2>7 DEF W!Confirm
  <2>8. ASSUME W!Decline(p) PROVE W!TypeOK'
    BY <2>8 DEF W!Decline
  <2>9. ASSUME W!Abort(p) PROVE W!TypeOK'
    BY <2>9 DEF W!Abort
  <2> QED BY <2>1, <2>2, <2>3, <2>4, <2>5, <2>6, <2>7, <2>8, <2>9 DEF W!Step
<1> QED BY <1>1, <1>2, PTL DEF W!Spec

-----------------------------------------------------------------------------
(* The seats taken and the requests admitted are finite sets, so that they *)
(* can be counted. *)
LEMMA CountedSets ==
    ASSUME NEW w
    PROVE  /\ IsFiniteSet(W!Taken(w)) /\ Cardinality(W!Taken(w)) \in Nat
           /\ IsFiniteSet(W!Admitted(w)) /\ Cardinality(W!Admitted(w)) \in Nat
           /\ Cardinality(Workers) \in Nat \ {0}
           /\ Cardinality(W!Admitted(w)) <= Cardinality(Workers)
<1>1. W!Taken(w) \in SUBSET Guests /\ W!Admitted(w) \in SUBSET Workers
  BY DEF W!Taken, W!Admitted
<1>2. IsFiniteSet(W!Taken(w)) /\ IsFiniteSet(W!Admitted(w)) /\ Cardinality(W!Admitted(w)) <= Cardinality(Workers)
  BY <1>1, FS_Subset, WorkersAssumption, GuestsAssumption
<1>3. Cardinality(Workers) \in Nat /\ Cardinality(Workers) # 0
  BY FS_CardinalityType, FS_EmptySet, WorkersAssumption
<1> QED BY <1>2, <1>3, FS_CardinalityType

(* A step that takes no seat and admits no request keeps the bound of a window *)
(* that exists already. *)
LEMMA BoundKept ==
    ASSUME W!TypeOK, W!TypeOK', NEW w \in Windows,
           Cardinality(W!Taken(w)) + Cardinality(W!Admitted(w)) <= W!SeatLimit(w),
           W!Taken(w)' \subseteq W!Taken(w), W!Admitted(w)' \subseteq W!Admitted(w),
           capacity'[w] = capacity[w] \/ capacity[w] = NULL, W!NoteRace
    PROVE  Cardinality(W!Taken(w)') + Cardinality(W!Admitted(w)') <= W!SeatLimit(w)'
<1>1. /\ Cardinality(W!Taken(w)') <= Cardinality(W!Taken(w)) /\ Cardinality(W!Taken(w)') \in Nat
      /\ Cardinality(W!Admitted(w)') <= Cardinality(W!Admitted(w)) /\ Cardinality(W!Admitted(w)') \in Nat
  BY CountedSets, FS_Subset, FS_CardinalityType
<1>2. W!SeatLimit(w) <= W!SeatLimit(w)' /\ W!SeatLimit(w) \in Int /\ W!SeatLimit(w)' \in Int
  BY CountedSets, GuestsAssumption, SentAssumption, SeatCounts DEF W!SeatLimit, W!Spare, W!NoteRace, W!TypeOK
<1> QED BY <1>1, <1>2, CountedSets

(* Seats taken plus seats promised stay within the capacity while the RSVPs of *)
(* a window came one after the other, and after a race within the capacity and *)
(* one seat for every other request in flight (rsvp: the count and the insert *)
(* are separate statements). *)
LEMMA SeatsBounded == W!Spec => []W!SeatsBound
<1>1. W!Init => W!SeatsBound
  <2> SUFFICES ASSUME W!Init, NEW w \in Windows
               PROVE  Cardinality(W!Taken(w)) + Cardinality(W!Admitted(w)) <= W!SeatLimit(w)
    BY SeatCounts DEF W!SeatsBound
  <2>1. W!Taken(w) = {} /\ W!Admitted(w) = {}
    BY DEF W!Init, W!Taken, W!Admitted, W!Idle
  <2>2. W!SeatLimit(w) = 0
    BY SeatCounts DEF W!Init, W!SeatLimit
  <2> QED BY <2>1, <2>2, FS_EmptySet
<1>2. W!TypeOK /\ W!TypeOK' /\ W!SeatsBound /\ [W!Next]_(W!vars) => W!SeatsBound'
  <2> SUFFICES ASSUME W!TypeOK, W!TypeOK', W!SeatsBound, [W!Next]_(W!vars), NEW w \in Windows
               PROVE  Cardinality(W!Taken(w)') + Cardinality(W!Admitted(w)') <= W!SeatLimit(w)'
    BY SeatCounts DEF W!SeatsBound
  <2>0. Cardinality(W!Taken(w)) + Cardinality(W!Admitted(w)) <= W!SeatLimit(w)
    BY SeatCounts DEF W!SeatsBound
  <2>12. CASE UNCHANGED W!vars
    BY <2>12, <2>0, SeatCounts DEF W!vars, W!Taken, W!Admitted, W!SeatLimit, W!Spare
  <2> SUFFICES ASSUME NEW p \in Workers, W!Step(p), W!NoteRace
               PROVE  Cardinality(W!Taken(w)') + Cardinality(W!Admitted(w)') <= W!SeatLimit(w)'
    BY <2>12 DEF W!Next
  <2>1. ASSUME W!SetAccess(p) PROVE W!Taken(w)' \subseteq W!Taken(w) /\ W!Admitted(w)' \subseteq W!Admitted(w) /\ capacity'[w] = capacity[w]
    BY <2>1 DEF W!SetAccess, W!Taken, W!Admitted
  <2>2. ASSUME W!ReadAccess(p) PROVE W!Taken(w)' \subseteq W!Taken(w) /\ W!Admitted(w)' \subseteq W!Admitted(w) /\ capacity'[w] = capacity[w]
    BY <2>2 DEF W!ReadAccess, W!Taken, W!Admitted, W!TypeOK, W!Idle
  <2>3. ASSUME W!InsertWindow(p)
        PROVE  /\ W!Taken(w)' \subseteq W!Taken(w) /\ W!Admitted(w)' \subseteq W!Admitted(w)
               /\ capacity'[w] = capacity[w] \/ capacity[w] = NULL
    BY <2>3 DEF W!InsertWindow, W!Taken, W!Admitted, W!TypeOK, W!Idle
  <2>4. ASSUME NEW v \in Windows, NEW b \in Guests, W!CountSeats(p, v, b), v # w
        PROVE  W!Taken(w)' \subseteq W!Taken(w) /\ W!Admitted(w)' \subseteq W!Admitted(w) /\ capacity'[w] = capacity[w]
    BY <2>4 DEF W!CountSeats, W!Taken, W!Admitted, W!TypeOK
  <2>5. ASSUME NEW b \in Guests, W!CountSeats(p, w, b)
        PROVE  Cardinality(W!Taken(w)') + Cardinality(W!Admitted(w)') <= W!SeatLimit(w)'
    <3>1. W!Taken(w)' = W!Taken(w) /\ capacity' = capacity
      BY <2>5 DEF W!CountSeats, W!Taken
    <3>2. capacity[w] \in Int /\ capacity[w] # NULL /\ Cardinality(W!Taken(w)) < capacity[w]
      BY <2>5, CountedSets, SeatCounts DEF W!CountSeats, W!WindowFull, W!TypeOK
    <3>3. W!SeatLimit(w)' = capacity[w] + W!Spare(w)'
      BY <3>1, <3>2, CountedSets, SeatCounts DEF W!SeatLimit
    <3>4. Cardinality(W!Admitted(w)') <= W!Spare(w)' + 1 /\ Cardinality(W!Admitted(w)') \in Nat /\ W!Spare(w)' \in Int
      <4>1. W!Admitted(w)' \in SUBSET Workers
        BY DEF W!Admitted
      <4>2. /\ Cardinality(W!Admitted(w)') <= Cardinality(Workers) /\ Cardinality(W!Admitted(w)') \in Nat
            /\ IsFiniteSet(W!Admitted(w)')
        BY <4>1, FS_Subset, FS_CardinalityType, WorkersAssumption
      <4>3. CASE w \in crowded'
        BY <4>2, <4>3, CountedSets, SeatCounts DEF W!Spare
      <4>4. CASE w \notin crowded'
        <5>1. W!Admitted(w)' \subseteq {p}
          BY <4>4, <2>5 DEF W!NoteRace, W!Admitted, W!CountSeats, W!TypeOK
        <5>2. IsFiniteSet({p}) /\ Cardinality({p}) = 1
          BY FS_Singleton, Zenon
        <5>3. Cardinality(W!Admitted(w)') <= Cardinality({p})
          BY <5>1, <5>2, FS_Subset
        <5> QED BY <4>2, <4>4, <5>2, <5>3, SeatCounts DEF W!Spare
      <4> QED BY <4>3, <4>4
    <3> QED BY <3>1, <3>2, <3>3, <3>4, CountedSets
  <2>6. ASSUME NEW v \in Windows, NEW b \in Guests, W!FindSeat(p, v, b)
        PROVE  W!Taken(w)' \subseteq W!Taken(w) /\ W!Admitted(w)' \subseteq W!Admitted(w) /\ capacity'[w] = capacity[w]
    BY <2>6 DEF W!FindSeat, W!Taken, W!Admitted, W!TypeOK
  <2>7. ASSUME W!FindRow(p)
        PROVE  W!Taken(w)' \subseteq W!Taken(w) /\ W!Admitted(w)' \subseteq W!Admitted(w) /\ capacity'[w] = capacity[w]
    <3>1. visit[p] \in W!Bound
      BY <2>7 DEF W!FindRow, W!TypeOK, W!Request, W!Unbound, W!Bound
    <3> QED BY <2>7, <3>1 DEF W!FindRow, W!Taken, W!Admitted, W!TypeOK, W!Bound
  <2>8. ASSUME W!Confirm(p), visit[p].window # w
        PROVE  W!Taken(w)' \subseteq W!Taken(w) /\ W!Admitted(w)' \subseteq W!Admitted(w) /\ capacity'[w] = capacity[w]
    BY <2>8 DEF W!Confirm, W!Taken, W!Admitted, W!TypeOK, W!Idle
  <2>9. ASSUME W!Confirm(p), visit[p].window = w
        PROVE  Cardinality(W!Taken(w)') + Cardinality(W!Admitted(w)') <= W!SeatLimit(w)'
    <3> DEFINE b == visit[p].buyer
    <3>1. W!Admitted(w)' = W!Admitted(w) \ {p} /\ p \in W!Admitted(w)
      BY <2>9 DEF W!Confirm, W!Admitted, W!TypeOK, W!Idle
    <3>2. W!Taken(w)' \subseteq W!Taken(w) \cup {b}
      BY <2>9 DEF W!Confirm, W!Taken, W!TypeOK
    <3>3. Cardinality(W!Admitted(w)') = Cardinality(W!Admitted(w)) - 1
      BY <3>1, CountedSets, FS_RemoveElement
    <3>4. Cardinality(W!Taken(w)') <= Cardinality(W!Taken(w)) + 1 /\ Cardinality(W!Taken(w)') \in Nat
      <4>1. IsFiniteSet(W!Taken(w) \cup {b}) /\ Cardinality(W!Taken(w) \cup {b}) <= Cardinality(W!Taken(w)) + 1
        <5>1. IsFiniteSet(W!Taken(w)) /\ Cardinality(W!Taken(w)) \in Nat
          BY CountedSets
        <5> HIDE DEF b
        <5>2. /\ IsFiniteSet(W!Taken(w) \cup {b})
              /\ Cardinality(W!Taken(w) \cup {b}) =
                   IF b \in W!Taken(w) THEN Cardinality(W!Taken(w)) ELSE Cardinality(W!Taken(w)) + 1
          BY <5>1, FS_AddElement, Zenon
        <5> QED BY <5>1, <5>2
      <4>2. Cardinality(W!Taken(w)') <= Cardinality(W!Taken(w) \cup {b}) /\ IsFiniteSet(W!Taken(w)')
        BY <3>2, <4>1, FS_Subset
      <4> QED BY <4>1, <4>2, CountedSets, FS_CardinalityType
    <3>5. W!SeatLimit(w) <= W!SeatLimit(w)' /\ W!SeatLimit(w) \in Int /\ W!SeatLimit(w)' \in Int
      <4>1. capacity' = capacity /\ crowded \subseteq crowded'
        BY <2>9 DEF W!Confirm, W!NoteRace
      <4>2. capacity[w] \in Int \cup {NULL} /\ Cardinality(Workers) \in Nat \ {0}
        BY CountedSets DEF W!TypeOK
      <4>3. W!Spare(w) \in Nat /\ W!Spare(w)' \in Nat /\ W!Spare(w) <= W!Spare(w)'
        BY <4>1, <4>2, SeatCounts DEF W!Spare
      <4> QED BY <4>1, <4>2, <4>3, SeatCounts DEF W!SeatLimit
    <3> QED BY <2>0, <3>3, <3>4, <3>5, CountedSets
  <2>10. ASSUME W!Decline(p)
         PROVE  W!Taken(w)' \subseteq W!Taken(w) /\ W!Admitted(w)' \subseteq W!Admitted(w) /\ capacity'[w] = capacity[w]
    BY <2>10 DEF W!Decline, W!Taken, W!Admitted, W!TypeOK, W!Idle
  <2>11. ASSUME W!Abort(p)
         PROVE  W!Taken(w)' \subseteq W!Taken(w) /\ W!Admitted(w)' \subseteq W!Admitted(w) /\ capacity'[w] = capacity[w]
    BY <2>11 DEF W!Abort, W!Taken, W!Admitted, W!TypeOK, W!Idle
  <2> QED
    BY <2>0, <2>1, <2>2, <2>3, <2>4, <2>5, <2>6, <2>7, <2>8, <2>9, <2>10, <2>11, BoundKept DEF W!Step
<1> QED BY <1>1, <1>2, SeatsInvariant, PTL DEF W!Spec

(* The tables and the requests keep their types. *)
THEOREM ShowingsTyping == Desk => []SeatsTyped
BY ShowingsRun, SeatsInvariant, PTL DEF SeatsTyped

(* Seats taken plus seats promised stay within the capacity while the RSVPs of *)
(* a window came one after the other, and after a race within the capacity and *)
(* one seat for every other request in flight (rsvp: the count and the insert *)
(* are separate statements). *)
THEOREM OverbookingBound == Desk => []SeatsBound
BY ShowingsRun, SeatsBounded, PTL DEF SeatsBound
=============================================================================
