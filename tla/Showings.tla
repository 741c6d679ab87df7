------------------------------ MODULE Showings ------------------------------
(***************************************************************************)
(* Group showing windows of one deal and the seats buyers take in them     *)
(* (api/v1/desk.py, "showings").                                           *)
(*                                                                         *)
(* A request runs in one of Workers, the requests the deployment serves at *)
(* the same time.  A handler awaits the database once per SELECT and once  *)
(* for the commit, no SELECT locks a row, and every other request may run  *)
(* at each await: a handler is one action per SELECT whose result it keeps *)
(* and one action for the commit.  A rejected request changes nothing and  *)
(* is the absence of a step.                                               *)
(***************************************************************************)
EXTENDS Integers, FiniteSets

CONSTANTS
    Workers,         \* requests in flight at the same time
    Buyers,          \* active users that RSVP
    Windows,         \* identifiers a showing window can get
    Capacities,      \* capacities an admin may send, NULL when none is sent
    DefaultCapacity, \* 6 in the code
    NULL             \* no row

VARIABLES
    access,   \* deals.access of the deal
    capacity, \* showing_windows.capacity, NULL while the window does not exist
    rsvp,     \* showing_rsvps.status by window and buyer, "none" without a row
    request,  \* what each worker has read so far
    raced     \* history: the windows that two admitted RSVPs waited for at once

vars == <<access, capacity, rsvp, request, raced>>

Access == {"lockbox", "drive_by_only"}
RsvpStatus == {"none", "confirmed", "declined"}
\* Requests that have not chosen a window, and those about one buyer's seat in one.
Unbound == [step : {"idle", "may_open"}, window : {NULL}, buyer : {NULL}, row : {"none"}]
Bound == [step : {"counted", "found", "declining"}, window : Windows, buyer : Buyers, row : RsvpStatus]
Request == Unbound \cup Bound

Idle == [step |-> "idle", window |-> NULL, buyer |-> NULL, row |-> "none"]

TypeOK ==
    /\ access \in Access
    /\ capacity \in [Windows -> Int \cup {NULL}]
    /\ rsvp \in [Windows -> [Buyers -> RsvpStatus]]
    /\ request \in [Workers -> Request]
    /\ raced \subseteq Windows

Init ==
    /\ access \in Access
    /\ capacity = [w \in Windows |-> NULL]
    /\ rsvp = [w \in Windows |-> [b \in Buyers |-> "none"]]
    /\ request = [p \in Workers |-> Idle]
    /\ raced = {}

-----------------------------------------------------------------------------
\* The rows the capacity check counts: status != "declined".
Taken(w) == {b \in Buyers : rsvp[w][b] \notin {"none", "declined"}}

\* Mutant: the check lets one more buyer in.
WindowFullOffByOne(w) == Cardinality(Taken(w)) > capacity[w]

\* The check of rsvp: int(count or 0) >= win.capacity.
WindowFull(w) == Cardinality(Taken(w)) >= capacity[w]

\* The check of create_window on the access it has read.
ShowingAllowed(a) == a # "drive_by_only"

\* int(payload.get("capacity") or 6): the default stands in for what Python
\* takes as false (nothing sent, null, 0, ""), here NULL.  The conversion comes
\* after the test, so "0" and 0.5 pass it and store 0.
EffectiveCapacity(c) == IF c = NULL THEN DefaultCapacity ELSE c

-----------------------------------------------------------------------------
\* PATCH /admin/deals/{id} with "access": one commit, and it looks at no window.
SetAccess(p) ==
    /\ request[p].step = "idle"
    /\ access' \in Access \ {access}
    /\ UNCHANGED <<capacity, rsvp, request>>

\* create_window: the deal is read and its access checked ...
ReadAccess(p) ==
    /\ request[p].step = "idle"
    /\ ShowingAllowed(access)
    /\ request' = [request EXCEPT ![p] = [Idle EXCEPT !.step = "may_open"]]
    /\ UNCHANGED <<access, capacity, rsvp>>

\* ... and the window inserted and committed.
InsertWindow(p) ==
    /\ request[p].step = "may_open"
    /\ \E w \in Windows, c \in Capacities :
        /\ capacity[w] = NULL
        /\ capacity' = [capacity EXCEPT ![w] = EffectiveCapacity(c)]
    /\ request' = [request EXCEPT ![p] = Idle]
    /\ UNCHANGED <<access, rsvp>>

\* rsvp: the window exists and the rows that count leave room for one more.
CountSeats(p, w, b) ==
    /\ request[p].step = "idle"
    /\ capacity[w] # NULL
    /\ ~WindowFull(w)
    /\ request' = [request EXCEPT ![p] = [step |-> "counted", window |-> w, buyer |-> b, row |-> "none"]]
    /\ UNCHANGED <<access, capacity, rsvp>>

\* rsvp: the buyer's own row, if there is one.
FindRow(p) ==
    /\ request[p].step = "counted"
    /\ request' = [request EXCEPT ![p].step = "found",
                                  ![p].row = rsvp[request[p].window][request[p].buyer]]
    /\ UNCHANGED <<access, capacity, rsvp>>

\* rsvp: the commit.  Without a row it inserts one, and uq_rsvp fails the
\* insert when another request has done so meanwhile; a row read as declined
\* is updated; a row read as confirmed has no net change, so nothing is written.
Confirm(p) ==
    LET r == request[p] IN
    /\ r.step = "found"
    /\ rsvp' = IF r.row = "declined" \/ (r.row = "none" /\ rsvp[r.window][r.buyer] = "none")
                 THEN [rsvp EXCEPT ![r.window][r.buyer] = "confirmed"]
                 ELSE rsvp
    /\ request' = [request EXCEPT ![p] = Idle]
    /\ UNCHANGED <<access, capacity>>

\* rsvp_delete: the row is read; only one read as confirmed is going to change.
FindSeat(p, w, b) ==
    /\ request[p].step = "idle"
    /\ capacity[w] # NULL
    /\ rsvp[w][b] = "confirmed"
    /\ request' = [request EXCEPT ![p] = [step |-> "declining", window |-> w, buyer |-> b, row |-> "confirmed"]]
    /\ UNCHANGED <<access, capacity, rsvp>>

\* Mutant: a cancelled seat gets a status no reader knows.
DeclineUnknown(p) ==
    LET r == request[p] IN
    /\ r.step = "declining"
    /\ rsvp' = [rsvp EXCEPT ![r.window][r.buyer] = "cancelled"]
    /\ request' = [request EXCEPT ![p] = Idle]
    /\ UNCHANGED <<access, capacity>>

Decline(p) ==
    LET r == request[p] IN
    /\ r.step = "declining"
    /\ rsvp' = [rsvp EXCEPT ![r.window][r.buyer] = "declined"]
    /\ request' = [request EXCEPT ![p] = Idle]
    /\ UNCHANGED <<access, capacity>>

\* The process dies or the handler is cancelled before its commit.
Abort(p) ==
    /\ request[p].step # "idle"
    /\ request' = [request EXCEPT ![p] = Idle]
    /\ UNCHANGED <<access, capacity, rsvp>>

\* Requests that passed the capacity check of w and have not committed.
Admitted(w) == {p \in Workers : request[p].step \in {"counted", "found"} /\ request[p].window = w}

\* The history is kept beside the actions: none of them reads or mentions it.
NoteRace == raced' = raced \cup {w \in Windows : \E p, q \in Admitted(w)' : p # q}

Step(p) ==
    \/ SetAccess(p)
    \/ ReadAccess(p)
    \/ InsertWindow(p)
    \/ \E w \in Windows, b \in Buyers : CountSeats(p, w, b) \/ FindSeat(p, w, b)
    \/ FindRow(p)
    \/ Confirm(p)
    \/ Decline(p)
    \/ Abort(p)

Next == \E p \in Workers : Step(p) /\ NoteRace

Spec == Init /\ [][Next]_vars

-----------------------------------------------------------------------------
\* Seats beyond the capacity: none while the RSVPs of w came one after the
\* other, and after a race one for every other request in flight.
Spare(w) == IF w \in raced THEN Cardinality(Workers) - 1 ELSE 0

SeatLimit(w) == IF capacity[w] # NULL /\ capacity[w] > 0 THEN capacity[w] + Spare(w) ELSE 0

(* P8-T11, "RSVP to a window at capacity -> 409 window_full", as far as the *)
(* code keeps it: the check and the insert of rsvp are separate statements, *)
(* so a window is overbooked only if two RSVPs for it were once between them *)
(* at the same time, and then by fewer seats, promised ones included, than *)
(* the deployment runs requests. A stored capacity of 0 or less seats nobody. *)
SeatsBound ==
    \A w \in Windows : Cardinality(Taken(w)) + Cardinality(Admitted(w)) <= SeatLimit(w)
=============================================================================
