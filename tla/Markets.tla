------------------------------- MODULE Markets -------------------------------
(***************************************************************************)
(* Markets, the deals placed in them and the managers in charge            *)
(* (ensure_market, create_market_from_place and deactivate_market in       *)
(* services/deals.py, api/v1/admin_managers.py).                           *)
(*                                                                         *)
(* A market is named by its slug, which is UNIQUE; nothing deletes one.  A *)
(* request runs in one of Workers, one action per SELECT whose result it   *)
(* keeps, one per flush that may wait or fail and one for the commit.  A   *)
(* row that a request has flushed it holds until its commit.  Spellings    *)
(* with one slug are one city here; a manager's card and photo are left    *)
(* out.                                                                    *)
(***************************************************************************)
EXTENDS Integers, FiniteSets

CONSTANTS
    Workers,     \* requests in flight at the same time
    Cities,
    Managers,    \* identifiers managers can get
    Deals,
    MaxClosings, \* bound on the deactivations of a market
    NULL

VARIABLES
    market,   \* markets.is_active: "absent", "active", "inactive"
    manager,  \* markets.manager_id
    managers, \* market_managers
    placed,   \* deals.market_id, with the deactivations its request had seen of it
    closings, \* how often each market was deactivated (history)
    request   \* what each worker has read and flushed so far

vars == <<market, manager, managers, placed, closings, request>>

States == {"absent", "active", "inactive"}
Steps == {"idle", "ensure", "flush", "owned", "commit"}
Ops == {"none", "deal", "create", "close", "new", "patch", "delete"}
Request == [step : Steps, op : Ops, city : Cities \cup {NULL}, found : States, seen : 0 .. MaxClosings,
            manager : Managers \cup {NULL}, wanted : SUBSET Cities, done : SUBSET Cities, write : SUBSET Cities,
            owned : SUBSET Cities, raised : SUBSET Cities, charged : SUBSET Cities]
Idle == [step |-> "idle", op |-> "none", city |-> NULL, found |-> "absent", seen |-> 0,
         manager |-> NULL, wanted |-> {}, done |-> {}, write |-> {},
         owned |-> {}, raised |-> {}, charged |-> {}]
NotPlaced == [city |-> NULL, seen |-> 0]

TypeOK ==
    /\ market \in [Cities -> States]
    /\ managers \subseteq Managers /\ manager \in [Cities -> managers \cup {NULL}]
    /\ placed \in [Deals -> [city : Cities \cup {NULL}, seen : 0 .. MaxClosings]]
    /\ \A d \in Deals : placed[d].city # NULL => market[placed[d].city] # "absent"
    /\ closings \in [Cities -> 0 .. MaxClosings]
    /\ request \in [Workers -> Request]

Init ==
    /\ market = [c \in Cities |-> "absent"]
    /\ manager = [c \in Cities |-> NULL] /\ managers = {}
    /\ placed = [d \in Deals |-> NotPlaced]
    /\ closings = [c \in Cities |-> 0]
    /\ request = [w \in Workers |-> Idle]

-----------------------------------------------------------------------------
Become(w, r) == request' = [request EXCEPT ![w] = r]
There(c) == market[c] # "absent"
OwnedBy(g) == {c \in Cities : manager[c] = g}

\* Nobody else has flushed one of these rows.
RowsFree(w, rows) == \A v \in Workers \ {w} : (request[v].raised \cup request[v].charged) \cap rows = {}

\* The foreign key of manager_id.
ManagerThere(r) == r.op = "new" \/ r.manager \in managers

\* The markets as a commit of the rows a request has raised leaves them.
Raise(rows) == [c \in Cities |-> IF c \in rows THEN "active" ELSE market[c]]

-----------------------------------------------------------------------------
\* create_deal, and patch_deal with a city, need the market of one city;
PlaceDeal(w, c) ==
    /\ request[w].step = "idle"
    /\ Become(w, [Idle EXCEPT !.step = "ensure", !.op = "deal", !.wanted = {c}])
    /\ UNCHANGED <<market, manager, managers, placed, closings>>

\* create_manager and patch_manager with places those of some, one by one; with
\* market_ids one SELECT finds what there is, and what the manager has.
Assign(w, g, wanted) ==
    LET start == [Idle EXCEPT !.manager = g, !.wanted = wanted,
                              !.op = IF g \in managers THEN "patch" ELSE "new"]
        found == {c \in wanted : There(c)}
    IN
    /\ request[w].step = "idle"
    /\ g \notin managers => \A v \in Workers : request[v].manager # g
    /\ \/ wanted # {} /\ Become(w, [start EXCEPT !.step = "ensure"])
       \/ Become(w, [start EXCEPT !.step = "commit", !.write = found \ OwnedBy(g), !.owned = OwnedBy(g) \ found])
    /\ UNCHANGED <<market, manager, managers, placed, closings>>

\* ensure_market: the SELECT by name and slug, which flushes the manager_id of
\* the places before ...
EnsureSelect(w, c) ==
    LET r == request[w] IN
    /\ r.step = "ensure" /\ c \in r.wanted \ r.done
    /\ RowsFree(w, r.write)
    /\ r.write # {} => ManagerThere(r)
    /\ Become(w, [r EXCEPT !.step = "flush", !.city = c, !.found = market[c], !.seen = closings[c],
                           !.charged = r.write, !.done = @ \cup {c},
                           !.write = IF r.op # "deal" /\ manager[c] # r.manager THEN @ \cup {c} ELSE @])
    /\ UNCHANGED <<market, manager, managers, placed, closings>>

\* Mutant: an inactive market is taken as it is.
OnlyAbsent(found) == found = "absent"

\* A market that is absent is inserted, one that is inactive switched on.
NeedsRaise(found) == found \in {"absent", "inactive"}

\* ... and the flush of that, which fails when somebody else has inserted it by now.
EnsureFlush(w) ==
    LET r == request[w]
        next == IF r.op = "deal" THEN "commit" ELSE IF r.wanted = r.done THEN "owned" ELSE "ensure"
    IN
    /\ r.step = "flush"
    /\ NeedsRaise(r.found) => RowsFree(w, {r.city})
    /\ Become(w, IF r.found = "absent" /\ There(r.city) THEN Idle
                 ELSE [r EXCEPT !.step = next, !.raised = IF NeedsRaise(r.found) THEN @ \cup {r.city} ELSE @])
    /\ UNCHANGED <<market, manager, managers, placed, closings>>

\* The deal is committed together with its market.
CommitDeal(w, d) ==
    LET r == request[w] IN
    /\ r.step = "commit" /\ r.op = "deal"
    /\ placed' = [placed EXCEPT ![d] = [city |-> r.city, seen |-> r.seen]]
    /\ market' = Raise(r.raised)
    /\ Become(w, Idle)
    /\ UNCHANGED <<manager, managers, closings>>

\* _assign_places: the other markets the manager has ...
OwnedSelect(w) ==
    LET r == request[w] IN
    /\ r.step = "owned" /\ r.wanted = r.done
    /\ RowsFree(w, r.write)
    /\ r.write # {} => ManagerThere(r)
    /\ Become(w, [r EXCEPT !.step = "commit", !.charged = r.write, !.owned = OwnedBy(r.manager) \ r.wanted])
    /\ UNCHANGED <<market, manager, managers, placed, closings>>

\* ... lose theirs, those wanted get it, in one commit.
CommitAssign(w) ==
    LET r == request[w] IN
    /\ r.step = "commit" /\ r.op \in {"new", "patch"}
    /\ RowsFree(w, r.owned \cup r.write) /\ ManagerThere(r)
    /\ market' = Raise(r.raised)
    /\ manager' = [c \in Cities |-> IF c \in r.write THEN r.manager ELSE IF c \in r.owned THEN NULL ELSE manager[c]]
    /\ managers' = managers \cup {r.manager}
    /\ Become(w, Idle)
    /\ UNCHANGED <<placed, closings>>

\* delete_manager: the manager's markets ...
DeleteRead(w, g) ==
    /\ request[w].step = "idle" /\ g \in managers
    /\ Become(w, [Idle EXCEPT !.step = "commit", !.op = "delete", !.manager = g, !.owned = OwnedBy(g)])
    /\ UNCHANGED <<market, manager, managers, placed, closings>>

\* The foreign key lets no manager go to whom a market or an assignment in flight refers.
NobodyRefers(w, g) ==
    /\ OwnedBy(g) \subseteq request[w].owned
    /\ \A v \in Workers \ {w} : request[v].manager = g => request[v].charged = {}

\* ... and its row is gone.
CommitDelete(w) ==
    LET r == request[w] IN
    /\ r.step = "commit" /\ r.op = "delete" /\ r.manager \in managers
    /\ RowsFree(w, r.owned) /\ NobodyRefers(w, r.manager)
    /\ manager' = [c \in Cities |-> IF c \in r.owned THEN NULL ELSE manager[c]]
    /\ managers' = managers \ {r.manager}
    /\ Become(w, Idle)
    /\ UNCHANGED <<market, placed, closings>>

-----------------------------------------------------------------------------
\* create_market_from_place: refused when there is one, an inactive one included.
CreateRead(w, c) ==
    /\ request[w].step = "idle" /\ ~There(c)
    /\ Become(w, [Idle EXCEPT !.step = "commit", !.op = "create", !.city = c])
    /\ UNCHANGED <<market, manager, managers, placed, closings>>

CommitCreate(w) ==
    LET c == request[w].city IN
    /\ request[w].step = "commit" /\ request[w].op = "create"
    /\ RowsFree(w, {c}) /\ ~There(c)
    /\ market' = [market EXCEPT ![c] = "active"]
    /\ Become(w, Idle)
    /\ UNCHANGED <<manager, managers, placed, closings>>

\* deactivate_market, whatever deals the market has.
CloseRead(w, c) ==
    /\ request[w].step = "idle" /\ market[c] = "active" /\ closings[c] < MaxClosings
    /\ Become(w, [Idle EXCEPT !.step = "commit", !.op = "close", !.city = c])
    /\ UNCHANGED <<market, manager, managers, placed, closings>>

CommitClose(w) ==
    LET c == request[w].city IN
    /\ request[w].step = "commit" /\ request[w].op = "close"
    /\ RowsFree(w, {c}) /\ closings[c] < MaxClosings
    /\ market' = [market EXCEPT ![c] = "inactive"]
    /\ closings' = [closings EXCEPT ![c] = @ + 1]
    /\ Become(w, Idle)
    /\ UNCHANGED <<manager, managers, placed>>

\* The process dies, a flush or the commit fails, or the database breaks a tie.
Abort(w) ==
    /\ request[w].step # "idle"
    /\ Become(w, Idle)
    /\ UNCHANGED <<market, manager, managers, placed, closings>>

Place(w) ==
    \/ \E c \in Cities : PlaceDeal(w, c) \/ EnsureSelect(w, c)
    \/ EnsureFlush(w)
    \/ \E d \in Deals : CommitDeal(w, d)

Manage(w) ==
    \/ \E g \in Managers : DeleteRead(w, g) \/ \E wanted \in SUBSET Cities : Assign(w, g, wanted)
    \/ OwnedSelect(w) \/ CommitAssign(w) \/ CommitDelete(w)

Run(w) ==
    \/ \E c \in Cities : CreateRead(w, c) \/ CloseRead(w, c)
    \/ CommitCreate(w) \/ CommitClose(w)

Next == \E w \in Workers : Place(w) \/ Manage(w) \/ Run(w) \/ Abort(w)

Spec == Init /\ [][Next]_vars

-----------------------------------------------------------------------------
(* A deal's market is one that buyers can choose, unless an admin has switched *)
(* it off after the request that placed the deal had read it: an inactive      *)
(* market is switched on with the deal, and cannot be switched off in between  *)
(* (ensure_market, deactivate_market).                                         *)
MarketOfDealActive == \A d \in Deals : LET p == placed[d] IN
    p.city # NULL => market[p.city] = "active" \/ closings[p.city] > p.seen
=============================================================================
