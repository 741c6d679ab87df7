---------------------------- MODULE Registration ----------------------------
(***************************************************************************)
(* How the people behind one e-mail address get an account: the buyer list *)
(* an admin imports (services/import_buyers.py), registration with the     *)
(* claim of an imported row, verification of the e-mail                    *)
(* (services/auth.py), approval (services/users.py).                       *)
(*                                                                         *)
(* A request runs in one of Workers, one action per SELECT, INSERT or      *)
(* key-value call and one for the commit.  users.email is UNIQUE: an       *)
(* INSERT waits for another that holds the address, and fails once one is  *)
(* committed.  imported_buyers.email is not.  The model has the settings   *)
(* under which verification is required.  Names, phones, terms and the     *)
(* limiter are left out: the first three are stored as they come, the last *)
(* only refuses.                                                           *)
(***************************************************************************)
EXTENDS Integers, FiniteSets

CONSTANTS
    Workers,  \* requests in flight at the same time
    Users,    \* identifiers registrations of the address can get
    Rows,     \* identifiers imported rows of the address can get
    Approval, \* settings.require_admin_approval
    NULL

VARIABLES
    account,  \* users
    imported, \* imported_buyers.claimed_user_id, "absent" before the row is there
    verify,   \* the key tok:{jti} of the token an account was registered with
    request   \* what each worker has read so far

vars == <<account, imported, verify, request>>

Absent == [status |-> "absent", source |-> "none", verified |-> FALSE]
Account == [status : {"absent", "pending", "active", "rejected", "suspended"},
            source : {"none", "website", "import"}, verified : BOOLEAN]
Steps == {"idle", "import", "register", "insert", "held", "stored", "looked", "loaded", "spent", "decide"}
Request == [step : Steps, user : Users \cup {NULL}, row : Rows \cup {NULL}, to : {"none", "active", "rejected", "suspended"}]
Idle == [step |-> "idle", user |-> NULL, row |-> NULL, to |-> "none"]

TypeOK ==
    /\ account \in [Users -> Account]
    /\ imported \in [Rows -> Users \cup {"absent", NULL}]
    /\ verify \in [Users -> {"none", "unused", "used"}]
    /\ request \in [Workers -> Request]
    /\ \A w \in Workers : request[w].step \notin {"idle", "import", "register", "insert"} => request[w].user \in Users

Init ==
    /\ account = [u \in Users |-> Absent]
    /\ imported = [b \in Rows |-> "absent"]
    /\ verify = [u \in Users |-> "none"]
    /\ request = [w \in Workers |-> Idle]

-----------------------------------------------------------------------------
There(u) == account[u].status # "absent"
Unclaimed == {b \in Rows : imported[b] = NULL}
Imported == {b \in Rows : imported[b] # "absent"}

Become(w, r) == request' = [request EXCEPT ![w] = r]

\* commit_import: no row of the address yet; more than one, and the SELECT raises ...
ImportRead(w) ==
    /\ request[w].step = "idle" /\ Imported = {}
    /\ Become(w, [Idle EXCEPT !.step = "import"])
    /\ UNCHANGED <<account, imported, verify>>

\* ... and a new one is committed.
CommitImport(w) ==
    /\ request[w].step = "import"
    /\ \E b \in Rows \ Imported : imported' = [imported EXCEPT ![b] = NULL]
    /\ Become(w, Idle)
    /\ UNCHANGED <<account, verify>>

\* register_user: the address is not taken ...
RegisterRead(w) ==
    /\ request[w].step = "idle" /\ ~\E u \in Users : There(u)
    /\ Become(w, [Idle EXCEPT !.step = "register"])
    /\ UNCHANGED <<account, imported, verify>>

\* scalar_one_or_none: the row or none, and no outcome but an error on two.
OneOrNone(rows) == IF rows = {} THEN {NULL} ELSE {b \in rows : rows = {b}}

\* ... an imported row that nobody has claimed makes the buyer active at once ...
SelectImported(w) ==
    /\ request[w].step = "register"
    /\ \E b \in OneOrNone(Unclaimed) : Become(w, [request[w] EXCEPT !.step = "insert", !.row = b])
    /\ UNCHANGED <<account, imported, verify>>

\* Mutant: the address of an account need not be unique.
NeverTaken(w) == TRUE

\* UNIQUE users.email, and no other INSERT of the address in flight.
AddressFree(w) ==
    /\ ~\E u \in Users : There(u)
    /\ \A v \in Workers \ {w} : request[v].step \notin {"held", "stored"}

\* ... the flush inserts the account, under a new id ...
InsertAccount(w) ==
    /\ request[w].step = "insert" /\ AddressFree(w)
    /\ \E u \in Users :
        /\ verify[u] = "none" /\ ~There(u) /\ \A v \in Workers : request[v].user # u
        /\ Become(w, [request[w] EXCEPT !.step = "held", !.user = u])
    /\ UNCHANGED <<account, imported, verify>>

\* ... its verification token is stored ...
StoreVerify(w) ==
    /\ request[w].step = "held"
    /\ verify' = [verify EXCEPT ![request[w].user] = "unused"]
    /\ Become(w, [request[w] EXCEPT !.step = "stored"])
    /\ UNCHANGED <<account, imported>>

\* imported.claimed_user_id = user.id
Claim(r) == IF r.row = NULL THEN imported ELSE [imported EXCEPT ![r.row] = r.user]

\* ... and all is committed, the claim with it.
CommitRegister(w) ==
    LET r == request[w] IN
    /\ r.step = "stored"
    /\ account' = [account EXCEPT ![r.user] =
                    [status |-> IF r.row # NULL \/ ~Approval THEN "active" ELSE "pending",
                     source |-> IF r.row # NULL THEN "import" ELSE "website",
                     verified |-> FALSE]]
    /\ imported' = Claim(r)
    /\ Become(w, Idle)
    /\ UNCHANGED verify

-----------------------------------------------------------------------------
\* consume_verify_email: the jti is unused ...
VerifyLookup(w, u) ==
    /\ request[w].step = "idle" /\ verify[u] = "unused"
    /\ Become(w, [Idle EXCEPT !.step = "looked", !.user = u])
    /\ UNCHANGED <<account, imported, verify>>

\* ... its account is there ...
VerifyLoad(w) ==
    /\ request[w].step = "looked"
    /\ Become(w, IF There(request[w].user) THEN [request[w] EXCEPT !.step = "loaded"] ELSE Idle)
    /\ UNCHANGED <<account, imported, verify>>

\* ... the jti is marked used ...
SpendVerify(w) ==
    /\ request[w].step = "loaded"
    /\ verify' = [verify EXCEPT ![request[w].user] = "used"]
    /\ Become(w, [request[w] EXCEPT !.step = "spent"])
    /\ UNCHANGED <<account, imported>>

\* ... and email_verified_at committed.
CommitVerify(w) ==
    /\ request[w].step = "spent"
    /\ account' = [account EXCEPT ![request[w].user].verified = TRUE]
    /\ Become(w, Idle)
    /\ UNCHANGED <<imported, verify>>

-----------------------------------------------------------------------------
\* Mutant: an unverified buyer is approved as well.
WhoeverAsks(u) == TRUE

\* require_verified and user.email_verified_at
MayBeApproved(u) == account[u].verified

\* approve_user, reject_user, suspend_user: the account as read (a status it
\* has already is not written again) ...
DecideRead(w, u) ==
    /\ request[w].step = "idle" /\ There(u)
    /\ \E to \in {"active", "rejected", "suspended"} :
        /\ account[u].status # to
        /\ to = "active" => MayBeApproved(u)
        /\ Become(w, [Idle EXCEPT !.step = "decide", !.user = u, !.to = to])
    /\ UNCHANGED <<account, imported, verify>>

\* ... and its new status.
CommitDecision(w) ==
    /\ request[w].step = "decide"
    /\ account' = [account EXCEPT ![request[w].user].status = request[w].to]
    /\ Become(w, Idle)
    /\ UNCHANGED <<imported, verify>>

\* The token's 24 hours are over, or Redis lost the key: no better than used.
VerifyLost(u) ==
    /\ verify[u] = "unused"
    /\ verify' = [verify EXCEPT ![u] = "used"]
    /\ UNCHANGED <<account, imported, request>>

\* The process dies, or the INSERT or the commit fails.
Abort(w) ==
    /\ request[w].step # "idle"
    /\ Become(w, Idle)
    /\ UNCHANGED <<account, imported, verify>>

Join(w) ==
    \/ ImportRead(w) \/ CommitImport(w)
    \/ RegisterRead(w) \/ SelectImported(w) \/ InsertAccount(w) \/ StoreVerify(w) \/ CommitRegister(w)

Vet(w) ==
    \/ \E u \in Users : VerifyLookup(w, u) \/ DecideRead(w, u)
    \/ VerifyLoad(w) \/ SpendVerify(w) \/ CommitVerify(w) \/ CommitDecision(w)

Next ==
    \/ \E w \in Workers : Join(w) \/ Vet(w) \/ Abort(w)
    \/ \E u \in Users : VerifyLost(u)

Spec == Init /\ [][Next]_vars

-----------------------------------------------------------------------------
(* However registrations of one address race with each other and with       *)
(* imports, at most one account comes of them, an account that was let in   *)
(* as imported is the one its row names, and no row names an account that   *)
(* was not (register_user reads the row before the INSERT that excludes     *)
(* the others).                                                             *)
ClaimsMatch ==
    /\ Cardinality({u \in Users : There(u)}) <= 1
    /\ \A u \in Users :
        Cardinality({b \in Rows : imported[b] = u}) = IF account[u].source = "import" THEN 1 ELSE 0

(* A buyer whom nobody imported is active only after the e-mail was verified, *)
(* whatever crash comes between the token and the account, and even when a    *)
(* later status was written over by an approval read before it                *)
(* (consume_verify_email, approve_user).                                      *)
ActiveVetted == \A u \in Users :
    account[u].status = "active" /\ Approval => account[u].source = "import" \/ account[u].verified
=============================================================================
