------------------------------ MODULE Sessions ------------------------------
(***************************************************************************)
(* The sessions of one user: refresh-token families, users.token_version   *)
(* and its cached copy (services/auth.py, services/users.py).              *)
(*                                                                         *)
(* A request runs in one of Workers and is interrupted at each await: one  *)
(* action per SELECT or cache call whose result or effect matters, and one *)
(* for the commit.  No SELECT locks a row; the UPDATE of the users row that *)
(* the session flushes before the next SELECT holds that row until the     *)
(* commit.  The cache is the Redis all processes share.  Every token row   *)
(* is minted with one access JWT, so a token stands for both, and the row  *)
(* carries the version of that JWT.  Token expiry is not modelled.         *)
(***************************************************************************)
EXTENDS Integers, FiniteSets

CONSTANTS
    Workers,    \* requests in flight at the same time
    Tokens,     \* identifiers refresh_tokens rows can get
    MaxVersion, \* bound on users.token_version
    NULL

ASSUME WorkersAssumption == IsFiniteSet(Workers) /\ Workers # {}
ASSUME VersionAssumption == MaxVersion \in Nat \ {0}

VARIABLES
    status,  \* users.status
    version, \* users.token_version
    cache,   \* the key user:{id}:ver, NULL when absent
    row,     \* refresh_tokens, NULL without a row
    denied,  \* tokens whose access JWT is on the jti denylist
    request, \* what each worker has read so far
    raced,   \* history: the families a rotation has ever run into another request for
    clashed  \* history: what of the users row requests in flight at once have ever gone by

vars == <<status, version, cache, row, denied, request, raced, clashed>>

Statuses == {"pending", "active", "suspended", "rejected"}
Disabled == {"suspended", "rejected"}
Versions == 1 .. MaxVersion
Rows == [family : Tokens, parent : Tokens \cup {NULL}, ver : Versions, used : BOOLEAN, revoked : BOOLEAN]
ASSUME NullAssumption == NULL \notin Int /\ NULL \notin Tokens /\ NULL \notin Rows

Steps == {"idle", "login", "rotate", "spend", "load", "miss", "authed", "family", "deny", "revoke",
          "bump", "select", "flushed", "approved"}
Decisions == {"approve", "reject", "suspend"}
UserOps == Decisions \cup {"password", "reset"}
Ops == UserOps \cup {"none", "logout"}
TokenSteps == {"rotate", "spend", "load", "miss", "authed", "family", "deny"} \* a token row was read
BumpSteps == {"bump", "select", "flushed", "approved"}
Request == [step : Steps, op : Ops, token : Tokens \cup {NULL}, status : Statuses,
            version : Versions, rows : SUBSET Tokens]

Idle == [step |-> "idle", op |-> "none", token |-> NULL, status |-> "pending", version |-> 1, rows |-> {}]

HasRow(t) == t \in Tokens /\ row[t] # NULL
\* What a request has read exists, and it can still count the version up.
Sound(r) ==
    /\ r.step \in TokenSteps => HasRow(r.token)
    /\ \A t \in r.rows : HasRow(t)
    /\ r.step \in BumpSteps => r.op \in UserOps /\ r.version < MaxVersion

TypeOK ==
    /\ status \in Statuses /\ version \in Versions
    /\ cache \in Versions \cup {NULL}
    /\ row \in [Tokens -> Rows \cup {NULL}]
    /\ denied \subseteq Tokens
    /\ request \in [Workers -> Request]
    /\ \A w \in Workers : Sound(request[w])
    /\ raced \subseteq Tokens /\ clashed \subseteq {"version", "status"}

Init ==
    /\ status \in {"pending", "active"}
    /\ version = 1
    /\ cache = NULL
    /\ row = [t \in Tokens |-> NULL]
    /\ denied = {}
    /\ request = [w \in Workers |-> Idle]
    /\ raced = {} /\ clashed = {}

-----------------------------------------------------------------------------
Issued == {t \in Tokens : row[t] # NULL}
Family(f) == {t \in Issued : row[t].family = f}
Unrevoked == {t \in Issued : ~row[t].revoked}
Live(f) == {t \in Family(f) : ~row[t].used /\ ~row[t].revoked}

\* create_session_tokens
NewRow(family, parent, ver) ==
    [family |-> family, parent |-> parent, ver |-> ver, used |-> FALSE, revoked |-> FALSE]

\* Mutant: the parent row is written back whole, as it was read.
RowRewritten(r) == [r EXCEPT !.used = TRUE, !.revoked = FALSE]

\* Mutant: the parent is not marked.
RowLeft(r) == r

\* row.used_at = _now(): the UPDATE names no other column.
RowUsed(r) == [r EXCEPT !.used = TRUE]

\* Mutant: only the tokens not used yet are revoked.
UnusedOf(f) == {t \in Family(f) : ~row[t].used}

\* The rows _revoke_family is going to write.
ToRevoke(f) == Family(f) \cap Unrevoked

\* revoked_at on the rows selected.
Revoked(selected) == [t \in Tokens |-> IF t \in selected THEN [row[t] EXCEPT !.revoked = TRUE] ELSE row[t]]

\* Mutant: the version is kept.
SameVersion(v) == v

\* user.token_version += 1, on the version read.
Bumped(v) == v + 1

\* Mutant: the cache is filled on a bump with the version before it.
CacheOld(v) == v

\* bump_ver writes the cache through, before the commit.
CacheAfterBump(v) == v + 1

\* Mutant: login looks at no status.
MayAlways(s) == TRUE

\* login_user and rotate_refresh: status in {"suspended", "rejected"} is refused.
MaySignIn(s) == s \notin Disabled

\* No other request has flushed an UPDATE of the users row and not committed.
UserRowFree(w) == \A v \in Workers \ {w} : request[v].step # "flushed"

Become(w, r) == request' = [request EXCEPT ![w] = r]

-----------------------------------------------------------------------------
\* login_user: the user is read, the password and the status are good ...
LoginRead(w) ==
    /\ request[w].step = "idle"
    /\ MaySignIn(status)
    /\ Become(w, [Idle EXCEPT !.step = "login", !.version = version])
    /\ UNCHANGED <<status, version, cache, row, denied>>

\* ... and last_login_at and the first token of a new family are committed.
LoginCommit(w) ==
    /\ request[w].step = "login" /\ UserRowFree(w)
    /\ \E t \in Tokens \ Issued : row' = [row EXCEPT ![t] = NewRow(t, NULL, request[w].version)]
    /\ Become(w, Idle)
    /\ UNCHANGED <<status, version, cache, denied>>

\* Mutant: a token already used is rotated like a fresh one.
NeverReused(t) == FALSE

\* rotate_refresh: used_at is set on the row read.
Reused(t) == row[t].used

\* rotate_refresh: the row of the token presented, refused when it is revoked.  One
\* already used is reuse, and the next SELECT is the one of _revoke_family ...
RotateRead(w, t) ==
    /\ request[w].step = "idle"
    /\ t \in Unrevoked
    /\ Become(w, [Idle EXCEPT !.step = IF Reused(t) THEN "family" ELSE "rotate", !.token = t])
    /\ UNCHANGED <<status, version, cache, row, denied>>

\* ... then its user, for whom a disabled account ends the family too ...
RotateUser(w) ==
    /\ request[w].step = "rotate"
    /\ Become(w, IF MaySignIn(status)
                   THEN [request[w] EXCEPT !.step = "spend", !.version = version]
                   ELSE [request[w] EXCEPT !.step = "family"])
    /\ UNCHANGED <<status, version, cache, row, denied>>

\* ... and one commit marks the row used and inserts its child.
RotateCommit(w) ==
    LET t == request[w].token IN
    /\ request[w].step = "spend"
    /\ \E child \in Tokens \ Issued :
        row' = [row EXCEPT ![t] = RowUsed(row[t]), ![child] = NewRow(row[t].family, t, request[w].version)]
    /\ Become(w, Idle)
    /\ UNCHANGED <<status, version, cache, denied>>

-----------------------------------------------------------------------------
\* authenticate_access: the denylist and the user ...
AuthLoad(w, t) ==
    /\ request[w].step = "idle"
    /\ t \in Issued \ denied
    /\ Become(w, [Idle EXCEPT !.step = "load", !.token = t, !.version = version])
    /\ UNCHANGED <<status, version, cache, row, denied>>

\* The JWT's ver is compared with v; a stale token ends the request with a 401.
Authenticated(w, v) ==
    Become(w, IF row[request[w].token].ver = v THEN [request[w] EXCEPT !.step = "authed"] ELSE Idle)

\* ... cached_ver: the key is there ...
AuthHit(w) ==
    /\ request[w].step = "load" /\ cache # NULL
    /\ Authenticated(w, cache)
    /\ UNCHANGED <<status, version, cache, row, denied>>

\* ... or it is not, and then is set to the version of the user loaded before.
AuthMiss(w) ==
    /\ request[w].step = "load" /\ cache = NULL
    /\ Become(w, [request[w] EXCEPT !.step = "miss"])
    /\ UNCHANGED <<status, version, cache, row, denied>>

AuthFill(w) ==
    /\ request[w].step = "miss"
    /\ cache' = request[w].version
    /\ Authenticated(w, request[w].version)
    /\ UNCHANGED <<status, version, row, denied>>

\* logout, DELETE /auth/sessions/{id} (a family of the user's choice) ...
Logout(w) ==
    /\ request[w].step = "authed"
    /\ Become(w, [Idle EXCEPT !.step = "family", !.op = "logout", !.token = request[w].token])
    /\ UNCHANGED <<status, version, cache, row, denied>>

RevokeSession(w, t) ==
    /\ request[w].step = "authed" /\ t \in Issued
    /\ Become(w, [Idle EXCEPT !.step = "family", !.token = t])
    /\ UNCHANGED <<status, version, cache, row, denied>>

\* ... and POST /auth/sessions/revoke-all, which keeps the caller's family.
RevokeOthers(w) ==
    /\ request[w].step = "authed"
    /\ Become(w, [Idle EXCEPT !.step = "revoke", !.rows = Unrevoked \ Family(row[request[w].token].family)])
    /\ UNCHANGED <<status, version, cache, row, denied>>

\* _revoke_family: the rows of the family; a logout then denies its JWT's jti.
SelectFamily(w) ==
    /\ request[w].step = "family"
    /\ LET selected == ToRevoke(row[request[w].token].family) IN
        Become(w, IF request[w].op = "logout"
                    THEN [Idle EXCEPT !.step = "deny", !.token = request[w].token, !.rows = selected]
                    ELSE [Idle EXCEPT !.step = "revoke", !.rows = selected])
    /\ UNCHANGED <<status, version, cache, row, denied>>

DenyToken(w) ==
    /\ request[w].step = "deny"
    /\ denied' = denied \cup {request[w].token}
    /\ Become(w, [Idle EXCEPT !.step = "revoke", !.rows = request[w].rows])
    /\ UNCHANGED <<status, version, cache, row>>

CommitRevoke(w) ==
    /\ request[w].step = "revoke"
    /\ row' = Revoked(request[w].rows)
    /\ Become(w, Idle)
    /\ UNCHANGED <<status, version, cache, denied>>

-----------------------------------------------------------------------------
\* change_password goes on with the user loaded for the authentication.
ChangePassword(w) ==
    /\ request[w].step = "authed" /\ request[w].version < MaxVersion
    /\ Become(w, [Idle EXCEPT !.step = "bump", !.op = "password", !.version = request[w].version])
    /\ UNCHANGED <<status, version, cache, row, denied>>

\* consume_reset: the user of a reset token of the version that is stored.
ConsumeReset(w) ==
    /\ request[w].step = "idle" /\ version < MaxVersion
    /\ Become(w, [Idle EXCEPT !.step = "bump", !.op = "reset", !.version = version])
    /\ UNCHANGED <<status, version, cache, row, denied>>

\* approve, reject and suspend: get_client reads the user.
AdminRead(w, op) ==
    /\ request[w].step = "idle" /\ version < MaxVersion
    /\ Become(w, [Idle EXCEPT !.step = "bump", !.op = op, !.status = status, !.version = version])
    /\ UNCHANGED <<status, version, cache, row, denied>>

\* bump_ver: the cache is written through; approve has nothing left to select.
BumpCache(w) ==
    /\ request[w].step = "bump"
    /\ cache' = CacheAfterBump(request[w].version)
    /\ Become(w, [request[w] EXCEPT !.step = IF request[w].op = "approve" THEN "approved" ELSE "select"])
    /\ UNCHANGED <<status, version, row, denied>>

\* The SELECT of the user's tokens flushes the UPDATE of the user first.
SelectAll(w) ==
    /\ request[w].step = "select" /\ UserRowFree(w)
    /\ Become(w, [request[w] EXCEPT !.step = "flushed", !.rows = Unrevoked])
    /\ UNCHANGED <<status, version, cache, row, denied>>


\* Mutant: a status nobody knows.
StatusMisspelt(op) == IF op = "approve" THEN "approved" ELSE "suspended"

\* The status a decision on the buyer writes.
StatusAfter(op) == CASE op = "approve" -> "active" [] op = "reject" -> "rejected" [] op = "suspend" -> "suspended"

\* The commit: the status only if it differs from the one read, and the version.
CommitUser(w) ==
    LET r == request[w] IN
    /\ r.step = "flushed" \/ (r.step = "approved" /\ UserRowFree(w))
    /\ status' = IF r.op \notin Decisions \/ StatusAfter(r.op) = r.status THEN status ELSE StatusAfter(r.op)
    /\ version' = Bumped(r.version)
    /\ row' = Revoked(r.rows)
    /\ Become(w, Idle)
    /\ UNCHANGED <<cache, denied>>

-----------------------------------------------------------------------------
\* The key expires (TTL 300) or Redis loses it.
CacheLost ==
    /\ cache # NULL
    /\ cache' = NULL
    /\ UNCHANGED <<status, version, row, denied, request>>

\* The process dies, the commit fails, or the authenticated request was another one.
Abort(w) ==
    /\ request[w].step # "idle"
    /\ Become(w, Idle)
    /\ UNCHANGED <<status, version, cache, row, denied>>

SignIn(w) ==
    \/ LoginRead(w) \/ LoginCommit(w)
    \/ \E t \in Tokens : RotateRead(w, t)
    \/ RotateUser(w) \/ RotateCommit(w)

Authenticate(w) ==
    \/ \E t \in Tokens : AuthLoad(w, t)
    \/ AuthHit(w) \/ AuthMiss(w) \/ AuthFill(w)

Revoke(w) ==
    \/ Logout(w) \/ RevokeOthers(w)
    \/ \E t \in Tokens : RevokeSession(w, t)
    \/ SelectFamily(w) \/ DenyToken(w) \/ CommitRevoke(w)

Bump(w) ==
    \/ ChangePassword(w) \/ ConsumeReset(w)
    \/ \E op \in Decisions : AdminRead(w, op)
    \/ BumpCache(w) \/ SelectAll(w) \/ CommitUser(w)

Step ==
    \/ \E w \in Workers : SignIn(w) \/ Authenticate(w) \/ Revoke(w) \/ Bump(w) \/ Abort(w)
    \/ CacheLost

\* The family a rotation trades a token of, and those a request is about to revoke.
Rotating(w) == IF request[w].step \in {"rotate", "spend"} THEN {row[request[w].token].family} ELSE {}
Revoking(w) == {row[t].family : t \in request[w].rows}

\* The families a rotation and another request are about to write.
Contested == {f \in Tokens : \E v \in Workers : \E w \in Workers \ {v} :
                               f \in Rotating(v) \cap (Rotating(w) \cup Revoking(w))}

\* Requests about to count the version up, and those that go by the one they read;
\* requests about to decide on the buyer, and those that took him to be in order.
Bumpers == {w \in Workers : request[w].step \in BumpSteps}
Readers == {w \in Workers : request[w].step \in {"load", "miss", "authed"}}
Deciders == {w \in Bumpers : request[w].op \in Decisions}
Entrants == {w \in Workers : request[w].step \in {"login", "spend"}}

Clash(c) ==
    CASE c = "version" -> \E v \in Bumpers : (Bumpers \cup Readers) \ {v} # {}
      [] c = "status" -> \E v \in Deciders : (Deciders \cup Entrants) \ {v} # {}

\* The histories are kept beside the actions: none of them reads or mentions them.
NoteRace ==
    /\ raced' = raced \cup Contested'
    /\ clashed' = clashed \cup {c \in {"version", "status"} : Clash(c)'}

Next == Step /\ NoteRace

Spec == Init /\ [][Next]_vars

-----------------------------------------------------------------------------
(* Whatever runs at the same time, a commit names only the columns it sets: a *)
(* rotation that read its row before a revocation never takes the revocation *)
(* back, and no token becomes unused again (rotate_refresh, _revoke_family). *)
RevocationSticks ==
    [][\A t \in Issued : /\ row'[t] # NULL
                         /\ row[t].revoked => row'[t].revoked
                         /\ row[t].used => row'[t].used]_vars

(* A token is marked used in the commit that inserts its child: under any *)
(* interleaving and any crash no child exists whose parent may still be *)
(* traded as unused (rotate_refresh). *)
ChildOfUsed ==
    \A t \in Issued : row[t].parent # NULL =>
        /\ row[t].parent \in Family(row[t].family)
        /\ row[row[t].parent].used

(* DESIGN 8.4, refresh tokens are verified against "family not revoked": the *)
(* code looks at the row presented only, so a family must be revoked as a whole. *)
(* It is, unless a rotation of the family ran into another rotation or into the *)
(* revocation: a child committed between its SELECT and its commit escapes it. *)
FamilyRevokedTogether ==
    \A t, u \in Issued : row[t].family = row[u].family /\ row[t].family \notin raced =>
        row[t].revoked = row[u].revoked

(* A suspended or rejected buyer has no token /auth/refresh accepts, so that a *)
(* later approval does not bring old sessions back, unless a login or a rotation *)
(* that found the buyer in order, or another decision, was in flight at the same *)
(* time as a decision (suspend_user, reject_user). *)
DisabledHasNoLive ==
    "status" \notin clashed /\ status \in Disabled => \A f \in Tokens : Live(f) = {}

(* DESIGN 5.4: after a bump "every outstanding access token for that user dies *)
(* on its next request": the committed version is that of no token issued so far, *)
(* nor of a login in flight, unless a bump ran into another or into a request that *)
(* had loaded the user. *)
BumpKillsAccess ==
    [][\A w \in Workers : CommitUser(w) /\ "version" \notin clashed =>
        /\ \A t \in Issued : row[t].ver # version'
        /\ \A v \in Entrants : request[v].version # version']_vars

(* DESIGN 8.4: the cached version degrades "to a DB read, never to a stale *)
(* allow": it is never behind the committed one. *)
CacheNotBehind == cache # NULL => cache >= version

(* The cached version is not behind the committed one, whatever crashes between *)
(* the two writes and whatever keys are lost, unless a bump ran into another or *)
(* into a request that had loaded the user (bump_ver, cached_ver). *)
CacheFollows == "version" \notin clashed => CacheNotBehind

(* The tokens of a user keep the promise of SessionBook: of a family no rotation *)
(* ran into another request for one token can be used; others count as closed. *)
Book == INSTANCE SessionBook WITH
    live <- [f \in Tokens |-> IF f \in raced THEN {} ELSE Live(f)],
    spent <- {t \in Issued : row[t].used \/ row[t].revoked \/ row[t].family \in raced}
KeepsBook == Book!Spec
=============================================================================
