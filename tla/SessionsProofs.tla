---------------------------- MODULE SessionsProofs ----------------------------
(***************************************************************************)
(* What holds of a user's sessions under any interleaving of any number of *)
(* requests: with no condition, and of what no two of them raced for.      *)
(***************************************************************************)
EXTENDS Sessions, TLAPS

USE NullAssumption, VersionAssumption
USE DEF Statuses, Versions, Rows, Steps, Ops, UserOps, Decisions, Idle

(* Marking a set of rows as revoked keeps the type of the table and its rows. *)
LEMMA RevokedRows ==
    ASSUME row \in [Tokens -> Rows \cup {NULL}], NEW S, \A t \in S : HasRow(t)
    PROVE  /\ Revoked(S) \in [Tokens -> Rows \cup {NULL}]
           /\ \A t \in Tokens : Revoked(S)[t] = NULL <=> row[t] = NULL
           /\ \A t \in Tokens : row[t] # NULL =>
                /\ Revoked(S)[t].family = row[t].family
                /\ Revoked(S)[t].parent = row[t].parent
                /\ Revoked(S)[t].ver = row[t].ver
                /\ Revoked(S)[t].used = row[t].used
                /\ Revoked(S)[t].revoked = (t \in S \/ row[t].revoked)
<1>1. ASSUME NEW t \in Tokens, t \in S
      PROVE  /\ Revoked(S)[t] \in Rows
             /\ Revoked(S)[t].family = row[t].family
             /\ Revoked(S)[t].parent = row[t].parent
             /\ Revoked(S)[t].ver = row[t].ver
             /\ Revoked(S)[t].used = row[t].used
             /\ Revoked(S)[t].revoked = TRUE
  BY <1>1 DEF Revoked, HasRow
<1>2. ASSUME NEW t \in Tokens, t \notin S PROVE Revoked(S)[t] = row[t]
  BY <1>2 DEF Revoked
<1> QED BY <1>1, <1>2 DEF Revoked, HasRow

(* A worker's new record keeps the type of the requests when no row goes away. *)
LEMMA Becoming ==
    ASSUME TypeOK, NEW w \in Workers, NEW r \in Request, Become(w, r), Sound(r)',
           \A t : HasRow(t) => HasRow(t)'
    PROVE  /\ request' \in [Workers -> Request]
           /\ \A v \in Workers : Sound(request[v])'
<1>1. \A v \in Workers : request'[v] = IF v = w THEN r ELSE request[v]
  BY DEF Become, TypeOK
<1>2. request' \in [Workers -> Request]
  BY DEF Become, TypeOK
<1>3. ASSUME NEW v \in Workers, v # w PROVE Sound(request[v])'
  <2>1. Sound(request[v]) /\ request'[v] = request[v]
    BY <1>1, <1>3 DEF TypeOK
  <2> QED BY <2>1 DEF Sound
<1>4. Sound(request[w])'
  BY <1>1 DEF Sound
<1> QED BY <1>2, <1>3, <1>4

(* The same for a step that writes no row. *)
LEMMA Moving ==
    ASSUME TypeOK, NEW w \in Workers, NEW r \in Request, Become(w, r), Sound(r), UNCHANGED row
    PROVE  /\ request' \in [Workers -> Request]
           /\ \A v \in Workers : Sound(request[v])'
<1>1. Sound(r)' /\ \A t : HasRow(t) => HasRow(t)'
  BY DEF Sound, HasRow
<1> QED BY <1>1, Becoming

(* A step that only moves a worker on keeps TypeOK. *)
LEMMA Reading ==
    ASSUME TypeOK, NEW w \in Workers, NEW r \in Request, Become(w, r), Sound(r),
           UNCHANGED <<status, version, cache, row, denied>>,
           raced' \subseteq Tokens, clashed' \subseteq {"version", "status"}
    PROVE  TypeOK'
BY Moving DEF TypeOK

(* What is noted is what there is to note. *)
LEMMA NotesTyped ==
    ASSUME TypeOK, [Next]_vars
    PROVE  raced' \subseteq Tokens /\ clashed' \subseteq {"version", "status"}
BY DEF Next, NoteRace, Contested, vars, TypeOK

(* The idle request is a request, and asks for nothing. *)
LEMMA IdleRequest == Idle \in Request /\ Sound(Idle) /\ Sound(Idle)'
  BY DEF Request, Sound, TokenSteps, BumpSteps

(* What a worker's record is, taken apart. *)
LEMMA RequestFields ==
    ASSUME TypeOK, NEW w \in Workers
    PROVE  /\ request[w] \in Request
           /\ request[w].step \in Steps /\ request[w].op \in Ops /\ request[w].status \in Statuses
           /\ request[w].token \in Tokens \cup {NULL}
           /\ request[w].version \in Versions
           /\ request[w].rows \subseteq Tokens
           /\ request[w].step \in TokenSteps =>
                request[w].token \in Tokens /\ row[request[w].token] \in Rows
           /\ request[w].step \in BumpSteps => request[w].op \in UserOps /\ request[w].version < MaxVersion
           /\ \A t \in request[w].rows : HasRow(t)
  BY DEF TypeOK, Request, Sound, HasRow

(* The tables and the requests keep their types, and what a request has read exists. *)
THEOREM SessionsTyping == Spec => []TypeOK
<1>1. Init => TypeOK
  BY IdleRequest DEF Init, TypeOK, Sound, TokenSteps, BumpSteps
<1>2. TypeOK /\ [Next]_vars => TypeOK'
  <2> SUFFICES ASSUME TypeOK, [Next]_vars PROVE TypeOK'
    OBVIOUS
  <2>0. raced' \subseteq Tokens /\ clashed' \subseteq {"version", "status"}
    BY NotesTyped
  <2> USE IdleRequest DEF TokenSteps, BumpSteps
  <2>1. ASSUME NEW w \in Workers, LoginRead(w) PROVE TypeOK'
    <3>1. [Idle EXCEPT !.step = "login", !.version = version] \in Request
      BY DEF TypeOK, Request
    <3>2. Sound([Idle EXCEPT !.step = "login", !.version = version])
      BY DEF Sound
    <3> QED BY <2>0, <2>1, <3>1, <3>2, Reading DEF LoginRead
  <2>2. ASSUME NEW w \in Workers, LoginCommit(w) PROVE TypeOK'
    <3>1. PICK t \in Tokens \ Issued : row' = [row EXCEPT ![t] = NewRow(t, NULL, request[w].version)]
      BY <2>2 DEF LoginCommit
    <3>2. NewRow(t, NULL, request[w].version) \in Rows
      BY RequestFields DEF NewRow
    <3>3. row' \in [Tokens -> Rows \cup {NULL}] /\ \A u : HasRow(u) => HasRow(u)'
      BY <3>1, <3>2 DEF TypeOK, HasRow
    <3>4. request' \in [Workers -> Request] /\ \A v \in Workers : Sound(request[v])'
      BY <2>2, <3>3, Becoming DEF LoginCommit
    <3> QED BY <2>0, <2>2, <3>3, <3>4 DEF LoginCommit, TypeOK
  <2>3. ASSUME NEW w \in Workers, NEW t \in Tokens, RotateRead(w, t) PROVE TypeOK'
    <3> DEFINE r == [Idle EXCEPT !.step = IF Reused(t) THEN "family" ELSE "rotate", !.token = t]
    <3>1. r \in Request
      BY DEF Request
    <3>2. Sound(r)
      BY <2>3 DEF RotateRead, Unrevoked, Issued, Sound, HasRow
    <3> QED BY <2>0, <2>3, <3>1, <3>2, Reading DEF RotateRead
  <2>4. ASSUME NEW w \in Workers, RotateUser(w) PROVE TypeOK'
    <3> DEFINE r == IF MaySignIn(status) THEN [request[w] EXCEPT !.step = "spend", !.version = version]
                                         ELSE [request[w] EXCEPT !.step = "family"]
    <3>1. request[w] \in Request /\ request[w].step = "rotate" /\ version \in Versions
      BY <2>4 DEF RotateUser, TypeOK
    <3>2. r \in Request /\ r.token = request[w].token /\ r.rows = request[w].rows /\ r.step \in {"spend", "family"}
      BY <3>1 DEF Request
    <3>3. Sound(r)
      BY <3>1, <3>2 DEF TypeOK, Sound
    <3> QED BY <2>0, <2>4, <3>2, <3>3, Reading DEF RotateUser
  <2>5. ASSUME NEW w \in Workers, RotateCommit(w) PROVE TypeOK'
    <3> DEFINE t == request[w].token
    <3>1. PICK child \in Tokens \ Issued :
            row' = [row EXCEPT ![t] = RowUsed(row[t]), ![child] = NewRow(row[t].family, t, request[w].version)]
      BY <2>5 DEF RotateCommit
    <3>2. t \in Tokens /\ row[t] \in Rows
      BY <2>5, RequestFields DEF RotateCommit
    <3>3. RowUsed(row[t]) \in Rows /\ NewRow(row[t].family, t, request[w].version) \in Rows
      BY <3>2, RequestFields DEF RowUsed, NewRow
    <3>4. row' \in [Tokens -> Rows \cup {NULL}] /\ \A u : HasRow(u) => HasRow(u)'
      BY <3>1, <3>2, <3>3 DEF TypeOK, HasRow
    <3>5. request' \in [Workers -> Request] /\ \A v \in Workers : Sound(request[v])'
      BY <2>5, <3>4, Becoming DEF RotateCommit
    <3> QED BY <2>0, <2>5, <3>4, <3>5 DEF RotateCommit, TypeOK
  <2>6. ASSUME NEW w \in Workers, NEW t \in Tokens, AuthLoad(w, t) PROVE TypeOK'
    <3> DEFINE r == [Idle EXCEPT !.step = "load", !.token = t, !.version = version]
    <3>1. r \in Request
      BY DEF TypeOK, Request
    <3>2. Sound(r)
      BY <2>6 DEF AuthLoad, Issued, Sound, HasRow
    <3> QED BY <2>0, <2>6, <3>1, <3>2, Reading DEF AuthLoad
  <2>7. ASSUME NEW w \in Workers, AuthHit(w) PROVE TypeOK'
    <3>1. [request[w] EXCEPT !.step = "authed"] \in Request /\ Sound([request[w] EXCEPT !.step = "authed"])
      BY <2>7 DEF AuthHit, TypeOK, Request, Sound
    <3> QED BY <2>0, <2>7, <3>1, Reading DEF AuthHit, Authenticated
  <2>8. ASSUME NEW w \in Workers, AuthMiss(w) PROVE TypeOK'
    <3>1. [request[w] EXCEPT !.step = "miss"] \in Request /\ Sound([request[w] EXCEPT !.step = "miss"])
      BY <2>8 DEF AuthMiss, TypeOK, Request, Sound
    <3> QED BY <2>0, <2>8, <3>1, Reading DEF AuthMiss
  <2>9. ASSUME NEW w \in Workers, AuthFill(w) PROVE TypeOK'
    <3> DEFINE r == IF row[request[w].token].ver = request[w].version
                      THEN [request[w] EXCEPT !.step = "authed"] ELSE Idle
    <3>1. r \in Request /\ Sound(r) /\ request[w].version \in Versions
      BY <2>9 DEF AuthFill, TypeOK, Request, Sound
    <3>2. UNCHANGED row /\ Become(w, r)
      BY <2>9 DEF AuthFill, Authenticated
    <3>4. request' \in [Workers -> Request] /\ \A v \in Workers : Sound(request[v])'
      BY <3>1, <3>2, Moving
    <3> QED BY <2>0, <2>9, <3>1, <3>4 DEF AuthFill, TypeOK
  <2>10. ASSUME NEW w \in Workers, Logout(w) PROVE TypeOK'
    <3> DEFINE r == [Idle EXCEPT !.step = "family", !.op = "logout", !.token = request[w].token]
    <3>1. request[w].step = "authed"
      BY <2>10 DEF Logout
    <3>2. r \in Request /\ Sound(r)
      BY <3>1, RequestFields DEF Request, Sound, HasRow
    <3> QED BY <2>0, <2>10, <3>2, Reading DEF Logout
  <2>11. ASSUME NEW w \in Workers, NEW t \in Tokens, RevokeSession(w, t) PROVE TypeOK'
    <3> DEFINE r == [Idle EXCEPT !.step = "family", !.token = t]
    <3>1. r \in Request
      BY DEF Request
    <3>2. Sound(r)
      BY <2>11 DEF RevokeSession, Issued, Sound, HasRow
    <3> QED BY <2>0, <2>11, <3>1, <3>2, Reading DEF RevokeSession
  <2>12. ASSUME NEW w \in Workers, RevokeOthers(w) PROVE TypeOK'
    <3> DEFINE r == [Idle EXCEPT !.step = "revoke", !.rows = Unrevoked \ Family(row[request[w].token].family)]
    <3>1. \A u \in Unrevoked : HasRow(u)
      BY DEF Unrevoked, Issued, HasRow
    <3>2. r \in Request /\ Sound(r)
      BY <3>1 DEF Request, Sound, HasRow
    <3> QED BY <2>0, <2>12, <3>2, Reading DEF RevokeOthers
  <2>13. ASSUME NEW w \in Workers, SelectFamily(w) PROVE TypeOK'
    <3> DEFINE selected == ToRevoke(row[request[w].token].family)
    <3> DEFINE r == IF request[w].op = "logout"
                      THEN [Idle EXCEPT !.step = "deny", !.token = request[w].token, !.rows = selected]
                      ELSE [Idle EXCEPT !.step = "revoke", !.rows = selected]
    <3>1. \A u \in selected : HasRow(u)
      BY DEF ToRevoke, Family, Issued, HasRow
    <3>2. HasRow(request[w].token)
      BY <2>13, RequestFields DEF SelectFamily, HasRow
    <3> HIDE DEF selected
    <3>3. r \in Request /\ Sound(r)
      BY <3>1, <3>2 DEF Request, Sound, HasRow
    <3> QED BY <2>0, <2>13, <3>3, Reading DEF SelectFamily, selected
  <2>14. ASSUME NEW w \in Workers, DenyToken(w) PROVE TypeOK'
    <3> DEFINE r == [Idle EXCEPT !.step = "revoke", !.rows = request[w].rows]
    <3>1. r \in Request /\ Sound(r)
      BY RequestFields DEF Request, Sound
    <3>2. UNCHANGED row /\ Become(w, r)
      BY <2>14 DEF DenyToken
    <3>4. request' \in [Workers -> Request] /\ \A v \in Workers : Sound(request[v])'
      BY <3>1, <3>2, Moving
    <3>5. request[w].token \in Tokens
      BY <2>14, RequestFields DEF DenyToken
    <3> QED BY <2>0, <2>14, <3>4, <3>5 DEF DenyToken, TypeOK
  <2>15. ASSUME NEW w \in Workers, CommitRevoke(w) PROVE TypeOK'
    <3>1. row' \in [Tokens -> Rows \cup {NULL}] /\ \A u : HasRow(u) => HasRow(u)'
      BY <2>15, RequestFields, RevokedRows DEF CommitRevoke, TypeOK, HasRow
    <3>2. request' \in [Workers -> Request] /\ \A v \in Workers : Sound(request[v])'
      BY <2>15, <3>1, Becoming DEF CommitRevoke
    <3> QED BY <2>0, <2>15, <3>1, <3>2 DEF CommitRevoke, TypeOK
  <2>16. ASSUME NEW w \in Workers, ChangePassword(w) PROVE TypeOK'
    <3> DEFINE r == [Idle EXCEPT !.step = "bump", !.op = "password", !.version = request[w].version]
    <3>1. request[w].version < MaxVersion
      BY <2>16 DEF ChangePassword
    <3>2. r \in Request /\ Sound(r)
      BY <3>1, RequestFields DEF Request, Sound
    <3> QED BY <2>0, <2>16, <3>2, Reading DEF ChangePassword
  <2>24. ASSUME NEW w \in Workers, ConsumeReset(w) PROVE TypeOK'
    <3> DEFINE r == [Idle EXCEPT !.step = "bump", !.op = "reset", !.version = version]
    <3>1. version < MaxVersion
      BY <2>24 DEF ConsumeReset
    <3>2. r \in Request /\ Sound(r)
      BY <3>1 DEF TypeOK, Request, Sound
    <3> QED BY <2>0, <2>24, <3>2, Reading DEF ConsumeReset
  <2>17. ASSUME NEW w \in Workers, NEW op \in Decisions, AdminRead(w, op) PROVE TypeOK'
    <3> DEFINE r == [Idle EXCEPT !.step = "bump", !.op = op, !.status = status, !.version = version]
    <3>1. version < MaxVersion
      BY <2>17 DEF AdminRead
    <3>2. r \in Request /\ Sound(r)
      BY <3>1 DEF TypeOK, Request, Sound
    <3> QED BY <2>0, <2>17, <3>2, Reading DEF AdminRead
  <2>18. ASSUME NEW w \in Workers, BumpCache(w) PROVE TypeOK'
    <3> DEFINE r == [request[w] EXCEPT !.step = IF request[w].op = "approve" THEN "approved" ELSE "select"]
    <3>1. request[w].op \in UserOps /\ request[w].version \in Versions /\ request[w].version < MaxVersion
      BY <2>18, RequestFields DEF BumpCache
    <3>2. r \in Request /\ r.op = request[w].op /\ r.version = request[w].version
          /\ r.rows = request[w].rows /\ r.step \in {"approved", "select"}
      BY RequestFields DEF Request
    <3>3. UNCHANGED row /\ Become(w, r)
      BY <2>18 DEF BumpCache
    <3>4. Sound(r)
      BY <3>1, <3>2, RequestFields DEF Sound
    <3>5. request' \in [Workers -> Request] /\ \A v \in Workers : Sound(request[v])'
      BY <3>2, <3>3, <3>4, Moving
    <3>6. CacheAfterBump(request[w].version) \in Versions
      BY <3>1 DEF CacheAfterBump
    <3> QED BY <2>0, <2>18, <3>5, <3>6 DEF BumpCache, TypeOK
  <2>19. ASSUME NEW w \in Workers, SelectAll(w) PROVE TypeOK'
    <3> DEFINE r == [request[w] EXCEPT !.step = "flushed", !.rows = Unrevoked]
    <3>1. request[w].op \in UserOps /\ request[w].version < MaxVersion
      BY <2>19, RequestFields DEF SelectAll
    <3>2. \A u \in Unrevoked : HasRow(u)
      BY DEF Unrevoked, Issued, HasRow
    <3>3. r \in Request /\ r.op = request[w].op /\ r.version = request[w].version
          /\ r.rows = Unrevoked /\ r.step = "flushed"
      BY <3>2, RequestFields DEF Request, HasRow
    <3>4. Sound(r)
      BY <3>1, <3>2, <3>3 DEF Sound
    <3> QED BY <2>0, <2>19, <3>3, <3>4, Reading DEF SelectAll
  <2>20. ASSUME NEW w \in Workers, CommitUser(w) PROVE TypeOK'
    <3>1. request[w].op \in UserOps /\ request[w].version \in Versions /\ request[w].version < MaxVersion
      BY <2>20, RequestFields DEF CommitUser
    <3>2. status' \in Statuses
      BY <2>20, <3>1 DEF CommitUser, StatusAfter, TypeOK
    <3>3. version' \in Versions
      BY <2>20, <3>1 DEF CommitUser, Bumped
    <3>4. row' \in [Tokens -> Rows \cup {NULL}] /\ \A u : HasRow(u) => HasRow(u)'
      BY <2>20, RequestFields, RevokedRows DEF CommitUser, TypeOK, HasRow
    <3>5. request' \in [Workers -> Request] /\ \A v \in Workers : Sound(request[v])'
      BY <2>20, <3>4, Becoming DEF CommitUser
    <3> QED BY <2>0, <2>20, <3>2, <3>3, <3>4, <3>5 DEF CommitUser, TypeOK
  <2>21. ASSUME NEW w \in Workers, Abort(w) PROVE TypeOK'
    BY <2>0, <2>21, Reading DEF Abort
  <2>22. CASE CacheLost
    BY <2>0, <2>22 DEF CacheLost, TypeOK, Sound, HasRow
  <2>23. CASE UNCHANGED vars
    BY <2>23 DEF vars, TypeOK, Sound, HasRow
  <2> QED BY <2>1, <2>2, <2>3, <2>4, <2>5, <2>6, <2>7, <2>8, <2>9, <2>10, <2>11, <2>12, <2>13, <2>14,
             <2>15, <2>16, <2>17, <2>18, <2>19, <2>20, <2>21, <2>22, <2>23, <2>24
          DEF Next, Step, SignIn, Authenticate, Revoke, Bump
<1> QED BY <1>1, <1>2, PTL DEF Spec

-----------------------------------------------------------------------------
(* No interleaving takes a revocation or a use back (property RevocationSticks). *)
THEOREM RevocationsStick == Spec => RevocationSticks
<1> DEFINE Sticks ==
      \A t \in Issued :
        /\ row'[t] # NULL
        /\ row[t].revoked => row'[t].revoked
        /\ row[t].used => row'[t].used
<1>1. TypeOK /\ [Next]_vars => Sticks
  <2> SUFFICES ASSUME TypeOK, [Next]_vars PROVE Sticks
    OBVIOUS
  <2>1. ASSUME NEW w \in Workers, LoginCommit(w) PROVE Sticks
    BY <2>1 DEF LoginCommit, Issued, TypeOK
  <2>2. ASSUME NEW w \in Workers, RotateCommit(w) PROVE Sticks
    <3> DEFINE t == request[w].token
    <3>1. PICK child \in Tokens \ Issued :
            row' = [row EXCEPT ![t] = RowUsed(row[t]), ![child] = NewRow(row[t].family, t, request[w].version)]
      BY <2>2 DEF RotateCommit
    <3>2. t \in Tokens /\ row[t] \in Rows
      BY <2>2, RequestFields DEF RotateCommit, TokenSteps
    <3>3. RowUsed(row[t]) \in Rows /\ RowUsed(row[t]).used /\ RowUsed(row[t]).revoked = row[t].revoked
      BY <3>2 DEF RowUsed
    <3>4. \A u \in Issued : row'[u] = IF u = t THEN RowUsed(row[t]) ELSE row[u]
      BY <3>1, <3>2 DEF TypeOK, Issued
    <3> QED BY <3>3, <3>4 DEF Issued
  <2>3. ASSUME NEW w \in Workers, row' = Revoked(request[w].rows) PROVE Sticks
    BY <2>3, RequestFields, RevokedRows DEF TypeOK, Issued
  <2>4. CASE UNCHANGED row
    BY <2>4 DEF Issued
  <2> QED BY <2>1, <2>2, <2>3, <2>4
          DEF Next, Step, SignIn, Authenticate, Revoke, Bump, vars, LoginRead, RotateRead, RotateUser, AuthLoad,
              AuthHit, AuthMiss, AuthFill, Logout, RevokeSession, RevokeOthers, SelectFamily, DenyToken,
              CommitRevoke, ChangePassword, ConsumeReset, AdminRead, BumpCache, SelectAll, CommitUser, CacheLost, Abort
<1> QED BY <1>1, SessionsTyping, PTL DEF Spec, RevocationSticks

(* A step that only revokes rows, or writes none, keeps the parents used. *)
LEMMA ParentsKept ==
    ASSUME TypeOK, ChildOfUsed, NEW S, \A t \in S : HasRow(t), row' = Revoked(S)
    PROVE  ChildOfUsed'
<1>1. \A t \in Tokens : row'[t] = NULL <=> row[t] = NULL
  BY RevokedRows DEF TypeOK
<1>2. \A t \in Issued : /\ row'[t].family = row[t].family
                        /\ row'[t].parent = row[t].parent
                        /\ row'[t].used = row[t].used
  BY RevokedRows DEF TypeOK, Issued
<1> QED BY <1>1, <1>2 DEF ChildOfUsed, Issued, Family

(* Every child's parent is used and of its family (property ChildOfUsed). *)
THEOREM ChildrenOfUsed == Spec => []ChildOfUsed
<1>1. Init => ChildOfUsed
  BY DEF Init, ChildOfUsed, Issued
<1>2. TypeOK /\ ChildOfUsed /\ [Next]_vars => ChildOfUsed'
  <2> SUFFICES ASSUME TypeOK, ChildOfUsed, [Next]_vars PROVE ChildOfUsed'
    OBVIOUS
  <2>1. ASSUME NEW w \in Workers, LoginCommit(w) PROVE ChildOfUsed'
    <3>1. PICK t \in Tokens \ Issued : row' = [row EXCEPT ![t] = NewRow(t, NULL, request[w].version)]
      BY <2>1 DEF LoginCommit
    <3>2. NewRow(t, NULL, request[w].version) \in Rows /\ NewRow(t, NULL, request[w].version).parent = NULL
      BY RequestFields DEF NewRow
    <3>3. \A u \in Tokens : row'[u] = IF u = t THEN NewRow(t, NULL, request[w].version) ELSE row[u]
      BY <3>1 DEF TypeOK
    <3> HIDE DEF NewRow
    <3> QED BY <3>2, <3>3 DEF ChildOfUsed, Issued, Family
  <2>2. ASSUME NEW w \in Workers, RotateCommit(w) PROVE ChildOfUsed'
    <3> DEFINE t == request[w].token
    <3> DEFINE new == NewRow(row[t].family, t, request[w].version)
    <3>1. PICK child \in Tokens \ Issued : row' = [row EXCEPT ![t] = RowUsed(row[t]), ![child] = new]
      BY <2>2 DEF RotateCommit
    <3>2. t \in Tokens /\ row[t] \in Rows
      BY <2>2, RequestFields DEF RotateCommit, TokenSteps
    <3>3. /\ RowUsed(row[t]) \in Rows /\ RowUsed(row[t]).used
          /\ RowUsed(row[t]).family = row[t].family /\ RowUsed(row[t]).parent = row[t].parent
      BY <3>2 DEF RowUsed
    <3>4. new \in Rows /\ new.parent = t /\ new.family = row[t].family
      BY <3>2, RequestFields DEF NewRow
    <3>5. t \in Issued /\ child # t
      BY <3>2 DEF Issued
    <3> DEFINE spent == RowUsed(row[t])
    <3>6. \A u \in Tokens : row'[u] = IF u = child THEN new ELSE IF u = t THEN spent ELSE row[u]
      BY <3>1, <3>5 DEF TypeOK
    <3> HIDE DEF new, spent
    <3>7. Issued' = Issued \cup {child}
      BY <3>3, <3>4, <3>5, <3>6 DEF Issued, spent
    <3>8. \A u \in Issued : row'[u].family = row[u].family /\ row'[u].parent = row[u].parent
                            /\ (row[u].used => row'[u].used)
      BY <3>3, <3>5, <3>6 DEF Issued, spent
    <3>9. row'[t].used /\ row'[child].parent = t /\ row'[child].family = row'[t].family
      <4>1. row'[child] = new /\ row'[t] = spent
        BY <3>2, <3>5, <3>6
      <4> QED BY <3>3, <3>4, <4>1 DEF spent
    <3>10. SUFFICES ASSUME NEW u \in Issued', row'[u].parent # NULL
           PROVE /\ row'[u].parent \in Issued' /\ row'[row'[u].parent].family = row'[u].family
                 /\ row'[row'[u].parent].used
      BY DEF ChildOfUsed, Family
    <3>11. CASE u = child
      BY <3>5, <3>7, <3>9, <3>11
    <3>12. CASE u # child
      <4>1. u \in Issued /\ row[u].parent # NULL
        BY <3>7, <3>8, <3>10, <3>12
      <4>2. row[u].parent \in Issued /\ row[row[u].parent].family = row[u].family /\ row[row[u].parent].used
        BY <4>1 DEF ChildOfUsed, Family
      <4> QED BY <3>7, <3>8, <4>1, <4>2
    <3> QED BY <3>11, <3>12
  <2>3. ASSUME NEW w \in Workers, row' = Revoked(request[w].rows) PROVE ChildOfUsed'
    BY <2>3, RequestFields, ParentsKept
  <2>4. CASE UNCHANGED row
    BY <2>4 DEF ChildOfUsed, Issued, Family
  <2> QED BY <2>1, <2>2, <2>3, <2>4
          DEF Next, Step, SignIn, Authenticate, Revoke, Bump, vars, LoginRead, RotateRead, RotateUser, AuthLoad,
              AuthHit, AuthMiss, AuthFill, Logout, RevokeSession, RevokeOthers, SelectFamily, DenyToken,
              CommitRevoke, ChangePassword, ConsumeReset, AdminRead, BumpCache, SelectAll, CommitUser, CacheLost, Abort
<1> QED BY <1>1, <1>2, SessionsTyping, PTL DEF Spec

-----------------------------------------------------------------------------
\* Contenders that are there have been noted.
Noted == Contested \subseteq raced /\ \A c \in {"version", "status"} : Clash(c) => c \in clashed

(* Every step notes the contenders it leaves, and forgets none noted before. *)
LEMMA Noting ==
    ASSUME Noted, [Next]_vars
    PROVE  Noted' /\ raced \subseteq raced' /\ clashed \subseteq clashed'
<1>1. CASE Next
  BY <1>1 DEF Next, NoteRace, Noted
<1>2. CASE UNCHANGED vars
  BY <1>2 DEF vars, Noted, Contested, Rotating, Revoking, Clash, Bumpers, Readers, Deciders, Entrants
<1> QED BY <1>1, <1>2

(* Nobody has read anything at the start. *)
LEMMA NotedStart == Init => Noted
<1> SUFFICES ASSUME Init PROVE Noted
  OBVIOUS
<1>1. \A w \in Workers : request[w] = Idle
  BY DEF Init
<1>2. Contested = {} /\ Bumpers = {}
  BY <1>1 DEF Contested, Rotating, Bumpers, BumpSteps
<1> QED BY <1>2 DEF Noted, Clash, Deciders

(* The contenders there are have been noted, in every state. *)
LEMMA AlwaysNoted == Spec => []Noted
<1>1. Noted /\ [Next]_vars => Noted'
  BY Noting
<1> QED BY <1>1, NotedStart, PTL DEF Spec

-----------------------------------------------------------------------------
CacheAhead == cache = NULL \/ cache > version
ReadSteps == {"load", "miss", "authed"} \cup BumpSteps

\* The version a request goes by is the committed one, and that of a login is not
\* newer; between the cache and the commit of a bump the cache is ahead.
CurrentRequest(w) ==
    /\ request[w].step \in ReadSteps => request[w].version = version
    /\ request[w].step \in {"login", "spend"} => request[w].version <= version
    /\ request[w].step \in {"select", "flushed", "approved"} => CacheAhead

VersionOk ==
    /\ CacheNotBehind
    /\ \A t \in Issued : row[t].ver <= version
    /\ \A w \in Workers : CurrentRequest(w)

VersionInv == "version" \notin clashed => VersionOk

(* Revocations change no version. *)
LEMMA RevokedVersions ==
    ASSUME TypeOK, NEW S, \A t \in S : HasRow(t), row' = Revoked(S)
    PROVE  Issued' = Issued /\ \A t \in Issued : row'[t].ver = row[t].ver
<1>1. \A t \in Tokens : row'[t] = NULL <=> row[t] = NULL
  BY RevokedRows DEF TypeOK
<1>2. \A t \in Issued : row'[t].ver = row[t].ver
  BY RevokedRows DEF TypeOK, Issued
<1> QED BY <1>1, <1>2 DEF Issued

(* While nobody clashes, a bump runs alone among those that go by the version. *)
LEMMA BumpsAlone ==
    ASSUME Noted, "version" \notin clashed, NEW w \in Workers, request[w].step \in BumpSteps,
           NEW v \in Workers, v # w
    PROVE  request[v].step \notin ReadSteps
BY DEF Noted, Clash, Bumpers, Readers, ReadSteps

(* The others stay current when neither version nor cache moves, or they do not *)
(* go by them. *)
LEMMA VersionBystander ==
    ASSUME TypeOK, NEW w \in Workers, NEW v \in Workers, v # w, NEW r, Become(w, r), CurrentRequest(v),
           \/ UNCHANGED <<version, cache>>
           \/ version' = version /\ request[v].step \notin BumpSteps
           \/ version' \in Versions /\ version' >= version /\ request[v].step \notin ReadSteps
    PROVE  CurrentRequest(v)'
<1>1. request'[v] = request[v]
  BY DEF Become, TypeOK
<1>2. request[v].version \in Versions /\ version \in Versions
  BY RequestFields DEF TypeOK
<1> QED BY <1>1, <1>2 DEF CurrentRequest, CacheAhead, ReadSteps, BumpSteps

(* VersionOk is kept while nobody clashes. *)
LEMMA VersionStep ==
    ASSUME TypeOK, Noted, VersionOk, "version" \notin clashed, [Next]_vars
    PROVE  VersionOk'
<1>1. version \in Versions /\ cache \in Versions \cup {NULL} /\ \A t \in Issued : row[t] \in Rows
  BY DEF TypeOK, Issued
<1>2. ASSUME NEW w \in Workers
      PROVE  CurrentRequest(w) /\ \A r : Become(w, r) => request'[w] = r
  BY DEF Become, TypeOK, VersionOk
<1>3. ASSUME NEW w \in Workers, Become(w, Idle) PROVE CurrentRequest(w)'
  BY <1>2, <1>3 DEF CurrentRequest, ReadSteps, BumpSteps
<1>4. ASSUME NEW w \in Workers, LoginCommit(w) PROVE VersionOk'
  <2>1. PICK t \in Tokens \ Issued : row' = [row EXCEPT ![t] = NewRow(t, NULL, request[w].version)]
    BY <1>4 DEF LoginCommit
  <2>2. NewRow(t, NULL, request[w].version).ver <= version
    BY <1>2, <1>4 DEF NewRow, LoginCommit, CurrentRequest
  <2>3. \A u \in Tokens : row'[u] = IF u = t THEN NewRow(t, NULL, request[w].version) ELSE row[u]
    BY <2>1 DEF TypeOK
  <2>4. \A u \in Issued' : row'[u].ver <= version
    BY <2>2, <2>3 DEF VersionOk, Issued
  <2>5. Become(w, Idle) /\ UNCHANGED <<version, cache>>
    BY <1>4 DEF LoginCommit
  <2> QED BY <1>2, <1>3, <2>4, <2>5, VersionBystander DEF VersionOk, CacheNotBehind
<1>5. ASSUME NEW w \in Workers, RotateCommit(w) PROVE VersionOk'
  <2> DEFINE t == request[w].token
  <2> DEFINE new == NewRow(row[t].family, t, request[w].version)
  <2>1. PICK child \in Tokens \ Issued : row' = [row EXCEPT ![t] = RowUsed(row[t]), ![child] = new]
    BY <1>5 DEF RotateCommit
  <2>2. t \in Issued /\ row[t] \in Rows
    BY <1>5, RequestFields DEF RotateCommit, TokenSteps, Issued
  <2>3. new.ver <= version /\ RowUsed(row[t]).ver = row[t].ver
    BY <1>2, <1>5, <2>2 DEF NewRow, RotateCommit, CurrentRequest, RowUsed
  <2>4. \A u \in Tokens : row'[u] = IF u = child THEN new ELSE IF u = t THEN RowUsed(row[t]) ELSE row[u]
    BY <2>1, <2>2 DEF TypeOK, Issued
  <2> HIDE DEF new
  <2>5. \A u \in Issued' : row'[u].ver <= version
    BY <2>2, <2>3, <2>4 DEF VersionOk, Issued
  <2>6. Become(w, Idle) /\ UNCHANGED <<version, cache>>
    BY <1>5 DEF RotateCommit
  <2> QED BY <1>2, <1>3, <2>5, <2>6, VersionBystander DEF VersionOk, CacheNotBehind
<1>6. ASSUME NEW w \in Workers, CommitRevoke(w) PROVE VersionOk'
  <2>1. \A u \in Issued' : row'[u].ver <= version
    BY <1>6, RequestFields, RevokedVersions DEF CommitRevoke, VersionOk
  <2>2. Become(w, Idle) /\ UNCHANGED <<version, cache>>
    BY <1>6 DEF CommitRevoke
  <2> QED BY <1>2, <1>3, <2>1, <2>2, VersionBystander DEF VersionOk, CacheNotBehind
<1>7. ASSUME NEW w \in Workers, CommitUser(w) PROVE VersionOk'
  <2>1. request[w].version = version /\ CacheAhead /\ request[w].step \in BumpSteps
    BY <1>2, <1>7 DEF CommitUser, CurrentRequest, ReadSteps, BumpSteps
  <2>2. version' = version + 1 /\ cache' = cache /\ Become(w, Idle) /\ request[w].version < MaxVersion
    BY <1>7, <2>1, RequestFields DEF CommitUser, Bumped
  <2>3. \A u \in Issued' : row'[u].ver <= version
    BY <1>7, RequestFields, RevokedVersions DEF CommitUser, VersionOk
  <2>4. \A u \in Issued' : row'[u] \in Rows
    BY <1>7, RequestFields, RevokedRows DEF CommitUser, TypeOK, Issued
  <2>5. \A u \in Issued' : row'[u].ver <= version'
    BY <1>1, <2>2, <2>3, <2>4
  <2>6. CacheNotBehind'
    BY <1>1, <2>1, <2>2 DEF CacheAhead, CacheNotBehind
  <2>7. version' \in Versions /\ version' >= version
    BY <1>1, <2>1, <2>2
  <2>8. ASSUME NEW v \in Workers, v # w PROVE CurrentRequest(v)'
    BY <1>2, <2>1, <2>2, <2>7, <2>8, BumpsAlone, VersionBystander
  <2> QED BY <1>3, <2>2, <2>5, <2>6, <2>8 DEF VersionOk
<1>8. ASSUME NEW w \in Workers, AuthFill(w) PROVE VersionOk'
  <2>1. cache' = version /\ UNCHANGED <<version, row>> /\ request[w].step = "miss"
    BY <1>2, <1>8 DEF AuthFill, CurrentRequest, ReadSteps
  <2>2. PICK r : Become(w, r) /\ (r = [request[w] EXCEPT !.step = "authed"] \/ r = Idle)
    BY <1>8 DEF AuthFill, Authenticated
  <2>3. CurrentRequest(w)'
    BY <1>2, <2>1, <2>2, RequestFields DEF CurrentRequest, Request, ReadSteps, BumpSteps
  <2>4. ASSUME NEW v \in Workers, v # w PROVE CurrentRequest(v)'
    <3>1. request[v].step \notin BumpSteps
      BY <2>1, <2>4, BumpsAlone DEF ReadSteps
    <3> QED BY <1>2, <2>1, <2>2, <2>4, <3>1, VersionBystander
  <2> QED BY <1>1, <2>1, <2>3, <2>4 DEF VersionOk, CacheNotBehind, Issued
<1>9. ASSUME NEW w \in Workers, BumpCache(w) PROVE VersionOk'
  <2> DEFINE r == [request[w] EXCEPT !.step = IF request[w].op = "approve" THEN "approved" ELSE "select"]
  <2>1. request[w].version = version /\ request[w].step \in BumpSteps
    BY <1>2, <1>9 DEF BumpCache, CurrentRequest, ReadSteps, BumpSteps
  <2>2. cache' = version + 1 /\ UNCHANGED <<version, row>> /\ Become(w, r)
    BY <1>9, <2>1 DEF BumpCache, CacheAfterBump
  <2>3. r.version = version /\ r.step \in {"approved", "select"}
    BY <2>1, RequestFields DEF Request
  <2> HIDE DEF r
  <2>4. CacheNotBehind' /\ CacheAhead'
    BY <1>1, <2>2 DEF CacheNotBehind, CacheAhead
  <2>5. CurrentRequest(w)'
    BY <1>2, <2>2, <2>3, <2>4 DEF CurrentRequest
  <2>6. ASSUME NEW v \in Workers, v # w PROVE CurrentRequest(v)'
    <3>1. request[v].step \notin BumpSteps
      BY <2>1, <2>6, BumpsAlone DEF ReadSteps
    <3> QED BY <1>2, <2>2, <2>6, <3>1, VersionBystander
  <2> QED BY <2>2, <2>4, <2>5, <2>6 DEF VersionOk, Issued
<1>10. CASE CacheLost
  BY <1>10 DEF CacheLost, VersionOk, CacheNotBehind, CacheAhead, CurrentRequest, Issued
<1>11. ASSUME NEW w \in Workers, NEW r, Become(w, r), UNCHANGED <<version, cache, row>>,
              r.step \in ReadSteps \cup {"login", "spend"} => r.version = version,
              r.step \in {"select", "flushed", "approved"} => CacheAhead
       PROVE  VersionOk'
  <2>1. CurrentRequest(w)'
    BY <1>1, <1>2, <1>11 DEF CurrentRequest, CacheAhead, ReadSteps, BumpSteps
  <2>2. ASSUME NEW v \in Workers, v # w PROVE CurrentRequest(v)'
    BY <1>2, <1>11, <2>2, VersionBystander
  <2> QED BY <1>11, <2>1, <2>2 DEF VersionOk, CacheNotBehind, Issued
<1> USE DEF ReadSteps, BumpSteps
<1>12. ASSUME NEW w \in Workers, LoginRead(w) PROVE VersionOk'
  BY <1>12, <1>11 DEF LoginRead
<1>13. ASSUME NEW w \in Workers, NEW t \in Tokens, RotateRead(w, t) PROVE VersionOk'
  BY <1>13, <1>11 DEF RotateRead
<1>14. ASSUME NEW w \in Workers, RotateUser(w) PROVE VersionOk'
  <2>1. CASE MaySignIn(status)
    BY <1>14, <2>1, <1>11, RequestFields DEF RotateUser, Request
  <2>2. CASE ~MaySignIn(status)
    BY <1>14, <2>2, <1>11, RequestFields DEF RotateUser, Request
  <2> QED BY <2>1, <2>2
<1>15. ASSUME NEW w \in Workers, NEW t \in Tokens, AuthLoad(w, t) PROVE VersionOk'
  BY <1>15, <1>11 DEF AuthLoad
<1>16. ASSUME NEW w \in Workers, AuthHit(w) \/ AuthMiss(w) PROVE VersionOk'
  <2>1. request[w].version = version
    BY <1>2, <1>16 DEF AuthHit, AuthMiss, CurrentRequest
  <2>2. PICK r \in {[request[w] EXCEPT !.step = "authed"], [request[w] EXCEPT !.step = "miss"], Idle} :
          Become(w, r) /\ UNCHANGED <<version, cache, row>>
    BY <1>16 DEF AuthHit, AuthMiss, Authenticated
  <2>3. (r.version = version /\ r.step \in {"authed", "miss"}) \/ r.step = "idle"
    BY <2>1, <2>2, RequestFields DEF Request
  <2> QED BY <1>11, <2>2, <2>3
<1>17. ASSUME NEW w \in Workers, Logout(w) \/ RevokeOthers(w) \/ SelectFamily(w) \/ DenyToken(w) PROVE VersionOk'
  BY <1>17, <1>11 DEF Logout, RevokeOthers, SelectFamily, DenyToken
<1>18. ASSUME NEW w \in Workers, NEW t \in Tokens, RevokeSession(w, t) PROVE VersionOk'
  BY <1>18, <1>11 DEF RevokeSession
<1>19. ASSUME NEW w \in Workers, ChangePassword(w) PROVE VersionOk'
  <2>1. request[w].version = version
    BY <1>2, <1>19 DEF ChangePassword, CurrentRequest
  <2> QED BY <1>19, <2>1, <1>11 DEF ChangePassword
<1>20. ASSUME NEW w \in Workers, ConsumeReset(w) PROVE VersionOk'
  BY <1>20, <1>11 DEF ConsumeReset
<1>21. ASSUME NEW w \in Workers, NEW op \in Decisions, AdminRead(w, op) PROVE VersionOk'
  BY <1>21, <1>11 DEF AdminRead
<1>22. ASSUME NEW w \in Workers, SelectAll(w) PROVE VersionOk'
  <2>1. request[w].version = version /\ CacheAhead
    BY <1>2, <1>22 DEF SelectAll, CurrentRequest
  <2>2. [request[w] EXCEPT !.step = "flushed", !.rows = Unrevoked].version = version
    BY <2>1, RequestFields DEF Request
  <2> QED BY <1>22, <2>1, <2>2, <1>11 DEF SelectAll
<1>23. ASSUME NEW w \in Workers, Abort(w) PROVE VersionOk'
  BY <1>23, <1>11 DEF Abort
<1>24. CASE UNCHANGED vars
  BY <1>24 DEF vars, VersionOk, CurrentRequest, CacheNotBehind, CacheAhead, Issued
<1> QED BY <1>4, <1>5, <1>6, <1>7, <1>8, <1>9, <1>10, <1>12, <1>13, <1>14, <1>15, <1>16, <1>17, <1>18,
           <1>19, <1>20, <1>21, <1>22, <1>23, <1>24
        DEF Next, Step, SignIn, Authenticate, Revoke, Bump

(* VersionOk holds until somebody clashes. *)
LEMMA VersionInvariant == Spec => []VersionInv
<1>1. Init => VersionInv
  BY DEF Init, VersionInv, VersionOk, CacheNotBehind, CurrentRequest, ReadSteps, BumpSteps, Issued
<1>2. TypeOK /\ Noted /\ VersionInv /\ [Next]_vars => VersionInv'
  BY VersionStep, Noting DEF VersionInv
<1> QED BY <1>1, <1>2, SessionsTyping, AlwaysNoted, PTL DEF Spec

(* The cached version is not behind the committed one, whatever crashes and lost *)
(* keys, unless a bump ran into another or into a request that had loaded the user *)
(* (bump_ver, cached_ver). *)
THEOREM CacheFollowsUnlessClashed == Spec => []CacheFollows
<1>1. VersionInv => CacheFollows
  BY DEF VersionInv, VersionOk, CacheFollows
<1> QED BY <1>1, VersionInvariant, PTL

(* A bump leaves no access token issued before it, or by a login then in flight, *)
(* with the version committed, unless it ran into another or into a request that *)
(* had loaded the user (bump_ver). *)
THEOREM BumpKillsUnlessClashed == Spec => BumpKillsAccess
<1> DEFINE Kills ==
      \A w \in Workers : CommitUser(w) /\ "version" \notin clashed =>
        /\ \A t \in Issued : row[t].ver # version'
        /\ \A v \in Entrants : request[v].version # version'
<1>1. TypeOK /\ VersionInv => Kills
  <2> SUFFICES ASSUME TypeOK, VersionInv, NEW w \in Workers, CommitUser(w), "version" \notin clashed
               PROVE  /\ \A t \in Issued : row[t].ver # version'
                      /\ \A v \in Entrants : request[v].version # version'
    OBVIOUS
  <2>1. VersionOk /\ CurrentRequest(w) /\ version \in Versions
    BY DEF VersionInv, VersionOk, TypeOK
  <2>2. version' = version + 1
    BY <2>1 DEF CommitUser, CurrentRequest, ReadSteps, BumpSteps, Bumped
  <2>3. ASSUME NEW t \in Issued PROVE row[t].ver # version'
    <3>1. row[t].ver <= version /\ row[t].ver \in Versions
      BY <2>1 DEF VersionOk, TypeOK, Issued
    <3> QED BY <2>1, <2>2, <3>1
  <2>4. ASSUME NEW v \in Entrants PROVE request[v].version # version'
    <3>1. request[v].version <= version /\ request[v].version \in Versions
      BY <2>1, RequestFields DEF VersionOk, CurrentRequest, Entrants
    <3> QED BY <2>1, <2>2, <3>1
  <2> QED BY <2>3, <2>4
<1> QED BY <1>1, VersionInvariant, SessionsTyping, PTL DEF Spec, BumpKillsAccess

-----------------------------------------------------------------------------
(* A login adds the first token of a family. *)
LEMMA LoginEffect ==
    ASSUME TypeOK, NEW w \in Workers, LoginCommit(w)
    PROVE  \E t \in Tokens \ Issued :
             /\ Issued' = Issued \cup {t} /\ \A u \in Issued : row'[u] = row[u]
             /\ row'[t].family = t /\ ~row'[t].used /\ ~row'[t].revoked
<1>1. PICK t \in Tokens \ Issued : row' = [row EXCEPT ![t] = NewRow(t, NULL, request[w].version)]
  BY DEF LoginCommit
<1> DEFINE new == NewRow(t, NULL, request[w].version)
<1>2. new \in Rows /\ new.family = t /\ ~new.used /\ ~new.revoked
  BY RequestFields DEF NewRow
<1>3. \A u \in Tokens : row'[u] = IF u = t THEN new ELSE row[u]
  BY <1>1 DEF TypeOK
<1> HIDE DEF new
<1>4. Issued' = Issued \cup {t}
  BY <1>2, <1>3 DEF Issued
<1>5. row'[t] = new /\ \A u \in Issued : row'[u] = row[u]
  BY <1>3 DEF Issued
<1> QED BY <1>2, <1>4, <1>5

(* A rotation uses a token and adds another to its family. *)
LEMMA RotateEffect ==
    ASSUME TypeOK, NEW w \in Workers, RotateCommit(w), NEW t, t = request[w].token
    PROVE  /\ t \in Issued
           /\ \E child \in Tokens \ Issued :
                /\ Issued' = Issued \cup {child} /\ \A u \in Issued \ {t} : row'[u] = row[u]
                /\ row'[t].family = row[t].family /\ row'[t].used /\ row'[t].revoked = row[t].revoked
                /\ row'[child].family = row[t].family /\ ~row'[child].used /\ row'[child].revoked = FALSE
<1> DEFINE new == NewRow(row[t].family, t, request[w].version)
           spent == RowUsed(row[t])
<1>1. PICK child \in Tokens \ Issued : row' = [row EXCEPT ![t] = spent, ![child] = new]
  BY DEF RotateCommit
<1>2. t \in Tokens /\ row[t] \in Rows /\ t \in Issued
  BY RequestFields DEF RotateCommit, TokenSteps, Issued
<1>3. spent \in Rows /\ spent.used /\ spent.family = row[t].family /\ spent.revoked = row[t].revoked
  BY <1>2 DEF RowUsed
<1>4. new \in Rows /\ new.family = row[t].family /\ ~new.used /\ new.revoked = FALSE
  BY <1>2, RequestFields DEF NewRow
<1>5. \A u \in Tokens : row'[u] = IF u = child THEN new ELSE IF u = t THEN spent ELSE row[u]
  BY <1>1, <1>2 DEF TypeOK
<1> HIDE DEF new, spent
<1>6. Issued' = Issued \cup {child}
  BY <1>2, <1>3, <1>4, <1>5 DEF Issued
<1>7. row'[t] = spent /\ row'[child] = new /\ \A u \in Issued \ {t} : row'[u] = row[u]
  BY <1>2, <1>5 DEF Issued
<1> QED BY <1>2, <1>3, <1>4, <1>6, <1>7

(* A revocation changes that column of the rows selected and nothing else. *)
LEMMA RevokeEffect ==
    ASSUME TypeOK, NEW S, \A t \in S : HasRow(t), row' = Revoked(S)
    PROVE  /\ Issued' = Issued
           /\ \A t \in Issued : /\ row'[t].family = row[t].family
                                /\ row'[t].used = row[t].used
                                /\ row'[t].revoked = (t \in S \/ row[t].revoked)
<1>1. \A t \in Tokens : row'[t] = NULL <=> row[t] = NULL
  BY RevokedRows DEF TypeOK
<1> QED BY <1>1, RevokedRows DEF TypeOK, Issued

-----------------------------------------------------------------------------
AllSpent == \A t \in Issued : row[t].used \/ row[t].revoked

\* What a request took the status to be is what it is, and a decision that has
\* selected the tokens has all there are.
Decided(w) ==
    LET r == request[w] IN
    /\ r.step \in {"login", "spend"} => MaySignIn(status)
    /\ r.step \in BumpSteps /\ r.op \in Decisions => r.status = status
    /\ r.step = "flushed" /\ r.op \in Decisions => Unrevoked \subseteq r.rows
    /\ r.step = "approved" => r.op = "approve"

StatusOk ==
    /\ status \in Disabled => AllSpent
    /\ \A w \in Workers : Decided(w)

StatusInv == "status" \notin clashed => StatusOk

(* While nobody clashes, a decision runs alone among decisions and entries. *)
LEMMA DecidesAlone ==
    ASSUME Noted, "status" \notin clashed, NEW w \in Workers, NEW v \in Workers, v # w
    PROVE  /\ w \in Deciders => v \notin Deciders /\ request[v].step \notin {"login", "spend"}
           /\ request[w].step \in {"login", "spend"} => v \notin Deciders
BY DEF Noted, Clash, Entrants

(* The others stay as they are when no status and no row they go by is written. *)
LEMMA StatusBystander ==
    ASSUME TypeOK, NEW w \in Workers, NEW v \in Workers, v # w, NEW r, Become(w, r), Decided(v),
           \/ status' = status
           \/ v \notin Deciders /\ request[v].step \notin {"login", "spend"},
           Unrevoked' \subseteq Unrevoked \/ v \notin Deciders
    PROVE  Decided(v)'
<1>1. request'[v] = request[v]
  BY DEF Become, TypeOK
<1>2. v \notin Deciders /\ request[v].step \in BumpSteps => request[v].op \notin Decisions
  BY DEF Deciders, Bumpers
<1> QED BY <1>1, <1>2 DEF Decided, MaySignIn, BumpSteps

(* StatusOk is kept while nobody clashes. *)
LEMMA StatusStep ==
    ASSUME TypeOK, Noted, StatusOk, "status" \notin clashed, [Next]_vars
    PROVE  StatusOk'
<1>0. ASSUME NEW w \in Workers
      PROVE  Decided(w) /\ request[w] \in Request /\ \A r : Become(w, r) => request'[w] = r
  BY RequestFields DEF Become, TypeOK, StatusOk
<1>1. ASSUME NEW w \in Workers, NEW r, Become(w, r), UNCHANGED <<status, row>>,
             /\ r.step \in {"login", "spend"} => MaySignIn(status)
             /\ r.step \in BumpSteps /\ r.op \in Decisions => r.status = status
             /\ r.step = "flushed" /\ r.op \in Decisions => Unrevoked \subseteq r.rows
             /\ r.step = "approved" => r.op = "approve"
      PROVE  StatusOk'
  <2>1. Unrevoked' = Unrevoked
    BY <1>1 DEF Unrevoked, Issued
  <2>2. Decided(w)'
    BY <1>0, <1>1, <2>1 DEF Decided, MaySignIn
  <2>3. ASSUME NEW v \in Workers, v # w PROVE Decided(v)'
    BY <1>0, <1>1, <2>1, <2>3, StatusBystander
  <2>4. status' \in Disabled => AllSpent'
    BY <1>1 DEF StatusOk, AllSpent, Issued
  <2> QED BY <2>2, <2>3, <2>4 DEF StatusOk
<1>2. ASSUME NEW w \in Workers, Become(w, Idle), \A v \in Workers \ {w} : Decided(v)',
             status' \in Disabled => AllSpent'
      PROVE  StatusOk'
  <2>1. Decided(w)'
    BY <1>0, <1>2 DEF Decided, BumpSteps
  <2> QED BY <1>2, <2>1 DEF StatusOk
<1>3. ASSUME NEW w \in Workers, LoginCommit(w) \/ RotateCommit(w) PROVE StatusOk'
  <2>1. Become(w, Idle) /\ status' = status /\ request[w].step \in {"login", "spend"}
    BY <1>3 DEF LoginCommit, RotateCommit
  <2>2. status \notin Disabled
    BY <1>0, <2>1 DEF Decided, MaySignIn
  <2>3. ASSUME NEW v \in Workers \ {w} PROVE Decided(v)'
    <3>1. v \notin Deciders
      BY <2>1, DecidesAlone
    <3> QED BY <1>0, <2>1, <3>1, StatusBystander
  <2> QED BY <1>2, <2>1, <2>2, <2>3
<1>4. ASSUME NEW S, \A t \in S : HasRow(t), row' = Revoked(S)
      PROVE  /\ Unrevoked' = Unrevoked \ S
             /\ AllSpent => AllSpent'
  BY <1>4, RevokeEffect DEF Unrevoked, AllSpent
<1>5. ASSUME NEW w \in Workers, CommitRevoke(w) PROVE StatusOk'
  <2>1. status' = status /\ Become(w, Idle) /\ row' = Revoked(request[w].rows)
    BY <1>5 DEF CommitRevoke
  <2>2. Unrevoked' \subseteq Unrevoked /\ (AllSpent => AllSpent')
    BY <1>4, <2>1, RequestFields
  <2>3. ASSUME NEW v \in Workers \ {w} PROVE Decided(v)'
    BY <1>0, <2>1, <2>2, StatusBystander
  <2> QED BY <1>2, <2>1, <2>2, <2>3 DEF StatusOk
<1>6. ASSUME NEW w \in Workers, CommitUser(w) PROVE StatusOk'
  <2>1. Become(w, Idle) /\ row' = Revoked(request[w].rows) /\ request[w].step \in {"flushed", "approved"}
    BY <1>6 DEF CommitUser
  <2>2. Unrevoked' = Unrevoked \ request[w].rows /\ (AllSpent => AllSpent')
    BY <1>4, <2>1, RequestFields
  <2>3. CASE request[w].op \notin Decisions
    <3>1. status' = status
      BY <1>6, <2>3 DEF CommitUser
    <3>2. ASSUME NEW v \in Workers \ {w} PROVE Decided(v)'
      BY <1>0, <2>1, <2>2, <3>1, StatusBystander
    <3> QED BY <1>2, <2>1, <2>2, <3>1, <3>2 DEF StatusOk
  <2>4. CASE request[w].op \in Decisions
    <3>1. w \in Deciders
      BY <2>1, <2>4 DEF Deciders, Bumpers, BumpSteps
    <3>2. ASSUME NEW v \in Workers \ {w} PROVE Decided(v)'
      BY <1>0, <2>1, <2>2, <3>1, DecidesAlone, StatusBystander
    <3>3. CASE request[w].step = "flushed"
      <4>1. Unrevoked \subseteq request[w].rows
        BY <1>0, <2>4, <3>3 DEF Decided
      <4>2. AllSpent'
        BY <2>2, <4>1 DEF AllSpent, Unrevoked
      <4> QED BY <1>2, <2>1, <3>2, <4>2
    <3>4. CASE request[w].step = "approved"
      <4>1. request[w].op = "approve" /\ request[w].status = status
        BY <1>0, <2>4, <3>4 DEF Decided, BumpSteps
      <4>2. status' = "active"
        BY <1>6, <4>1 DEF CommitUser, StatusAfter
      <4> QED BY <1>2, <2>1, <3>2, <4>2 DEF Disabled
    <3> QED BY <2>1, <3>3, <3>4
  <2> QED BY <2>3, <2>4
<1> USE DEF BumpSteps
<1>7. ASSUME NEW w \in Workers, LoginRead(w) PROVE StatusOk'
  BY <1>7, <1>1 DEF LoginRead
<1>8. ASSUME NEW w \in Workers, NEW t \in Tokens, RotateRead(w, t) PROVE StatusOk'
  <2> DEFINE r == [Idle EXCEPT !.step = IF Reused(t) THEN "family" ELSE "rotate", !.token = t]
  <2>1. Become(w, r) /\ UNCHANGED <<status, row>> /\ r.step \in {"family", "rotate"}
    BY <1>8 DEF RotateRead
  <2> HIDE DEF r
  <2> QED BY <1>1, <2>1
<1>9. ASSUME NEW w \in Workers, RotateUser(w) PROVE StatusOk'
  <2>1. CASE MaySignIn(status)
    <3> DEFINE r == [request[w] EXCEPT !.step = "spend", !.version = version]
    <3>1. r.step = "spend" /\ Become(w, r) /\ UNCHANGED <<status, row>>
      BY <1>0, <1>9, <2>1 DEF RotateUser, Request
    <3> HIDE DEF r
    <3> QED BY <1>1, <2>1, <3>1
  <2>2. CASE ~MaySignIn(status)
    <3> DEFINE r == [request[w] EXCEPT !.step = "family"]
    <3>1. r.step = "family" /\ Become(w, r) /\ UNCHANGED <<status, row>>
      BY <1>0, <1>9, <2>2 DEF RotateUser, Request
    <3> HIDE DEF r
    <3> QED BY <1>1, <3>1
  <2> QED BY <2>1, <2>2
<1>10. ASSUME NEW w \in Workers, NEW t \in Tokens, AuthLoad(w, t) PROVE StatusOk'
  BY <1>10, <1>1 DEF AuthLoad
<1>11. ASSUME NEW w \in Workers, AuthHit(w) \/ AuthMiss(w) \/ AuthFill(w) PROVE StatusOk'
  <2>1. PICK r \in {[request[w] EXCEPT !.step = "authed"], [request[w] EXCEPT !.step = "miss"], Idle} :
          Become(w, r) /\ UNCHANGED <<status, row>>
    BY <1>11 DEF AuthHit, AuthMiss, AuthFill, Authenticated
  <2>2. r.step \in {"idle", "miss", "authed"}
    BY <1>0, <2>1 DEF Request
  <2> QED BY <1>1, <2>1, <2>2
<1>12. ASSUME NEW w \in Workers, Logout(w) \/ RevokeOthers(w) \/ SelectFamily(w) \/ DenyToken(w) PROVE StatusOk'
  <2>1. PICK r : Become(w, r) /\ r.step \in {"family", "deny", "revoke"} /\ UNCHANGED <<status, row>>
    BY <1>12 DEF Logout, RevokeOthers, SelectFamily, DenyToken
  <2> QED BY <1>1, <2>1
<1>13. ASSUME NEW w \in Workers, NEW t \in Tokens, RevokeSession(w, t) PROVE StatusOk'
  BY <1>13, <1>1 DEF RevokeSession
<1>14. ASSUME NEW w \in Workers, ChangePassword(w) \/ ConsumeReset(w) PROVE StatusOk'
  <2>1. PICK r : Become(w, r) /\ r.step = "bump" /\ r.op \in {"password", "reset"} /\ UNCHANGED <<status, row>>
    BY <1>14 DEF ChangePassword, ConsumeReset
  <2> QED BY <1>1, <2>1
<1>15. ASSUME NEW w \in Workers, NEW op \in Decisions, AdminRead(w, op) PROVE StatusOk'
  BY <1>15, <1>1 DEF AdminRead
<1>16. ASSUME NEW w \in Workers, BumpCache(w) PROVE StatusOk'
  <2> DEFINE r == [request[w] EXCEPT !.step = IF request[w].op = "approve" THEN "approved" ELSE "select"]
  <2>1. request[w].op \in Decisions => request[w].status = status
    BY <1>0, <1>16 DEF BumpCache, Decided
  <2>2. /\ Become(w, r) /\ UNCHANGED <<status, row>>
        /\ r.op = request[w].op /\ r.status = request[w].status
        /\ r.step = IF request[w].op = "approve" THEN "approved" ELSE "select"
    BY <1>0, <1>16 DEF BumpCache, Request
  <2> HIDE DEF r
  <2> QED BY <1>1, <2>1, <2>2
<1>17. ASSUME NEW w \in Workers, SelectAll(w) PROVE StatusOk'
  <2> DEFINE r == [request[w] EXCEPT !.step = "flushed", !.rows = Unrevoked]
  <2>1. request[w].op \in Decisions => request[w].status = status
    BY <1>0, <1>17 DEF SelectAll, Decided
  <2>2. /\ Become(w, r) /\ UNCHANGED <<status, row>>
        /\ r.rows = Unrevoked /\ r.op = request[w].op /\ r.status = request[w].status /\ r.step = "flushed"
    BY <1>0, <1>17 DEF SelectAll, Request
  <2> HIDE DEF r
  <2> QED BY <1>1, <2>1, <2>2
<1>18. ASSUME NEW w \in Workers, Abort(w) PROVE StatusOk'
  BY <1>18, <1>1 DEF Abort
<1>19. CASE CacheLost \/ UNCHANGED vars
  <2>1. UNCHANGED <<status, row, request>>
    BY <1>19 DEF CacheLost, vars
  <2>2. \A w \in Workers : Decided(w)'
    BY <1>0, <2>1 DEF Decided, Unrevoked, Issued, MaySignIn
  <2>3. status' \in Disabled => AllSpent'
    BY <2>1 DEF StatusOk, AllSpent, Issued
  <2> QED BY <2>2, <2>3 DEF StatusOk
<1> QED BY <1>3, <1>5, <1>6, <1>7, <1>8, <1>9, <1>10, <1>11, <1>12, <1>13, <1>14, <1>15, <1>16, <1>17, <1>18,
           <1>19
        DEF Next, Step, SignIn, Authenticate, Revoke, Bump

(* A disabled user has no token to go on with, unless a decision ran into another *)
(* or into an entry that had found the user in order (suspend_user, reject_user). *)
THEOREM DisabledUnlessClashed == Spec => []DisabledHasNoLive
<1>1. Init => StatusInv
  BY DEF Init, StatusInv, StatusOk, AllSpent, Decided, Issued, BumpSteps, Disabled
<1>2. TypeOK /\ Noted /\ StatusInv /\ [Next]_vars => StatusInv'
  BY StatusStep, Noting DEF StatusInv
<1>3. StatusInv => DisabledHasNoLive
  BY DEF StatusInv, StatusOk, AllSpent, DisabledHasNoLive, Live, Family
<1> QED BY <1>1, <1>2, <1>3, SessionsTyping, AlwaysNoted, PTL DEF Spec

-----------------------------------------------------------------------------
(* A family bears the identifier of its first token, which has a row; so has the *)
(* first token of a family raced for.                                        *)
Rooted == \A t \in Issued : row[t].family \in Issued
RacedKnown == raced \subseteq Issued

\* No two tokens of the family are unused, and they are revoked together.
OneEnd(f) ==
    \A t, u \in Family(f) :
        /\ row[t].revoked = row[u].revoked
        /\ ~row[t].used /\ ~row[u].used => t = u

\* A token of the family that is traded is still the one to trade, and who
\* revokes one row of the family revokes all that are left.
Holding(f, w) ==
    LET r == request[w] IN
    /\ r.step \in {"rotate", "spend"} /\ row[r.token].family = f => ~row[r.token].used /\ ~row[r.token].revoked
    /\ \A t \in r.rows : row[t].family = f => \A u \in Family(f) : ~row[u].revoked => u \in r.rows

FamilyOk(f) == OneEnd(f) /\ \A w \in Workers : Holding(f, w)
FamilyInv == \A f \in Tokens \ raced : FamilyOk(f)

(* The rows of a request have rows, and families. *)
LEMMA FamiliesKnown ==
    ASSUME TypeOK, Rooted
    PROVE  /\ \A t \in Issued : row[t].family \in Tokens /\ row[t].family \in Issued
           /\ \A w \in Workers : request[w].rows \subseteq Issued
           /\ \A w \in Workers : request[w].step \in {"rotate", "spend"} => request[w].token \in Issued
           /\ Contested \subseteq Issued
<1>1. \A t \in Issued : row[t].family \in Tokens /\ row[t].family \in Issued
  BY DEF TypeOK, Rooted, Issued
<1>2. \A w \in Workers : request[w].rows \subseteq Issued
  BY RequestFields DEF HasRow, Issued
<1>3. \A w \in Workers : request[w].step \in {"rotate", "spend"} => request[w].token \in Issued
  BY RequestFields DEF TokenSteps, Issued
<1>4. \A w \in Workers : Rotating(w) \subseteq Issued
  BY <1>1, <1>3 DEF Rotating
<1> QED BY <1>1, <1>2, <1>3, <1>4 DEF Contested

(* Every family keeps its first token. *)
LEMMA RootsStep ==
    ASSUME TypeOK, Rooted, [Next]_vars
    PROVE  Rooted' /\ Issued \subseteq Issued'
<1>1. ASSUME NEW w \in Workers, LoginCommit(w) PROVE Rooted' /\ Issued \subseteq Issued'
  BY <1>1, LoginEffect DEF Rooted
<1>2. ASSUME NEW w \in Workers, RotateCommit(w) PROVE Rooted' /\ Issued \subseteq Issued'
  <2>0. PICK t : t = request[w].token
    OBVIOUS
  <2>1. t \in Issued
    BY <1>2, <2>0, RotateEffect
  <2>2. PICK child \in Tokens \ Issued :
          /\ Issued' = Issued \cup {child} /\ \A u \in Issued \ {t} : row'[u] = row[u]
          /\ row'[t].family = row[t].family /\ row'[child].family = row[t].family
    BY <1>2, <2>0, RotateEffect
  <2> QED BY <2>1, <2>2 DEF Rooted
<1>3. ASSUME NEW w \in Workers, row' = Revoked(request[w].rows) PROVE Rooted' /\ Issued \subseteq Issued'
  BY <1>3, RequestFields, RevokeEffect DEF Rooted
<1>4. CASE UNCHANGED row
  BY <1>4 DEF Rooted, Issued
<1> QED BY <1>1, <1>2, <1>3, <1>4
        DEF Next, Step, SignIn, Authenticate, Revoke, Bump, vars, LoginRead, RotateRead, RotateUser, AuthLoad,
            AuthHit, AuthMiss, AuthFill, Logout, RevokeSession, RevokeOthers, SelectFamily, DenyToken,
            CommitRevoke, ChangePassword, ConsumeReset, AdminRead, BumpCache, SelectAll, CommitUser, CacheLost, Abort

(* Both hold in every state. *)
LEMMA AlwaysRooted == Spec => [](Rooted /\ RacedKnown)
<1>1. Init => Rooted /\ RacedKnown
  BY DEF Init, Rooted, RacedKnown, Issued
<1>2. TypeOK /\ TypeOK' /\ Rooted /\ RacedKnown /\ [Next]_vars => Rooted' /\ RacedKnown'
  <2> SUFFICES ASSUME TypeOK, TypeOK', Rooted, RacedKnown, [Next]_vars PROVE Rooted' /\ RacedKnown'
    OBVIOUS
  <2>1. Rooted' /\ Issued \subseteq Issued'
    BY RootsStep
  <2>2. (TypeOK /\ Rooted => Contested \subseteq Issued)'
    BY FamiliesKnown, PTL
  <2>3. Contested' \subseteq Issued'
    BY <2>1, <2>2
  <2>4. raced' = raced \cup Contested' \/ raced' = raced
    BY DEF Next, NoteRace, vars
  <2> QED BY <2>1, <2>3, <2>4 DEF RacedKnown
<1> QED BY <1>1, <1>2, SessionsTyping, PTL DEF Spec

(* While nobody races for a family, a rotation of it runs alone. *)
LEMMA RotatesAlone ==
    ASSUME Noted, NEW f \in Tokens, f \notin raced, NEW w \in Workers, f \in Rotating(w),
           NEW v \in Workers, v # w
    PROVE  f \notin Rotating(v) /\ f \notin Revoking(v)
BY DEF Noted, Contested

(* A family nobody races for stays whole. *)
LEMMA FamilyStep ==
    ASSUME TypeOK, Noted, Rooted, [Next]_vars, NEW f \in Tokens, f \notin raced, FamilyOk(f)
    PROVE  FamilyOk(f)'
<1>0. ASSUME NEW w \in Workers
      PROVE  Holding(f, w) /\ request[w] \in Request /\ \A r : Become(w, r) => request'[w] = r
  BY RequestFields DEF Become, TypeOK, FamilyOk
<1>a. ASSUME NEW w \in Workers, NEW r, Become(w, r), NEW v \in Workers, v # w PROVE request'[v] = request[v]
  BY <1>a DEF Become, TypeOK
<1>1. ASSUME NEW w \in Workers, NEW r, Become(w, r), UNCHANGED row,
             /\ r.step \in {"rotate", "spend"} /\ row[r.token].family = f =>
                  ~row[r.token].used /\ ~row[r.token].revoked
             /\ \A t \in r.rows : row[t].family = f => \A u \in Family(f) : ~row[u].revoked => u \in r.rows
      PROVE  FamilyOk(f)'
  <2>1. Family(f)' = Family(f)
    BY <1>1 DEF Family, Issued
  <2>2. Holding(f, w)'
    BY <1>0, <1>1, <2>1 DEF Holding
  <2>3. ASSUME NEW v \in Workers, v # w PROVE Holding(f, v)'
    BY <1>0, <1>1, <1>a, <2>1, <2>3 DEF Holding
  <2>4. OneEnd(f)'
    BY <1>1, <2>1 DEF FamilyOk, OneEnd
  <2> QED BY <2>2, <2>3, <2>4 DEF FamilyOk
<1>2. ASSUME NEW w \in Workers, Become(w, Idle), OneEnd(f)', \A v \in Workers \ {w} : Holding(f, v)'
      PROVE  FamilyOk(f)'
  <2>1. request'[w] = Idle
    BY <1>0, <1>2
  <2>2. Holding(f, w)'
    BY <2>1 DEF Holding
  <2> QED BY <1>2, <2>2 DEF FamilyOk
<1>3. ASSUME NEW w \in Workers, LoginCommit(w) PROVE FamilyOk(f)'
  <2>1. PICK t \in Tokens \ Issued :
          /\ Issued' = Issued \cup {t} /\ \A u \in Issued : row'[u] = row[u]
          /\ row'[t].family = t /\ ~row'[t].used /\ ~row'[t].revoked
    BY <1>3, LoginEffect
  <2>2. Become(w, Idle)
    BY <1>3 DEF LoginCommit
  <2>3. \A u \in Issued : row[u].family # t
    BY <2>1 DEF Rooted
  <2>4. Family(f)' = IF f = t THEN {t} ELSE Family(f)
    BY <2>1, <2>3 DEF Family
  <2>5. OneEnd(f)'
    BY <2>1, <2>4 DEF FamilyOk, OneEnd, Family
  <2>6. ASSUME NEW v \in Workers \ {w} PROVE Holding(f, v)'
    <3>1. request'[v] = request[v] /\ request[v].rows \subseteq Issued
          /\ (request[v].step \in {"rotate", "spend"} => request[v].token \in Issued)
      BY <1>a, <2>2, FamiliesKnown
    <3>2. Holding(f, v)
      BY <1>0
    <3>3. CASE f = t
      BY <2>1, <2>3, <3>1, <3>3 DEF Holding
    <3>4. CASE f # t
      BY <2>1, <2>4, <3>1, <3>2, <3>4 DEF Holding, Family
    <3> QED BY <3>3, <3>4
  <2> QED BY <1>2, <2>2, <2>5, <2>6
<1>4. ASSUME NEW w \in Workers, RotateCommit(w) PROVE FamilyOk(f)'
  <2>0. PICK t : t = request[w].token
    OBVIOUS
  <2>1. Become(w, Idle) /\ t \in Issued /\ request[w].step = "spend"
    BY <1>4, <2>0, RotateEffect DEF RotateCommit
  <2>2. PICK child \in Tokens \ Issued :
          /\ Issued' = Issued \cup {child} /\ \A u \in Issued \ {t} : row'[u] = row[u]
          /\ row'[t].family = row[t].family /\ row'[t].used /\ row'[t].revoked = row[t].revoked
          /\ row'[child].family = row[t].family /\ ~row'[child].used /\ row'[child].revoked = FALSE
    BY ONLY TypeOK, <1>4, <2>0, RotateEffect
  <2>3. CASE row[t].family = f
    <3>1. ~row[t].used /\ row[t].revoked = FALSE
      <4>1. row[t] \in Rows
        BY <2>1 DEF TypeOK, Issued
      <4> QED BY <1>0, <2>0, <2>1, <2>3, <4>1 DEF Holding
    <3>2. Family(f)' = Family(f) \cup {child} /\ t \in Family(f)
      BY <2>1, <2>2, <2>3 DEF Family
    <3>3. \A u \in Family(f) : row[u].revoked = FALSE /\ (~row[u].used => u = t)
      BY <3>1, <3>2 DEF FamilyOk, OneEnd
    <3>4. \A u \in Family(f)' : row'[u].revoked = FALSE /\ (~row'[u].used => u = child)
      <4>1. ASSUME NEW u \in Family(f), u # t PROVE row'[u].revoked = FALSE /\ row'[u].used
        BY <2>2, <3>3, <4>1 DEF Family
      <4> QED BY <2>2, <3>1, <3>2, <4>1
    <3>5. OneEnd(f)'
      BY <3>4 DEF OneEnd
    <3>6. f \in Rotating(w)
      BY <2>0, <2>1, <2>3 DEF Rotating
    <3>7. ASSUME NEW v \in Workers \ {w} PROVE Holding(f, v)'
      <4>1. f \notin Rotating(v) /\ f \notin Revoking(v)
        BY <3>6, RotatesAlone
      <4>2. request'[v] = request[v] /\ request[v].rows \subseteq Issued
            /\ (request[v].step \in {"rotate", "spend"} => request[v].token \in Issued)
        BY <1>a, <2>1, FamiliesKnown
      <4>3. \A u \in Issued : row'[u].family = row[u].family
        BY <2>2
      <4> QED BY <4>1, <4>2, <4>3 DEF Holding, Rotating, Revoking
    <3> QED BY <1>2, <2>1, <3>5, <3>7
  <2>4. CASE row[t].family # f
    <3>1. Family(f)' = Family(f) /\ \A u \in Family(f) : row'[u] = row[u]
      BY <2>1, <2>2, <2>4 DEF Family
    <3>2. OneEnd(f)'
      BY <3>1 DEF FamilyOk, OneEnd
    <3>3. ASSUME NEW v \in Workers \ {w} PROVE Holding(f, v)'
      <4>1. request'[v] = request[v] /\ request[v].rows \subseteq Issued /\ Holding(f, v)
            /\ (request[v].step \in {"rotate", "spend"} => request[v].token \in Issued)
        BY <1>0, <1>a, <2>1, FamiliesKnown
      <4>2. \A u \in Issued : row'[u].family = row[u].family /\ (row[u].family = f => row'[u] = row[u])
        BY <2>2, <2>4
      <4> QED BY <3>1, <4>1, <4>2 DEF Holding
    <3> QED BY <1>2, <2>1, <3>2, <3>3
  <2> QED BY <2>3, <2>4
<1>5. ASSUME NEW w \in Workers, CommitRevoke(w) \/ CommitUser(w) PROVE FamilyOk(f)'
  <2> DEFINE S == request[w].rows
  <2>1. row' = Revoked(S) /\ Become(w, Idle)
    BY <1>5 DEF CommitRevoke, CommitUser
  <2>2. /\ Issued' = Issued
        /\ \A t \in Issued : /\ row'[t].family = row[t].family
                             /\ row'[t].used = row[t].used
                             /\ row'[t].revoked = (t \in S \/ row[t].revoked)
    BY <2>1, RequestFields, RevokeEffect
  <2>3. S \subseteq Issued
    BY FamiliesKnown
  <2>4. \A t \in S : row[t].family = f => \A u \in Family(f) : ~row[u].revoked => u \in S
    BY <1>0 DEF Holding
  <2>10. request[w].step \in {"revoke", "flushed", "approved"}
    BY <1>5 DEF CommitRevoke, CommitUser
  <2> HIDE DEF S
  <2>5. Family(f)' = Family(f)
    BY <2>2 DEF Family
  <2>6. OneEnd(f)'
    <3>1. ASSUME NEW t \in Family(f), NEW u \in Family(f), t \in S PROVE row'[u].revoked = row'[t].revoked
      BY <2>2, <2>4, <3>1 DEF Family, FamilyOk, OneEnd
    <3>2. ASSUME NEW t \in Family(f), NEW u \in Family(f), t \notin S, u \notin S
          PROVE  row'[u].revoked = row'[t].revoked
      BY <2>2, <3>2 DEF Family, FamilyOk, OneEnd
    <3>3. \A t, u \in Family(f) : row'[t].revoked = row'[u].revoked
      BY <3>1, <3>2
    <3>4. \A t, u \in Family(f) : ~row'[t].used /\ ~row'[u].used => t = u
      BY <2>2 DEF Family, FamilyOk, OneEnd
    <3> QED BY <2>5, <3>3, <3>4 DEF OneEnd
  <2>7. ASSUME NEW v \in Workers \ {w} PROVE Holding(f, v)'
    <3>1. request'[v] = request[v] /\ request[v].rows \subseteq Issued /\ Holding(f, v)
          /\ (request[v].step \in {"rotate", "spend"} => request[v].token \in Issued)
      BY <1>0, <1>a, <2>1, FamiliesKnown
    <3>2. request[v].step \in {"rotate", "spend"} /\ row[request[v].token].family = f => request[v].token \notin S
      <4> SUFFICES ASSUME f \in Rotating(v) PROVE request[v].token \notin S
        BY DEF Rotating
      <4>1. f \notin Revoking(w)
        BY RotatesAlone
      <4> QED BY <4>1 DEF Rotating, Revoking, S
    <3>3. request'[v].step \in {"rotate", "spend"} /\ row'[request'[v].token].family = f =>
            ~row'[request'[v].token].used /\ ~row'[request'[v].token].revoked
      BY <2>2, <3>1, <3>2 DEF Holding
    <3>4. \A t \in request'[v].rows : row'[t].family = f =>
            \A u \in Family(f)' : ~row'[u].revoked => u \in request'[v].rows
      BY <2>2, <2>5, <3>1 DEF Holding, Family
    <3> QED BY <3>3, <3>4 DEF Holding
  <2> QED BY <1>2, <2>1, <2>6, <2>7
<1>6. ASSUME NEW w \in Workers, NEW r, Become(w, r), UNCHANGED row, r.step \notin {"rotate", "spend"},
             r.rows = {} \/ r.rows = request[w].rows \/ r.rows = Unrevoked
      PROVE  FamilyOk(f)'
  <2>1. \A t \in r.rows : row[t].family = f => \A u \in Family(f) : ~row[u].revoked => u \in r.rows
    BY <1>0, <1>6 DEF Holding, Unrevoked, Family
  <2> QED BY <1>1, <1>6, <2>1
<1>7. ASSUME NEW w \in Workers, LoginRead(w) PROVE FamilyOk(f)'
  BY <1>7, <1>6 DEF LoginRead
<1>19. ASSUME NEW w \in Workers, ChangePassword(w) \/ ConsumeReset(w) PROVE FamilyOk(f)'
  <2>1. CASE ChangePassword(w)
    BY <2>1, <1>6 DEF ChangePassword
  <2>2. CASE ConsumeReset(w)
    BY <2>2, <1>6 DEF ConsumeReset
  <2> QED BY <1>19, <2>1, <2>2
<1>20. ASSUME NEW w \in Workers, Logout(w) PROVE FamilyOk(f)'
  BY <1>20, <1>6 DEF Logout
<1>21. ASSUME NEW w \in Workers, Abort(w) PROVE FamilyOk(f)'
  BY <1>21, <1>6 DEF Abort
<1>8. ASSUME NEW w \in Workers, NEW t \in Tokens, RotateRead(w, t) PROVE FamilyOk(f)'
  <2> DEFINE r == [Idle EXCEPT !.step = IF Reused(t) THEN "family" ELSE "rotate", !.token = t]
  <2>1. Become(w, r) /\ UNCHANGED row /\ ~row[t].revoked
    BY <1>8 DEF RotateRead, Unrevoked
  <2>2. r.token = t /\ r.rows = {} /\ ((r.step = "rotate" /\ ~row[t].used) \/ r.step = "family")
    BY DEF Reused
  <2> HIDE DEF r
  <2> QED BY <1>1, <2>1, <2>2
<1>9. ASSUME NEW w \in Workers, RotateUser(w) PROVE FamilyOk(f)'
  <2>1. request[w].step = "rotate"
    BY <1>9 DEF RotateUser
  <2>2. CASE MaySignIn(status)
    <3> DEFINE r == [request[w] EXCEPT !.step = "spend", !.version = version]
    <3>1. r.step = "spend" /\ r.token = request[w].token /\ r.rows = request[w].rows
          /\ Become(w, r) /\ UNCHANGED row
      BY <1>0, <1>9, <2>2 DEF RotateUser, Request
    <3> HIDE DEF r
    <3> QED BY <1>0, <1>1, <2>1, <3>1 DEF Holding
  <2>3. CASE ~MaySignIn(status)
    <3> DEFINE r == [request[w] EXCEPT !.step = "family"]
    <3>1. r.step = "family" /\ r.rows = request[w].rows /\ Become(w, r) /\ UNCHANGED row
      BY <1>0, <1>9, <2>3 DEF RotateUser, Request
    <3> HIDE DEF r
    <3> QED BY <1>6, <3>1
  <2> QED BY <2>2, <2>3
<1>10. ASSUME NEW w \in Workers, NEW t \in Tokens, AuthLoad(w, t) PROVE FamilyOk(f)'
  BY <1>10, <1>6 DEF AuthLoad
<1>22. ASSUME NEW w \in Workers, NEW t \in Tokens, RevokeSession(w, t) PROVE FamilyOk(f)'
  BY <1>22, <1>6 DEF RevokeSession
<1>11. ASSUME NEW w \in Workers, AuthHit(w) \/ AuthMiss(w) \/ AuthFill(w) PROVE FamilyOk(f)'
  <2>1. PICK r \in {[request[w] EXCEPT !.step = "authed"], [request[w] EXCEPT !.step = "miss"], Idle} :
          Become(w, r) /\ UNCHANGED row
    BY <1>11 DEF AuthHit, AuthMiss, AuthFill, Authenticated
  <2>2. r.step \in {"idle", "miss", "authed"} /\ (r.rows = {} \/ r.rows = request[w].rows)
    BY <1>0, <2>1 DEF Request
  <2> QED BY <1>6, <2>1, <2>2
<1>12. ASSUME NEW w \in Workers, RevokeOthers(w) PROVE FamilyOk(f)'
  <2> DEFINE S == Unrevoked \ Family(row[request[w].token].family)
  <2>1. \A t \in S : row[t].family = f => \A u \in Family(f) : ~row[u].revoked => u \in S
    BY DEF Unrevoked, Family
  <2> HIDE DEF S
  <2> QED BY <1>1, <1>12, <2>1 DEF RevokeOthers, S
<1>13. ASSUME NEW w \in Workers, SelectFamily(w) PROVE FamilyOk(f)'
  <2> DEFINE S == ToRevoke(row[request[w].token].family)
  <2>1. \A t \in S : row[t].family = f => \A u \in Family(f) : ~row[u].revoked => u \in S
    BY DEF ToRevoke, Unrevoked, Family
  <2> HIDE DEF S
  <2>2. CASE request[w].op = "logout"
    BY <1>1, <1>13, <2>1, <2>2 DEF SelectFamily, S
  <2>3. CASE request[w].op # "logout"
    BY <1>1, <1>13, <2>1, <2>3 DEF SelectFamily, S
  <2> QED BY <2>2, <2>3
<1>14. ASSUME NEW w \in Workers, DenyToken(w) PROVE FamilyOk(f)'
  BY <1>14, <1>6 DEF DenyToken
<1>15. ASSUME NEW w \in Workers, NEW op \in Decisions, AdminRead(w, op) PROVE FamilyOk(f)'
  BY <1>15, <1>6 DEF AdminRead
<1>16. ASSUME NEW w \in Workers, BumpCache(w) PROVE FamilyOk(f)'
  <2> DEFINE r == [request[w] EXCEPT !.step = IF request[w].op = "approve" THEN "approved" ELSE "select"]
  <2>1. Become(w, r) /\ UNCHANGED row /\ r.rows = request[w].rows /\ r.step \in {"approved", "select"}
    BY <1>0, <1>16 DEF BumpCache, Request
  <2> HIDE DEF r
  <2> QED BY <1>6, <2>1
<1>17. ASSUME NEW w \in Workers, SelectAll(w) PROVE FamilyOk(f)'
  <2> DEFINE r == [request[w] EXCEPT !.step = "flushed", !.rows = Unrevoked]
  <2>1. Become(w, r) /\ UNCHANGED row /\ r.rows = Unrevoked /\ r.step = "flushed"
    BY <1>0, <1>17 DEF SelectAll, Request
  <2> HIDE DEF r
  <2> QED BY <1>6, <2>1
<1>18. CASE CacheLost \/ UNCHANGED vars
  <2>1. UNCHANGED <<row, request>>
    BY <1>18 DEF CacheLost, vars
  <2> QED BY <2>1 DEF FamilyOk, OneEnd, Holding, Family, Issued
<1> QED BY <1>3, <1>4, <1>5, <1>7, <1>8, <1>9, <1>10, <1>11, <1>12, <1>13, <1>14, <1>15, <1>16, <1>17, <1>18, <1>19,
           <1>20, <1>21, <1>22
        DEF Next, Step, SignIn, Authenticate, Revoke, Bump

(* The families nobody raced for are whole in every state. *)
LEMMA FamilyInvariant == Spec => []FamilyInv
<1>1. Init => FamilyInv
  BY DEF Init, FamilyInv, FamilyOk, OneEnd, Holding, Family, Issued
<1>2. TypeOK /\ Noted /\ Rooted /\ FamilyInv /\ [Next]_vars => FamilyInv'
  <2> SUFFICES ASSUME TypeOK, Noted, Rooted, FamilyInv, [Next]_vars, NEW f \in Tokens, f \notin raced'
               PROVE  FamilyOk(f)'
    BY DEF FamilyInv
  <2>1. f \notin raced
    BY Noting
  <2> QED BY <2>1, FamilyStep DEF FamilyInv
<1> QED BY <1>1, <1>2, SessionsTyping, AlwaysNoted, AlwaysRooted, PTL DEF Spec

(* A family is revoked as a whole, whatever else is in flight, unless one of its *)
(* rotations ran into another or into the revocation (_revoke_family).       *)
THEOREM FamiliesUnlessRaced == Spec => []FamilyRevokedTogether
<1>1. TypeOK /\ FamilyInv => FamilyRevokedTogether
  BY DEF FamilyInv, FamilyOk, OneEnd, FamilyRevokedTogether, Family, Issued, TypeOK
<1> QED BY <1>1, FamilyInvariant, SessionsTyping, PTL

-----------------------------------------------------------------------------
\* The mapping of the refinement.
LiveNow(f) == IF f \in raced THEN {} ELSE Live(f)
SpentNow == {t \in Issued : row[t].used \/ row[t].revoked \/ row[t].family \in raced}

(* The rows say the same as the book: what is issued is known to it. *)
LEMMA BookKnown ==
    ASSUME TypeOK, Rooted
    PROVE  Book!Known = Issued
<1>1. \A t \in Issued : row[t].family \in Tokens
  BY FamiliesKnown
<1>2. \A t \in Issued : t \in SpentNow \/ t \in LiveNow(row[t].family)
  BY DEF Live, Family, LiveNow, SpentNow
<1>3. \A f \in Tokens : LiveNow(f) \subseteq Issued
  BY DEF Live, Family, LiveNow
<1>4. SpentNow \subseteq Issued
  BY DEF SpentNow
<1>5. Book!Known = SpentNow \cup UNION {[g \in Tokens |-> LiveNow(g)][f] : f \in Tokens}
  BY DEF Book!Known, LiveNow, SpentNow
<1> QED BY <1>1, <1>2, <1>3, <1>4, <1>5

(* A commit ends its request and leaves nobody newly contending. *)
LEMMA CommitsRaceNobody ==
    ASSUME TypeOK, Noted, Rooted, Next, NEW w \in Workers, Become(w, Idle),
           Issued \subseteq Issued', \A t \in Issued : row'[t].family = row[t].family
    PROVE  raced' = raced
<1>1. \A v \in Workers : request'[v] = IF v = w THEN Idle ELSE request[v]
  BY DEF Become, TypeOK
<1>2. Rotating(w)' = {} /\ Revoking(w)' = {}
  BY <1>1 DEF Rotating, Revoking
<1>3. ASSUME NEW v \in Workers, v # w PROVE Rotating(v)' = Rotating(v) /\ Revoking(v)' = Revoking(v)
  <2>1. request'[v] = request[v] /\ request[v].rows \subseteq Issued
        /\ (request[v].step \in {"rotate", "spend"} => request[v].token \in Issued)
    BY <1>1, <1>3, FamiliesKnown
  <2>2. \A t \in request[v].rows : row'[t].family = row[t].family
    BY <2>1
  <2>3. Revoking(v)' = Revoking(v)
    BY <2>1, <2>2 DEF Revoking
  <2>4. Rotating(v)' = Rotating(v)
    BY <2>1 DEF Rotating
  <2> QED BY <2>3, <2>4
<1>4. Contested' \subseteq Contested
  BY <1>2, <1>3 DEF Contested
<1> QED BY <1>4 DEF Noted, Next, NoteRace

(* A login opens a family. *)
LEMMA LoginOpens ==
    ASSUME TypeOK, Noted, Rooted, RacedKnown, Next, NEW w \in Workers, LoginCommit(w)
    PROVE  \E t \in Tokens : Book!Open(t)
<1>1. PICK t \in Tokens \ Issued :
        /\ Issued' = Issued \cup {t} /\ \A u \in Issued : row'[u] = row[u]
        /\ row'[t].family = t /\ ~row'[t].used /\ ~row'[t].revoked
  BY LoginEffect
<1>2. raced' = raced
  BY <1>1, CommitsRaceNobody DEF LoginCommit
<1>3. t \notin raced /\ \A u \in Issued : row[u].family # t
  BY <1>1 DEF Rooted, RacedKnown
<1>4. \A f \in Tokens : LiveNow(f)' = IF f = t THEN {t} ELSE LiveNow(f)
  BY <1>1, <1>2, <1>3 DEF LiveNow, Live, Family
<1>5. SpentNow' = SpentNow
  BY <1>1, <1>2, <1>3 DEF SpentNow
<1>6. t \notin Book!Known
  BY <1>1, BookKnown
<1> QED BY <1>4, <1>5, <1>6 DEF Book!Open, LiveNow, SpentNow

(* A rotation trades the live token of its family for the next, and of a family *)
(* that was raced for it wastes one.                                         *)
LEMMA RotationTrades ==
    ASSUME TypeOK, Noted, Rooted, FamilyInv, Next, NEW w \in Workers, RotateCommit(w)
    PROVE  \E f, child \in Tokens : Book!Rotate(f, child) \/ Book!Waste(child)
<1>0. PICK t : t = request[w].token
  OBVIOUS
<1>1. t \in Issued /\ row[t] \in Rows /\ request[w].step = "spend"
  <2>1. request[w].step = "spend"
    BY DEF RotateCommit
  <2> QED BY <1>0, <2>1, RequestFields DEF TokenSteps, Issued
<1>2. PICK child \in Tokens \ Issued :
        /\ Issued' = Issued \cup {child} /\ \A u \in Issued \ {t} : row'[u] = row[u]
        /\ row'[t].family = row[t].family /\ row'[t].used /\ row'[t].revoked = row[t].revoked
        /\ row'[child].family = row[t].family /\ ~row'[child].used /\ row'[child].revoked = FALSE
  BY ONLY TypeOK, RotateCommit(w), <1>0, RotateEffect
<1>3. PICK f \in Tokens : f = row[t].family
  BY <1>1
<1>4. raced' = raced
  BY <1>2, CommitsRaceNobody DEF RotateCommit
<1>5. child \notin Book!Known
  BY <1>2, BookKnown
<1>6. \A g \in Tokens \ {f} : LiveNow(g)' = LiveNow(g)
  <2> SUFFICES ASSUME NEW g \in Tokens \ {f} PROVE Family(g)' = Family(g) /\ Live(g)' = Live(g)
    BY <1>4 DEF LiveNow
  <2>1. Family(g)' = Family(g)
    BY <1>1, <1>2, <1>3 DEF Family
  <2>2. \A u \in Family(g) : row'[u] = row[u]
    BY <1>2, <1>3 DEF Family
  <2> QED BY <2>1, <2>2 DEF Live
<1>7. CASE f \in raced
  <2>1. \A g \in Tokens : LiveNow(g)' = LiveNow(g)
    BY <1>4, <1>6, <1>7 DEF LiveNow
  <2>2. t \in SpentNow /\ t \in SpentNow' /\ child \in SpentNow'
    BY <1>1, <1>2, <1>3, <1>4, <1>7 DEF SpentNow
  <2>3. \A u \in Issued \ {t} : u \in SpentNow' <=> u \in SpentNow
    BY <1>2, <1>4 DEF SpentNow
  <2>4. SpentNow' \subseteq Issued \cup {child} /\ SpentNow \subseteq Issued
    BY <1>2 DEF SpentNow
  <2>5. SpentNow' = SpentNow \cup {child}
    BY <2>2, <2>3, <2>4
  <2>6. Book!Waste(child)
    BY <1>5, <2>1, <2>5 DEF Book!Waste, LiveNow, SpentNow
  <2> QED BY <1>2, <2>6
<1>8. CASE f \notin raced
  <2>1. OneEnd(f) /\ Holding(f, w)
    BY <1>8 DEF FamilyInv, FamilyOk
  <2>2. ~row[t].used /\ ~row[t].revoked /\ t \in Family(f)
    BY <1>0, <1>1, <1>3, <2>1 DEF Holding, Family
  <2>3. \A u \in Family(f) \ {t} : row[u].used
    BY <2>1, <2>2 DEF OneEnd
  <2>4. LiveNow(f) = {t}
    BY <1>8, <2>2, <2>3 DEF LiveNow, Live
  <2>5. LiveNow(f)' = {child}
    <3>1. Family(f)' = Family(f) \cup {child}
      BY <1>1, <1>2, <1>3 DEF Family
    <3>2. \A u \in Family(f) : row'[u].used
      BY <1>2, <2>3 DEF Family
    <3>3. Live(f)' = {child}
      BY <1>2, <3>1, <3>2 DEF Live
    <3> QED BY <1>4, <1>8, <3>3 DEF LiveNow
  <2>6. SpentNow' = SpentNow \cup {t}
    <3>1. t \in SpentNow' /\ child \notin SpentNow'
      BY <1>1, <1>2, <1>3, <1>4, <1>8 DEF SpentNow
    <3>2. \A u \in Issued \ {t} : u \in SpentNow' <=> u \in SpentNow
      BY <1>2, <1>4 DEF SpentNow
    <3>3. SpentNow' \subseteq Issued \cup {child} /\ SpentNow \subseteq Issued
      BY <1>2 DEF SpentNow
    <3> QED BY <3>1, <3>2, <3>3
  <2>7. Book!Rotate(f, child)
    <3>1. \A g \in Tokens : LiveNow(g)' = IF g = f THEN {child} ELSE LiveNow(g)
      BY <1>6, <2>5
    <3> QED BY <1>5, <2>4, <2>6, <3>1 DEF Book!Rotate, LiveNow, SpentNow
  <2> QED BY <1>2, <2>7
<1> QED BY <1>7, <1>8

(* A commit that revokes rows closes their families. *)
LEMMA RevocationCloses ==
    ASSUME TypeOK, Noted, Rooted, FamilyInv, Next,
           NEW w \in Workers, Become(w, Idle), row' = Revoked(request[w].rows)
    PROVE  \E families \in SUBSET Tokens : Book!Close(families)
<1> DEFINE S == request[w].rows
<1>1. /\ Issued' = Issued
      /\ \A t \in Issued : /\ row'[t].family = row[t].family
                           /\ row'[t].used = row[t].used
                           /\ row'[t].revoked = (t \in S \/ row[t].revoked)
  BY RequestFields, RevokeEffect
<1>2. S \subseteq Issued
  BY FamiliesKnown
<1>3. raced' = raced
  BY <1>1, CommitsRaceNobody
<1>4. ASSUME NEW t \in S, row[t].family \notin raced
      PROVE  \A u \in Family(row[t].family) : ~row[u].revoked => u \in S
  <2>1. row[t].family \in Tokens
    BY <1>2, FamiliesKnown
  <2> QED BY <1>4, <2>1 DEF FamilyInv, FamilyOk, Holding
<1> HIDE DEF S
<1>5. PICK families \in SUBSET Tokens : families = {row[t].family : t \in S} \ raced
  BY <1>2, FamiliesKnown
<1>6. \A f \in Tokens : LiveNow(f)' = IF f \in families THEN {} ELSE LiveNow(f)
  <2>1. ASSUME NEW f \in families PROVE LiveNow(f)' = {}
    <3>1. \A u \in Family(f) : u \in S \/ row[u].revoked
      BY <1>4, <1>5, <2>1
    <3> QED BY <1>1, <3>1 DEF LiveNow, Live, Family
  <2>2. ASSUME NEW f \in Tokens, f \notin families PROVE LiveNow(f)' = LiveNow(f)
    BY <1>1, <1>3, <1>5, <2>2 DEF LiveNow, Live, Family
  <2> QED BY <2>1, <2>2
<1>7. SpentNow' = SpentNow \cup UNION {LiveNow(f) : f \in families}
  <2>1. \A u \in S : u \in SpentNow'
    BY <1>1, <1>2 DEF SpentNow
  <2>2. \A u \in Issued \ S : u \in SpentNow' <=> u \in SpentNow
    BY <1>1, <1>3 DEF SpentNow
  <2>3. \A u \in S : u \in SpentNow \/ u \in UNION {LiveNow(f) : f \in families}
    <3> SUFFICES ASSUME NEW u \in S, u \notin SpentNow PROVE u \in UNION {LiveNow(f) : f \in families}
      OBVIOUS
    <3>1. row[u].family \in families /\ u \in LiveNow(row[u].family)
      BY <1>2, <1>5 DEF SpentNow, LiveNow, Live, Family
    <3> QED BY <3>1
  <2>4. ASSUME NEW f \in families PROVE LiveNow(f) \subseteq S
    BY <1>4, <1>5 DEF LiveNow, Live
  <2>5. \A u \in SpentNow : u \in SpentNow'
    BY <1>1, <1>3 DEF SpentNow
  <2>6. SpentNow' \subseteq Issued
    BY <1>1 DEF SpentNow
  <2>7. UNION {LiveNow(f) : f \in families} \subseteq S
    BY <2>4
  <2> QED BY <1>2, <2>1, <2>2, <2>3, <2>5, <2>6, <2>7
<1>8. Book!Close(families)
  <2>1. UNION {[g \in Tokens |-> LiveNow(g)][f] : f \in families} = UNION {LiveNow(f) : f \in families}
    OBVIOUS
  <2> QED BY <1>6, <1>7, <2>1 DEF Book!Close, LiveNow, SpentNow
<1> QED BY <1>5, <1>8

(* What writes no row closes the families it is first seen to race for. *)
LEMMA RacingCloses ==
    ASSUME TypeOK, Rooted, UNCHANGED row, raced \subseteq raced', raced' \subseteq Tokens
    PROVE  \E families \in SUBSET Tokens : Book!Close(families)
<1>1. PICK families \in SUBSET Tokens : families = raced' \ raced
  OBVIOUS
<1>2. Issued' = Issued /\ \A f \in Tokens : Live(f)' = Live(f)
  BY DEF Issued, Live, Family
<1>3. \A f \in Tokens : LiveNow(f)' = IF f \in families THEN {} ELSE LiveNow(f)
  BY <1>1, <1>2 DEF LiveNow
<1>4. SpentNow' = SpentNow \cup UNION {LiveNow(f) : f \in families}
  <2>1. \A u \in Issued : u \in SpentNow' <=> u \in SpentNow \/ row[u].family \in families
    BY <1>1, <1>2 DEF SpentNow
  <2>2. \A u \in Issued \ SpentNow : row[u].family \in families <=> \E f \in families : u \in LiveNow(f)
    <3>1. \A u \in Issued \ SpentNow : u \in LiveNow(row[u].family)
      BY DEF SpentNow, LiveNow, Live, Family
    <3>2. \A f \in families : \A u \in LiveNow(f) : row[u].family = f
      BY DEF LiveNow, Live, Family
    <3> QED BY <3>1, <3>2
  <2>3. SpentNow \subseteq Issued /\ SpentNow' \subseteq Issued /\ \A f \in Tokens : LiveNow(f) \subseteq Issued
    BY <1>2 DEF SpentNow, LiveNow, Live, Family
  <2>4. \A u \in Issued : u \in SpentNow' <=> u \in SpentNow \/ u \in UNION {LiveNow(f) : f \in families}
    <3>1. \A f \in families : \A u \in LiveNow(f) : row[u].family = f
      BY DEF LiveNow, Live, Family
    <3> QED BY <2>1, <2>2, <3>1
  <2>5. UNION {LiveNow(f) : f \in families} \subseteq Issued
    BY <2>3
  <2> QED BY <2>3, <2>4, <2>5
<1>5. UNION {[g \in Tokens |-> LiveNow(g)][f] : f \in families} = UNION {LiveNow(f) : f \in families}
  OBVIOUS
<1>6. Book!Close(families)
  BY <1>3, <1>4, <1>5 DEF Book!Close, LiveNow, SpentNow
<1> QED BY <1>1, <1>6

(* The refinement, whatever runs at the same time: of a family no rotation ran into *)
(* another request for one token can be used, a rotation trades it for the next, *)
(* and what was used, revoked or closed is never good again (KeepsBook).     *)
THEOREM KeepsBookUnlessRaced == Spec => KeepsBook
<1>1. Init => Book!Init
  BY DEF Init, Book!Init, Live, Family, Issued
<1>2. TypeOK /\ TypeOK' /\ Noted /\ Rooted /\ RacedKnown /\ FamilyInv /\ [Next]_vars => [Book!Next]_(Book!vars)
  <2> SUFFICES ASSUME TypeOK, TypeOK', Noted, Rooted, RacedKnown, FamilyInv, [Next]_vars
               PROVE  Book!Next
    OBVIOUS
  <2>1. ASSUME NEW w \in Workers, LoginCommit(w), Next PROVE Book!Next
    BY <2>1, LoginOpens DEF Book!Next
  <2>2. ASSUME NEW w \in Workers, RotateCommit(w), Next PROVE Book!Next
    BY <2>2, RotationTrades DEF Book!Next
  <2>3. ASSUME NEW w \in Workers, CommitRevoke(w) \/ CommitUser(w), Next PROVE Book!Next
    BY <2>3, RevocationCloses DEF Book!Next, CommitRevoke, CommitUser
  <2>4. CASE UNCHANGED row
    <3>1. raced \subseteq raced' /\ raced' \subseteq Tokens
      BY Noting DEF TypeOK
    <3> QED BY <2>4, <3>1, RacingCloses DEF Book!Next
  <2> QED BY <2>1, <2>2, <2>3, <2>4
          DEF Next, Step, SignIn, Authenticate, Revoke, Bump, vars, LoginRead, RotateRead, RotateUser, AuthLoad,
              AuthHit, AuthMiss, AuthFill, Logout, RevokeSession, RevokeOthers, SelectFamily, DenyToken,
              ChangePassword, ConsumeReset, AdminRead, BumpCache, SelectAll, CacheLost, Abort
<1> QED BY <1>1, <1>2, SessionsTyping, AlwaysNoted, AlwaysRooted, FamilyInvariant, PTL
        DEF Spec, KeepsBook, Book!Spec
=============================================================================
