--------------------------- MODULE AccountsProofs ---------------------------
(***************************************************************************)
(* What a reset token and a recovery code are good for, which recovery     *)
(* codes exist, how many accounts an address gets and who is active, and   *)
(* what the limiter lets through, for any numbers of requests, tokens,     *)
(* codes, users and imported rows.                                         *)
(***************************************************************************)
EXTENDS MCAccounts, Sequences, FiniteSetTheorems, TLAPS

(* Each part runs by its own specification. *)
LEMMA PartsRun == Accounts => Spec /\ R!Spec /\ L!Spec
<1>1. Begin => Init /\ R!Init /\ L!Init
  BY DEF Begin
<1> DEFINE all == <<part, credentials, registration, limiter>>
<1>2. [Step]_all => [Next]_vars
  BY DEF Step, credentials, vars
<1>3. [Step]_all => [R!Next]_(R!vars)
  BY DEF Step, registration, R!vars
<1>4. [Step]_all => [L!Next]_(L!vars)
  BY DEF Step, limiter, L!vars
<1> QED BY <1>1, <1>2, <1>3, <1>4, PTL DEF Accounts, Spec, R!Spec, L!Spec

-----------------------------------------------------------------------------
(* A request that becomes a well-formed one leaves all of them well-formed. *)
LEMMA BecomeTyped ==
    ASSUME TypeOK, NEW w \in Workers, NEW r, r \in Request, Sound(r), Become(w, r)
    PROVE  request' \in [Workers -> Request] /\ \A v \in Workers : Sound(request'[v])
BY DEF TypeOK, Become

(* The rows, the keys and the requests keep their types, and what a request *)
(* carries fits its step. *)
THEOREM CredentialsTyping == Spec => []TypeOK
<1>1. Init => TypeOK
  BY VersionAssumption
  DEF Init, TypeOK, Versions, CodeStates, KeyStates, Request, Steps, Ops, Idle, Sound
<1>2. TypeOK /\ [Next]_vars => TypeOK'
  <2> SUFFICES ASSUME TypeOK, [Next]_vars PROVE TypeOK'
    OBVIOUS
  <2>0. Idle \in Request /\ Sound(Idle) /\ version \in Versions /\ \A w \in Workers : request[w] \in Request /\ Sound(request[w])
    BY VersionAssumption DEF TypeOK, Request, Idle, Sound, Steps, Ops, Versions
  <2>1. ASSUME NEW w \in Workers, NEW t \in Resets, ForgotRead(w, t) PROVE TypeOK'
    <3> DEFINE r == [Idle EXCEPT !.step = "issue", !.op = "issue", !.token = t, !.version = version]
    <3>1. r \in Request /\ Sound(r)
      BY <2>0, <2>1 DEF ForgotRead, Request, Idle, Sound, Steps, Ops, Versions
    <3>2. Become(w, r)
      BY <2>1 DEF ForgotRead
    <3> HIDE DEF r
    <3> QED BY <2>1, <3>1, <3>2, BecomeTyped DEF ForgotRead, TypeOK
  <2>2. ASSUME NEW w \in Workers, NEW t \in Resets, ResetLookup(w, t) PROVE TypeOK'
    <3> DEFINE r == [Idle EXCEPT !.step = "looked", !.op = "reset", !.token = t]
    <3>1. r \in Request /\ Sound(r)
      <4>1. 1 < MaxVersion
        BY <2>0, <2>2, VersionAssumption DEF ResetLookup, Versions
      <4> QED BY <2>0, <4>1 DEF Request, Idle, Sound, Steps, Ops, Versions
    <3>2. Become(w, r)
      BY <2>2 DEF ResetLookup
    <3> HIDE DEF r
    <3> QED BY <2>2, <3>1, <3>2, BecomeTyped DEF ResetLookup, TypeOK
  <2>3. ASSUME NEW w \in Workers, StoreToken(w) PROVE TypeOK'
    <3> DEFINE t == request[w].token
    <3>1. request' \in [Workers -> Request] /\ \A v \in Workers : Sound(request'[v])
      BY <2>3, <2>0, BecomeTyped DEF StoreToken
    <3>2. request[w].version \in 0 .. MaxVersion
      BY <2>0, VersionAssumption DEF Request, Versions
    <3>3. reset' = [reset EXCEPT ![t] = request[w].version] /\ kv' = [kv EXCEPT ![t] = "unused"]
          /\ UNCHANGED <<version, secret, code, spent, changed, signins>>
      BY <2>3 DEF StoreToken
    <3> HIDE DEF t
    <3>4. reset' \in [Resets -> 0 .. MaxVersion] /\ kv' \in [Resets -> KeyStates]
      BY <3>2, <3>3 DEF TypeOK, KeyStates
    <3> QED BY <3>1, <3>3, <3>4 DEF TypeOK
  <2>4. ASSUME NEW w \in Workers, ResetLoad(w) PROVE TypeOK'
    <3> DEFINE r == IF reset[request[w].token] = version /\ version < MaxVersion
                    THEN [request[w] EXCEPT !.step = "loaded", !.version = version] ELSE Idle
    <3>1. r \in Request /\ Sound(r)
      BY <2>0, <2>4 DEF ResetLoad, Request, Idle, Sound, Steps, Ops, Versions
    <3>2. Become(w, r)
      BY <2>4 DEF ResetLoad
    <3> HIDE DEF r
    <3> QED BY <2>4, <3>1, <3>2, BecomeTyped DEF ResetLoad, TypeOK
  <2>5. ASSUME NEW w \in Workers, SpendToken(w) PROVE TypeOK'
    <3> DEFINE r == [request[w] EXCEPT !.step = "bump"]
    <3>1. r \in Request /\ Sound(r)
      BY <2>0, <2>5 DEF SpendToken, Request, Idle, Sound, Steps, Ops, Versions
    <3>2. Become(w, r)
      BY <2>5 DEF SpendToken
    <3> HIDE DEF r
    <3>3. request' \in [Workers -> Request] /\ \A v \in Workers : Sound(request'[v])
      BY <3>1, <3>2, BecomeTyped
    <3>4. kv' \in [Resets -> KeyStates] /\ spent' \in [Resets -> Nat]
      <4> DEFINE t == request[w].token
      <4>1. kv' = [kv EXCEPT ![t] = "used"] /\ spent' = [spent EXCEPT ![t] = spent[t] + 1]
        BY <2>5 DEF SpendToken, MarkUsed
      <4> HIDE DEF t
      <4>2. kv' \in [Resets -> KeyStates]
        BY <4>1 DEF TypeOK, KeyStates
      <4>3. spent' \in [Resets -> Nat]
        <5>1. \A u \in Resets : spent'[u] = IF u = t THEN spent[u] + 1 ELSE spent[u]
          BY <4>1 DEF TypeOK
        <5>2. DOMAIN spent' = Resets /\ spent' = [u \in DOMAIN spent' |-> spent'[u]]
          BY <4>1 DEF TypeOK
        <5>3. \A u \in Resets : spent'[u] \in Nat
          BY <5>1 DEF TypeOK
        <5> QED BY <5>2, <5>3
      <4> QED BY <4>2, <4>3
    <3>5. UNCHANGED <<version, secret, code, reset, changed, signins>>
      BY <2>5 DEF SpendToken
    <3> QED BY <3>3, <3>4, <3>5 DEF TypeOK, Sound
  <2>6. ASSUME NEW w \in Workers, PasswordRead(w) PROVE TypeOK'
    <3> DEFINE r == [Idle EXCEPT !.step = "bump", !.op = "password", !.version = version]
    <3>1. r \in Request /\ Sound(r)
      BY <2>0, <2>6 DEF PasswordRead, Request, Idle, Sound, Steps, Ops, Versions
    <3>2. Become(w, r)
      BY <2>6 DEF PasswordRead
    <3> HIDE DEF r
    <3> QED BY <2>6, <3>1, <3>2, BecomeTyped DEF PasswordRead, TypeOK
  <2>7. ASSUME NEW w \in Workers, HoldForPassword(w) PROVE TypeOK'
    <3> DEFINE r == [request[w] EXCEPT !.step = "held"]
    <3>1. r \in Request /\ Sound(r)
      BY <2>0, <2>7 DEF HoldForPassword, Request, Idle, Sound, Steps, Ops, Versions
    <3>2. Become(w, r)
      BY <2>7 DEF HoldForPassword
    <3> HIDE DEF r
    <3> QED BY <2>7, <3>1, <3>2, BecomeTyped DEF HoldForPassword, TypeOK
  <2>8. ASSUME NEW w \in Workers, CommitPassword(w) PROVE TypeOK'
    <3>1. request' \in [Workers -> Request] /\ \A v \in Workers : Sound(request'[v])
      BY <2>8, <2>0, BecomeTyped DEF CommitPassword
    <3>2. version' \in Versions
      BY <2>8, <2>0, VersionAssumption DEF CommitPassword, Versions, Request, Sound
    <3>3. changed' \in [Resets -> Nat]
      <4> DEFINE t == request[w].token
      <4>1. changed' = [changed EXCEPT ![t] = @ + 1] \/ changed' = changed
        BY <2>8 DEF CommitPassword
      <4> HIDE DEF t
      <4>2. changed \in [Resets -> Nat]
        BY DEF TypeOK
      <4> QED BY <4>1, <4>2
    <3>4. UNCHANGED <<secret, code, reset, kv, spent, signins>>
      BY <2>8 DEF CommitPassword
    <3> QED BY <3>1, <3>2, <3>3, <3>4 DEF TypeOK
  <2>9. ASSUME NEW w \in Workers, LoginRead(w) PROVE TypeOK'
    <3>1. CASE Become(w, [Idle EXCEPT !.step = "proven", !.op = "login"])
      <4> DEFINE r == [Idle EXCEPT !.step = "proven", !.op = "login"]
      <4>1. r \in Request /\ Sound(r)
        BY <2>0 DEF Request, Idle, Sound, Steps, Ops, Versions
      <4> QED BY <2>9, <3>1, <4>1, BecomeTyped DEF LoginRead, TypeOK
    <3>2. ASSUME NEW c \in Codes, Become(w, [Idle EXCEPT !.step = "factor", !.op = "login", !.code = c])
          PROVE  TypeOK'
      <4> DEFINE r == [Idle EXCEPT !.step = "factor", !.op = "login", !.code = c]
      <4>1. r \in Request /\ Sound(r)
        BY <2>0 DEF Request, Idle, Sound, Steps, Ops, Versions
      <4> QED BY <2>9, <3>2, <4>1, BecomeTyped DEF LoginRead, TypeOK
    <3> QED BY <2>9, <3>1, <3>2 DEF LoginRead
  <2>10. ASSUME NEW w \in Workers, DisableRead(w) PROVE TypeOK'
    <3>1. CASE Become(w, [Idle EXCEPT !.step = "proven", !.op = "disable"])
      <4> DEFINE r == [Idle EXCEPT !.step = "proven", !.op = "disable"]
      <4>1. r \in Request /\ Sound(r)
        BY <2>0 DEF Request, Idle, Sound, Steps, Ops, Versions
      <4> QED BY <2>10, <3>1, <4>1, BecomeTyped DEF DisableRead, TypeOK
    <3>2. ASSUME NEW c \in Codes, Become(w, [Idle EXCEPT !.step = "factor", !.op = "disable", !.code = c])
          PROVE  TypeOK'
      <4> DEFINE r == [Idle EXCEPT !.step = "factor", !.op = "disable", !.code = c]
      <4>1. r \in Request /\ Sound(r)
        BY <2>0 DEF Request, Idle, Sound, Steps, Ops, Versions
      <4> QED BY <2>10, <3>2, <4>1, BecomeTyped DEF DisableRead, TypeOK
    <3> QED BY <2>10, <3>1, <3>2 DEF DisableRead
  <2>11. ASSUME NEW w \in Workers, SelectCode(w) PROVE TypeOK'
    <3> DEFINE r == IF Usable(request[w].code) THEN [request[w] EXCEPT !.step = "flush"] ELSE Idle
    <3>1. r \in Request /\ Sound(r)
      BY <2>0, <2>11 DEF SelectCode, Request, Idle, Sound, Steps, Ops, Versions
    <3>2. Become(w, r)
      BY <2>11 DEF SelectCode
    <3> HIDE DEF r
    <3> QED BY <2>11, <3>1, <3>2, BecomeTyped DEF SelectCode, TypeOK
  <2>12. ASSUME NEW w \in Workers, FlushCode(w) PROVE TypeOK'
    <3> DEFINE r == IF request[w].code \in Existing THEN [request[w] EXCEPT !.step = "proven"] ELSE Idle
    <3>1. r \in Request /\ Sound(r)
      BY <2>0, <2>12 DEF FlushCode, Request, Idle, Sound, Steps, Ops, Versions
    <3>2. Become(w, r)
      BY <2>12 DEF FlushCode
    <3> HIDE DEF r
    <3> QED BY <2>12, <3>1, <3>2, BecomeTyped DEF FlushCode, TypeOK
  <2>13. ASSUME NEW w \in Workers, CommitLogin(w) PROVE TypeOK'
    BY <2>13, <2>0, BecomeTyped, VersionAssumption DEF CommitLogin, TypeOK, CodeStates
  <2>14. ASSUME NEW w \in Workers, ConfirmRead(w) PROVE TypeOK'
    <3> DEFINE r == [Idle EXCEPT !.step = "proven", !.op = "confirm"]
    <3>1. r \in Request /\ Sound(r)
      BY <2>0, <2>14 DEF ConfirmRead, Request, Idle, Sound, Steps, Ops, Versions
    <3>2. Become(w, r)
      BY <2>14 DEF ConfirmRead
    <3> HIDE DEF r
    <3> QED BY <2>14, <3>1, <3>2, BecomeTyped DEF ConfirmRead, TypeOK
  <2>15. ASSUME NEW w \in Workers, HoldForCodes(w) PROVE TypeOK'
    <3> DEFINE r == [request[w] EXCEPT !.step = "held", !.rows = Existing]
    <3>1. r \in Request /\ Sound(r)
      BY <2>0, <2>15 DEF HoldForCodes, Request, Idle, Sound, Steps, Ops, Versions, Existing
    <3>2. Become(w, r)
      BY <2>15 DEF HoldForCodes
    <3> HIDE DEF r
    <3> QED BY <2>15, <3>1, <3>2, BecomeTyped DEF HoldForCodes, TypeOK
  <2>16. ASSUME NEW w \in Workers, CommitEnrolment(w) PROVE TypeOK'
    BY <2>16, <2>0, BecomeTyped, VersionAssumption DEF CommitEnrolment, TypeOK, CodeStates, WithoutOld
  <2>17. ASSUME NEW w \in Workers, CommitDisable(w) PROVE TypeOK'
    BY <2>17, <2>0, BecomeTyped, VersionAssumption DEF CommitDisable, TypeOK, CodeStates, WithoutOld
  <2>18. ASSUME NEW w \in Workers, Abort(w) PROVE TypeOK'
    BY <2>18, <2>0, BecomeTyped, VersionAssumption DEF Abort, TypeOK
  <2>19. ASSUME NEW t \in Resets, KeyLost(t) PROVE TypeOK'
    BY <2>19 DEF KeyLost, TypeOK, KeyStates
  <2>20. CASE UNCHANGED vars
    BY <2>20 DEF vars, TypeOK, Sound
  <2> QED BY <2>1, <2>2, <2>3, <2>4, <2>5, <2>6, <2>7, <2>8, <2>9, <2>10, <2>11, <2>12, <2>13,
             <2>14, <2>15, <2>16, <2>17, <2>18, <2>19, <2>20 DEF Next, Password, SecondFactor
<1> QED BY <1>1, <1>2, PTL DEF Spec

-----------------------------------------------------------------------------
(* Sets of requests are finite, and no larger than Workers. *)
LEMMA RequestsCounted ==
    ASSUME NEW S, S \subseteq Workers
    PROVE  /\ IsFiniteSet(S) /\ Cardinality(S) \in Nat /\ Cardinality(Workers) \in Nat
           /\ Cardinality(S) <= Cardinality(Workers)
BY FS_Subset, FS_CardinalityType, WorkersAssumption

\* The requests that found the jti of t unused and have not marked it yet.
Trying(t) == {w \in Workers : request[w].token = t /\ request[w].step \in {"looked", "loaded"}}

TriesOf(t) ==
    /\ kv[t] # "none" \/ Trying(t) # {} => Issued(t)
    /\ spent[t] > 0 => Issued(t) /\ kv[t] # "unused"
    /\ spent[t] + Cardinality(Trying(t)) <= Cardinality(Workers)

TriesInv == \A t \in Resets : TriesOf(t)

\* A step that starts no try and leaves the token alone, or loses its key.
TokenQuiet(t) ==
    /\ Trying(t)' \subseteq Trying(t)
    /\ spent'[t] = spent[t] /\ reset'[t] = reset[t]
    /\ kv'[t] = kv[t] \/ kv'[t] = "none"

(* Such a step keeps what is claimed of the token. *)
LEMMA TokenKept ==
    ASSUME TypeOK, NEW t \in Resets, TriesOf(t), TokenQuiet(t)
    PROVE  TriesOf(t)'
<1>1. Trying(t) \subseteq Workers /\ Trying(t)' \subseteq Workers
  BY DEF Trying
<1>2. Cardinality(Trying(t)') <= Cardinality(Trying(t))
  BY <1>1, RequestsCounted, FS_Subset DEF TokenQuiet
<1>3. /\ Cardinality(Trying(t)) \in Nat /\ Cardinality(Trying(t)') \in Nat
      /\ Cardinality(Workers) \in Nat
  BY <1>1, RequestsCounted
<1>4. spent[t] \in Nat
  BY DEF TypeOK
<1>5. spent'[t] + Cardinality(Trying(t)') <= Cardinality(Workers)
  BY <1>2, <1>3, <1>4 DEF TriesOf, TokenQuiet
<1>6. Issued(t)' = Issued(t)
  BY DEF Issued, TokenQuiet
<1> QED BY <1>5, <1>6 DEF TriesOf, TokenQuiet

\* Only the request of w changes, and it ends at one of these steps.
MovesTo(w, steps) ==
    /\ \A v \in Workers : v # w => request'[v] = request[v]
    /\ request'[w].step \in steps

(* The requests about passwords, about tokens and about the second factor move *)
(* among steps of their own. *)
LEMMA PasswordSteps ==
    ASSUME TypeOK, NEW w \in Workers,
           PasswordRead(w) \/ HoldForPassword(w) \/ CommitPassword(w) \/ Abort(w)
    PROVE  MovesTo(w, {"bump", "held", "idle"})
<1>1. request[w] \in Request
  BY DEF TypeOK
<1>2. CASE PasswordRead(w)
  BY <1>2 DEF PasswordRead, Become, MovesTo, Idle, TypeOK
<1>3. CASE HoldForPassword(w)
  BY <1>1, <1>3 DEF HoldForPassword, Become, MovesTo, Request, TypeOK
<1>4. CASE CommitPassword(w)
  BY <1>4 DEF CommitPassword, Become, MovesTo, Idle, TypeOK
<1>5. CASE Abort(w)
  BY <1>5 DEF Abort, Become, MovesTo, Idle, TypeOK
<1> QED BY <1>2, <1>3, <1>4, <1>5

LEMMA TokenSteps ==
    ASSUME TypeOK, NEW w \in Workers,
           \/ \E t \in Resets : ForgotRead(w, t) \/ ResetLookup(w, t)
           \/ StoreToken(w) \/ ResetLoad(w) \/ SpendToken(w)
    PROVE  MovesTo(w, {"issue", "looked", "loaded", "bump", "idle"})
<1>1. request[w] \in Request
  BY DEF TypeOK
<1>2. ASSUME NEW t \in Resets, ForgotRead(w, t) PROVE MovesTo(w, {"issue"})
  BY <1>2 DEF ForgotRead, Become, MovesTo, Idle, TypeOK
<1>3. ASSUME NEW t \in Resets, ResetLookup(w, t) PROVE MovesTo(w, {"looked"})
  BY <1>3 DEF ResetLookup, Become, MovesTo, Idle, TypeOK
<1>4. CASE StoreToken(w)
  BY <1>4 DEF StoreToken, Become, MovesTo, Idle, TypeOK
<1>5. CASE ResetLoad(w)
  BY <1>1, <1>5 DEF ResetLoad, Become, MovesTo, Idle, Request, TypeOK
<1>6. CASE SpendToken(w)
  BY <1>1, <1>6 DEF SpendToken, Become, MovesTo, Request, TypeOK
<1> QED BY <1>2, <1>3, <1>4, <1>5, <1>6 DEF MovesTo

LEMMA FactorSteps ==
    ASSUME TypeOK, NEW w \in Workers, SecondFactor(w)
    PROVE  MovesTo(w, {"proven", "factor", "flush", "held", "idle"})
<1>1. request[w] \in Request
  BY DEF TypeOK
<1>2. CASE LoginRead(w)
  BY <1>2 DEF LoginRead, Become, MovesTo, Idle, TypeOK
<1>3. CASE DisableRead(w)
  BY <1>3 DEF DisableRead, Become, MovesTo, Idle, TypeOK
<1>4. CASE SelectCode(w)
  BY <1>1, <1>4 DEF SelectCode, Become, MovesTo, Idle, Request, TypeOK
<1>5. CASE FlushCode(w)
  BY <1>1, <1>5 DEF FlushCode, Become, MovesTo, Idle, Request, TypeOK
<1>6. CASE CommitLogin(w)
  BY <1>6 DEF CommitLogin, Become, MovesTo, Idle, TypeOK
<1>7. CASE ConfirmRead(w)
  BY <1>7 DEF ConfirmRead, Become, MovesTo, Idle, TypeOK
<1>8. CASE HoldForCodes(w)
  BY <1>1, <1>8 DEF HoldForCodes, Become, MovesTo, Request, TypeOK
<1>9. CASE CommitEnrolment(w)
  BY <1>9 DEF CommitEnrolment, Become, MovesTo, Idle, TypeOK
<1>10. CASE CommitDisable(w)
  BY <1>10 DEF CommitDisable, Become, MovesTo, Idle, TypeOK
<1> QED BY <1>2, <1>3, <1>4, <1>5, <1>6, <1>7, <1>8, <1>9, <1>10 DEF SecondFactor

(* A reset token is good for at most one try per request in flight *)
(* (consume_reset marks the jti used before it commits). *)
THEOREM ResetTries == Spec => []ResetTriesBound
<1>1. Init => TriesInv
  <2> SUFFICES ASSUME Init, NEW t \in Resets PROVE TriesOf(t)
    BY DEF TriesInv
  <2>1. Trying(t) = {} /\ kv[t] = "none" /\ spent[t] = 0
    BY DEF Init, Trying, Idle
  <2> QED BY <2>1, FS_EmptySet, RequestsCounted DEF TriesOf
<1>2. TypeOK /\ TypeOK' /\ TriesInv /\ [Next]_vars => TriesInv'
  <2> SUFFICES ASSUME TypeOK, TypeOK', TriesInv, [Next]_vars, NEW t \in Resets PROVE TriesOf(t)'
    BY DEF TriesInv
  <2>0. TriesOf(t)
    BY DEF TriesInv
  <2>1. ASSUME NEW w \in Workers, NEW u \in Resets, ForgotRead(w, u) PROVE TriesOf(t)'
    <3>1. MovesTo(w, {"issue"}) /\ UNCHANGED <<reset, kv, spent>>
      BY <2>1 DEF ForgotRead, Become, MovesTo, Idle, TypeOK
    <3>2. TokenQuiet(t)
      BY <3>1 DEF TokenQuiet, Trying, MovesTo
    <3> QED BY <2>0, <3>2, TokenKept
  <2>2. ASSUME NEW w \in Workers, NEW u \in Resets, ResetLookup(w, u) PROVE TriesOf(t)'
    <3>1. \A v \in Workers : v # w => request'[v] = request[v]
      BY <2>2 DEF ResetLookup, Become, TypeOK
    <3>2. request'[w].token = u
      BY <2>2 DEF ResetLookup, Become, TypeOK, Idle
    <3>3. CASE u = t
      <4>1. Issued(t) /\ kv[t] = "unused"
        BY <2>0, <2>2, <3>3 DEF ResetLookup, TriesOf
      <4>2. spent[t] = 0
        BY <2>0, <4>1 DEF TriesOf, TypeOK
      <4>3. Trying(t)' \subseteq Workers
        BY DEF Trying
      <4>4. UNCHANGED <<reset, kv, spent>>
        BY <2>2 DEF ResetLookup
      <4>5. 0 + Cardinality(Trying(t)') <= Cardinality(Workers) /\ ~(0 > 0)
        BY <4>3, RequestsCounted
      <4> QED BY <4>1, <4>2, <4>4, <4>5 DEF TriesOf, Issued
    <3>4. CASE u # t
      <4>1. TokenQuiet(t)
        BY <2>2, <3>1, <3>2, <3>4 DEF ResetLookup, TokenQuiet, Trying
      <4> QED BY <2>0, <4>1, TokenKept
    <3> QED BY <3>3, <3>4
  <2>3. ASSUME NEW w \in Workers, StoreToken(w) PROVE TriesOf(t)'
    <3> DEFINE u == request[w].token
    <3>1. \A v \in Workers : request'[v] = IF v = w THEN Idle ELSE request[v]
      BY <2>3 DEF StoreToken, Become, TypeOK
    <3>2. Trying(t)' \subseteq Trying(t)
      BY <3>1 DEF Trying, Idle
    <3>3. CASE u = t
      <4>1. ~Issued(t)
        BY <2>3, <3>3 DEF StoreToken
      <4>2. Trying(t) = {} /\ spent[t] = 0
        BY <2>0, <4>1 DEF TriesOf, TypeOK
      <4>3. reset'[t] # 0 /\ spent'[t] = 0
        BY <2>3, <3>3, <4>2, VersionAssumption DEF StoreToken, TypeOK, Request, Versions
      <4>4. Trying(t)' = {}
        BY <3>2, <4>2
      <4>5. 0 + Cardinality({}) <= Cardinality(Workers) /\ ~(0 > 0)
        BY FS_EmptySet, RequestsCounted
      <4> QED BY <4>3, <4>4, <4>5 DEF TriesOf, Issued
    <3>4. CASE u # t
      <4>1. TokenQuiet(t)
        BY <2>3, <3>2, <3>4 DEF StoreToken, TokenQuiet, TypeOK
      <4> QED BY <2>0, <4>1, TokenKept
    <3> QED BY <3>3, <3>4
  <2>4. ASSUME NEW w \in Workers, ResetLoad(w) PROVE TriesOf(t)'
    <3>1. TokenQuiet(t)
      <4>1. \A v \in Workers : v # w => request'[v] = request[v]
        BY <2>4 DEF ResetLoad, Become, TypeOK
      <4>2. request[w].step = "looked" /\ (request'[w] = Idle \/ request'[w].token = request[w].token)
        BY <2>4 DEF ResetLoad, Become, TypeOK, Request
      <4> QED BY <2>4, <4>1, <4>2 DEF ResetLoad, TokenQuiet, Trying, Idle
    <3> QED BY <2>0, <3>1, TokenKept
  <2>5. ASSUME NEW w \in Workers, SpendToken(w) PROVE TriesOf(t)'
    <3> DEFINE u == request[w].token
    <3>1. \A v \in Workers : v # w => request'[v] = request[v]
      BY <2>5 DEF SpendToken, Become, TypeOK
    <3>2. request[w].step = "loaded" /\ request'[w].step = "bump"
      BY <2>5 DEF SpendToken, Become, TypeOK, Request
    <3>3. CASE u = t
      <4>1. w \in Trying(t) /\ Trying(t)' = Trying(t) \ {w}
        BY <3>1, <3>2, <3>3 DEF Trying
      <4>2. Cardinality(Trying(t)') = Cardinality(Trying(t)) - 1
        <5>1. IsFiniteSet(Trying(t))
          BY RequestsCounted DEF Trying
        <5> QED BY <4>1, <5>1, FS_RemoveElement
      <4>3. spent'[t] = spent[t] + 1 /\ kv'[t] = "used" /\ reset' = reset
        BY <2>5, <3>3 DEF SpendToken, MarkUsed, TypeOK
      <4>4. Issued(t)
        BY <2>0, <4>1 DEF TriesOf
      <4>5. Cardinality(Trying(t)) \in Nat /\ Cardinality(Workers) \in Nat /\ spent[t] \in Nat
        BY RequestsCounted DEF Trying, TypeOK
      <4>6. spent'[t] + Cardinality(Trying(t)') <= Cardinality(Workers)
        BY <2>0, <4>2, <4>3, <4>5 DEF TriesOf
      <4> QED BY <4>3, <4>4, <4>6 DEF TriesOf, Issued
    <3>4. CASE u # t
      <4>1. TokenQuiet(t)
        BY <2>5, <3>1, <3>2, <3>4 DEF SpendToken, TokenQuiet, Trying, TypeOK
      <4> QED BY <2>0, <4>1, TokenKept
    <3> QED BY <3>3, <3>4
  <2>6. ASSUME NEW w \in Workers,
               PasswordRead(w) \/ HoldForPassword(w) \/ CommitPassword(w) \/ Abort(w)
        PROVE TriesOf(t)'
    <3>1. UNCHANGED <<reset, kv, spent>>
      BY <2>6 DEF PasswordRead, HoldForPassword, CommitPassword, Abort
    <3>2. TokenQuiet(t)
      BY <2>6, <3>1, PasswordSteps DEF TokenQuiet, Trying, MovesTo
    <3> QED BY <2>0, <3>2, TokenKept
  <2>7. ASSUME NEW w \in Workers, SecondFactor(w) PROVE TriesOf(t)'
    <3>1. UNCHANGED <<reset, kv, spent>>
      BY <2>7
      DEF SecondFactor, LoginRead, DisableRead, SelectCode, FlushCode, CommitLogin, ConfirmRead,
          HoldForCodes, CommitEnrolment, CommitDisable
    <3>2. TokenQuiet(t)
      BY <2>7, <3>1, FactorSteps DEF TokenQuiet, Trying, MovesTo
    <3> QED BY <2>0, <3>2, TokenKept
  <2>8. ASSUME NEW u \in Resets, KeyLost(u) PROVE TriesOf(t)'
    <3>1. TokenQuiet(t)
      BY <2>8 DEF KeyLost, TokenQuiet, Trying, TypeOK
    <3> QED BY <2>0, <3>1, TokenKept
  <2>9. CASE UNCHANGED vars
    <3>1. TokenQuiet(t)
      BY <2>9 DEF vars, TokenQuiet, Trying
    <3> QED BY <2>0, <3>1, TokenKept
  <2> QED BY <2>1, <2>2, <2>3, <2>4, <2>5, <2>6, <2>7, <2>8, <2>9 DEF Next, Password
<1>3. TypeOK /\ TriesInv => ResetTriesBound
  <2> SUFFICES ASSUME TypeOK, TriesInv, NEW t \in Resets PROVE spent[t] <= Cardinality(Workers)
    BY DEF ResetTriesBound
  <2>1. Cardinality(Trying(t)) \in Nat /\ Cardinality(Workers) \in Nat /\ spent[t] \in Nat
    BY RequestsCounted DEF Trying, TypeOK
  <2> QED BY <2>1 DEF TriesInv, TriesOf
<1> QED BY <1>1, <1>2, <1>3, CredentialsTyping, PTL DEF Spec

-----------------------------------------------------------------------------
\* The requests that hold an unused recovery code, or are about to.
Holding(c) == {w \in Workers : request[w].code = c /\ request[w].step \in {"flush", "proven"}}

UsesOf(c) ==
    /\ signins[c] > 0 => code[c] \in {"used", "deleted"}
    /\ signins[c] + Cardinality(Holding(c)) <= Cardinality(Workers)

UsesInv == \A c \in Codes : UsesOf(c)

(* A step that lets nobody in by the code, and makes no code of it again, keeps *)
(* what is claimed of it. *)
LEMMA UsesKept ==
    ASSUME TypeOK, NEW c \in Codes, UsesOf(c), Holding(c)' \subseteq Holding(c), signins'[c] = signins[c],
           code[c] \in {"used", "deleted"} => code'[c] \in {"used", "deleted"}
    PROVE  UsesOf(c)'
<1>1. Holding(c) \subseteq Workers /\ Holding(c)' \subseteq Workers
  BY DEF Holding
<1>2. Cardinality(Holding(c)') <= Cardinality(Holding(c))
  BY <1>1, RequestsCounted, FS_Subset
<1>3. /\ Cardinality(Holding(c)) \in Nat /\ Cardinality(Holding(c)') \in Nat
      /\ Cardinality(Workers) \in Nat
  BY <1>1, RequestsCounted
<1>4. signins[c] \in Nat
  BY DEF TypeOK
<1>5. signins'[c] + Cardinality(Holding(c)') <= Cardinality(Workers)
  BY <1>2, <1>3, <1>4 DEF UsesOf
<1> QED BY <1>5 DEF UsesOf

(* A recovery code lets in as many sign-ins as were in flight when it was first *)
(* used, and none later (verify_user_factor). *)
THEOREM CodeUses == Spec => []CodeUsesBound
<1>1. Init => UsesInv
  <2> SUFFICES ASSUME Init, NEW c \in Codes PROVE UsesOf(c)
    BY DEF UsesInv
  <2>1. Holding(c) = {} /\ signins[c] = 0
    BY DEF Init, Holding, Idle
  <2> QED BY <2>1, FS_EmptySet, RequestsCounted DEF UsesOf
<1>2. TypeOK /\ TypeOK' /\ UsesInv /\ [Next]_vars => UsesInv'
  <2> SUFFICES ASSUME TypeOK, TypeOK', UsesInv, [Next]_vars, NEW c \in Codes PROVE UsesOf(c)'
    BY DEF UsesInv
  <2>0. UsesOf(c)
    BY DEF UsesInv
  <2>1. ASSUME NEW w \in Workers, Password(w) \/ Abort(w) PROVE UsesOf(c)'
    <3>1. UNCHANGED <<code, signins>>
      BY <2>1
      DEF Password, ForgotRead, ResetLookup, StoreToken, ResetLoad, SpendToken, PasswordRead,
          HoldForPassword, CommitPassword, Abort
    <3>2. MovesTo(w, {"issue", "looked", "loaded", "bump", "held", "idle"})
      BY <2>1, TokenSteps, PasswordSteps DEF Password, MovesTo
    <3>3. Holding(c)' \subseteq Holding(c)
      BY <3>2 DEF Holding, MovesTo
    <3> QED BY <2>0, <3>1, <3>3, UsesKept
  <2>2. ASSUME NEW w \in Workers,
               \/ LoginRead(w) \/ DisableRead(w) \/ FlushCode(w) \/ ConfirmRead(w) \/ HoldForCodes(w)
        PROVE UsesOf(c)'
    <3>1. UNCHANGED <<code, signins>>
      BY <2>2 DEF LoginRead, DisableRead, FlushCode, ConfirmRead, HoldForCodes
    <3>2. \A v \in Workers : v # w => request'[v] = request[v]
      BY <2>2, FactorSteps DEF SecondFactor, MovesTo
    <3>3. \/ request'[w].step \notin {"flush", "proven"}
          \/ request'[w].code = NULL
          \/ request'[w].code = request[w].code /\ request[w].step = "flush"
      <4>1. request[w] \in Request
        BY DEF TypeOK
      <4>2. CASE LoginRead(w)
        BY <4>2 DEF LoginRead, Become, Idle, TypeOK
      <4>3. CASE DisableRead(w)
        BY <4>3 DEF DisableRead, Become, Idle, TypeOK
      <4>4. CASE FlushCode(w)
        BY <4>1, <4>4 DEF FlushCode, Become, Idle, TypeOK, Request
      <4>5. CASE ConfirmRead(w)
        BY <4>5 DEF ConfirmRead, Become, Idle, TypeOK
      <4>6. CASE HoldForCodes(w)
        BY <4>1, <4>6 DEF HoldForCodes, Become, TypeOK, Request
      <4> QED BY <2>2, <4>2, <4>3, <4>4, <4>5, <4>6
    <3>4. Holding(c)' \subseteq Holding(c)
      BY <3>2, <3>3, NullAssumption DEF Holding
    <3> QED BY <2>0, <3>1, <3>4, UsesKept
  <2>3. ASSUME NEW w \in Workers, SelectCode(w) PROVE UsesOf(c)'
    <3>1. UNCHANGED <<code, signins>>
      BY <2>3 DEF SelectCode
    <3>2. \A v \in Workers : v # w => request'[v] = request[v]
      BY <2>3, FactorSteps DEF SecondFactor, MovesTo
    <3>3. request'[w] = Idle \/ (Usable(request[w].code) /\ request'[w].code = request[w].code)
      <4>1. request'[w] = IF Usable(request[w].code) THEN [request[w] EXCEPT !.step = "flush"] ELSE Idle
        BY <2>3 DEF SelectCode, Become, TypeOK
      <4>2. request[w] \in Request
        BY DEF TypeOK
      <4>3. [request[w] EXCEPT !.step = "flush"].code = request[w].code
        BY <4>2 DEF Request
      <4> QED BY <4>1, <4>3
    <3>4. CASE request'[w] # Idle /\ request[w].code = c
      <4>1. signins[c] = 0
        BY <2>0, <3>3, <3>4 DEF UsesOf, Usable, TypeOK
      <4>2. Holding(c)' \subseteq Workers
        BY DEF Holding
      <4>3. 0 + Cardinality(Holding(c)') <= Cardinality(Workers) /\ ~(0 > 0)
        BY <4>2, RequestsCounted
      <4> QED BY <3>1, <4>1, <4>3 DEF UsesOf
    <3>5. CASE ~(request'[w] # Idle /\ request[w].code = c)
      <4>1. Holding(c)' \subseteq Holding(c)
        BY <3>2, <3>3, <3>5 DEF Holding, Idle
      <4> QED BY <2>0, <3>1, <4>1, UsesKept
    <3> QED BY <3>4, <3>5
  <2>4. ASSUME NEW w \in Workers, CommitLogin(w) PROVE UsesOf(c)'
    <3>1. /\ \A v \in Workers : v # w => request'[v] = request[v]
          /\ request'[w].step = "idle" /\ request[w].step = "proven"
      BY <2>4 DEF CommitLogin, Become, TypeOK, Idle
    <3>2. CASE request[w].code = c
      <4>1. w \in Holding(c) /\ Holding(c)' = Holding(c) \ {w}
        BY <3>1, <3>2 DEF Holding
      <4>2. Cardinality(Holding(c)') = Cardinality(Holding(c)) - 1
        <5>1. IsFiniteSet(Holding(c))
          BY RequestsCounted DEF Holding
        <5> QED BY <4>1, <5>1, FS_RemoveElement
      <4>3. signins'[c] = signins[c] + 1 /\ code'[c] = "used"
        BY <2>4, <3>2, NullAssumption DEF CommitLogin, TypeOK
      <4>4. Cardinality(Holding(c)) \in Nat /\ Cardinality(Workers) \in Nat /\ signins[c] \in Nat
        BY RequestsCounted DEF Holding, TypeOK
      <4>5. signins'[c] + Cardinality(Holding(c)') <= Cardinality(Workers)
        BY <2>0, <4>2, <4>3, <4>4 DEF UsesOf
      <4> QED BY <4>3, <4>5 DEF UsesOf
    <3>3. CASE request[w].code # c
      <4>1. Holding(c)' \subseteq Holding(c)
        BY <3>1 DEF Holding
      <4>2. signins'[c] = signins[c] /\ code'[c] = code[c]
        BY <2>4, <3>3 DEF CommitLogin, TypeOK
      <4> QED BY <2>0, <4>1, <4>2, UsesKept
    <3> QED BY <3>2, <3>3
  <2>5. ASSUME NEW w \in Workers, CommitEnrolment(w) \/ CommitDisable(w) PROVE UsesOf(c)'
    <3>1. Holding(c)' \subseteq Holding(c)
      BY <2>5 DEF CommitEnrolment, CommitDisable, Become, Holding, Idle, TypeOK
    <3>2. signins'[c] = signins[c]
      BY <2>5 DEF CommitEnrolment, CommitDisable
    <3>3. code[c] \in {"used", "deleted"} => code'[c] \in {"used", "deleted"}
      BY <2>5 DEF CommitEnrolment, CommitDisable, WithoutOld
    <3> QED BY <2>0, <3>1, <3>2, <3>3, UsesKept
  <2>6. ASSUME NEW t \in Resets, KeyLost(t) PROVE UsesOf(c)'
    BY <2>0, <2>6, UsesKept DEF KeyLost, Holding
  <2>7. CASE UNCHANGED vars
    BY <2>0, <2>7, UsesKept DEF vars, Holding
  <2> QED BY <2>1, <2>2, <2>3, <2>4, <2>5, <2>6, <2>7 DEF Next, SecondFactor
<1>3. TypeOK /\ UsesInv => CodeUsesBound
  <2> SUFFICES ASSUME TypeOK, UsesInv, NEW c \in Codes PROVE signins[c] <= Cardinality(Workers)
    BY DEF CodeUsesBound
  <2>1. Cardinality(Holding(c)) \in Nat /\ Cardinality(Workers) \in Nat /\ signins[c] \in Nat
    BY RequestsCounted DEF Holding, TypeOK
  <2> QED BY <2>1 DEF UsesInv, UsesOf
<1> QED BY <1>1, <1>2, <1>3, CredentialsTyping, PTL DEF Spec

-----------------------------------------------------------------------------
(* How a request about the second factor, or about a password, starts. *)
LEMMA FactorReads ==
    ASSUME TypeOK, NEW w \in Workers, LoginRead(w) \/ DisableRead(w) \/ ConfirmRead(w)
    PROVE  request'[w].step = "factor" \/ (request'[w].step = "proven" /\ request'[w].code = NULL)
<1>1. CASE LoginRead(w)
  <2>1. CASE Become(w, [Idle EXCEPT !.step = "proven", !.op = "login"])
    <3>1. request'[w] = [Idle EXCEPT !.step = "proven", !.op = "login"]
      BY <2>1 DEF Become, TypeOK
    <3> QED BY <3>1 DEF Idle
  <2>2. ASSUME NEW c \in Codes, Become(w, [Idle EXCEPT !.step = "factor", !.op = "login", !.code = c])
        PROVE  request'[w].step = "factor"
    <3>1. request'[w] = [Idle EXCEPT !.step = "factor", !.op = "login", !.code = c]
      BY <2>2 DEF Become, TypeOK
    <3> QED BY <3>1 DEF Idle
  <2> QED BY <1>1, <2>1, <2>2 DEF LoginRead
<1>2. CASE DisableRead(w)
  <2>1. CASE Become(w, [Idle EXCEPT !.step = "proven", !.op = "disable"])
    <3>1. request'[w] = [Idle EXCEPT !.step = "proven", !.op = "disable"]
      BY <2>1 DEF Become, TypeOK
    <3> QED BY <3>1 DEF Idle
  <2>2. ASSUME NEW c \in Codes, Become(w, [Idle EXCEPT !.step = "factor", !.op = "disable", !.code = c])
        PROVE  request'[w].step = "factor"
    <3>1. request'[w] = [Idle EXCEPT !.step = "factor", !.op = "disable", !.code = c]
      BY <2>2 DEF Become, TypeOK
    <3> QED BY <3>1 DEF Idle
  <2> QED BY <1>2, <2>1, <2>2 DEF DisableRead
<1>3. CASE ConfirmRead(w)
  <2>1. request'[w] = [Idle EXCEPT !.step = "proven", !.op = "confirm"]
    BY <1>3 DEF ConfirmRead, Become, TypeOK
  <2> QED BY <2>1 DEF Idle
<1> QED BY <1>1, <1>2, <1>3

LEMMA PasswordOps ==
    ASSUME TypeOK, NEW w \in Workers, PasswordRead(w) \/ CommitPassword(w) \/ Abort(w)
    PROVE  request'[w].step = "idle" \/ (request'[w].step = "bump" /\ request'[w].op = "password")
<1>1. CASE PasswordRead(w)
  <2>1. request'[w] = [Idle EXCEPT !.step = "bump", !.op = "password", !.version = version]
    BY <1>1 DEF PasswordRead, Become, TypeOK
  <2>2. \A v : LET r == [Idle EXCEPT !.step = "bump", !.op = "password", !.version = v]
              IN r.step = "bump" /\ r.op = "password"
    BY DEF Idle
  <2> QED BY <2>1, <2>2
<1>2. CASE CommitPassword(w) \/ Abort(w)
  BY <1>2 DEF CommitPassword, Abort, Become, Idle, TypeOK
<1> QED BY <1>1, <1>2

\* At most one request holds the users row; a request about codes that does has
\* read all there are; and a code that is proven exists, proven to one request.
HeldInv ==
    /\ \A v, w \in Workers : request[v].step = "held" /\ request[w].step = "held" => v = w
    /\ \A w \in Workers : request[w].step = "held" /\ request[w].op \in {"confirm", "disable"}
                            => request[w].rows = Existing
    /\ \A w \in Workers : request[w].step \in {"looked", "loaded", "bump"} => request[w].op \in {"reset", "password"}
    /\ \A w \in Workers, c \in Codes : request[w].step = "proven" /\ request[w].code = c => c \in Existing

CodesInv == HeldInv /\ CodesOfSecret

(* The recovery codes that exist are those shown with the secret in force *)
(* (confirm_enroll, disable_totp): the UPDATE of the user comes before the *)
(* SELECT of the codes, so that only one request at a time is in between. *)
THEOREM CodesMatchSecret == Spec => []CodesOfSecret
<1>1. Init => CodesInv
  BY DEF Init, CodesInv, HeldInv, CodesOfSecret, Existing, Idle
<1>2. TypeOK /\ TypeOK' /\ CodesInv /\ [Next]_vars => CodesInv'
  <2> SUFFICES ASSUME TypeOK, TypeOK', CodesInv, [Next]_vars PROVE CodesInv'
    OBVIOUS
  <2> USE DEF CodesInv, HeldInv, CodesOfSecret
  <2>1. ASSUME NEW w \in Workers, UNCHANGED <<code, secret>>, \A v \in Workers : v # w => request'[v] = request[v],
               request'[w].step \notin {"held", "proven"},
               request'[w].step \in {"looked", "loaded", "bump"} => request'[w].op \in {"reset", "password"}
        PROVE  CodesInv'
    <3>1. Existing' = Existing
      BY <2>1 DEF Existing
    <3> QED BY <2>1, <3>1
  <2>2. ASSUME NEW w \in Workers, NEW t \in Resets, ForgotRead(w, t) PROVE CodesInv'
    BY <2>1, <2>2 DEF ForgotRead, Become, Idle, TypeOK
  <2>3. ASSUME NEW w \in Workers, NEW t \in Resets, ResetLookup(w, t) PROVE CodesInv'
    BY <2>1, <2>3 DEF ResetLookup, Become, Idle, TypeOK
  <2>4. ASSUME NEW w \in Workers, StoreToken(w) PROVE CodesInv'
    BY <2>1, <2>4 DEF StoreToken, Become, Idle, TypeOK
  <2>5. ASSUME NEW w \in Workers, ResetLoad(w) \/ SpendToken(w) PROVE CodesInv'
    <3>1. MovesTo(w, {"issue", "looked", "loaded", "bump", "idle"}) /\ UNCHANGED <<code, secret>>
      BY <2>5, TokenSteps DEF ResetLoad, SpendToken
    <3>2. request'[w] = Idle \/ (request'[w].op = request[w].op /\ request[w].step \in {"looked", "loaded"})
      <4>1. request[w] \in Request /\ request[w].step \in {"looked", "loaded"}
        BY <2>5 DEF ResetLoad, SpendToken, TypeOK
      <4>2. \/ request'[w] = Idle
            \/ request'[w] = [request[w] EXCEPT !.step = "loaded", !.version = version]
            \/ request'[w] = [request[w] EXCEPT !.step = "bump"]
        BY <2>5 DEF ResetLoad, SpendToken, Become, TypeOK
      <4> QED BY <4>1, <4>2 DEF Request
    <3> QED BY <2>1, <3>1, <3>2 DEF MovesTo, Idle
  <2>6. ASSUME NEW w \in Workers, PasswordRead(w) \/ CommitPassword(w) \/ Abort(w) PROVE CodesInv'
    <3>1. MovesTo(w, {"bump", "held", "idle"}) /\ UNCHANGED <<code, secret>>
      BY <2>6, PasswordSteps DEF PasswordRead, CommitPassword, Abort
    <3>2. request'[w].step = "idle" \/ (request'[w].step = "bump" /\ request'[w].op = "password")
      BY <2>6, PasswordOps
    <3> QED BY <2>1, <3>1, <3>2 DEF MovesTo
  <2>7. ASSUME NEW w \in Workers, HoldForPassword(w) PROVE CodesInv'
    <3>1. /\ MovesTo(w, {"bump", "held", "idle"}) /\ UNCHANGED <<code, secret>>
          /\ request'[w].op = request[w].op /\ request[w].step = "bump" /\ request'[w].step = "held"
          /\ \A v \in Workers : v # w => request[v].step # "held"
      BY <2>7, PasswordSteps DEF HoldForPassword, UserRowFree, Become, TypeOK, Request
    <3>2. Existing' = Existing /\ request'[w].op \notin {"confirm", "disable"}
      BY <3>1 DEF Existing
    <3> QED BY <3>1, <3>2 DEF MovesTo
  <2>8. ASSUME NEW w \in Workers, LoginRead(w) \/ DisableRead(w) \/ ConfirmRead(w) PROVE CodesInv'
    <3>1. /\ MovesTo(w, {"proven", "factor", "flush", "held", "idle"}) /\ UNCHANGED <<code, secret>>
      BY <2>8, FactorSteps DEF SecondFactor, LoginRead, DisableRead, ConfirmRead
    <3>2. request'[w].step = "factor" \/ (request'[w].step = "proven" /\ request'[w].code = NULL)
      BY <2>8, FactorReads
    <3>3. Existing' = Existing
      BY <3>1 DEF Existing
    <3> QED BY <3>1, <3>2, <3>3, NullAssumption DEF MovesTo
  <2>9. ASSUME NEW w \in Workers, SelectCode(w) PROVE CodesInv'
    BY <2>1, <2>9 DEF SelectCode, Become, Idle, TypeOK, Request
  <2>10. ASSUME NEW w \in Workers, FlushCode(w) PROVE CodesInv'
    <3>1. /\ MovesTo(w, {"proven", "factor", "flush", "held", "idle"}) /\ UNCHANGED <<code, secret>>
      BY <2>10, FactorSteps DEF SecondFactor, FlushCode
    <3>2. \/ request'[w].step = "idle"
          \/ request'[w].step = "proven" /\ request'[w].code = request[w].code /\ request[w].code \in Existing
      BY <2>10 DEF FlushCode, Become, Idle, TypeOK, Request
    <3>3. Existing' = Existing
      BY <3>1 DEF Existing
    <3> QED BY <3>1, <3>2, <3>3 DEF MovesTo
  <2>11. ASSUME NEW w \in Workers, CommitLogin(w) PROVE CodesInv'
    <3>1. MovesTo(w, {"idle"}) /\ UNCHANGED secret
      BY <2>11 DEF CommitLogin, MovesTo, Become, Idle, TypeOK
    <3>2. Existing' = Existing
      BY <2>11 DEF CommitLogin, Existing, TypeOK
    <3> QED BY <3>1, <3>2 DEF MovesTo
  <2>12. ASSUME NEW w \in Workers, HoldForCodes(w) PROVE CodesInv'
    <3>1. /\ MovesTo(w, {"proven", "factor", "flush", "held", "idle"}) /\ UNCHANGED <<code, secret>>
          /\ request'[w].rows = Existing /\ request'[w].step = "held"
          /\ \A v \in Workers : v # w => request[v].step # "held"
      BY <2>12, FactorSteps DEF SecondFactor, HoldForCodes, UserRowFree, Become, TypeOK, Request
    <3>2. Existing' = Existing
      BY <3>1 DEF Existing
    <3> QED BY <3>1, <3>2 DEF MovesTo
  <2>13. ASSUME NEW w \in Workers, CommitEnrolment(w) \/ CommitDisable(w) PROVE CodesInv'
    <3>1. /\ MovesTo(w, {"idle"}) /\ request[w].step = "held" /\ request[w].rows = Existing
          /\ \A c \in Existing : CodeRowFree(w, c)
      BY <2>13 DEF CommitEnrolment, CommitDisable, MovesTo, Become, Idle, TypeOK
    <3>2. \A v \in Workers : v # w => request[v].step # "held"
      BY <3>1
    <3>3. \A v \in Workers, c \in Codes : v # w => ~(request[v].step = "proven" /\ request[v].code = c)
      BY <3>1 DEF CodeRowFree
    <3>4. Existing' = secret'
      <4>1. CASE CommitEnrolment(w)
        BY <3>1, <4>1 DEF CommitEnrolment, WithoutOld, Existing
      <4>2. CASE CommitDisable(w)
        BY <3>1, <4>2 DEF CommitDisable, WithoutOld, Existing
      <4> QED BY <2>13, <4>1, <4>2
    <3> QED BY <3>1, <3>2, <3>3, <3>4 DEF MovesTo
  <2>14. ASSUME NEW t \in Resets, KeyLost(t) PROVE CodesInv'
    BY <2>14 DEF KeyLost, Existing
  <2>15. CASE UNCHANGED vars
    BY <2>15 DEF vars, Existing
  <2> QED BY <2>2, <2>3, <2>4, <2>5, <2>6, <2>7, <2>8, <2>9, <2>10, <2>11, <2>12, <2>13, <2>14, <2>15
          DEF Next, Password, SecondFactor
<1>3. CodesInv => CodesOfSecret
  BY DEF CodesInv
<1> QED BY <1>1, <1>2, <1>3, CredentialsTyping, PTL DEF Spec

-----------------------------------------------------------------------------
(* The parts count as FiniteSets does. *)
LEMMA AccountCounts == \A S : R!Cardinality(S) = Cardinality(S)
BY Zenon DEF R!Cardinality, Cardinality

LEMMA HitCounts == \A S : L!Cardinality(S) = Cardinality(S)
BY Zenon DEF L!Cardinality, Cardinality

\* Of all hits let through, those that may still count are on the list.
HitsInv == L!TypeOK /\ L!WindowBound /\ \A i \in DOMAIN allowed : now - allowed[i] < Window => i \in hits

(* The list of the hits is finite, and so is any part of it. *)
LEMMA HitsCounted ==
    ASSUME NEW s \in Seq(L!Times), NEW T \in SUBSET DOMAIN s
    PROVE  IsFiniteSet(T) /\ Cardinality(T) \in Nat
<1>1. DOMAIN s = 1 .. Len(s) /\ Len(s) \in Nat
  OBVIOUS
<1>2. IsFiniteSet(DOMAIN s)
  BY <1>1, FS_Interval
<1> QED BY <1>2, FS_Subset, FS_CardinalityType

(* It is inductive: a hit that falls into a window with others finds all of them *)
(* on the list. *)
LEMMA HitsInvariant == L!Spec => []HitsInv
<1> DEFINE Window0(start, s) == {i \in DOMAIN s : s[i] \in start .. start + Window - 1}
<1>1. L!Init => HitsInv
  <2> SUFFICES ASSUME L!Init PROVE HitsInv
    OBVIOUS
  <2>1. allowed = <<>> /\ DOMAIN allowed = {} /\ hits = {} /\ now = 0
    BY DEF L!Init
  <2>2. Cardinality({}) = 0
    BY FS_EmptySet
  <2>3. L!TypeOK
    BY <2>1, <2>2, HitCounts, LimiterAssumption DEF L!TypeOK, L!Times
  <2>4. \A start \in L!Times : {i \in DOMAIN allowed : allowed[i] \in start .. start + Window - 1} = {}
    BY <2>1
  <2>5. L!WindowBound
    BY <2>2, <2>4, HitCounts, LimiterAssumption DEF L!WindowBound
  <2> QED BY <2>1, <2>3, <2>5 DEF HitsInv
<1>2. HitsInv /\ [L!Next]_(L!vars) => HitsInv'
  <2> SUFFICES ASSUME HitsInv, [L!Next]_(L!vars) PROVE HitsInv'
    OBVIOUS
  <2>0. /\ L!TypeOK /\ now \in Nat /\ allowed \in Seq(L!Times) /\ hits \subseteq DOMAIN allowed
        /\ \A i \in DOMAIN allowed : allowed[i] \in Int
    BY LimiterAssumption DEF HitsInv, L!TypeOK, L!Times
  <2> DEFINE arr == L!Recent(hits)
  <2>1. arr \subseteq hits /\ \A i \in DOMAIN allowed : now - allowed[i] < Window => i \in arr
    BY <2>0 DEF L!Recent, HitsInv
  <2>2. CASE L!Allow
    <3>1. CASE Cardinality(arr) >= Limit
      <4>1. hits' = arr /\ now' = now /\ allowed' = allowed
        BY <2>2, <3>1, HitCounts DEF L!Allow
      <4>2. Cardinality(arr) <= Cardinality(hits)
        BY <2>0, <2>1, HitsCounted, FS_Subset
      <4>3. Cardinality(hits) <= Limit /\ Cardinality(hits) \in Nat /\ Cardinality(arr) \in Nat
        BY <2>0, <2>1, HitsCounted, HitCounts DEF L!TypeOK
      <4>4. Cardinality(hits') <= Limit
        BY <4>1, <4>2, <4>3, LimiterAssumption
      <4>5. L!TypeOK'
        BY <2>0, <2>1, <4>1, <4>4, HitCounts DEF L!TypeOK
      <4>6. L!WindowBound'
        BY <4>1 DEF HitsInv, L!WindowBound
      <4> QED BY <2>1, <4>1, <4>5, <4>6 DEF HitsInv
    <3>2. CASE ~(Cardinality(arr) >= Limit)
      <4> DEFINE n == Len(allowed) + 1
      <4>1. hits' = arr \cup {n} /\ now' = now /\ allowed' = Append(allowed, now)
        BY <2>2, <3>2, HitCounts DEF L!Allow
      <4>2. /\ allowed' \in Seq(L!Times) /\ n \notin DOMAIN allowed /\ DOMAIN allowed' = DOMAIN allowed \cup {n}
            /\ allowed'[n] = now /\ \A i \in DOMAIN allowed : allowed'[i] = allowed[i]
        BY <2>0, <4>1 DEF L!TypeOK
      <4> HIDE DEF n, arr
      <4>3. IsFiniteSet(arr) /\ Cardinality(arr) \in Nat /\ Cardinality(arr) + 1 <= Limit /\ n \notin arr
        BY <2>0, <2>1, <3>2, <4>2, HitsCounted, LimiterAssumption
      <4>4. IsFiniteSet(arr \cup {n}) /\ Cardinality(arr \cup {n}) = Cardinality(arr) + 1
        BY <4>3, FS_AddElement
      <4>5. L!TypeOK'
        <5>1. hits' \subseteq DOMAIN allowed' /\ Cardinality(hits') <= Limit
          BY <2>0, <2>1, <4>1, <4>2, <4>3, <4>4
        <5> QED BY <2>0, <4>1, <4>2, <5>1, HitCounts DEF L!TypeOK
      <4>6. \A i \in DOMAIN allowed' : now' - allowed'[i] < Window => i \in hits'
        BY <2>1, <4>1, <4>2
      <4>7. ASSUME NEW start \in L!Times PROVE Cardinality(Window0(start, allowed')) <= Limit
        <5>1. start \in Int /\ Window \in Int /\ now \in Int
          BY <2>0, LimiterAssumption DEF L!Times
        <5>2. CASE now \in start .. start + Window - 1
          <6>1. Window0(start, allowed') \subseteq arr \cup {n}
            <7> SUFFICES ASSUME NEW i \in DOMAIN allowed', allowed'[i] \in start .. start + Window - 1, i # n
                         PROVE  i \in arr
              OBVIOUS
            <7>1. i \in DOMAIN allowed /\ allowed[i] \in start .. start + Window - 1
              BY <4>2
            <7> QED BY <2>0, <2>1, <5>1, <5>2, <7>1
          <6>2. Window0(start, allowed') \subseteq DOMAIN allowed'
            OBVIOUS
          <6> HIDE DEF Window0
          <6>3. Cardinality(Window0(start, allowed')) <= Cardinality(arr \cup {n})
            BY <4>4, <6>1, FS_Subset
          <6>4. Cardinality(Window0(start, allowed')) \in Nat
            BY <4>2, <6>2, HitsCounted
          <6> QED BY <4>3, <4>4, <6>3, <6>4, LimiterAssumption
        <5>3. CASE now \notin start .. start + Window - 1
          <6>1. Window0(start, allowed') = Window0(start, allowed)
            BY <4>2, <5>3
          <6> QED BY <6>1, HitCounts DEF HitsInv, L!WindowBound
        <5> QED BY <5>2, <5>3
      <4>8. L!WindowBound'
        BY <4>7, HitCounts DEF L!WindowBound, L!Times
      <4> QED BY <4>5, <4>6, <4>8 DEF HitsInv
    <3> QED BY <3>1, <3>2
  <2>3. CASE L!Tick
    <3>1. now' = now + 1 /\ now < MaxNow /\ hits' = hits /\ allowed' = allowed
      BY <2>3 DEF L!Tick
    <3>2. L!TypeOK'
      BY <2>0, <3>1, LimiterAssumption DEF L!TypeOK, L!Times
    <3>3. L!WindowBound'
      BY <3>1 DEF HitsInv, L!WindowBound
    <3>4. \A i \in DOMAIN allowed : now' - allowed[i] < Window => now - allowed[i] < Window
      BY <2>0, <3>1, LimiterAssumption
    <3> QED BY <3>1, <3>2, <3>3, <3>4 DEF HitsInv
  <2>4. CASE L!Restart
    <3>1. hits' = {} /\ allowed' = <<>> /\ DOMAIN allowed' = {} /\ now' = now
      BY <2>4 DEF L!Restart
    <3>2. Cardinality({}) = 0
      BY FS_EmptySet
    <3>3. L!TypeOK'
      BY <2>0, <3>1, <3>2, HitCounts, LimiterAssumption DEF L!TypeOK
    <3>4. \A start \in L!Times : {i \in DOMAIN allowed' : allowed'[i] \in start .. start + Window - 1} = {}
      BY <3>1
    <3>5. L!WindowBound'
      BY <3>2, <3>4, HitCounts, LimiterAssumption DEF L!WindowBound, L!Times
    <3> QED BY <3>1, <3>3, <3>5 DEF HitsInv
  <2>5. CASE UNCHANGED L!vars
    <3>1. UNCHANGED <<now, hits, allowed>>
      BY <2>5 DEF L!vars
    <3> QED BY <3>1 DEF HitsInv, L!TypeOK, L!WindowBound
  <2> QED BY <2>2, <2>3, <2>4, <2>5 DEF L!Next
<1> QED BY <1>1, <1>2, PTL DEF L!Spec

(* Wherever a window of time is laid, a server process lets at most the limit of *)
(* hits through in it (MemoryLimiter.allow). *)
THEOREM WindowBounded == Accounts => []WindowBound
<1>1. HitsInv => WindowBound
  BY DEF HitsInv, WindowBound
<1> QED BY <1>1, HitsInvariant, PartsRun, PTL

-----------------------------------------------------------------------------
\* A request that has inserted its account but not committed it.
Registering(r) == r.step \in {"held", "stored"}

\* What a request relies on in a table of accounts and one of imported rows.
FitsAccounts(r, accounts, rows) ==
    /\ r.step \notin {"idle", "import", "register", "insert"} => r.user \in Users
    /\ r.step \in {"loaded", "spent", "decide"} => accounts[r.user].status # "absent"
    /\ r.step = "decide" => r.to # "none" /\ (r.to = "active" => accounts[r.user].verified)
    /\ r.step \in {"insert", "held", "stored"} /\ r.row # NULL => rows[r.row] # "absent"

\* The accounts of the address and the imported rows name each other.
ClaimsPaired ==
    /\ \A u \in Users : account[u].status = "absent" => account[u] = R!Absent
    /\ \A u, v \in Users : R!There(u) /\ R!There(v) => u = v
    /\ \A b \in Rows : imported[b] \in Users => account[imported[b]].source = "import"
    /\ \A u \in Users : account[u].source = "import" => \E b \in Rows : imported[b] = u
    /\ \A a, b \in Rows : imported[a] \in Users /\ imported[a] = imported[b] => a = b

\* Who registers does so alone, and before there is an account.
RegisteringAlone ==
    /\ \A v, w \in Workers : Registering(visit[v]) /\ Registering(visit[w]) => v = w
    /\ \A w \in Workers, u \in Users : Registering(visit[w]) => ~R!There(u)

RegInv ==
    /\ R!TypeOK
    /\ ClaimsPaired
    /\ R!ActiveVetted
    /\ RegisteringAlone
    /\ \A w \in Workers : FitsAccounts(visit[w], account, imported)

\* No account goes, no verification is taken back and no imported row vanishes.
Lasting ==
    /\ \A u \in Users : R!There(u) => R!There(u)' /\ (account[u].verified => account'[u].verified)
    /\ \A b \in Rows : imported[b] # "absent" => imported'[b] # "absent"

(* As the tables last and one request becomes another that fits, all stay typed *)
(* and fitting. *)
LEMMA VisitFits ==
    ASSUME RegInv, NEW w \in Workers, NEW r \in R!Request, R!Become(w, r), FitsAccounts(r, account', imported'), Lasting
    PROVE  /\ visit' \in [Workers -> R!Request]
           /\ \A v \in Workers : visit'[v] = IF v = w THEN r ELSE visit[v]
           /\ \A v \in Workers : FitsAccounts(visit'[v], account', imported')
           /\ \A v \in Workers : visit'[v].step \notin {"idle", "import", "register", "insert"} => visit'[v].user \in Users
<1>1. visit \in [Workers -> R!Request]
  BY DEF RegInv, R!TypeOK
<1>2. visit' \in [Workers -> R!Request] /\ \A v \in Workers : visit'[v] = IF v = w THEN r ELSE visit[v]
  BY <1>1 DEF R!Become
<1>3. ASSUME NEW q \in R!Request, FitsAccounts(q, account, imported) PROVE FitsAccounts(q, account', imported')
  <2>1. q.row # NULL => q.row \in Rows
    BY DEF R!Request
  <2> QED BY <1>3, <2>1 DEF FitsAccounts, Lasting, R!There
<1>4. \A v \in Workers : FitsAccounts(visit'[v], account', imported')
  BY <1>1, <1>2, <1>3 DEF RegInv
<1> QED BY <1>2, <1>4 DEF FitsAccounts

(* A step of a request that leaves accounts and imported rows alone: it may come to *)
(* register only when nobody has or does. *)
LEMMA VisitKept ==
    ASSUME RegInv, NEW w \in Workers, NEW r \in R!Request, R!Become(w, r), FitsAccounts(r, account, imported),
           UNCHANGED <<account, imported>>, verify' \in [Users -> {"none", "unused", "used"}],
           Registering(r) => Registering(visit[w]) \/ R!AddressFree(w)
    PROVE  RegInv'
<1>1. /\ visit' \in [Workers -> R!Request]
      /\ \A v \in Workers : visit'[v] = IF v = w THEN r ELSE visit[v]
      /\ \A v \in Workers : FitsAccounts(visit'[v], account', imported')
      /\ \A v \in Workers : visit'[v].step \notin {"idle", "import", "register", "insert"} => visit'[v].user \in Users
  <2>1. Lasting
    BY DEF Lasting, R!There
  <2> QED BY <2>1, VisitFits
<1>2. R!TypeOK'
  BY <1>1 DEF RegInv, R!TypeOK
<1>3. ClaimsPaired' /\ R!ActiveVetted'
  BY DEF RegInv, ClaimsPaired, R!There, R!ActiveVetted
<1>4. RegisteringAlone'
  <2>1. Registering(r) =>
            (\A u \in Users : ~R!There(u)) /\ \A v \in Workers \ {w} : ~Registering(visit[v])
    BY DEF RegInv, RegisteringAlone, R!AddressFree, Registering
  <2>2. \A u \in Users : R!There(u)' <=> R!There(u)
    BY DEF R!There
  <2>3. \A v \in Workers : Registering(visit'[v]) <=> IF v = w THEN Registering(r) ELSE Registering(visit[v])
    BY <1>1
  <2>4. \A v \in Workers : Registering(visit[v])' <=> Registering(visit'[v])
    BY DEF Registering
  <2> HIDE DEF Registering
  <2> QED BY <2>1, <2>2, <2>3, <2>4 DEF RegInv, RegisteringAlone
<1> QED BY <1>1, <1>2, <1>3, <1>4 DEF RegInv

(* A commit that keeps which accounts there are, and where they come from. *)
LEMMA AccountsKept ==
    ASSUME RegInv, NEW w \in Workers, R!Become(w, R!Idle), Lasting, imported' = imported,
           account' \in [Users -> R!Account], verify' = verify, R!ActiveVetted',
           \A u \in Users : /\ R!There(u)' => R!There(u)
                            /\ account'[u].source = account[u].source
                            /\ ~R!There(u) => account'[u] = account[u]
    PROVE  RegInv'
<1>1. R!Idle \in R!Request /\ FitsAccounts(R!Idle, account', imported') /\ ~Registering(R!Idle)
  BY DEF R!Idle, R!Request, R!Steps, FitsAccounts, Registering
<1>2. /\ visit' \in [Workers -> R!Request]
      /\ \A v \in Workers : visit'[v] = IF v = w THEN R!Idle ELSE visit[v]
      /\ \A v \in Workers : FitsAccounts(visit'[v], account', imported')
      /\ \A v \in Workers : visit'[v].step \notin {"idle", "import", "register", "insert"} => visit'[v].user \in Users
  BY <1>1, VisitFits
<1>3. R!TypeOK'
  BY <1>2 DEF RegInv, R!TypeOK
<1>4. ClaimsPaired'
  BY DEF RegInv, ClaimsPaired, R!There, Lasting
<1>5. RegisteringAlone'
  <2>1. \A v \in Workers : Registering(visit[v])' => v # w /\ Registering(visit[v])
    BY <1>1, <1>2 DEF Registering
  <2> QED BY <2>1 DEF RegInv, RegisteringAlone
<1> QED BY <1>2, <1>3, <1>4, <1>5 DEF RegInv

(* It is inductive: the INSERT of an address waits for others of it and fails once *)
(* an account is there, so no row is claimed between its SELECT and its claim.    *)
LEMMA RegistrationInvariant == R!Spec => []RegInv
<1>1. R!Init => RegInv
  <2> SUFFICES ASSUME R!Init PROVE RegInv
    OBVIOUS
  <2>1. R!TypeOK
    BY DEF R!Init, R!TypeOK, R!Absent, R!Account, R!Request, R!Steps, R!Idle
  <2>2. ClaimsPaired /\ R!ActiveVetted
    BY UsersAssumption DEF R!Init, ClaimsPaired, R!ActiveVetted, R!Absent, R!There
  <2>3. RegisteringAlone
    BY DEF R!Init, RegisteringAlone, Registering, R!Idle
  <2>4. \A w \in Workers : FitsAccounts(visit[w], account, imported)
    BY DEF R!Init, FitsAccounts, R!Idle
  <2> QED BY <2>1, <2>2, <2>3, <2>4 DEF RegInv
<1>2. RegInv /\ [R!Next]_(R!vars) => RegInv'
  <2> SUFFICES ASSUME RegInv, [R!Next]_(R!vars) PROVE RegInv'
    OBVIOUS
  <2>0. /\ R!TypeOK /\ R!Idle \in R!Request /\ FitsAccounts(R!Idle, account, imported) /\ ~Registering(R!Idle)
        /\ verify \in [Users -> {"none", "unused", "used"}]
        /\ \A w \in Workers : visit[w] \in R!Request /\ FitsAccounts(visit[w], account, imported)
    BY DEF RegInv, R!TypeOK, R!Idle, R!Request, R!Steps, FitsAccounts, Registering
  <2>1. ASSUME NEW w \in Workers, R!ImportRead(w) PROVE RegInv'
    <3> DEFINE r == [R!Idle EXCEPT !.step = "import"]
    <3>1. r \in R!Request /\ FitsAccounts(r, account, imported) /\ ~Registering(r)
      BY <2>0, <2>1, UsersAssumption DEF R!ImportRead, R!Request, R!Steps, R!Idle, FitsAccounts, Registering
    <3>2. R!Become(w, r) /\ UNCHANGED <<account, imported, verify>>
      BY <2>1 DEF R!ImportRead
    <3> HIDE DEF r
    <3> QED BY <2>0, <3>1, <3>2, VisitKept
  <2>2. ASSUME NEW w \in Workers, R!CommitImport(w) PROVE RegInv'
    <3>1. PICK b \in Rows \ R!Imported : imported' = [imported EXCEPT ![b] = NULL]
      BY <2>2 DEF R!CommitImport
    <3>2. R!Become(w, R!Idle) /\ account' = account /\ verify' = verify
      BY <2>2 DEF R!CommitImport
    <3>3. /\ imported[b] = "absent" /\ imported' \in [Rows -> Users \cup {"absent", NULL}]
          /\ \A c \in Rows : imported'[c] = IF c = b THEN NULL ELSE imported[c]
      BY <2>0, <3>1 DEF R!TypeOK, R!Imported
    <3>4. Lasting
      BY <3>2, <3>3, UsersAssumption DEF Lasting, R!There
    <3>5. FitsAccounts(R!Idle, account', imported')
      BY DEF FitsAccounts, R!Idle
    <3>6. /\ visit' \in [Workers -> R!Request]
          /\ \A v \in Workers : visit'[v] = IF v = w THEN R!Idle ELSE visit[v]
          /\ \A v \in Workers : FitsAccounts(visit'[v], account', imported')
          /\ \A v \in Workers : visit'[v].step \notin {"idle", "import", "register", "insert"} => visit'[v].user \in Users
      BY <2>0, <3>2, <3>4, <3>5, VisitFits
    <3>7. R!TypeOK'
      BY <2>0, <3>2, <3>3, <3>6 DEF R!TypeOK
    <3>8. ClaimsPaired' /\ R!ActiveVetted'
      BY <3>2, <3>3, UsersAssumption DEF RegInv, ClaimsPaired, R!There, R!ActiveVetted
    <3>9. RegisteringAlone'
      <4>1. \A v \in Workers : Registering(visit[v])' => v # w /\ Registering(visit[v])
        BY <2>0, <3>6 DEF Registering
      <4> QED BY <3>2, <4>1 DEF RegInv, RegisteringAlone, R!There
    <3> QED BY <3>6, <3>7, <3>8, <3>9 DEF RegInv
  <2>3. ASSUME NEW w \in Workers, R!RegisterRead(w) PROVE RegInv'
    <3> DEFINE r == [R!Idle EXCEPT !.step = "register"]
    <3>1. r \in R!Request /\ FitsAccounts(r, account, imported) /\ ~Registering(r)
      BY <2>0, <2>3, UsersAssumption DEF R!RegisterRead, R!Request, R!Steps, R!Idle, FitsAccounts, Registering
    <3>2. R!Become(w, r) /\ UNCHANGED <<account, imported, verify>>
      BY <2>3 DEF R!RegisterRead
    <3> HIDE DEF r
    <3> QED BY <2>0, <3>1, <3>2, VisitKept
  <2>4. ASSUME NEW w \in Workers, R!SelectImported(w) PROVE RegInv'
    <3>1. PICK b \in R!OneOrNone(R!Unclaimed) : R!Become(w, [visit[w] EXCEPT !.step = "insert", !.row = b])
      BY <2>4 DEF R!SelectImported
    <3> DEFINE r == [visit[w] EXCEPT !.step = "insert", !.row = b]
    <3>2. b \in Rows \cup {NULL} /\ (b # NULL => imported[b] # "absent")
      BY UsersAssumption DEF R!OneOrNone, R!Unclaimed
    <3>3. r \in R!Request /\ r.step = "insert" /\ r.row = b
      BY <2>0, <3>2 DEF R!Request, R!Steps
    <3>4. R!Become(w, r) /\ UNCHANGED <<account, imported, verify>>
      BY <2>4, <3>1 DEF R!SelectImported
    <3> HIDE DEF r
    <3>5. FitsAccounts(r, account, imported) /\ ~Registering(r)
      BY <3>2, <3>3 DEF FitsAccounts, Registering
    <3> QED BY <2>0, <3>3, <3>4, <3>5, VisitKept
  <2>5. ASSUME NEW w \in Workers, R!InsertAccount(w) PROVE RegInv'
    <3>1. PICK u \in Users : R!Become(w, [visit[w] EXCEPT !.step = "held", !.user = u])
      BY <2>5 DEF R!InsertAccount
    <3> DEFINE r == [visit[w] EXCEPT !.step = "held", !.user = u]
    <3>2. visit[w].step = "insert" /\ R!AddressFree(w) /\ UNCHANGED <<account, imported, verify>>
      BY <2>5 DEF R!InsertAccount
    <3>3. r \in R!Request /\ r.step = "held" /\ r.user = u /\ r.row = visit[w].row
      BY <2>0 DEF R!Request, R!Steps
    <3> HIDE DEF r
    <3>4. FitsAccounts(r, account, imported)
      BY <2>0, <3>2, <3>3 DEF FitsAccounts
    <3> QED BY <2>0, <3>1, <3>2, <3>3, <3>4, VisitKept DEF r
  <2>6. ASSUME NEW w \in Workers, R!StoreVerify(w) PROVE RegInv'
    <3> DEFINE r == [visit[w] EXCEPT !.step = "stored"]
    <3>1. /\ visit[w].step = "held" /\ R!Become(w, r) /\ UNCHANGED <<account, imported>>
          /\ verify' = [verify EXCEPT ![visit[w].user] = "unused"]
      BY <2>6 DEF R!StoreVerify
    <3>2. r \in R!Request /\ r.step = "stored" /\ r.user = visit[w].user /\ r.row = visit[w].row
      BY <2>0 DEF R!Request, R!Steps
    <3> HIDE DEF r
    <3>3. FitsAccounts(r, account, imported) /\ Registering(visit[w])
      BY <2>0, <3>1, <3>2 DEF FitsAccounts, Registering
    <3>4. verify' \in [Users -> {"none", "unused", "used"}]
      BY <2>0, <3>1
    <3> QED BY <3>1, <3>2, <3>3, <3>4, VisitKept
  <2>7. ASSUME NEW w \in Workers, R!CommitRegister(w) PROVE RegInv'
    <3> DEFINE r == visit[w]
    <3> DEFINE new == [status |-> IF r.row # NULL \/ ~Approval THEN "active" ELSE "pending",
                       source |-> IF r.row # NULL THEN "import" ELSE "website", verified |-> FALSE]
    <3>1. /\ r \in R!Request /\ FitsAccounts(r, account, imported) /\ r.step = "stored"
          /\ account' = [account EXCEPT ![r.user] = new] /\ imported' = R!Claim(r)
          /\ R!Become(w, R!Idle) /\ verify' = verify
      BY <2>0, <2>7 DEF R!CommitRegister
    <3>2. r.user \in Users /\ r.row \in Rows \cup {NULL} /\ (r.row # NULL => imported[r.row] # "absent")
      BY <3>1 DEF FitsAccounts, R!Request
    <3>3. /\ \A u \in Users : ~R!There(u)
          /\ \A v \in Workers \ {w} : ~Registering(visit[v])
      BY <3>1 DEF RegInv, RegisteringAlone, Registering
    <3>4. /\ new \in R!Account /\ new.status # "absent" /\ (new.source = "import" <=> r.row # NULL)
          /\ (new.status = "active" /\ Approval => new.source = "import")
      BY DEF R!Account
    <3> HIDE DEF r, new
    <3>5. /\ account' \in [Users -> R!Account]
          /\ \A u \in Users : account'[u] = IF u = r.user THEN new ELSE account[u]
      BY <2>0, <3>1, <3>4 DEF R!TypeOK
    <3>6. \A u \in Users : account[u] = R!Absent
      BY <3>3 DEF RegInv, ClaimsPaired, R!There
    <3>7. \A b \in Rows : imported[b] \notin Users
      BY <3>6 DEF RegInv, ClaimsPaired, R!Absent
    <3>8. /\ imported' \in [Rows -> Users \cup {"absent", NULL}]
          /\ \A b \in Rows : imported'[b] = IF b = r.row THEN r.user ELSE imported[b]
      BY <2>0, <3>1, <3>2, UsersAssumption DEF R!Claim, R!TypeOK
    <3>9. Lasting
      BY <3>2, <3>3, <3>6, <3>8, UsersAssumption DEF Lasting, R!There, R!Absent
    <3>10. FitsAccounts(R!Idle, account', imported')
      BY DEF FitsAccounts, R!Idle
    <3>11. /\ visit' \in [Workers -> R!Request]
           /\ \A v \in Workers : visit'[v] = IF v = w THEN R!Idle ELSE visit[v]
           /\ \A v \in Workers : FitsAccounts(visit'[v], account', imported')
           /\ \A v \in Workers : visit'[v].step \notin {"idle", "import", "register", "insert"} => visit'[v].user \in Users
      BY <2>0, <3>1, <3>9, <3>10, VisitFits
    <3>12. R!TypeOK'
      BY <2>0, <3>1, <3>5, <3>8, <3>11 DEF R!TypeOK
    <3>13. ClaimsPaired'
      <4>1. \A u \in Users : account'[u].status = "absent" => account'[u] = R!Absent
        BY <3>4, <3>5, <3>6
      <4>2. \A u \in Users : account'[u].status # "absent" => u = r.user
        BY <3>3, <3>5 DEF R!There
      <4>3. \A b \in Rows : imported'[b] \in Users => b = r.row /\ imported'[b] = r.user
        BY <3>7, <3>8
      <4>4. \A b \in Rows : imported'[b] \in Users => account'[imported'[b]].source = "import"
        BY <3>2, <3>4, <3>5, <4>3, UsersAssumption
      <4>5. \A u \in Users : account'[u].source = "import" => u = r.user /\ r.row # NULL
        BY <3>4, <3>5, <3>6 DEF R!Absent
      <4>6. \A u \in Users : account'[u].source = "import" => \E b \in Rows : imported'[b] = u
        BY <3>2, <3>8, <4>5
      <4> QED BY <4>1, <4>2, <4>3, <4>4, <4>6 DEF ClaimsPaired, R!There
    <3>14. R!ActiveVetted'
      BY <3>4, <3>5 DEF RegInv, R!ActiveVetted
    <3>15. RegisteringAlone'
      <4>1. \A v \in Workers : ~Registering(visit[v])'
        BY <2>0, <3>3, <3>11 DEF Registering
      <4> QED BY <4>1 DEF RegisteringAlone
    <3> QED BY <3>11, <3>12, <3>13, <3>14, <3>15 DEF RegInv
  <2>8. ASSUME NEW w \in Workers, NEW u \in Users, R!VerifyLookup(w, u) PROVE RegInv'
    <3> DEFINE r == [R!Idle EXCEPT !.step = "looked", !.user = u]
    <3>1. r \in R!Request /\ FitsAccounts(r, account, imported) /\ ~Registering(r)
      BY <2>0, <2>8, UsersAssumption DEF R!VerifyLookup, R!Request, R!Steps, R!Idle, FitsAccounts, Registering
    <3>2. R!Become(w, r) /\ UNCHANGED <<account, imported, verify>>
      BY <2>8 DEF R!VerifyLookup
    <3> HIDE DEF r
    <3> QED BY <2>0, <3>1, <3>2, VisitKept
  <2>9. ASSUME NEW w \in Workers, R!VerifyLoad(w) PROVE RegInv'
    <3> DEFINE r == [visit[w] EXCEPT !.step = "loaded"]
    <3>1. /\ visit[w].step = "looked" /\ UNCHANGED <<account, imported, verify>>
          /\ R!Become(w, R!Idle) \/ (R!Become(w, r) /\ R!There(visit[w].user))
      BY <2>9 DEF R!VerifyLoad
    <3>2. r \in R!Request /\ r.step = "loaded" /\ r.user = visit[w].user
      BY <2>0 DEF R!Request, R!Steps
    <3> HIDE DEF r
    <3>3. R!There(visit[w].user) => FitsAccounts(r, account, imported) /\ ~Registering(r)
      BY <2>0, <3>1, <3>2 DEF FitsAccounts, R!There, Registering
    <3> QED BY <2>0, <3>1, <3>2, <3>3, VisitKept
  <2>10. ASSUME NEW w \in Workers, R!SpendVerify(w) PROVE RegInv'
    <3> DEFINE r == [visit[w] EXCEPT !.step = "spent"]
    <3>1. /\ visit[w].step = "loaded" /\ R!Become(w, r) /\ UNCHANGED <<account, imported>>
          /\ verify' = [verify EXCEPT ![visit[w].user] = "used"]
      BY <2>10 DEF R!SpendVerify
    <3>2. r \in R!Request /\ r.step = "spent" /\ r.user = visit[w].user
      BY <2>0 DEF R!Request, R!Steps
    <3> HIDE DEF r
    <3>3. FitsAccounts(r, account, imported) /\ ~Registering(r)
      BY <2>0, <3>1, <3>2 DEF FitsAccounts, Registering
    <3>4. verify' \in [Users -> {"none", "unused", "used"}]
      BY <2>0, <3>1
    <3> QED BY <3>1, <3>2, <3>3, <3>4, VisitKept
  <2>11. ASSUME NEW w \in Workers, R!CommitVerify(w) PROVE RegInv'
    <3> DEFINE u == visit[w].user
    <3>1. /\ u \in Users /\ R!There(u) /\ account' = [account EXCEPT ![u].verified = TRUE]
          /\ R!Become(w, R!Idle) /\ UNCHANGED <<imported, verify>>
      BY <2>0, <2>11 DEF R!CommitVerify, FitsAccounts, R!There
    <3> HIDE DEF u
    <3> DEFINE now0 == [account[u] EXCEPT !.verified = TRUE]
    <3>2. account[u] \in R!Account
      BY <2>0, <3>1 DEF R!TypeOK
    <3>3. now0 \in R!Account /\ now0.verified /\ now0.status = account[u].status /\ now0.source = account[u].source
      BY <3>2 DEF R!Account
    <3>4. account' = [account EXCEPT ![u] = now0]
      BY <2>0, <3>1 DEF R!TypeOK
    <3> HIDE DEF now0
    <3>5. /\ account' \in [Users -> R!Account]
          /\ \A v \in Users : account'[v] = IF v = u THEN now0 ELSE account[v]
      BY <2>0, <3>3, <3>4 DEF R!TypeOK
    <3>6. Lasting
      BY <3>1, <3>3, <3>5 DEF Lasting, R!There
    <3>7. R!ActiveVetted'
      BY <3>3, <3>5 DEF RegInv, R!ActiveVetted
    <3> QED BY <3>1, <3>3, <3>5, <3>6, <3>7, AccountsKept DEF R!There
  <2>12. ASSUME NEW w \in Workers, NEW u \in Users, R!DecideRead(w, u) PROVE RegInv'
    <3>1. PICK to \in {"active", "rejected", "suspended"} :
              /\ to = "active" => R!MayBeApproved(u)
              /\ R!Become(w, [R!Idle EXCEPT !.step = "decide", !.user = u, !.to = to])
      BY <2>12 DEF R!DecideRead
    <3> DEFINE r == [R!Idle EXCEPT !.step = "decide", !.user = u, !.to = to]
    <3>2. r \in R!Request /\ r.step = "decide" /\ r.user = u /\ r.to = to
      BY DEF R!Request, R!Steps, R!Idle
    <3>3. R!There(u) /\ R!Become(w, r) /\ UNCHANGED <<account, imported, verify>>
      BY <2>12, <3>1 DEF R!DecideRead
    <3> HIDE DEF r
    <3>4. FitsAccounts(r, account, imported) /\ ~Registering(r)
      BY <3>1, <3>2, <3>3 DEF FitsAccounts, Registering, R!There, R!MayBeApproved
    <3> QED BY <2>0, <3>2, <3>3, <3>4, VisitKept
  <2>13. ASSUME NEW w \in Workers, R!CommitDecision(w) PROVE RegInv'
    <3> DEFINE u == visit[w].user
    <3> DEFINE to == visit[w].to
    <3>1. /\ u \in Users /\ R!There(u) /\ account' = [account EXCEPT ![u].status = to]
          /\ to \in {"active", "rejected", "suspended"} /\ (to = "active" => account[u].verified)
          /\ R!Become(w, R!Idle) /\ UNCHANGED <<imported, verify>>
      BY <2>0, <2>13 DEF R!CommitDecision, FitsAccounts, R!There, R!Request
    <3> HIDE DEF u, to
    <3> DEFINE now0 == [account[u] EXCEPT !.status = to]
    <3>2. account[u] \in R!Account
      BY <2>0, <3>1 DEF R!TypeOK
    <3>3. now0 \in R!Account /\ now0.verified = account[u].verified /\ now0.status = to /\ now0.source = account[u].source
      BY <3>1, <3>2 DEF R!Account
    <3>4. account' = [account EXCEPT ![u] = now0]
      BY <2>0, <3>1 DEF R!TypeOK
    <3> HIDE DEF now0
    <3>5. /\ account' \in [Users -> R!Account]
          /\ \A v \in Users : account'[v] = IF v = u THEN now0 ELSE account[v]
      BY <2>0, <3>3, <3>4 DEF R!TypeOK
    <3>6. Lasting
      BY <3>1, <3>3, <3>5 DEF Lasting, R!There
    <3>7. R!ActiveVetted'
      BY <3>1, <3>3, <3>5 DEF RegInv, R!ActiveVetted
    <3> QED BY <3>1, <3>3, <3>5, <3>6, <3>7, AccountsKept DEF R!There
  <2>14. ASSUME NEW u \in Users, R!VerifyLost(u) PROVE RegInv'
    <3>1. verify' = [verify EXCEPT ![u] = "used"] /\ UNCHANGED <<account, imported, visit>>
      BY <2>14 DEF R!VerifyLost
    <3>2. R!TypeOK'
      BY <2>0, <3>1 DEF R!TypeOK
    <3> QED BY <3>1, <3>2 DEF RegInv, ClaimsPaired, R!ActiveVetted, RegisteringAlone, FitsAccounts, R!There, Registering
  <2>15. ASSUME NEW w \in Workers, R!Abort(w) PROVE RegInv'
    BY <2>0, <2>15, VisitKept DEF R!Abort
  <2>16. CASE UNCHANGED R!vars
    <3>1. UNCHANGED <<account, imported, verify, visit>>
      BY <2>16 DEF R!vars
    <3> QED BY <3>1 DEF RegInv, R!TypeOK, ClaimsPaired, R!ActiveVetted, RegisteringAlone, FitsAccounts, R!There, Registering
  <2> QED BY <2>1, <2>2, <2>3, <2>4, <2>5, <2>6, <2>7, <2>8, <2>9, <2>10, <2>11, <2>12, <2>13, <2>14, <2>15, <2>16
          DEF R!Next, R!Join, R!Vet
<1> QED BY <1>1, <1>2, PTL DEF R!Spec

(* Tables that name each other do so one to one. *)
LEMMA PairedMatch == ASSUME R!TypeOK, ClaimsPaired PROVE R!ClaimsMatch
<1>0. Cardinality({}) = 0
  BY FS_EmptySet
<1>1. Cardinality({u \in Users : R!There(u)}) <= 1
  <2>1. CASE \E u \in Users : R!There(u)
    <3>1. PICK u \in Users : R!There(u)
      BY <2>1
    <3>2. {v \in Users : R!There(v)} = {u}
      BY <3>1 DEF ClaimsPaired
    <3>3. Cardinality({u}) = 1
      BY FS_Singleton
    <3> QED BY <3>2, <3>3
  <2>2. CASE ~\E u \in Users : R!There(u)
    <3>1. {v \in Users : R!There(v)} = {}
      BY <2>2
    <3> QED BY <1>0, <3>1
  <2> QED BY <2>1, <2>2
<1>2. ASSUME NEW u \in Users
      PROVE  Cardinality({b \in Rows : imported[b] = u}) = IF account[u].source = "import" THEN 1 ELSE 0
  <2>1. CASE account[u].source = "import"
    <3>1. PICK b \in Rows : imported[b] = u
      BY <2>1 DEF ClaimsPaired
    <3>2. {c \in Rows : imported[c] = u} = {b}
      BY <3>1 DEF ClaimsPaired
    <3>3. Cardinality({b}) = 1
      BY FS_Singleton
    <3> QED BY <2>1, <3>2, <3>3
  <2>2. CASE account[u].source # "import"
    <3>1. {c \in Rows : imported[c] = u} = {}
      BY <2>2 DEF ClaimsPaired
    <3> QED BY <1>0, <2>2, <3>1
  <2> QED BY <2>1, <2>2
<1> QED BY <1>1, <1>2, AccountCounts DEF R!ClaimsMatch

(* However registrations of one address race with each other and with imports, one *)
(* account comes of them at most, and it and the row it claims name each other     *)
(* (register_user, commit_import). *)
THEOREM OneAccountPerAddress == Accounts => []ClaimsMatch
<1>1. RegInv => ClaimsMatch
  BY PairedMatch DEF RegInv, ClaimsMatch
<1> QED BY <1>1, RegistrationInvariant, PartsRun, PTL

(* A buyer whom nobody imported is active only with a verified e-mail               *)
(* (consume_verify_email, approve_user). *)
THEOREM ActiveIsVetted == Accounts => []ActiveVetted
<1>1. RegInv => ActiveVetted
  BY DEF RegInv, ActiveVetted
<1> QED BY <1>1, RegistrationInvariant, PartsRun, PTL

(* The rows, the keys, the list of hits and the requests keep their types, and     *)
(* what a request carries fits its step. *)
THEOREM AccountsTyping == Accounts => []PartsTyped
<1>1. TypeOK /\ RegInv /\ HitsInv => PartsTyped
  BY DEF PartsTyped, RegInv, HitsInv
<1> QED BY <1>1, CredentialsTyping, RegistrationInvariant, HitsInvariant, PartsRun, PTL
=============================================================================
