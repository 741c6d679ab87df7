----------------------------- MODULE Credentials -----------------------------
(***************************************************************************)
(* What lets one user in: the password with its reset tokens               *)
(* (services/auth.py) and the second factor with its recovery codes        *)
(* (services/totp.py).                                                     *)
(*                                                                         *)
(* A request runs in one of Workers, one action per SELECT or key-value    *)
(* call and one for the commit.  An UPDATE that the session flushes before *)
(* its next SELECT holds the row until the commit: here the users row, and *)
(* the row of a recovery code.  The TOTP secret is named by the set of     *)
(* recovery codes handed out with it, {} standing for NULL: every          *)
(* enrolment mints fresh ones.  What a bump does to sessions is the matter *)
(* of Sessions.                                                            *)
(***************************************************************************)
EXTENDS Integers, FiniteSets

CONSTANTS
    Workers,       \* requests in flight at the same time
    Resets,        \* identifiers (jti) reset tokens can get
    Codes,         \* recovery codes that can be minted
    RecoveryCount, \* codes per enrolment, 10 in the code
    MaxVersion,    \* bound on users.token_version
    NULL

ASSUME WorkersAssumption == IsFiniteSet(Workers)
ASSUME VersionAssumption == MaxVersion \in Nat \ {0}
ASSUME NullAssumption == NULL \notin Codes

VARIABLES
    version, \* users.token_version
    secret,  \* users.totp_secret
    code,    \* totp_recovery_codes
    reset,   \* the version a reset token carries, 0 before it is issued
    kv,      \* the key tok:{jti}
    spent,   \* how often a reset token was marked used (history)
    changed, \* how often one set a password (history)
    signins, \* how many sign-ins a recovery code let in (history)
    request  \* what each worker has read so far

vars == <<version, secret, code, reset, kv, spent, changed, signins, request>>

Versions == 1 .. MaxVersion
CodeStates == {"unminted", "unused", "used", "deleted"}
KeyStates == {"none", "unused", "used"}
Steps == {"idle", "issue", "looked", "loaded", "bump", "factor", "flush", "proven", "held"}
Ops == {"none", "issue", "reset", "password", "login", "confirm", "disable"}
Request == [step : Steps, op : Ops, token : Resets \cup {NULL}, code : Codes \cup {NULL},
            version : Versions, rows : SUBSET Codes]
Idle == [step |-> "idle", op |-> "none", token |-> NULL, code |-> NULL, version |-> 1, rows |-> {}]

\* What a request carries fits its step.
Sound(r) ==
    /\ r.op \in {"issue", "reset"} => r.token \in Resets
    /\ r.step \in {"factor", "flush"} => r.code \in Codes
    /\ r.op \in {"reset", "password"} => r.version < MaxVersion

TypeOK ==
    /\ version \in Versions
    /\ secret \in SUBSET Codes
    /\ code \in [Codes -> CodeStates]
    /\ reset \in [Resets -> 0 .. MaxVersion] /\ kv \in [Resets -> KeyStates]
    /\ spent \in [Resets -> Nat] /\ changed \in [Resets -> Nat] /\ signins \in [Codes -> Nat]
    /\ request \in [Workers -> Request]
    /\ \A w \in Workers : Sound(request[w])

Init ==
    /\ version = 1 /\ secret = {}
    /\ code = [c \in Codes |-> "unminted"]
    /\ reset = [t \in Resets |-> 0] /\ kv = [t \in Resets |-> "none"]
    /\ spent = [t \in Resets |-> 0] /\ changed = [t \in Resets |-> 0]
    /\ signins = [c \in Codes |-> 0]
    /\ request = [w \in Workers |-> Idle]

-----------------------------------------------------------------------------
Existing == {c \in Codes : code[c] \in {"unused", "used"}}
Issued(t) == reset[t] # 0

\* Mutant: the SELECT of the codes runs before the UPDATE of the user.
NobodyWaits(w) == TRUE

\* No other request has flushed an UPDATE of the users row and not committed.
UserRowFree(w) == \A v \in Workers \ {w} : request[v].step # "held"

\* The same of the row of a recovery code.
CodeRowFree(w, c) == \A v \in Workers \ {w} : request[v].code = c => request[v].step \notin {"proven", "held"}

Become(w, r) == request' = [request EXCEPT ![w] = r]

-----------------------------------------------------------------------------
\* issue_reset_token: the user, whose version goes into the JWT ...
ForgotRead(w, t) ==
    /\ request[w].step = "idle" /\ ~Issued(t)
    /\ Become(w, [Idle EXCEPT !.step = "issue", !.op = "issue", !.token = t, !.version = version])
    /\ UNCHANGED <<version, secret, code, reset, kv, spent, changed, signins>>

\* ... and its jti is stored unused, before the mail goes out.
StoreToken(w) ==
    LET t == request[w].token IN
    /\ request[w].step = "issue" /\ ~Issued(t)
    /\ reset' = [reset EXCEPT ![t] = request[w].version]
    /\ kv' = [kv EXCEPT ![t] = "unused"]
    /\ Become(w, Idle)
    /\ UNCHANGED <<version, secret, code, spent, changed, signins>>

\* consume_reset: the jti must be unused ...
ResetLookup(w, t) ==
    /\ request[w].step = "idle" /\ kv[t] = "unused" /\ version < MaxVersion
    /\ Become(w, [Idle EXCEPT !.step = "looked", !.op = "reset", !.token = t])
    /\ UNCHANGED <<version, secret, code, reset, kv, spent, changed, signins>>

\* ... the JWT's ver that of the user ...
ResetLoad(w) ==
    /\ request[w].step = "looked"
    /\ Become(w, IF reset[request[w].token] = version /\ version < MaxVersion
                   THEN [request[w] EXCEPT !.step = "loaded", !.version = version]
                   ELSE Idle)
    /\ UNCHANGED <<version, secret, code, reset, kv, spent, changed, signins>>

\* Mutant: the jti is left as it was.
StillUnused == "unused"

\* Mutant: the state is misspelt.
MarkSpent == "spent"

\* kv.setex(..., "used")
MarkUsed == "used"

\* ... and the jti is marked used before anything is committed.
SpendToken(w) ==
    LET t == request[w].token IN
    /\ request[w].step = "loaded"
    /\ kv' = [kv EXCEPT ![t] = MarkUsed]
    /\ spent' = [spent EXCEPT ![t] = @ + 1]
    /\ Become(w, [request[w] EXCEPT !.step = "bump"])
    /\ UNCHANGED <<version, secret, code, reset, changed, signins>>

\* change_password goes by the user loaded for the authentication.
PasswordRead(w) ==
    /\ request[w].step = "idle" /\ version < MaxVersion
    /\ Become(w, [Idle EXCEPT !.step = "bump", !.op = "password", !.version = version])
    /\ UNCHANGED <<version, secret, code, reset, kv, spent, changed, signins>>

\* Both: the SELECT of the user's sessions flushes the new hash and version ...
HoldForPassword(w) ==
    /\ request[w].step = "bump" /\ UserRowFree(w)
    /\ Become(w, [request[w] EXCEPT !.step = "held"])
    /\ UNCHANGED <<version, secret, code, reset, kv, spent, changed, signins>>

\* ... and the commit makes them so.
CommitPassword(w) ==
    /\ request[w].step = "held" /\ request[w].op \in {"reset", "password"}
    /\ version' = request[w].version + 1
    /\ changed' = IF request[w].op = "reset" THEN [changed EXCEPT ![request[w].token] = @ + 1] ELSE changed
    /\ Become(w, Idle)
    /\ UNCHANGED <<secret, code, reset, kv, spent, signins>>

-----------------------------------------------------------------------------
\* login_user reads the user.  Without a secret no factor is asked for; with one
\* it is a valid TOTP code, or a recovery code that is looked up next.
LoginRead(w) ==
    /\ request[w].step = "idle"
    /\ \/ Become(w, [Idle EXCEPT !.step = "proven", !.op = "login"])
       \/ /\ secret # {}
          /\ \E c \in Codes : Become(w, [Idle EXCEPT !.step = "factor", !.op = "login", !.code = c])
    /\ UNCHANGED <<version, secret, code, reset, kv, spent, changed, signins>>

\* disable_totp asks for the factor as well, if there is one to disable.
DisableRead(w) ==
    /\ request[w].step = "idle" /\ secret # {}
    /\ \/ Become(w, [Idle EXCEPT !.step = "proven", !.op = "disable"])
       \/ \E c \in Codes : Become(w, [Idle EXCEPT !.step = "factor", !.op = "disable", !.code = c])
    /\ UNCHANGED <<version, secret, code, reset, kv, spent, changed, signins>>

\* Mutant: used_at is not looked at.
AnyRow(c) == c \in Existing

\* The row of this hash whose used_at is NULL.
Usable(c) == code[c] = "unused"

\* verify_user_factor: the row of the recovery code ...
SelectCode(w) ==
    /\ request[w].step = "factor"
    /\ Become(w, IF Usable(request[w].code) THEN [request[w] EXCEPT !.step = "flush"] ELSE Idle)
    /\ UNCHANGED <<version, secret, code, reset, kv, spent, changed, signins>>

\* ... and the flush of its used_at, which fails when the row is gone.
FlushCode(w) ==
    LET c == request[w].code IN
    /\ request[w].step = "flush" /\ CodeRowFree(w, c)
    /\ Become(w, IF c \in Existing THEN [request[w] EXCEPT !.step = "proven"] ELSE Idle)
    /\ UNCHANGED <<version, secret, code, reset, kv, spent, changed, signins>>

\* The sign-in is committed: last_login_at, and the code used up.
CommitLogin(w) ==
    LET c == request[w].code IN
    /\ request[w].step = "proven" /\ request[w].op = "login" /\ UserRowFree(w)
    /\ IF c = NULL
         THEN UNCHANGED <<code, signins>>
         ELSE /\ code' = [code EXCEPT ![c] = "used"]
              /\ signins' = [signins EXCEPT ![c] = @ + 1]
    /\ Become(w, Idle)
    /\ UNCHANGED <<version, secret, reset, kv, spent, changed>>

-----------------------------------------------------------------------------
\* confirm_enroll: the password and a code of the new secret are good.
ConfirmRead(w) ==
    /\ request[w].step = "idle"
    /\ Become(w, [Idle EXCEPT !.step = "proven", !.op = "confirm"])
    /\ UNCHANGED <<version, secret, code, reset, kv, spent, changed, signins>>

\* confirm_enroll and disable_totp: the new totp_secret is flushed by the SELECT
\* of the codes there are.
HoldForCodes(w) ==
    /\ request[w].step = "proven" /\ request[w].op \in {"confirm", "disable"} /\ UserRowFree(w)
    /\ Become(w, [request[w] EXCEPT !.step = "held", !.rows = Existing])
    /\ UNCHANGED <<version, secret, code, reset, kv, spent, changed, signins>>

\* The DELETE of the rows read.
WithoutOld(w) == [c \in Codes |-> IF c \in request[w].rows THEN "deleted" ELSE code[c]]

\* Their commits: the old codes are deleted, an enrolment mints its own.
CommitEnrolment(w) ==
    LET r == request[w] IN
    /\ r.step = "held" /\ r.op = "confirm" /\ \A c \in r.rows : CodeRowFree(w, c)
    /\ \E minted \in SUBSET {c \in Codes : code[c] = "unminted"} :
        /\ Cardinality(minted) = RecoveryCount
        /\ code' = [c \in Codes |-> IF c \in minted THEN "unused" ELSE WithoutOld(w)[c]]
        /\ secret' = minted
    /\ Become(w, Idle)
    /\ UNCHANGED <<version, reset, kv, spent, changed, signins>>

CommitDisable(w) ==
    LET r == request[w] IN
    /\ r.step = "held" /\ r.op = "disable" /\ \A c \in r.rows : CodeRowFree(w, c)
    /\ code' = WithoutOld(w)
    /\ secret' = {}
    /\ Become(w, Idle)
    /\ UNCHANGED <<version, reset, kv, spent, changed, signins>>

-----------------------------------------------------------------------------
\* The key expires together with the JWT (30 minutes), or Redis loses it.
KeyLost(t) ==
    /\ kv[t] # "none"
    /\ kv' = [kv EXCEPT ![t] = "none"]
    /\ UNCHANGED <<version, secret, code, reset, spent, changed, signins, request>>

\* The process dies, a check fails, or the database breaks a tie between a
\* sign-in that holds a code and waits for the user and a request the other way round.
Abort(w) ==
    /\ request[w].step # "idle"
    /\ Become(w, Idle)
    /\ UNCHANGED <<version, secret, code, reset, kv, spent, changed, signins>>

Password(w) ==
    \/ \E t \in Resets : ForgotRead(w, t) \/ ResetLookup(w, t)
    \/ StoreToken(w) \/ ResetLoad(w) \/ SpendToken(w)
    \/ PasswordRead(w) \/ HoldForPassword(w) \/ CommitPassword(w)

SecondFactor(w) ==
    \/ LoginRead(w) \/ DisableRead(w) \/ SelectCode(w) \/ FlushCode(w) \/ CommitLogin(w)
    \/ ConfirmRead(w) \/ HoldForCodes(w) \/ CommitEnrolment(w) \/ CommitDisable(w)

Next ==
    \/ \E w \in Workers : Password(w) \/ SecondFactor(w) \/ Abort(w)
    \/ \E t \in Resets : KeyLost(t)

Spec == Init /\ [][Next]_vars

-----------------------------------------------------------------------------
(* A reset token is good for one try per request in flight, and for none *)
(* after that, even if every try dies before its commit and leaves the version *)
(* the token carries in force (consume_reset marks the jti before it commits). *)
ResetTriesBound == \A t \in Resets : spent[t] <= Cardinality(Workers)

(* DESIGN 779: a reset token is single-use.  Two uses at once both find it *)
(* unused, and both set a password (consume_reset). *)
ResetSingleUse == \A t \in Resets : changed[t] <= 1

(* A recovery code lets in as many sign-ins as were in flight when it was first *)
(* used, and none later: used_at is looked up, and held, but not tested again *)
(* by the UPDATE (verify_user_factor). *)
CodeUsesBound == \A c \in Codes : signins[c] <= Cardinality(Workers)

(* Under any interleaving of enrolments, disablings and sign-ins the recovery *)
(* codes that exist are those shown with the secret in force, and none exist *)
(* without a secret: the UPDATE of the user, flushed by the SELECT of the codes, *)
(* makes enrolments wait for each other (confirm_enroll, disable_totp). *)
CodesOfSecret == Existing = secret
=============================================================================
