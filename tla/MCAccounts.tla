----------------------------- MODULE MCAccounts -----------------------------
(* Three parts of an account side by side, each on its own: what lets its    *)
(* owner in, how it comes to be, and the limiter that guards both.  They     *)
(* share no state but the users row, of which each has its own columns.      *)
EXTENDS Credentials, TLC

CONSTANTS Users, Rows, Approval, Limit, Window, MaxNow

ASSUME UsersAssumption == NULL \notin Users \cup Rows \cup {"absent"} /\ "absent" \notin Users
ASSUME LimiterAssumption == Limit \in Nat /\ Window \in Nat /\ MaxNow \in Nat

VARIABLES
    part, \* the one that runs
    account, imported, verify, visit,
    now, hits, allowed

R == INSTANCE Registration WITH request <- visit
L == INSTANCE Limiter

credentials == vars
registration == <<account, imported, verify, visit>>
limiter == <<now, hits, allowed>>

Begin ==
    /\ part \in {"credentials", "registration", "limiter"}
    /\ Init /\ R!Init /\ L!Init

Step ==
    \/ part = "credentials" /\ Next /\ UNCHANGED <<part, registration, limiter>>
    \/ part = "registration" /\ R!Next /\ UNCHANGED <<part, credentials, limiter>>
    \/ part = "limiter" /\ L!Next /\ UNCHANGED <<part, credentials, registration>>

Accounts == Begin /\ [][Step]_<<part, credentials, registration, limiter>>

\* Requests and recovery codes are interchangeable.
Symmetry == Permutations(Workers) \cup Permutations(Codes)

(* The type invariants of the parts. *)
PartsTyped == TypeOK /\ R!TypeOK /\ L!TypeOK

(* The properties of Registration: register_user against commit_import, and *)
(* the way to an active account. *)
ClaimsMatch == R!ClaimsMatch
ActiveVetted == R!ActiveVetted

(* The property of Limiter: allow, asked at any times. *)
WindowBound == L!WindowBound
=============================================================================
