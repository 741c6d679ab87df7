----------------------------- MODULE SessionBook -----------------------------
(***************************************************************************)
(* What the refresh tokens of one user promise (DESIGN 5.4 and 8.4): a     *)
(* session is a family of tokens of which one can be used, using it puts   *)
(* the next one in its place, and a token that was used or revoked, like a *)
(* family that was closed, is never good again.                            *)
(***************************************************************************)
EXTENDS FiniteSets

CONSTANT Tokens \* identifiers of refresh tokens; a family has that of its first token

VARIABLES
    live, \* by family, the tokens /auth/refresh accepts
    spent \* tokens used or revoked

vars == <<live, spent>>

Known == spent \cup UNION {live[f] : f \in Tokens}

Init ==
    /\ live = [f \in Tokens |-> {}]
    /\ spent = {}

\* A login opens a family with its first token.
Open(f) ==
    /\ f \notin Known
    /\ live' = [live EXCEPT ![f] = {f}]
    /\ UNCHANGED spent

\* A refresh trades the family's token for a new one.
Rotate(f, child) ==
    /\ live[f] # {} /\ child \notin Known
    /\ live' = [live EXCEPT ![f] = {child}]
    /\ spent' = spent \cup live[f]

\* Logout, revocation, password change, suspension, or a token seen twice.
Close(families) ==
    /\ live' = [f \in Tokens |-> IF f \in families THEN {} ELSE live[f]]
    /\ spent' = spent \cup UNION {live[f] : f \in families}

\* A token that is never good: one of a family that was closed before.
Waste(t) ==
    /\ t \notin Known
    /\ spent' = spent \cup {t}
    /\ UNCHANGED live

Next ==
    \/ \E f \in Tokens : Open(f) \/ Waste(f) \/ \E child \in Tokens : Rotate(f, child)
    \/ \E families \in SUBSET Tokens : Close(families)

Spec == Init /\ [][Next]_vars
=============================================================================
