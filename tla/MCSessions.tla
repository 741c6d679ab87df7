----------------------------- MODULE MCSessions -----------------------------
(***************************************************************************)
(* Sessions on a small instance.  A behaviour stays in one of three        *)
(* corners: the families of a user nobody decides on, the decisions about  *)
(* a user with two tokens, the versions of a user with one.                *)
(***************************************************************************)
EXTENDS Sessions, TLC

VARIABLE corner \* the one this behaviour stays in

Bumping(w) == request[w].step \in BumpSteps

\* Three tokens, and nothing that counts the version up.
Families == version = 1 /\ \A w \in Workers : ~Bumping(w)

\* Two tokens, entries and rotations against one round of decisions and resets.
Users ==
    /\ Cardinality(Issued) <= 2 /\ version <= 2
    /\ \A w \in Workers : /\ Bumping(w) => request[w].version = 1
                         /\ request[w].step \notin {"load", "miss", "authed"}

\* One token, and bumps up to MaxVersion with the key lost at any time.
OneToken == Cardinality(Issued) <= 1

\* The families do not depend on the key being lost.
KeyKept == cache # NULL => cache' # NULL

Corner ==
    \/ corner = "families" /\ Families
    \/ corner = "users" /\ Users
    \/ corner = "versions" /\ OneToken

Begin == Init /\ corner \in {"families", "users", "versions"}

Within ==
    /\ Next /\ UNCHANGED corner /\ Corner'
    /\ corner = "families" => KeyKept

Corners == Begin /\ [][Within]_<<vars, corner>>

\* Which request runs where does not matter; tokens are interchangeable too.
Symmetry == Permutations(Workers) \cup Permutations(Tokens)
=============================================================================
