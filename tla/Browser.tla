------------------------------- MODULE Browser -------------------------------
(***************************************************************************)
(* The client's calls to the API and their refresh of a stale access token *)
(* (apiFetch and tryRefresh in src/frontend/src/shared/api/client.ts)      *)
(* against the server's rotation of the refresh token (rotate_refresh in   *)
(* services/auth.py).                                                      *)
(*                                                                         *)
(* Several tabs share the cookie jar, each has its own refreshInFlight.    *)
(* A refresh token is known here by whether the server would still rotate  *)
(* it.  The server takes one refresh at a time: Sessions has the race of   *)
(* two.  The access cookie lives as long as its token, and the server      *)
(* accepts a token for a leeway longer: one that expires is not sent, and  *)
(* one that is sent in time is good unless the user's version was raised.  *)
(***************************************************************************)
EXTENDS Integers, FiniteSets

CONSTANTS
    Tabs,
    Calls, \* calls of apiFetch by the pages
    NULL

ASSUME CallsAssumption == IsFiniteSet(Calls)

VARIABLES
    tab,     \* the tab each call is made in: constant
    access,  \* the access cookie in the jar
    jar,     \* the refresh cookie in the jar is the one the server would rotate
    revoked, \* the server has revoked the family
    lost,    \* a refresh got no answer (history)
    call,    \* the calls
    flight   \* the refresh each of them has sent

vars == <<tab, access, jar, revoked, lost, call, flight>>

Cookies == {"good", "stale", "gone"} \* of the user's version, of an older one, expired
Call == [step : {"idle", "sent", "stale", "waiting", "settled"}, cookie : Cookies,
         said : {"none", "ok", "unauthorized", "error"}, retried : BOOLEAN, on : Calls \cup {NULL}]
Flight == [step : {"none", "sent", "rotated", "refused"}, live : BOOLEAN, access : {"good", "stale"}]
Landed == [step |-> "none", live |-> FALSE, access |-> "good"]

TypeOK ==
    /\ tab \in [Calls -> Tabs]
    /\ access \in Cookies
    /\ {jar, revoked, lost} \subseteq BOOLEAN
    /\ call \in [Calls -> Call] /\ flight \in [Calls -> Flight]
    /\ \A f \in Calls : call[f].step = "waiting" => flight[call[f].on].step # "none"

Init ==
    /\ tab \in [Calls -> Tabs]
    /\ access = "good" /\ jar = TRUE /\ revoked = FALSE /\ lost = FALSE
    /\ call = [f \in Calls |-> [step |-> "idle", cookie |-> "good", said |-> "none",
                                retried |-> FALSE, on |-> NULL]]
    /\ flight = [f \in Calls |-> Landed]

-----------------------------------------------------------------------------
\* Mutant: every call refreshes for itself.
OwnFlight(f) == {}

\* refreshInFlight of the call's tab.
InFlight(f) == {g \in Calls : tab[g] = tab[f] /\ flight[g].step # "none"}

\* A call that is over, with what it said to the page.
Ended(c, said) == [c EXCEPT !.step = "settled", !.said = said]

\* Mutant: those who wait are forgotten.
NobodyResumed(f, said, cookie) == call

\* Those who wait for a refresh go on: with a retry when it said ok.
Resumed(f, said, cookie) == [g \in Calls |->
    IF call[g].step = "waiting" /\ call[g].on = f
      THEN IF said = "ok" THEN [call[g] EXCEPT !.step = "sent", !.cookie = cookie, !.retried = TRUE, !.on = NULL]
                          ELSE [Ended(call[g], said) EXCEPT !.on = NULL]
      ELSE call[g]]

-----------------------------------------------------------------------------
\* A page calls apiFetch.
Start(f) ==
    /\ call[f].step = "idle"
    /\ call' = [call EXCEPT ![f].step = "sent", ![f].cookie = access]
    /\ UNCHANGED <<tab, access, jar, revoked, lost, flight>>

\* Mutant: a retry is retried.
AlwaysAgain(f) == TRUE

\* !retried
MayRefresh(f) == ~call[f].retried

\* The server answers: a 401 token_stale is refreshed once; a 401 token_invalid, for
\* a call without an access cookie, is not.
Answer(f) ==
    /\ call[f].step = "sent"
    /\ call' = [call EXCEPT ![f] =
         IF call[f].cookie = "stale" /\ MayRefresh(f)
           THEN [call[f] EXCEPT !.step = "stale"]
           ELSE Ended(call[f], IF call[f].cookie = "good" THEN "ok" ELSE "unauthorized")]
    /\ UNCHANGED <<tab, access, jar, revoked, lost, flight>>

\* The call fails on the network: fetch rejects.
Fail(f) ==
    /\ call[f].step = "sent"
    /\ call' = [call EXCEPT ![f] = Ended(call[f], "error")]
    /\ UNCHANGED <<tab, access, jar, revoked, lost, flight>>

\* tryRefresh: the call waits for the refresh of its tab, or sends one.
TryRefresh(f) ==
    /\ call[f].step = "stale"
    /\ IF InFlight(f) # {}
         THEN /\ \E g \in InFlight(f) : call' = [call EXCEPT ![f].step = "waiting", ![f].on = g]
              /\ UNCHANGED flight
         ELSE /\ call' = [call EXCEPT ![f].step = "waiting", ![f].on = f]
              /\ flight' = [flight EXCEPT ![f] = [step |-> "sent", live |-> jar, access |-> "good"]]
    /\ UNCHANGED <<tab, access, jar, revoked, lost>>

\* rotate_refresh: a token that was used revokes the family; rotating one makes
\* every copy of it used.
Rotate(f) ==
    /\ flight[f].step = "sent"
    /\ IF revoked \/ ~flight[f].live
         THEN /\ revoked' = TRUE
              /\ flight' = [flight EXCEPT ![f].step = "refused"]
              /\ UNCHANGED jar
         ELSE /\ flight' = [g \in Calls |-> IF g = f THEN [step |-> "rotated", live |-> TRUE, access |-> "good"]
                                            ELSE [flight[g] EXCEPT !.live = FALSE]]
              /\ jar' = FALSE
              /\ UNCHANGED revoked
    /\ UNCHANGED <<tab, access, lost, call>>

\* The answer arrives, with the new cookies if there are any; a 401 is the answer
\* of the calls that wait.
Arrive(f) ==
    LET ok == flight[f].step = "rotated" IN
    /\ flight[f].step \in {"rotated", "refused"}
    /\ jar' = IF ok THEN flight[f].live ELSE jar
    /\ access' = IF ok THEN flight[f].access ELSE access
    /\ call' = Resumed(f, IF ok THEN "ok" ELSE "unauthorized", access')
    /\ flight' = [flight EXCEPT ![f] = Landed]
    /\ UNCHANGED <<tab, revoked, lost>>

\* The refresh fails on the network, before or after the server has rotated.
FailRefresh(f) ==
    /\ flight[f].step # "none"
    /\ lost' = TRUE
    /\ call' = Resumed(f, "error", access)
    /\ flight' = [flight EXCEPT ![f] = Landed]
    /\ UNCHANGED <<tab, access, jar, revoked>>

\* 15 minutes have passed since the cookie was set, and the browser drops it.
Expire ==
    /\ access' = "gone"
    /\ UNCHANGED <<tab, jar, revoked, lost, call, flight>>

\* The buyer is approved: the version is raised and no family revoked.  The other
\* bumps revoke the family too and are the matter of Sessions.
Bump ==
    /\ access' = IF access = "good" THEN "stale" ELSE access
    /\ call' = [f \in Calls |-> IF call[f].cookie = "good" THEN [call[f] EXCEPT !.cookie = "stale"] ELSE call[f]]
    /\ flight' = [f \in Calls |-> IF flight[f].step = "rotated" THEN [flight[f] EXCEPT !.access = "stale"] ELSE flight[f]]
    /\ UNCHANGED <<tab, jar, revoked, lost>>

Next ==
    \/ \E f \in Calls :
        \/ Start(f) \/ Answer(f) \/ Fail(f) \/ TryRefresh(f)
        \/ Rotate(f) \/ Arrive(f) \/ FailRefresh(f)
    \/ Expire \/ Bump

\* The event loop runs what is ready, and a fetch is answered or rejected in the end.
Fairness == \A f \in Calls :
    /\ WF_vars(Answer(f) \/ Fail(f)) /\ WF_vars(TryRefresh(f))
    /\ WF_vars(Rotate(f) \/ Arrive(f) \/ FailRefresh(f))

Spec == Init /\ [][Next]_vars /\ Fairness

-----------------------------------------------------------------------------
(* Every call comes to an end, answered, rejected or retried once, however often *)
(* the user's version is raised meanwhile, the cookie expires and whoever else *)
(* refreshes the token (apiFetch, tryRefresh).                               *)
CallsSettle == \A f \in Calls : call[f].step = "sent" ~> call[f].step = "settled"

(* The calls of one tab never sign their own user out: the server takes a    *)
(* refresh for reuse only when two tabs made calls or an answer was lost     *)
(* (refreshInFlight in tryRefresh, reuse in rotate_refresh).                 *)
ReuseNeedsCause ==
    revoked => lost \/ Cardinality({tab[f] : f \in {g \in Calls : call[g].step # "idle"}}) > 1

(* DESIGN P1-T27, "expired access cookie -> SPA silently refreshes and the page *)
(* renders": a call ends unauthorized only after its retry, or when the family is *)
(* revoked or a refresh got no answer.                                       *)
ExpiredRefreshes ==
    \A f \in Calls : call[f].said = "unauthorized" => call[f].retried \/ revoked \/ lost
=============================================================================
