---------------------------- MODULE BrowserProofs ----------------------------
(***************************************************************************)
(* The calls of one tab do not sign their own user out, whatever their     *)
(* number and however refreshes, raised versions and failures interleave.  *)
(***************************************************************************)
EXTENDS Browser, FiniteSetTheorems, TLAPS

USE DEF Cookies

\* A call that waits does so on a call.
WaitsOnCall == \A f \in Calls : call[f].step = "waiting" => call[f].on \in Calls

Typed == TypeOK /\ WaitsOnCall

\* What the end of a refresh makes of the calls.
ResumedCall(g, f, said, cookie) ==
    IF call[g].step = "waiting" /\ call[g].on = f
      THEN IF said = "ok" THEN [call[g] EXCEPT !.step = "sent", !.cookie = cookie, !.retried = TRUE, !.on = NULL]
                          ELSE [Ended(call[g], said) EXCEPT !.on = NULL]
      ELSE call[g]

Answers == {"ok", "unauthorized", "error"}

(* A call goes on, or stays what it is; it does not become idle. *)
LEMMA ResumedTyped ==
    ASSUME Typed, NEW f \in Calls, NEW said \in Answers, NEW cookie \in Cookies
    PROVE  /\ Resumed(f, said, cookie) \in [Calls -> Call]
           /\ \A g \in Calls : /\ call[g].step # "idle" => Resumed(f, said, cookie)[g].step # "idle"
                               /\ call[g].step = "idle" => Resumed(f, said, cookie)[g].step = "idle"
                               /\ Resumed(f, said, cookie)[g].step = "waiting"
                                    => Resumed(f, said, cookie)[g] = call[g] /\ call[g].on # f
<1>1. \A g \in Calls : Resumed(f, said, cookie)[g] = ResumedCall(g, f, said, cookie)
  BY DEF Resumed, ResumedCall
<1>2. ASSUME NEW g \in Calls
      PROVE  /\ ResumedCall(g, f, said, cookie) \in Call
             /\ call[g].step # "idle" => ResumedCall(g, f, said, cookie).step # "idle"
             /\ call[g].step = "idle" => ResumedCall(g, f, said, cookie).step = "idle"
             /\ ResumedCall(g, f, said, cookie).step = "waiting"
                  => ResumedCall(g, f, said, cookie) = call[g] /\ call[g].on # f
  <2>1. call[g] \in Call
    BY DEF Typed, TypeOK
  <2>2. CASE call[g].step = "waiting" /\ call[g].on = f
    <3>1. CASE said = "ok"
      <4>1. ResumedCall(g, f, said, cookie)
              = [call[g] EXCEPT !.step = "sent", !.cookie = cookie, !.retried = TRUE, !.on = NULL]
        BY <2>2, <3>1 DEF ResumedCall
      <4>2. /\ [call[g] EXCEPT !.step = "sent", !.cookie = cookie, !.retried = TRUE, !.on = NULL] \in Call
            /\ [call[g] EXCEPT !.step = "sent", !.cookie = cookie, !.retried = TRUE, !.on = NULL].step = "sent"
        BY <2>1 DEF Call
      <4> QED BY <2>2, <4>1, <4>2
    <3>2. CASE said # "ok"
      <4>1. ResumedCall(g, f, said, cookie) = [Ended(call[g], said) EXCEPT !.on = NULL]
        BY <2>2, <3>2 DEF ResumedCall
      <4>2. /\ [Ended(call[g], said) EXCEPT !.on = NULL] \in Call
            /\ [Ended(call[g], said) EXCEPT !.on = NULL].step = "settled"
        BY <2>1 DEF Call, Ended, Answers
      <4> QED BY <2>2, <4>1, <4>2
    <3> QED BY <3>1, <3>2
  <2>3. CASE ~(call[g].step = "waiting" /\ call[g].on = f)
    BY <2>1, <2>3 DEF ResumedCall
  <2> QED BY <2>2, <2>3
<1>3. Resumed(f, said, cookie) = [g \in Calls |-> ResumedCall(g, f, said, cookie)]
  BY Zenon DEF Resumed, ResumedCall
<1>4. Resumed(f, said, cookie) \in [Calls -> Call]
  BY <1>2, <1>3
<1> QED BY <1>1, <1>2, <1>4

(* The end of a refresh is one of them. *)
LEMMA ComesBack ==
    ASSUME Typed, NEW f \in Calls, Arrive(f) \/ FailRefresh(f)
    PROVE  /\ access' \in Cookies
           /\ \E said \in Answers, cookie \in Cookies : call' = Resumed(f, said, cookie)
<1>1. access \in Cookies /\ flight[f] \in Flight
  BY DEF Typed, TypeOK
<1>2. CASE Arrive(f)
  <2>1. access' \in Cookies
    BY <1>1, <1>2 DEF Arrive, Flight
  <2>2. PICK said \in Answers : said = IF flight[f].step = "rotated" THEN "ok" ELSE "unauthorized"
    BY DEF Answers
  <2>3. call' = Resumed(f, said, access')
    BY <1>2, <2>2 DEF Arrive
  <2> QED BY <2>1, <2>3
<1>3. CASE FailRefresh(f)
  BY <1>1, <1>3 DEF FailRefresh, Answers
<1> QED BY <1>2, <1>3

(* A raised version spoils access tokens and nothing else. *)
LEMMA BumpTyped ==
    ASSUME Typed, Bump, NEW f \in Calls
    PROVE  /\ call'[f] \in Call /\ call'[f].step = call[f].step /\ call'[f].on = call[f].on
           /\ flight'[f] \in Flight /\ flight'[f].step = flight[f].step /\ flight'[f].live = flight[f].live
<1>1. call[f] \in Call /\ flight[f] \in Flight
  BY DEF Typed, TypeOK
<1>2. /\ [call[f] EXCEPT !.cookie = "stale"] \in Call
      /\ [call[f] EXCEPT !.cookie = "stale"].step = call[f].step
      /\ [call[f] EXCEPT !.cookie = "stale"].on = call[f].on
  BY <1>1 DEF Call
<1>3. /\ [flight[f] EXCEPT !.access = "stale"] \in Flight
      /\ [flight[f] EXCEPT !.access = "stale"].step = flight[f].step
      /\ [flight[f] EXCEPT !.access = "stale"].live = flight[f].live
  BY <1>1 DEF Flight
<1>4. call'[f] = call[f] \/ call'[f] = [call[f] EXCEPT !.cookie = "stale"]
  BY DEF Bump
<1>5. flight'[f] = flight[f] \/ flight'[f] = [flight[f] EXCEPT !.access = "stale"]
  BY DEF Bump
<1> QED BY <1>1, <1>2, <1>3, <1>4, <1>5

(* This is inductive: a refresh that comes back leaves nobody waiting for it. *)
LEMMA BrowserInvariant == Spec => []Typed
<1>1. Init => Typed
  <2>1. [step |-> "idle", cookie |-> "good", said |-> "none", retried |-> FALSE, on |-> NULL] \in Call /\ Landed \in Flight
    BY DEF Call, Flight, Landed
  <2> DEFINE idle == [step |-> "idle", cookie |-> "good", said |-> "none", retried |-> FALSE, on |-> NULL]
  <2>2. idle.step # "waiting"
    OBVIOUS
  <2> HIDE DEF idle
  <2>3. idle \in Call
    BY <2>1 DEF idle
  <2>4. ASSUME Init PROVE call = [f \in Calls |-> idle] /\ flight = [f \in Calls |-> Landed] /\ {jar, revoked, lost} \subseteq BOOLEAN /\ access \in Cookies /\ tab \in [Calls -> Tabs]
    BY <2>4 DEF Init, idle
  <2> QED BY <2>1, <2>2, <2>3, <2>4 DEF Typed, TypeOK, WaitsOnCall
<1>2. Typed /\ [Next]_vars => Typed'
  <2> SUFFICES ASSUME Typed, [Next]_vars PROVE Typed'
    OBVIOUS
  <2>0. /\ \A f \in Calls : call[f] \in Call /\ flight[f] \in Flight
        /\ Landed \in Flight
    BY DEF Typed, TypeOK, Flight, Landed
  <2>1. ASSUME NEW f \in Calls, Start(f) PROVE Typed'
    <3>1. call' = [call EXCEPT ![f] = [call[f] EXCEPT !.step = "sent", !.cookie = access]]
      BY <2>0, <2>1 DEF Start, Call, Typed, TypeOK
    <3>2. [call[f] EXCEPT !.step = "sent", !.cookie = access] \in Call
          /\ [call[f] EXCEPT !.step = "sent", !.cookie = access].step # "waiting"
      BY <2>0 DEF Call, Typed, TypeOK
    <3> QED BY <2>1, <3>1, <3>2 DEF Start, Typed, TypeOK, WaitsOnCall
  <2>2. ASSUME NEW f \in Calls, Answer(f) \/ Fail(f) PROVE Typed'
    <3>1. PICK c \in Call : call' = [call EXCEPT ![f] = c] /\ c.step # "waiting"
      <4>1. \A said \in Answers : Ended(call[f], said) \in Call /\ Ended(call[f], said).step = "settled"
        BY <2>0 DEF Ended, Call, Answers
      <4>2. [call[f] EXCEPT !.step = "stale"] \in Call /\ [call[f] EXCEPT !.step = "stale"].step = "stale"
        BY <2>0 DEF Call
      <4>3. CASE Fail(f)
        BY <4>1, <4>3 DEF Fail, Answers
      <4>4. CASE Answer(f) /\ call[f].cookie = "stale" /\ MayRefresh(f)
        BY <4>2, <4>4 DEF Answer
      <4>5. CASE Answer(f) /\ ~(call[f].cookie = "stale" /\ MayRefresh(f))
        <5>1. PICK said \in Answers : said = IF call[f].cookie = "good" THEN "ok" ELSE "unauthorized"
          BY DEF Answers
        <5>2. call' = [call EXCEPT ![f] = Ended(call[f], said)]
          BY <4>5, <5>1 DEF Answer
        <5> QED BY <4>1, <5>2
      <4> QED BY <2>2, <4>3, <4>4, <4>5
    <3>2. UNCHANGED <<tab, access, jar, revoked, lost, flight>>
      BY <2>2 DEF Answer, Fail
    <3> QED BY <3>1, <3>2 DEF Typed, TypeOK, WaitsOnCall
  <2>3. ASSUME NEW f \in Calls, TryRefresh(f) PROVE Typed'
    <3>1. CASE InFlight(f) # {}
      <4>1. PICK g \in InFlight(f) : call' = [call EXCEPT ![f].step = "waiting", ![f].on = g]
        BY <2>3, <3>1 DEF TryRefresh
      <4> DEFINE r == [call[f] EXCEPT !.step = "waiting", !.on = g]
      <4>2. g \in Calls /\ flight[g].step # "none"
        BY DEF InFlight
      <4>3. r \in Call /\ r.step = "waiting" /\ r.on = g
        BY <2>0, <4>2 DEF Call
      <4>4. call' = [call EXCEPT ![f] = r]
        BY <2>0, <4>1 DEF Call, Typed, TypeOK
      <4> HIDE DEF r
      <4> QED BY <2>3, <3>1, <4>2, <4>3, <4>4 DEF TryRefresh, Typed, TypeOK, WaitsOnCall
    <3>2. CASE InFlight(f) = {}
      <4> DEFINE r == [call[f] EXCEPT !.step = "waiting", !.on = f]
      <4>1. r \in Call /\ r.step = "waiting" /\ r.on = f
        BY <2>0 DEF Call
      <4>2. call' = [call EXCEPT ![f] = r]
        BY <2>0, <2>3, <3>2 DEF TryRefresh, Call, Typed, TypeOK
      <4>3. [step |-> "sent", live |-> jar, access |-> "good"] \in Flight
        BY DEF Flight, Typed, TypeOK
      <4>4. flight' = [flight EXCEPT ![f] = [step |-> "sent", live |-> jar, access |-> "good"]] /\ UNCHANGED <<tab, access, jar, revoked, lost>>
        BY <2>3, <3>2 DEF TryRefresh
      <4>5. flight' \in [Calls -> Flight] /\ \A g \in Calls : flight[g].step # "none" \/ g = f => flight'[g].step # "none"
        BY <4>3, <4>4 DEF Typed, TypeOK
      <4> HIDE DEF r
      <4>6. call' \in [Calls -> Call] /\ \A g \in Calls : call'[g].step = "waiting" => call'[g].on \in Calls /\ flight'[call'[g].on].step # "none"
        BY <4>1, <4>2, <4>5 DEF Typed, TypeOK, WaitsOnCall
      <4> QED BY <4>4, <4>5, <4>6 DEF Typed, TypeOK, WaitsOnCall
    <3> QED BY <3>1, <3>2
  <2>4. ASSUME NEW f \in Calls, Rotate(f) PROVE Typed'
    <3>1. UNCHANGED <<tab, access, lost, call>> /\ flight[f].step = "sent"
      BY <2>4 DEF Rotate
    <3>2. /\ flight' \in [Calls -> Flight] /\ jar' \in BOOLEAN /\ revoked' \in BOOLEAN
          /\ \A g \in Calls : flight[g].step # "none" => flight'[g].step # "none"
      <4>1. CASE revoked \/ ~flight[f].live
        <5>1. flight' = [flight EXCEPT ![f].step = "refused"] /\ revoked' = TRUE /\ jar' = jar
          BY <2>4, <4>1 DEF Rotate
        <5>2. [flight[f] EXCEPT !.step = "refused"] \in Flight
              /\ [flight[f] EXCEPT !.step = "refused"].step = "refused"
          BY <2>0 DEF Flight
        <5>3. flight' = [flight EXCEPT ![f] = [flight[f] EXCEPT !.step = "refused"]]
          BY <2>0, <5>1
        <5> QED BY <5>1, <5>2, <5>3 DEF Typed, TypeOK
      <4>2. CASE ~(revoked \/ ~flight[f].live)
        <5>1. /\ flight' = [g \in Calls |-> IF g = f THEN [step |-> "rotated", live |-> TRUE, access |-> "good"]
                                             ELSE [flight[g] EXCEPT !.live = FALSE]]
              /\ jar' = FALSE /\ revoked' = revoked
          BY <2>4, <4>2 DEF Rotate
        <5>2. \A g \in Calls : /\ [flight[g] EXCEPT !.live = FALSE] \in Flight
                              /\ [flight[g] EXCEPT !.live = FALSE].step = flight[g].step
          BY <2>0 DEF Flight
        <5>3. [step |-> "rotated", live |-> TRUE, access |-> "good"] \in Flight
          BY DEF Flight
        <5> QED BY <5>1, <5>2, <5>3 DEF Typed, TypeOK
      <4> QED BY <4>1, <4>2
    <3> QED BY <3>1, <3>2 DEF Typed, TypeOK, WaitsOnCall
  <2>5. ASSUME NEW f \in Calls, Arrive(f) \/ FailRefresh(f) PROVE Typed'
    <3>1. PICK said \in Answers, cookie \in Cookies : call' = Resumed(f, said, cookie)
      BY <2>5, ComesBack
    <3>2. flight' = [flight EXCEPT ![f] = Landed] /\ UNCHANGED <<tab, revoked>>
      BY <2>5 DEF Arrive, FailRefresh
    <3>3. {jar', lost'} \subseteq BOOLEAN /\ access' \in Cookies
      BY <2>0, <2>5, ComesBack DEF Arrive, FailRefresh, Typed, TypeOK, Flight
    <3>4. \A g \in Calls : call'[g].step = "waiting" => call'[g] = call[g] /\ call[g].on # f
      BY <3>1, ResumedTyped
    <3>5. call' \in [Calls -> Call] /\ flight' \in [Calls -> Flight]
      BY <2>0, <3>1, <3>2, ResumedTyped DEF Typed, TypeOK
    <3>6. \A g \in Calls : call'[g].step = "waiting" => call'[g].on \in Calls /\ flight'[call'[g].on].step # "none"
      BY <3>2, <3>4 DEF Typed, TypeOK, WaitsOnCall
    <3> QED BY <3>2, <3>3, <3>5, <3>6 DEF Typed, TypeOK, WaitsOnCall
  <2>6. CASE Expire
    BY <2>6 DEF Expire, Typed, TypeOK, WaitsOnCall
  <2>8. CASE Bump
    <3>1. \A f \in Calls : call'[f] \in Call /\ call'[f].step = call[f].step /\ call'[f].on = call[f].on
      BY BumpTyped, <2>8
    <3>2. \A f \in Calls : flight'[f] \in Flight /\ flight'[f].step = flight[f].step
      BY BumpTyped, <2>8
    <3>3. call' \in [Calls -> Call] /\ flight' \in [Calls -> Flight] /\ access' \in Cookies
      BY <2>8, <3>1, <3>2 DEF Bump, Typed, TypeOK
    <3>4. UNCHANGED <<tab, jar, revoked, lost>>
      BY <2>8 DEF Bump
    <3> QED BY <3>1, <3>2, <3>3, <3>4 DEF Typed, TypeOK, WaitsOnCall
  <2>7. CASE UNCHANGED vars
    BY <2>7 DEF vars, Typed, TypeOK, WaitsOnCall
  <2> QED BY <2>1, <2>2, <2>3, <2>4, <2>5, <2>6, <2>7, <2>8 DEF Next
<1> QED BY <1>1, <1>2, PTL DEF Spec

(* Calls and refreshes keep their types, and nobody waits for a refresh that *)
(* has come back. *)
THEOREM BrowserTyping == Spec => []TypeOK
<1>1. Typed => TypeOK
  BY DEF Typed, TypeOK
<1> QED BY <1>1, BrowserInvariant, PTL

-----------------------------------------------------------------------------
\* What may cost the user the session: an answer was lost, or two tabs made calls.
TwoTabs == \E f, g \in Calls : call[f].step # "idle" /\ call[g].step # "idle" /\ tab[f] # tab[g]

Cause == lost \/ TwoTabs

Flying(f) == flight[f].step # "none"

\* Otherwise at most one refresh is under way, and either it or the jar holds the
\* token the server would rotate.
OneFlight ==
    /\ ~revoked
    /\ \A f, g \in Calls : Flying(f) /\ Flying(g) => f = g
    /\ \A f \in Calls : Flying(f) => flight[f].step # "refused" /\ flight[f].live /\ call[f].step # "idle"
    /\ \A f \in Calls : flight[f].step = "sent" => jar
    /\ (\A f \in Calls : ~Flying(f)) => jar

(* A step leaves no call idle that was not. *)
LEMMA CausesStay ==
    ASSUME Typed, [Next]_vars
    PROVE  /\ tab' = tab
           /\ \A g \in Calls : call[g].step # "idle" => call'[g].step # "idle"
           /\ Cause => Cause'
<1>1. tab' = tab /\ (lost => lost')
  <2>1. ASSUME NEW f \in Calls, Start(f) \/ Answer(f) \/ Fail(f) \/ TryRefresh(f) PROVE tab' = tab /\ lost' = lost
    BY <2>1 DEF Start, Answer, Fail, TryRefresh
  <2>2. ASSUME NEW f \in Calls, Rotate(f) \/ Arrive(f) PROVE tab' = tab /\ lost' = lost
    BY <2>2 DEF Rotate, Arrive
  <2>3. ASSUME NEW f \in Calls, FailRefresh(f) PROVE tab' = tab /\ lost' = TRUE
    BY <2>3 DEF FailRefresh
  <2>4. CASE Expire \/ Bump \/ UNCHANGED vars
    BY <2>4 DEF Expire, Bump, vars
  <2> QED BY <2>1, <2>2, <2>3, <2>4 DEF Next
<1>2. \A g \in Calls : call[g].step # "idle" => call'[g].step # "idle"
  <2>0. \A f \in Calls : call[f] \in Call
    BY DEF Typed, TypeOK
  <2>1. ASSUME NEW f \in Calls, Start(f) \/ Answer(f) \/ Fail(f) \/ TryRefresh(f)
        PROVE  \A g \in Calls : call[g].step # "idle" => call'[g].step # "idle"
    <3>1. \A g \in Calls \ {f} : call'[g] = call[g]
      BY <2>1 DEF Start, Answer, Fail, TryRefresh, Typed, TypeOK
    <3>2. call'[f].step \in {"sent", "stale", "waiting", "settled"}
      <4>1. \A said : Ended(call[f], said).step = "settled"
        BY <2>0 DEF Ended, Call
      <4>2. [call[f] EXCEPT !.step = "stale"].step = "stale"
        BY <2>0 DEF Call
      <4>3. CASE Answer(f) \/ Fail(f)
        <5>1. \E c : call' = [call EXCEPT ![f] = c] /\ c.step \in {"settled", "stale"}
          BY <4>1, <4>2, <4>3 DEF Answer, Fail
        <5> QED BY <5>1 DEF Typed, TypeOK
      <4>4. CASE Start(f) \/ TryRefresh(f)
        BY <2>0, <4>4 DEF Start, TryRefresh, Typed, TypeOK, Call
      <4> QED BY <2>1, <4>3, <4>4
    <3> QED BY <3>1, <3>2
  <2>2. ASSUME NEW f \in Calls, Arrive(f) \/ FailRefresh(f)
        PROVE  \A g \in Calls : call[g].step # "idle" => call'[g].step # "idle"
    <3>1. PICK said \in Answers, cookie \in Cookies : call' = Resumed(f, said, cookie)
      BY <2>2, ComesBack
    <3> QED BY <2>2, <3>1, ResumedTyped
  <2>3. ASSUME NEW f \in Calls, Rotate(f)
        PROVE  \A g \in Calls : call[g].step # "idle" => call'[g].step # "idle"
    BY <2>3 DEF Rotate
  <2>4. CASE Expire
    BY <2>4 DEF Expire
  <2>6. CASE Bump
    BY <2>6, BumpTyped
  <2>5. CASE UNCHANGED vars
    BY <2>5 DEF vars
  <2> QED BY <2>1, <2>2, <2>3, <2>4, <2>5, <2>6 DEF Next
<1> QED BY <1>1, <1>2 DEF Cause, TwoTabs

(* The step that could open a second refresh waits for the first, or comes from *)
(* another tab; the step that could present a used token finds a live one.      *)
LEMMA OneFlightStays ==
    ASSUME Typed, Typed', OneFlight, ~Cause', [Next]_vars
    PROVE  OneFlight'
<1>0. /\ \A f \in Calls : call[f] \in Call /\ flight[f] \in Flight
      /\ \A g \in Calls : call[g].step # "idle" => call'[g].step # "idle"
      /\ tab' = tab /\ ~lost' /\ ~Cause
  BY CausesStay DEF Typed, TypeOK, Cause
<1>1. ASSUME UNCHANGED <<jar, revoked, flight>> PROVE OneFlight'
  BY <1>0, <1>1 DEF OneFlight, Flying
<1>2. ASSUME NEW f \in Calls, TryRefresh(f), InFlight(f) = {} PROVE OneFlight'
  <2>1. \A g \in Calls : ~Flying(g)
    <3> SUFFICES ASSUME NEW g \in Calls, Flying(g) PROVE FALSE
      OBVIOUS
    <3>1. tab[g] # tab[f]
      BY <1>2 DEF InFlight, Flying
    <3>2. call[g].step # "idle" /\ call[f].step # "idle"
      BY <1>2 DEF OneFlight, TryRefresh
    <3> QED BY <1>0, <3>1, <3>2 DEF Cause, TwoTabs
  <2>2. jar /\ jar' = jar /\ revoked' = revoked
    BY <1>2, <2>1 DEF TryRefresh, OneFlight
  <2>3. flight' = [flight EXCEPT ![f] = [step |-> "sent", live |-> jar, access |-> "good"]]
    BY <1>2 DEF TryRefresh
  <2>4. call'[f].step # "idle"
    BY <1>0, <1>2 DEF TryRefresh
  <2>5. /\ \A g \in Calls \ {f} : flight'[g] = flight[g]
        /\ flight'[f].step = "sent" /\ flight'[f].live
    BY <2>2, <2>3 DEF Typed, TypeOK
  <2> QED BY <2>1, <2>2, <2>4, <2>5 DEF OneFlight, Flying
<1>3. ASSUME NEW f \in Calls, Rotate(f) PROVE OneFlight'
  <2>1. ~revoked /\ flight[f].live /\ flight[f].step = "sent"
    BY <1>3 DEF Rotate, OneFlight, Flying
  <2>2. /\ flight' = [g \in Calls |-> IF g = f THEN [step |-> "rotated", live |-> TRUE, access |-> "good"]
                                       ELSE [flight[g] EXCEPT !.live = FALSE]]
        /\ revoked' = revoked
    BY <1>3, <2>1 DEF Rotate
  <2>3. \A g \in Calls \ {f} : ~Flying(g)
    BY <2>1 DEF OneFlight, Flying
  <2>4. \A g \in Calls \ {f} : [flight[g] EXCEPT !.live = FALSE].step = "none"
    BY <1>0, <2>3 DEF Flying, Flight
  <2>5. flight'[f] = [step |-> "rotated", live |-> TRUE, access |-> "good"] /\ \A g \in Calls \ {f} : flight'[g].step = "none"
    BY <2>2, <2>4
  <2>6. flight'[f].step = "rotated" /\ flight'[f].live
    BY <2>5
  <2>7. call'[f].step # "idle"
    BY <1>0, <2>1 DEF OneFlight, Flying
  <2> QED BY <2>1, <2>2, <2>5, <2>6, <2>7 DEF OneFlight, Flying
<1>4. ASSUME NEW f \in Calls, Arrive(f) PROVE OneFlight'
  <2>1. flight[f].step = "rotated" /\ flight[f].live
    BY <1>4 DEF Arrive, OneFlight, Flying
  <2>2. jar' /\ revoked' = revoked /\ flight' = [flight EXCEPT ![f] = Landed]
    BY <1>4, <2>1 DEF Arrive
  <2>3. \A g \in Calls : flight'[g].step = "none"
    BY <2>1, <2>2 DEF OneFlight, Flying, Landed, Typed, TypeOK
  <2> QED BY <2>2, <2>3 DEF OneFlight, Flying
<1>5. ASSUME NEW f \in Calls, FailRefresh(f) PROVE OneFlight'
  BY <1>0, <1>5 DEF FailRefresh
<1>6. ASSUME NEW f \in Calls, TryRefresh(f), InFlight(f) # {} PROVE OneFlight'
  BY <1>1, <1>6 DEF TryRefresh
<1>7. ASSUME NEW f \in Calls, Start(f) \/ Answer(f) \/ Fail(f) PROVE OneFlight'
  BY <1>1, <1>7 DEF Start, Answer, Fail
<1>8. CASE Expire
  BY <1>1, <1>8 DEF Expire
<1>9. CASE UNCHANGED vars
  BY <1>1, <1>9 DEF vars
<1>10. CASE Bump
  <2>1. \A f \in Calls : flight'[f].step = flight[f].step /\ flight'[f].live = flight[f].live
    BY <1>10, BumpTyped
  <2>2. UNCHANGED <<jar, revoked>>
    BY <1>10 DEF Bump
  <2> QED BY <1>0, <2>1, <2>2 DEF OneFlight, Flying
<1> QED BY <1>2, <1>3, <1>4, <1>5, <1>6, <1>7, <1>8, <1>9, <1>10 DEF Next

(* Calls of two tabs make the set of tabs in use larger than one. *)
LEMMA TwoTabsCount ==
    ASSUME TwoTabs
    PROVE  Cardinality({tab[f] : f \in {g \in Calls : call[g].step # "idle"}}) > 1
<1> DEFINE Used == {g \in Calls : call[g].step # "idle"}
           UsedTabs == {tab[f] : f \in Used}
<1>1. PICK f, g \in Calls : call[f].step # "idle" /\ call[g].step # "idle" /\ tab[f] # tab[g]
  BY DEF TwoTabs
<1>2. IsFiniteSet(UsedTabs)
  <2>1. IsFiniteSet(Used)
    BY CallsAssumption, FS_Subset
  <2> DEFINE tabOf == [c \in Used |-> tab[c]]
  <2>2. tabOf \in Surjection(Used, UsedTabs)
    BY DEF Surjection
  <2> QED BY <2>1, <2>2, FS_Surjection
<1>3. tab[f] \in UsedTabs /\ tab[g] \in UsedTabs
  BY <1>1
<1> HIDE DEF UsedTabs
<1>4. /\ IsFiniteSet(UsedTabs \ {tab[f]})
      /\ Cardinality(UsedTabs \ {tab[f]}) = Cardinality(UsedTabs) - 1
  BY <1>2, <1>3, FS_RemoveElement
<1>5. Cardinality(UsedTabs \ {tab[f]}) # 0
  BY <1>1, <1>3, <1>4, FS_EmptySet
<1>6. Cardinality(UsedTabs) \in Nat /\ Cardinality(UsedTabs \ {tab[f]}) \in Nat
  BY <1>2, <1>4, FS_CardinalityType
<1>7. Cardinality(UsedTabs) > 1
  BY <1>4, <1>5, <1>6
<1> QED BY <1>7 DEF UsedTabs

(* For any number of tabs and calls: the calls of one tab, none of whose        *)
(* answers is lost, never make the server revoke the family (refreshInFlight in *)
(* tryRefresh against rotate_refresh).                                          *)
THEOREM OneTabStaysIn == Spec => []ReuseNeedsCause
<1> DEFINE Inv == Cause \/ OneFlight
<1>1. Init => Inv
  BY DEF Init, OneFlight, Flying, Landed
<1>2. Typed /\ Typed' /\ Inv /\ [Next]_vars => Inv'
  BY CausesStay, OneFlightStays
<1>3. Inv => ReuseNeedsCause
  BY TwoTabsCount DEF Cause, OneFlight, ReuseNeedsCause
<1> QED BY <1>1, <1>2, <1>3, BrowserInvariant, PTL DEF Spec
=============================================================================
