--------------------------- MODULE BackOfficeProofs ---------------------------
(***************************************************************************)
(* What holds of the parts behind the deals, for any numbers of requests,  *)
(* of buyers, mail, threads, cities, managers and deals: how often a blast *)
(* reaches a buyer and what its counts are worth (over the specification   *)
(* of Blast), then the mailroom, the threads and the markets (over         *)
(* BackOffice, which runs each of them beside the others).                 *)
(***************************************************************************)
EXTENDS MCBackOffice, FiniteSetTheorems, TLAPS

\* What a request carries fits its step and the campaign.
Fits(r) ==
    /\ status = "none" => r.step \in {"idle", "create"}
    /\ r.step = "sending" => r.todo \cup r.mailed \subseteq recip /\ r.todo \cap r.mailed = {}
    /\ r.step # "sending" => r.mailed = {}
    /\ r.step \in {"click", "clicking"} => r.buyer \in recip

ListInv ==
    /\ TypeOK
    /\ status = "none" => recip = {} /\ sent = 0
    /\ \A w \in Workers : Fits(request[w])

\* Only the request of w changes, and not the list of recipients.
Alone(w) ==
    /\ \A v \in Workers : v # w => request'[v] = request[v]
    /\ recip' = recip

(* A request that becomes a fitting one leaves all of them fitting. *)
LEMMA BecomeFits ==
    ASSUME ListInv, NEW w \in Workers, NEW r, r \in Request, Fits(r), Become(w, r),
           recip' = recip, status' = status \/ status' # "none"
    PROVE  /\ Alone(w) /\ request'[w] = r
           /\ request' \in [Workers -> Request]
           /\ \A v \in Workers : Fits(request[v])'
           /\ \A v \in Workers : request'[v].step \in {"click", "clicking"} => request'[v].buyer \in recip'
<1>1. request \in [Workers -> Request] /\ request' = [request EXCEPT ![w] = r]
  BY DEF ListInv, TypeOK, Become
<1>2. request' \in [Workers -> Request] /\ \A v \in Workers : request'[v] = IF v = w THEN r ELSE request[v]
  BY <1>1
<1>3. \A v \in Workers : Fits(request'[v])
  BY <1>2 DEF ListInv
<1>4. \A v \in Workers : Fits(request[v])'
  BY <1>3 DEF Fits
<1>5. \A v \in Workers : request'[v].step \in {"click", "clicking"} => request'[v].buyer \in recip'
  BY <1>3 DEF Fits
<1> QED BY <1>2, <1>4, <1>5 DEF Alone

(* Idle fits whatever the campaign is like. *)
LEMMA Idles == Idle \in Request /\ (status \in Statuses => Fits(Idle))
BY DEF Idle, Request, Fits, Steps, Statuses

(* The table, the counts and the requests keep their types; a send works on *)
(* recipients of the list. *)
THEOREM BlastTyping == Spec => []ListInv
<1>1. Init => ListInv
  BY LostAssumption DEF Init, ListInv, TypeOK, Statuses, Steps, Request, Idle, Fits
<1>2. ListInv /\ [Next]_vars => ListInv'
  <2> SUFFICES ASSUME ListInv, [Next]_vars PROVE ListInv'
    OBVIOUS
  <2>0. TypeOK /\ \A w \in Workers : request[w] \in Request /\ Fits(request[w])
    BY DEF ListInv, TypeOK
  <2>1. ASSUME NEW w \in Workers, CreateRead(w) PROVE ListInv'
    <3>1. PICK segment \in SUBSET Buyers : Become(w, [Idle EXCEPT !.step = "create", !.todo = Eligible(segment)])
      BY <2>1 DEF CreateRead
    <3> DEFINE r == [Idle EXCEPT !.step = "create", !.todo = Eligible(segment)]
    <3>2. r \in Request /\ Fits(r)
      BY <2>0 DEF Request, Fits, Idle, Steps, Statuses, Eligible
    <3> HIDE DEF r
    <3> QED BY <2>1, <3>1, <3>2, BecomeFits DEF CreateRead, ListInv, TypeOK, r
  <2>2. ASSUME NEW w \in Workers, CommitCreate(w) PROVE ListInv'
    <3>1. \A v \in Workers : request'[v] = IF v = w THEN Idle ELSE request[v]
      BY <2>2, <2>0 DEF CommitCreate, Become, TypeOK
    <3>2. request' \in [Workers -> Request]
      BY <2>2, <2>0, Idles DEF CommitCreate, Become, TypeOK
    <3>3. \A v \in Workers : request'[v].step \in {"idle", "create"} /\ request'[v].mailed = {}
      BY <2>0, <2>2, <3>1 DEF CommitCreate, Fits, Idle
    <3>4. status' = "draft" /\ recip' = request[w].todo /\ request[w].todo \in SUBSET Buyers
      BY <2>0, <2>2 DEF CommitCreate, Request
    <3>5. marked = {} /\ clickers = {}
      BY <2>2 DEF CommitCreate, ListInv, TypeOK
    <3>6. \A v \in Workers : Fits(request[v])'
      BY <3>3, <3>4 DEF Fits
    <3> QED BY <2>0, <2>2, <3>2, <3>3, <3>4, <3>5, <3>6 DEF CommitCreate, ListInv, TypeOK, Statuses
  <2>3. ASSUME NEW w \in Workers, SendRead(w) PROVE ListInv'
    <3> DEFINE r == [Idle EXCEPT !.step = "send", !.status = status, !.count = sent]
    <3>1. r \in Request /\ Fits(r)
      BY <2>0, <2>3 DEF SendRead, TypeOK, Request, Fits, Idle, Steps, Statuses
    <3>2. Become(w, r)
      BY <2>3 DEF SendRead
    <3> HIDE DEF r
    <3> QED BY <2>3, <3>1, <3>2, BecomeFits DEF SendRead, ListInv, TypeOK
  <2>4. ASSUME NEW w \in Workers, SelectRecipients(w) PROVE ListInv'
    <3> DEFINE flush == request[w].status # "sending"
    <3> DEFINE r == [request[w] EXCEPT !.step = "sending", !.todo = Unsent, !.camp = flush]
    <3>1. r \in Request /\ Fits(r)
      BY <2>0, <2>4 DEF SelectRecipients, TypeOK, Request, Fits, Steps, Statuses, Unsent
    <3>2. Become(w, r)
      BY <2>4 DEF SelectRecipients
    <3> HIDE DEF r
    <3> QED BY <2>4, <3>1, <3>2, BecomeFits DEF SelectRecipients, ListInv, TypeOK
  <2>5. ASSUME NEW w \in Workers, NEW b \in Buyers, SendOne(w, b) PROVE ListInv'
    <3>1. PICK left \in BOOLEAN, ok \in BOOLEAN :
            /\ left /\ ~ok => lost[b] < MaxLost
            /\ Become(w, [request[w] EXCEPT !.todo = @ \ {b}, !.mailed = IF ok THEN @ \cup {b} ELSE @,
                                            !.flushed = request[w].mailed, !.camp = @ \/ request[w].mailed # {}])
            /\ mails' = [mails EXCEPT ![b] = IF left THEN @ + 1 ELSE @]
            /\ lost' = [lost EXCEPT ![b] = IF left /\ ~ok THEN @ + 1 ELSE @]
      BY <2>5 DEF SendOne
    <3> DEFINE r == [request[w] EXCEPT !.todo = @ \ {b}, !.mailed = IF ok THEN @ \cup {b} ELSE @,
                                       !.flushed = request[w].mailed, !.camp = @ \/ request[w].mailed # {}]
    <3>2. r \in Request /\ Fits(r)
      <4> DEFINE t == request[w].todo \ {b}
      <4> DEFINE m == IF ok THEN request[w].mailed \cup {b} ELSE request[w].mailed
      <4> DEFINE c == request[w].camp \/ request[w].mailed # {}
      <4>1. request[w].step = "sending" /\ b \in request[w].todo /\ request[w] \in Request /\ Fits(request[w])
        BY <2>0, <2>5 DEF SendOne
      <4>2. t \in SUBSET Buyers /\ m \in SUBSET Buyers /\ request[w].mailed \in SUBSET Buyers
        BY <4>1 DEF Request
      <4>3. t \cup m \subseteq recip /\ t \cap m = {}
        BY <4>1 DEF Fits
      <4>4. c \in BOOLEAN
        OBVIOUS
      <4>5. r = [request[w] EXCEPT !.todo = t, !.mailed = m, !.flushed = request[w].mailed, !.camp = c]
        BY <4>1 DEF Request
      <4> HIDE DEF t, m, c, r
      <4>6. r \in Request
        BY <4>1, <4>2, <4>4, <4>5 DEF Request
      <4>7. r.step = "sending" /\ r.todo = t /\ r.mailed = m
        BY <4>1, <4>5 DEF Request
      <4>8. status # "none"
        BY <4>1 DEF Fits
      <4> QED BY <4>3, <4>6, <4>7, <4>8 DEF Fits
    <3> HIDE DEF r
    <3>3. mails' \in [Buyers -> Nat]
      BY <2>0, <3>1 DEF TypeOK
    <3>4. lost' \in [Buyers -> 0 .. MaxLost]
      BY <2>0, <3>1, LostAssumption DEF TypeOK
    <3> QED BY <2>5, <3>1, <3>2, <3>3, <3>4, BecomeFits DEF SendOne, ListInv, TypeOK, r
  <2>6. ASSUME NEW w \in Workers, CommitSend(w) PROVE ListInv'
    <3>1. status' \in Statuses \ {"none"}
      BY <2>0, <2>6 DEF CommitSend, StatusAfter, Statuses, TypeOK, Fits
    <3>2. sent' \in Nat
      <4>1. IsFiniteSet(request[w].mailed)
        BY <2>0, BuyersAssumption, FS_Subset DEF Request
      <4>2. Cardinality(request[w].mailed) \in Nat /\ request[w].count \in Nat
        BY <2>0, <4>1, FS_CardinalityType DEF Request
      <4> QED BY <2>0, <2>6, <4>2 DEF CommitSend, SentAfter, TypeOK
    <3>3. marked' \subseteq recip /\ recip' = recip /\ recip \subseteq Buyers
      BY <2>0, <2>6 DEF CommitSend, Marks, TypeOK, Fits
    <3>4. Become(w, Idle) /\ UNCHANGED <<alerts, clicked, recip, clickers, mails, lost>>
      BY <2>6 DEF CommitSend
    <3>5. Fits(Idle) /\ Idle \in Request
      BY <2>0, Idles DEF TypeOK
    <3> QED BY <2>0, <3>1, <3>2, <3>3, <3>4, <3>5, BecomeFits DEF ListInv, TypeOK
  <2>7. ASSUME NEW w \in Workers, PauseRead(w) PROVE ListInv'
    <3> DEFINE r == [Idle EXCEPT !.step = "pause"]
    <3>1. r \in Request /\ Fits(r)
      BY <2>7 DEF PauseRead, Request, Fits, Idle, Steps, Statuses
    <3>2. Become(w, r)
      BY <2>7 DEF PauseRead
    <3> HIDE DEF r
    <3> QED BY <2>7, <3>1, <3>2, BecomeFits DEF PauseRead, ListInv, TypeOK
  <2>8. ASSUME NEW w \in Workers, CommitPause(w) PROVE ListInv'
    <3>1. Fits(Idle) /\ Idle \in Request
      BY <2>0, Idles DEF TypeOK
    <3> QED BY <2>0, <2>8, <3>1, BecomeFits DEF CommitPause, ListInv, TypeOK, Statuses
  <2>9. ASSUME NEW w \in Workers, NEW b \in Buyers, ClickRead(w, b) PROVE ListInv'
    <3> DEFINE r == [Idle EXCEPT !.step = "click", !.buyer = b]
    <3>1. r \in Request /\ Fits(r)
      BY <2>0, <2>9 DEF ClickRead, FirstClick, ListInv, Request, Fits, Idle, Steps, Statuses
    <3>2. Become(w, r)
      BY <2>9 DEF ClickRead
    <3> HIDE DEF r
    <3> QED BY <2>9, <3>1, <3>2, BecomeFits DEF ClickRead, ListInv, TypeOK
  <2>10. ASSUME NEW w \in Workers, ClickCampaign(w) PROVE ListInv'
    <3> DEFINE r == [request[w] EXCEPT !.step = "clicking", !.count = clicked, !.flushed = {request[w].buyer}]
    <3>1. r \in Request /\ Fits(r)
      BY <2>0, <2>10 DEF ClickCampaign, TypeOK, Request, Fits, Steps, Statuses
    <3>2. Become(w, r)
      BY <2>10 DEF ClickCampaign
    <3> HIDE DEF r
    <3> QED BY <2>10, <3>1, <3>2, BecomeFits DEF ClickCampaign, ListInv, TypeOK
  <2>11. ASSUME NEW w \in Workers, CommitClick(w) PROVE ListInv'
    <3>1. Fits(Idle) /\ Idle \in Request
      BY <2>0, Idles DEF TypeOK
    <3>2. clicked' \in Nat /\ clickers' \subseteq recip
      BY <2>0, <2>11 DEF CommitClick, Request, Fits, TypeOK
    <3> QED BY <2>0, <2>11, <3>1, <3>2, BecomeFits DEF CommitClick, ListInv, TypeOK
  <2>12. ASSUME NEW w \in Workers, Abort(w) PROVE ListInv'
    <3>1. Fits(Idle) /\ Idle \in Request
      BY <2>0, Idles DEF TypeOK
    <3>2. lost' \in [Buyers -> 0 .. MaxLost]
      BY <2>0, <2>12, LostAssumption DEF Abort, TypeOK
    <3> QED BY <2>0, <2>12, <3>1, <3>2, BecomeFits DEF Abort, ListInv, TypeOK
  <2>13. ASSUME NEW b \in Buyers, SetAlerts(b) PROVE ListInv'
    BY <2>13 DEF SetAlerts, ListInv, TypeOK, Fits
  <2>14. CASE UNCHANGED vars
    BY <2>14 DEF vars, ListInv, TypeOK, Fits
  <2> QED BY <2>1, <2>2, <2>3, <2>4, <2>5, <2>6, <2>7, <2>8, <2>9, <2>10, <2>11, <2>12, <2>13, <2>14
          DEF Next, Send, Click
<1> QED BY <1>1, <1>2, PTL DEF Spec

-----------------------------------------------------------------------------
(* Sets of requests, and of buyers, can be counted. *)
LEMMA RequestsCounted ==
    ASSUME NEW S, S \subseteq Workers
    PROVE  /\ IsFiniteSet(S) /\ Cardinality(S) \in Nat /\ Cardinality(Workers) \in Nat
           /\ Cardinality(S) <= Cardinality(Workers)
BY FS_Subset, FS_CardinalityType, WorkersAssumption

LEMMA BuyersCounted ==
    ASSUME NEW S, S \subseteq Buyers
    PROVE  IsFiniteSet(S) /\ Cardinality(S) \in Nat
BY FS_Subset, FS_CardinalityType, BuyersAssumption

\* The sends that have mailed the buyer and not committed, and those that are about to.
Mailing(b) == {w \in Workers : b \in request[w].mailed}
Waiting(b) == {w \in Workers : request[w].step = "sending" /\ b \in request[w].todo}

\* The messages to a buyer that are not lost, and those to come.
MailOf(b) ==
    /\ b \notin marked => mails[b] - lost[b] = Cardinality(Mailing(b))
    /\ mails[b] - lost[b] + Cardinality(Waiting(b)) <= Cardinality(Workers)

MailInv == \A b \in Buyers : MailOf(b)

(* A step that sends nothing to the buyer, and does not list it anew, keeps what *)
(* is claimed of it; it may mark the row. *)
LEMMA MailKept ==
    ASSUME ListInv, NEW b \in Buyers, MailOf(b), mails'[b] - lost'[b] = mails[b] - lost[b],
           Waiting(b)' \subseteq Waiting(b), b \notin marked' => Mailing(b)' = Mailing(b) /\ b \notin marked
    PROVE  MailOf(b)'
<1>1. Waiting(b) \subseteq Workers /\ Waiting(b)' \subseteq Workers
  BY DEF Waiting
<1>2. Cardinality(Waiting(b)') <= Cardinality(Waiting(b))
  BY <1>1, RequestsCounted, FS_Subset
<1>3. /\ Cardinality(Waiting(b)) \in Nat /\ Cardinality(Waiting(b)') \in Nat
      /\ Cardinality(Workers) \in Nat
  BY <1>1, RequestsCounted
<1>4. mails[b] - lost[b] \in Int
  BY LostAssumption DEF ListInv, TypeOK
<1>5. mails'[b] - lost'[b] + Cardinality(Waiting(b)') <= Cardinality(Workers)
  BY <1>2, <1>3, <1>4 DEF MailOf
<1> QED BY <1>5 DEF MailOf

(* A request that neither sends nor starts to send leaves both sets of sends. *)
LEMMA QuietForMail ==
    ASSUME ListInv, NEW b \in Buyers, MailOf(b), UNCHANGED <<marked, mails, lost>>,
           NEW w \in Workers, \A v \in Workers : v # w => request'[v] = request[v],
           request'[w].step # "sending", request'[w].mailed = {}, request[w].mailed = {}
    PROVE  MailOf(b)'
<1>1. Waiting(b)' \subseteq Waiting(b)
  BY DEF Waiting
<1>2. Mailing(b)' = Mailing(b)
  BY DEF Mailing
<1> QED BY <1>1, <1>2, MailKept

\* A step of one request that has nothing to do with a message.
QuietStep(w) ==
    /\ UNCHANGED <<marked, mails, lost, sent>>
    /\ \A v \in Workers : v # w => request'[v] = request[v]
    /\ request[w].step # "sending" /\ request'[w].step # "sending"
    /\ request'[w].step = "send" => request'[w].count = sent

(* Creating, reading, pausing and clicking are such steps. *)
LEMMA QuietSteps ==
    ASSUME ListInv, NEW w \in Workers,
           \/ CreateRead(w) \/ CommitCreate(w) \/ SendRead(w) \/ PauseRead(w) \/ CommitPause(w)
           \/ \E c \in Buyers : ClickRead(w, c)
           \/ ClickCampaign(w) \/ CommitClick(w)
    PROVE  QuietStep(w)
<1>1. request[w] \in Request /\ request \in [Workers -> Request]
  BY DEF ListInv, TypeOK
<1>2. CASE CreateRead(w)
  <2>1. PICK segment \in SUBSET Buyers : Become(w, [Idle EXCEPT !.step = "create", !.todo = Eligible(segment)])
    BY <1>2 DEF CreateRead
  <2> QED BY <1>1, <1>2, <2>1 DEF CreateRead, Become, Idle, QuietStep
<1>3. CASE CommitCreate(w)
  BY <1>1, <1>3 DEF CommitCreate, Become, Idle, QuietStep
<1>4. CASE SendRead(w)
  BY <1>1, <1>4 DEF SendRead, Become, Idle, QuietStep
<1>5. CASE PauseRead(w)
  BY <1>1, <1>5 DEF PauseRead, Become, Idle, QuietStep
<1>6. CASE CommitPause(w)
  BY <1>1, <1>6 DEF CommitPause, Become, Idle, QuietStep
<1>7. ASSUME NEW c \in Buyers, ClickRead(w, c) PROVE QuietStep(w)
  BY <1>1, <1>7 DEF ClickRead, Become, Idle, QuietStep
<1>8. CASE ClickCampaign(w)
  BY <1>1, <1>8 DEF ClickCampaign, Become, Request, QuietStep
<1>9. CASE CommitClick(w)
  BY <1>1, <1>9 DEF CommitClick, Become, Idle, QuietStep
<1> QED BY <1>2, <1>3, <1>4, <1>5, <1>6, <1>7, <1>8, <1>9

(* What one turn of the loop of a send does. *)
LEMMA SendOneEffect ==
    ASSUME ListInv, NEW w \in Workers, NEW c \in Buyers, SendOne(w, c)
    PROVE  /\ \A v \in Workers : v # w => request'[v] = request[v]
           /\ request[w].step = "sending" /\ c \in request[w].todo
           /\ request'[w].step = "sending" /\ request'[w].todo = request[w].todo \ {c}
           /\ request'[w].count = request[w].count
           /\ \A b \in Buyers \ {c} : mails'[b] = mails[b] /\ lost'[b] = lost[b]
           /\ \/ request'[w].mailed = request[w].mailed /\ mails'[c] - lost'[c] = mails[c] - lost[c]
              \/ /\ request'[w].mailed = request[w].mailed \cup {c}
                 /\ mails'[c] = mails[c] + 1 /\ lost'[c] = lost[c]
           /\ UNCHANGED <<marked, sent>>
<1>1. PICK left \in BOOLEAN, ok \in BOOLEAN :
        /\ ok => left
        /\ Become(w, [request[w] EXCEPT !.todo = @ \ {c}, !.mailed = IF ok THEN @ \cup {c} ELSE @,
                                        !.flushed = request[w].mailed, !.camp = @ \/ request[w].mailed # {}])
        /\ mails' = [mails EXCEPT ![c] = IF left THEN @ + 1 ELSE @]
        /\ lost' = [lost EXCEPT ![c] = IF left /\ ~ok THEN @ + 1 ELSE @]
  BY DEF SendOne
<1> DEFINE m == IF ok THEN request[w].mailed \cup {c} ELSE request[w].mailed
<1> DEFINE d == request[w].camp \/ request[w].mailed # {}
<1>2. request[w] \in Request /\ request \in [Workers -> Request]
  BY DEF ListInv, TypeOK
<1>3. request' = [request EXCEPT ![w] = [request[w] EXCEPT !.todo = request[w].todo \ {c}, !.mailed = m,
                                                          !.flushed = request[w].mailed, !.camp = d]]
  BY <1>1, <1>2 DEF Become, Request
<1>4. /\ \A b \in Buyers \ {c} : mails'[b] = mails[b] /\ lost'[b] = lost[b]
      /\ \/ m = request[w].mailed /\ mails'[c] - lost'[c] = mails[c] - lost[c]
         \/ m = request[w].mailed \cup {c} /\ mails'[c] = mails[c] + 1 /\ lost'[c] = lost[c]
  <2>1. mails \in [Buyers -> Nat] /\ lost \in [Buyers -> Int]
    BY LostAssumption DEF ListInv, TypeOK
  <2>2. \A b \in Buyers \ {c} : mails'[b] = mails[b] /\ lost'[b] = lost[b]
    BY <1>1, <2>1
  <2>3. /\ mails'[c] = IF left THEN mails[c] + 1 ELSE mails[c]
        /\ lost'[c] = IF left /\ ~ok THEN lost[c] + 1 ELSE lost[c]
    BY <1>1, <2>1
  <2>4. CASE ok
    BY <1>1, <2>2, <2>3, <2>4
  <2>5. CASE ~ok
    BY <2>1, <2>2, <2>3, <2>5
  <2> QED BY <2>4, <2>5
<1> HIDE DEF m, d
<1>5. /\ \A v \in Workers : v # w => request'[v] = request[v]
      /\ request'[w] = [request[w] EXCEPT !.todo = request[w].todo \ {c}, !.mailed = m,
                                          !.flushed = request[w].mailed, !.camp = d]
  BY <1>2, <1>3
<1>6. /\ request'[w].step = request[w].step /\ request'[w].todo = request[w].todo \ {c}
      /\ request'[w].mailed = m /\ request'[w].count = request[w].count
  BY <1>2, <1>5 DEF Request
<1> QED BY <1>4, <1>5, <1>6 DEF SendOne

(* A recipient gets at most one message per request in flight, not counting those *)
(* of sends that died before their commit and those the provider raised for after *)
(* they had left (send_campaign). *)
THEOREM MailsBounded == Spec => []MailsBound
<1>1. Init => MailInv
  <2> SUFFICES ASSUME Init, NEW b \in Buyers PROVE MailOf(b)
    BY DEF MailInv
  <2>1. Mailing(b) = {} /\ Waiting(b) = {} /\ mails[b] = 0 /\ lost[b] = 0
    BY DEF Init, Mailing, Waiting, Idle
  <2>2. Cardinality({}) = 0 /\ Cardinality(Workers) \in Nat
    BY FS_EmptySet, RequestsCounted
  <2> QED BY <2>1, <2>2 DEF MailOf
<1>2. ListInv /\ ListInv' /\ MailInv /\ [Next]_vars => MailInv'
  <2> SUFFICES ASSUME ListInv, ListInv', MailInv, [Next]_vars, NEW b \in Buyers PROVE MailOf(b)'
    BY DEF MailInv
  <2>0. /\ MailOf(b)
        /\ \A w \in Workers : request[w].step # "sending" => request[w].mailed = {}
        /\ \A w \in Workers : request[w] \in Request
    BY DEF MailInv, ListInv, Fits, TypeOK
  <2>1. ASSUME NEW w \in Workers,
               \/ CreateRead(w) \/ CommitCreate(w) \/ SendRead(w) \/ PauseRead(w) \/ CommitPause(w)
               \/ \E c \in Buyers : ClickRead(w, c)
               \/ ClickCampaign(w) \/ CommitClick(w)
        PROVE  MailOf(b)'
    <3>1. QuietStep(w)
      BY <2>1, QuietSteps DEF ListInv
    <3>2. request[w].mailed = {} /\ request'[w].mailed = {}
      BY <2>0, <3>1 DEF QuietStep, ListInv, Fits
    <3> QED BY <2>0, <3>1, <3>2, QuietForMail DEF QuietStep
  <2>2. ASSUME NEW w \in Workers, SelectRecipients(w) PROVE MailOf(b)'
    <3>1. /\ \A v \in Workers : v # w => request'[v] = request[v]
          /\ request'[w].step = "sending" /\ request'[w].todo = Unsent /\ request'[w].mailed = request[w].mailed
      <4>1. request[w] \in Request /\ request \in [Workers -> Request]
        BY <2>0 DEF ListInv, TypeOK
      <4> QED BY <2>2, <4>1 DEF SelectRecipients, Become, Request
    <3>2. UNCHANGED <<marked, mails, lost>> /\ request[w].mailed = {}
      BY <2>0, <2>2 DEF SelectRecipients
    <3>3. Mailing(b)' = Mailing(b)
      BY <3>1, <3>2 DEF Mailing
    <3>4. CASE b \in marked
      <4>1. Waiting(b)' \subseteq Waiting(b)
        BY <3>1, <3>4 DEF Waiting, Unsent
      <4> QED BY <2>0, <3>2, <3>3, <4>1, MailKept
    <3>5. CASE b \notin marked
      <4>1. Mailing(b)' \cup Waiting(b)' \subseteq Workers /\ Mailing(b)' \cap Waiting(b)' = {}
        BY DEF Mailing, Waiting, ListInv, Fits
      <4>2. Cardinality(Mailing(b)') + Cardinality(Waiting(b)') = Cardinality(Mailing(b)' \cup Waiting(b)')
        <5>1. IsFiniteSet(Mailing(b)') /\ IsFiniteSet(Waiting(b)')
          BY <4>1, RequestsCounted
        <5>2. Cardinality(Mailing(b)' \cap Waiting(b)') = 0
          BY <4>1, FS_EmptySet
        <5>3. Cardinality(Mailing(b)') \in Nat /\ Cardinality(Waiting(b)') \in Nat
          BY <5>1, FS_CardinalityType
        <5>4. Cardinality(Mailing(b)' \cup Waiting(b)')
                = Cardinality(Mailing(b)') + Cardinality(Waiting(b)') - Cardinality(Mailing(b)' \cap Waiting(b)')
          BY <5>1, FS_Union, Zenon
        <5> QED BY <5>2, <5>3, <5>4
      <4>3. Cardinality(Mailing(b)') + Cardinality(Waiting(b)') <= Cardinality(Workers)
        BY <4>1, <4>2, RequestsCounted
      <4>4. mails'[b] - lost'[b] = Cardinality(Mailing(b)')
        BY <2>0, <3>2, <3>3, <3>5 DEF MailOf
      <4> QED BY <4>3, <4>4 DEF MailOf
    <3> QED BY <3>4, <3>5
  <2>3. ASSUME NEW w \in Workers, NEW c \in Buyers, SendOne(w, c) PROVE MailOf(b)'
    <3>1. /\ \A v \in Workers : v # w => request'[v] = request[v]
          /\ request[w].step = "sending" /\ c \in request[w].todo
          /\ request'[w].step = "sending" /\ request'[w].todo = request[w].todo \ {c}
          /\ b # c => mails'[b] = mails[b] /\ lost'[b] = lost[b]
          /\ \/ request'[w].mailed = request[w].mailed /\ mails'[c] - lost'[c] = mails[c] - lost[c]
             \/ /\ request'[w].mailed = request[w].mailed \cup {c}
                /\ mails'[c] = mails[c] + 1 /\ lost'[c] = lost[c]
          /\ marked' = marked
      BY <2>3, SendOneEffect
    <3>2. CASE b # c \/ request'[w].mailed = request[w].mailed
      <4>1. Waiting(b)' \subseteq Waiting(b)
        BY <3>1 DEF Waiting
      <4>2. Mailing(b)' = Mailing(b)
        <5>1. b \in request'[w].mailed <=> b \in request[w].mailed
          BY <3>1, <3>2
        <5> QED BY <3>1, <5>1 DEF Mailing
      <4>3. mails'[b] - lost'[b] = mails[b] - lost[b]
        <5>1. CASE b # c
          BY <3>1, <5>1
        <5>2. CASE b = c /\ request'[w].mailed = request[w].mailed
          <6>1. mails[b] \in Nat /\ lost[b] \in Int
            BY LostAssumption DEF ListInv, TypeOK
          <6>2. c \notin request[w].mailed
            BY <3>1 DEF ListInv, Fits
          <6> QED BY <3>1, <5>2, <6>1, <6>2
        <5> QED BY <3>2, <5>1, <5>2
      <4> QED BY <2>0, <3>1, <4>1, <4>2, <4>3, MailKept
    <3>3. CASE b = c /\ request'[w].mailed # request[w].mailed
      <4>1. request'[w].mailed = request[w].mailed \cup {b} /\ mails'[b] = mails[b] + 1 /\ lost'[b] = lost[b]
        BY <3>1, <3>3
      <4>2. w \in Waiting(b) /\ Waiting(b)' = Waiting(b) \ {w}
        BY <3>1, <3>3 DEF Waiting
      <4>3. w \notin Mailing(b) /\ Mailing(b)' = Mailing(b) \cup {w}
        <5>1. b \notin request[w].mailed
          BY <3>1, <3>3 DEF ListInv, Fits
        <5> QED BY <3>1, <4>1, <5>1 DEF Mailing
      <4>4. IsFiniteSet(Waiting(b)) /\ IsFiniteSet(Mailing(b))
        BY RequestsCounted DEF Waiting, Mailing
      <4>5. Cardinality(Waiting(b)') = Cardinality(Waiting(b)) - 1
        BY <4>2, <4>4, FS_RemoveElement
      <4>6. Cardinality(Mailing(b)') = Cardinality(Mailing(b)) + 1
        BY <4>3, <4>4, FS_AddElement
      <4>7. /\ Cardinality(Waiting(b)) \in Nat /\ Cardinality(Mailing(b)) \in Nat /\ Cardinality(Workers) \in Nat
            /\ mails[b] \in Nat /\ lost[b] \in Int
        BY <4>4, FS_CardinalityType, RequestsCounted, LostAssumption DEF ListInv, TypeOK
      <4>8. mails'[b] - lost'[b] + Cardinality(Waiting(b)') <= Cardinality(Workers)
        BY <2>0, <4>1, <4>5, <4>7 DEF MailOf
      <4>9. b \notin marked' => mails'[b] - lost'[b] = Cardinality(Mailing(b)')
        BY <2>0, <3>1, <4>1, <4>6, <4>7 DEF MailOf
      <4> QED BY <4>8, <4>9 DEF MailOf
    <3> QED BY <3>2, <3>3
  <2>4. ASSUME NEW w \in Workers, CommitSend(w) PROVE MailOf(b)'
    <3>1. /\ \A v \in Workers : v # w => request'[v] = request[v]
          /\ request'[w].step = "idle" /\ request'[w].mailed = {}
          /\ marked' = marked \cup request[w].mailed /\ UNCHANGED <<mails, lost>>
      BY <2>4 DEF CommitSend, Become, Idle, ListInv, TypeOK, Marks
    <3>2. Waiting(b)' \subseteq Waiting(b)
      BY <3>1 DEF Waiting
    <3>3. b \notin marked' => Mailing(b)' = Mailing(b) /\ b \notin marked
      BY <3>1 DEF Mailing
    <3> QED BY <2>0, <3>1, <3>2, <3>3, MailKept
  <2>5. ASSUME NEW w \in Workers, Abort(w) PROVE MailOf(b)'
    <3>1. /\ \A v \in Workers : v # w => request'[v] = request[v]
          /\ request'[w].step = "idle" /\ request'[w].mailed = {}
          /\ UNCHANGED <<marked, mails>>
      BY <2>5 DEF Abort, Become, Idle, ListInv, TypeOK
    <3>2. lost'[b] = IF b \in request[w].mailed THEN lost[b] + 1 ELSE lost[b]
      BY <2>5 DEF Abort
    <3>3. Waiting(b)' \subseteq Waiting(b)
      BY <3>1 DEF Waiting
    <3>4. CASE b \notin request[w].mailed
      <4>1. Mailing(b)' = Mailing(b)
        BY <3>1, <3>4 DEF Mailing
      <4> QED BY <2>0, <3>1, <3>2, <3>3, <3>4, <4>1, MailKept
    <3>5. CASE b \in request[w].mailed
      <4>1. w \in Mailing(b) /\ Mailing(b)' = Mailing(b) \ {w}
        BY <3>1, <3>5 DEF Mailing
      <4>2. IsFiniteSet(Waiting(b)) /\ IsFiniteSet(Mailing(b))
        BY RequestsCounted DEF Waiting, Mailing
      <4>3. Cardinality(Mailing(b)') = Cardinality(Mailing(b)) - 1
        BY <4>1, <4>2, FS_RemoveElement
      <4>4. Cardinality(Waiting(b)') <= Cardinality(Waiting(b)) /\ Cardinality(Waiting(b)') \in Nat
        BY <3>3, <4>2, FS_Subset, FS_CardinalityType
      <4>5. /\ Cardinality(Waiting(b)) \in Nat /\ Cardinality(Mailing(b)) \in Nat /\ Cardinality(Workers) \in Nat
            /\ mails[b] \in Nat /\ lost[b] \in Int
        BY <4>2, FS_CardinalityType, RequestsCounted, LostAssumption DEF ListInv, TypeOK
      <4>6. mails'[b] = mails[b] /\ lost'[b] = lost[b] + 1 /\ marked' = marked
        BY <3>1, <3>2, <3>5
      <4>7. mails'[b] - lost'[b] + Cardinality(Waiting(b)') <= Cardinality(Workers)
        BY <2>0, <4>4, <4>5, <4>6 DEF MailOf
      <4>8. b \notin marked' => mails'[b] - lost'[b] = Cardinality(Mailing(b)')
        BY <2>0, <4>3, <4>5, <4>6 DEF MailOf
      <4> QED BY <4>7, <4>8 DEF MailOf
    <3> QED BY <3>4, <3>5
  <2>6. CASE UNCHANGED vars \/ \E c \in Buyers : SetAlerts(c)
    <3>1. UNCHANGED <<marked, mails, lost, request>>
      BY <2>6 DEF vars, SetAlerts
    <3>2. Waiting(b)' = Waiting(b) /\ Mailing(b)' = Mailing(b)
      BY <3>1 DEF Waiting, Mailing
    <3> QED BY <2>0, <3>1, <3>2, MailKept
  <2> QED BY <2>1, <2>2, <2>3, <2>4, <2>5, <2>6 DEF Next, Send, Click
<1>3. ListInv /\ MailInv => MailsBound
  <2> SUFFICES ASSUME ListInv, MailInv, NEW b \in Buyers PROVE mails[b] - lost[b] <= Cardinality(Workers)
    BY DEF MailsBound
  <2>1. /\ Cardinality(Waiting(b)) \in Nat /\ Cardinality(Workers) \in Nat
        /\ mails[b] \in Nat /\ lost[b] \in Int
    BY RequestsCounted, LostAssumption DEF Waiting, ListInv, TypeOK
  <2> QED BY <2>1 DEF MailInv, MailOf
<1> QED BY <1>1, <1>2, <1>3, BlastTyping, PTL DEF Spec

-----------------------------------------------------------------------------
\* What a send has read of the count is covered by rows it will not mark itself.
Covered(r) ==
    /\ r.step = "send" => r.count <= Cardinality(marked)
    /\ r.step = "sending" => r.count <= Cardinality(marked \ (r.todo \cup r.mailed))

CountInv ==
    /\ SentNotOvercounted
    /\ DoneMeansSent
    /\ \A w \in Workers : Covered(request[w])

(* More rows marked cover a count as well. *)
LEMMA CoveredKept ==
    ASSUME ListInv, NEW r, r \in Request, Covered(r), marked \subseteq marked', marked' \subseteq Buyers
    PROVE  /\ r.step = "send" => r.count <= Cardinality(marked')
           /\ r.step = "sending" => r.count <= Cardinality(marked' \ (r.todo \cup r.mailed))
<1> DEFINE A == marked \ (r.todo \cup r.mailed)
<1> DEFINE B == marked' \ (r.todo \cup r.mailed)
<1>1. A \subseteq B /\ B \subseteq Buyers /\ A \subseteq Buyers
  OBVIOUS
<1>2. /\ Cardinality(marked) <= Cardinality(marked') /\ Cardinality(A) <= Cardinality(B)
      /\ Cardinality(marked) \in Nat /\ Cardinality(A) \in Nat
      /\ Cardinality(marked') \in Nat /\ Cardinality(B) \in Nat
  BY <1>1, BuyersCounted, FS_Subset
<1>3. r.count \in Nat
  BY DEF Request
<1> HIDE DEF A, B
<1>4. r.step = "sending" => r.count <= Cardinality(A)
  BY DEF Covered, A
<1>5. r.step = "sending" => r.count <= Cardinality(B)
  BY <1>2, <1>3, <1>4
<1>6. r.step = "send" => r.count <= Cardinality(marked')
  BY <1>2, <1>3 DEF Covered
<1> QED BY <1>5, <1>6 DEF B

(* The count shown to the admin never exceeds the recipients that are marked, and *)
(* a campaign that reads "done" has mailed everybody on its list (send_campaign). *)
THEOREM Counts == Spec => [](SentNotOvercounted /\ DoneMeansSent)
<1>1. Init => CountInv
  BY FS_EmptySet DEF Init, CountInv, SentNotOvercounted, DoneMeansSent, Covered, Idle
<1>2. ListInv /\ ListInv' /\ CountInv /\ [Next]_vars => CountInv'
  <2> SUFFICES ASSUME ListInv, ListInv', CountInv, [Next]_vars PROVE CountInv'
    OBVIOUS
  <2>0. /\ \A w \in Workers : request[w] \in Request /\ Covered(request[w]) /\ Fits(request[w])
        /\ marked \subseteq recip /\ recip \subseteq Buyers /\ marked \subseteq Buyers
        /\ sent <= Cardinality(marked) /\ sent \in Nat
        /\ status = "done" => marked = recip
    BY DEF CountInv, ListInv, TypeOK, SentNotOvercounted, DoneMeansSent
  <2>1. ASSUME UNCHANGED <<marked, sent>>, status' = "done" => status = "done" /\ recip' = recip,
               \A v \in Workers : Covered(request'[v])
        PROVE  CountInv'
    BY <2>0, <2>1 DEF CountInv, SentNotOvercounted, DoneMeansSent, Covered
  <2>2. ASSUME NEW w \in Workers,
               \/ CreateRead(w) \/ CommitCreate(w) \/ SendRead(w) \/ PauseRead(w) \/ CommitPause(w)
               \/ \E c \in Buyers : ClickRead(w, c)
               \/ ClickCampaign(w) \/ CommitClick(w)
        PROVE  CountInv'
    <3>1. QuietStep(w)
      BY <2>2, QuietSteps
    <3>2. status' = "done" => status = "done" /\ recip' = recip
      BY <2>2 DEF CreateRead, CommitCreate, SendRead, PauseRead, CommitPause, ClickRead, ClickCampaign, CommitClick
    <3>3. \A v \in Workers : Covered(request'[v])
      BY <2>0, <3>1 DEF QuietStep, Covered
    <3> QED BY <2>1, <3>1, <3>2, <3>3 DEF QuietStep
  <2>3. ASSUME NEW w \in Workers, SelectRecipients(w) PROVE CountInv'
    <3>1. /\ \A v \in Workers : v # w => request'[v] = request[v]
          /\ request[w].step = "send" /\ request'[w].step = "sending" /\ request'[w].todo = Unsent
          /\ request'[w].mailed = request[w].mailed /\ request'[w].count = request[w].count
      <4>1. request[w] \in Request /\ request \in [Workers -> Request]
        BY DEF ListInv, TypeOK
      <4> QED BY <2>3, <4>1 DEF SelectRecipients, Become, Request
    <3>2. marked \ (request'[w].todo \cup request'[w].mailed) = marked
      BY <2>0, <3>1 DEF Unsent, Fits
    <3>3. Covered(request'[w])
      BY <2>0, <3>1, <3>2 DEF Covered
    <3>4. \A v \in Workers : Covered(request'[v])
      BY <2>0, <3>1, <3>3
    <3> QED BY <2>1, <2>3, <3>4 DEF SelectRecipients
  <2>4. ASSUME NEW w \in Workers, NEW c \in Buyers, SendOne(w, c) PROVE CountInv'
    <3>1. /\ \A v \in Workers : v # w => request'[v] = request[v]
          /\ request[w].step = "sending" /\ request'[w].step = "sending"
          /\ request'[w].todo \cup request'[w].mailed \subseteq request[w].todo \cup request[w].mailed
          /\ request'[w].count = request[w].count /\ UNCHANGED <<marked, sent>>
      BY <2>4, SendOneEffect
    <3> DEFINE A == marked \ (request[w].todo \cup request[w].mailed)
    <3> DEFINE B == marked \ (request'[w].todo \cup request'[w].mailed)
    <3>2. A \subseteq B /\ A \subseteq Buyers /\ B \subseteq Buyers
      BY <2>0, <3>1
    <3>3. Cardinality(A) <= Cardinality(B) /\ Cardinality(A) \in Nat /\ Cardinality(B) \in Nat
      BY <3>2, BuyersCounted, FS_Subset
    <3>4. request[w].count <= Cardinality(A) /\ request[w].count \in Nat
      BY <2>0, <3>1 DEF Covered, Request
    <3>5. request'[w].count <= Cardinality(B)
      <4> HIDE DEF A, B
      <4> QED BY <3>1, <3>3, <3>4
    <3>6. \A v \in Workers : Covered(request'[v])
      BY <2>0, <3>1, <3>5 DEF Covered
    <3> QED BY <2>1, <2>4, <3>1, <3>6 DEF SendOne
  <2>5. ASSUME NEW w \in Workers, CommitSend(w) PROVE CountInv'
    <3> DEFINE r == request[w]
    <3> DEFINE rest == marked \ (r.todo \cup r.mailed)
    <3>1. /\ \A v \in Workers : v # w => request'[v] = request[v]
          /\ request'[w].step = "idle"
          /\ marked' = marked \cup r.mailed /\ recip' = recip
          /\ sent' = IF r.mailed = {} THEN sent ELSE SentAfter(r)
          /\ status' = status \/ status' = StatusAfter(r)
      BY <2>5 DEF CommitSend, Become, Idle, ListInv, TypeOK, Marks
    <3>2. /\ r.step = "sending" /\ r \in Request /\ r.todo = {} /\ r.mailed \subseteq recip
          /\ r.count <= Cardinality(rest) /\ r.count \in Nat
      BY <2>0, <2>5 DEF CommitSend, Fits, Covered, Request
    <3>3. /\ marked \subseteq marked' /\ marked' \subseteq recip /\ recip \subseteq Buyers
          /\ rest \subseteq Buyers /\ r.mailed \subseteq Buyers /\ marked' \subseteq Buyers
          /\ rest \cap r.mailed = {} /\ rest \cup r.mailed \subseteq marked'
      BY <2>0, <3>1, <3>2
    <3> HIDE DEF r, rest
    <3>4. /\ IsFiniteSet(rest) /\ IsFiniteSet(r.mailed) /\ IsFiniteSet(marked') /\ IsFiniteSet(recip)
          /\ Cardinality(rest) \in Nat /\ Cardinality(r.mailed) \in Nat
          /\ Cardinality(marked') \in Nat /\ Cardinality(recip) \in Nat /\ Cardinality(marked) \in Nat
      BY <2>0, <3>3, BuyersCounted
    <3>5. Cardinality(rest \cup r.mailed) = Cardinality(rest) + Cardinality(r.mailed)
      <4>1. Cardinality(rest \cup r.mailed) = Cardinality(rest) + Cardinality(r.mailed) - Cardinality(rest \cap r.mailed)
        BY <3>4, FS_Union, Zenon
      <4>2. Cardinality(rest \cap r.mailed) = 0
        BY <3>3, FS_EmptySet
      <4> QED BY <3>4, <4>1, <4>2
    <3>6. Cardinality(rest \cup r.mailed) <= Cardinality(marked') /\ Cardinality(marked) <= Cardinality(marked')
      BY <3>3, <3>4, FS_Subset
    <3>7. SentAfter(r) <= Cardinality(marked')
      BY <3>2, <3>4, <3>5, <3>6 DEF SentAfter
    <3>8. sent' <= Cardinality(marked')
      BY <2>0, <3>1, <3>4, <3>6, <3>7
    <3>9. status' = "done" => marked' = recip
      <4>1. CASE status' = status
        BY <2>0, <3>1, <3>3, <4>1
      <4>2. CASE status' = StatusAfter(r) /\ status' = "done"
        <5>1. SentAfter(r) >= Cardinality(recip)
          BY <4>2 DEF StatusAfter
        <5>2. Cardinality(marked') >= Cardinality(recip)
          BY <3>2, <3>4, <3>7, <5>1 DEF SentAfter
        <5>3. Cardinality(marked') <= Cardinality(recip)
          BY <3>3, <3>4, FS_Subset
        <5>4. Cardinality(marked') = Cardinality(recip)
          BY <3>4, <5>2, <5>3
        <5> QED BY <3>3, <3>4, <5>4, FS_Subset
      <4> QED BY <3>1, <4>1, <4>2
    <3>10. \A v \in Workers : v # w => Covered(request[v])'
      <4> SUFFICES ASSUME NEW v \in Workers, v # w PROVE Covered(request[v])'
        OBVIOUS
      <4>1. request'[v] = request[v] /\ request[v] \in Request /\ Covered(request[v])
        BY <2>0, <3>1
      <4> QED BY <3>3, <4>1, CoveredKept DEF Covered
    <3>11. Covered(request[w])'
      BY <3>1 DEF Covered
    <3> QED BY <3>1, <3>8, <3>9, <3>10, <3>11 DEF CountInv, SentNotOvercounted, DoneMeansSent
  <2>6. ASSUME NEW w \in Workers, Abort(w) PROVE CountInv'
    <3>1. \A v \in Workers : request'[v] = IF v = w THEN Idle ELSE request[v]
      BY <2>6 DEF Abort, Become, ListInv, TypeOK
    <3>2. \A v \in Workers : Covered(request'[v])
      BY <2>0, <3>1 DEF Covered, Idle
    <3> QED BY <2>1, <2>6, <3>2 DEF Abort
  <2>7. CASE UNCHANGED vars \/ \E c \in Buyers : SetAlerts(c)
    <3>1. UNCHANGED <<marked, sent, status, recip, request>>
      BY <2>7 DEF vars, SetAlerts
    <3> QED BY <2>0, <2>1, <3>1
  <2> QED BY <2>2, <2>3, <2>4, <2>5, <2>6, <2>7 DEF Next, Send, Click
<1>3. CountInv => SentNotOvercounted /\ DoneMeansSent
  BY DEF CountInv
<1> QED BY <1>1, <1>2, <1>3, BlastTyping, PTL DEF Spec

-----------------------------------------------------------------------------
(* Each part runs by its own specification. *)
LEMMA PartsRun == BackOffice => Spec /\ I!Spec /\ D!Spec /\ M!Spec
<1>1. Begin => Init /\ I!Init /\ D!Init /\ M!Init
  BY DEF Begin
<1> DEFINE all == <<part, blast, mailroom, desk, markets>>
<1>2. [Step]_all => [Next]_vars
  BY DEF Step, blast, vars
<1>3. [Step]_all => [I!Next]_(I!vars)
  BY DEF Step, mailroom, I!vars
<1>4. [Step]_all => [D!Next]_(D!vars)
  BY DEF Step, desk, D!vars
<1>5. [Step]_all => [M!Next]_(M!vars)
  BY DEF Step, markets, M!vars
<1> QED BY <1>1, <1>2, <1>3, <1>4, <1>5, PTL DEF BackOffice, Spec, I!Spec, D!Spec, M!Spec

(* The parts count as FiniteSets does. *)
LEMMA MailCounts == \A S : I!Cardinality(S) = Cardinality(S)
BY Zenon DEF I!Cardinality, Cardinality

LEMMA ThreadCounts == \A S : D!Cardinality(S) = Cardinality(S)
BY Zenon DEF D!Cardinality, Cardinality

-----------------------------------------------------------------------------
\* Only the request of w changes.
AloneSort(w) == \A v \in Workers : v # w => sort'[v] = sort[v]

(* The request a step leaves is the one it says, and the others stay. *)
LEMMA BecameSort ==
    ASSUME I!TypeOK, NEW w \in Workers, NEW r, I!Become(w, r)
    PROVE  AloneSort(w) /\ sort'[w] = r
BY DEF I!TypeOK, I!Become, AloneSort

\* What a request and a link stand for is known.
Sourced == \A i \in I!Ids : I!Ingested(i) \/ (\E w \in Workers : sort[w].id = i) => source[i] \in Mails

(* A request of the right type whose message_id stands for a piece of mail leaves *)
(* all requests typed, and nothing without its piece. *)
LEMMA SortTyped ==
    ASSUME I!TypeOK, NEW w \in Workers, NEW r, r \in I!Request, r.step # "idle" => r.id \in I!Ids, I!Become(w, r),
           \A i \in I!Ids : source[i] \in Mails => source'[i] \in Mails,
           r.id \in I!Ids => source'[r.id] \in Mails,
           \A i \in I!Ids : I!Ingested(i)' => I!Ingested(i) \/ source'[i] \in Mails
    PROVE  /\ sort' \in [Workers -> I!Request]
           /\ \A v \in Workers : sort'[v].step # "idle" => sort'[v].id \in I!Ids
           /\ Sourced'
<1>1. \A v \in Workers : sort'[v] = IF v = w THEN r ELSE sort[v]
  BY DEF I!TypeOK, I!Become
<1>2. \A i \in I!Ids : I!Ingested(i) \/ (\E v \in Workers : sort[v].id = i) => source'[i] \in Mails
  BY DEF I!TypeOK, I!Ingested
<1>3. Sourced'
  BY <1>1, <1>2 DEF Sourced, I!Ids
<1> QED BY <1>3 DEF I!TypeOK, I!Become

(* The rows and the requests keep their types. *)
THEOREM MailroomTyping ==
    I!Spec => []I!TypeOK
<1>1. I!Init => I!TypeOK
  BY MailAssumption DEF I!Init, I!TypeOK, I!Kinds, I!LinkStates, I!Steps, I!Request, I!Idle, I!Ids
<1>2. I!TypeOK /\ [I!Next]_(I!vars) => I!TypeOK'
  <2> SUFFICES ASSUME I!TypeOK, [I!Next]_(I!vars) PROVE I!TypeOK'
    OBVIOUS
  <2>0. /\ I!Idle \in I!Request /\ I!Idle.step = "idle" /\ I!Idle.id = NULL /\ NULL \notin I!Ids
        /\ \A w \in Workers : sort[w] \in I!Request
        /\ \A w \in Workers : sort[w].step # "idle" => sort[w].id \in I!Ids /\ source[sort[w].id] \in Mails
    BY MailAssumption DEF I!TypeOK, I!Request, I!Idle, I!Steps, I!Ids
  <2>1. ASSUME NEW w \in Workers, NEW m \in Mails, I!IngestRead(w, m) PROVE I!TypeOK'
    <3>1. PICK i \in I!MessageId(m) :
              /\ source' = [source EXCEPT ![i] = m]
              /\ I!Become(w, [I!Idle EXCEPT !.step = IF kind[m] = "bounce" THEN "new" ELSE "flush", !.id = i])
      BY <2>1 DEF I!IngestRead
    <3>2. i \in I!Ids /\ (i \in Named => m = i)
      BY MailAssumption DEF I!MessageId, I!Ids
    <3> DEFINE r == [I!Idle EXCEPT !.step = IF kind[m] = "bounce" THEN "new" ELSE "flush", !.id = i]
    <3>3. r \in I!Request /\ r.id = i
      BY <2>0, <3>2 DEF I!Request, I!Idle, I!Steps
    <3>4. I!Become(w, r)
      BY <3>1
    <3> HIDE DEF r
    <3>5. /\ source' \in [I!Ids -> Mails \cup {NULL}] /\ \A n \in Named : source'[n] = n
          /\ \A n \in I!Ids : source'[n] = IF n = i THEN m ELSE source[n]
      BY <3>1, <3>2 DEF I!TypeOK, I!Ids
    <3>6. UNCHANGED <<kind, link, posted, linked, bounced, listens, last>>
      BY <2>1 DEF I!IngestRead
    <3>7. sort' \in [Workers -> I!Request] /\ Sourced' /\ \A v \in Workers : sort'[v].step # "idle" => sort'[v].id \in I!Ids
      BY <3>2, <3>3, <3>4, <3>5, <3>6, SortTyped DEF I!Ingested
    <3> QED BY <3>5, <3>6, <3>7 DEF I!TypeOK, Sourced, I!Ingested
  <2>10. ASSUME NEW w \in Workers, NEW r, r \in I!Request, r.id \in I!Ids => source[r.id] \in Mails,
               r.step # "idle" => r.id \in I!Ids, I!Become(w, r), UNCHANGED source,
               \A i \in I!Ids : I!Ingested(i)' => I!Ingested(i) \/ source[i] \in Mails
        PROVE  /\ sort' \in [Workers -> I!Request] /\ Sourced'
               /\ \A v \in Workers : sort'[v].step # "idle" => sort'[v].id \in I!Ids
    BY <2>0, <2>10, SortTyped
  <2>2. ASSUME NEW w \in Workers, I!BounceRead(w) PROVE I!TypeOK'
    <3>1. PICK p \in Recips \cup {NULL} : I!Become(w, [sort[w] EXCEPT !.step = "count", !.recip = p])
      BY <2>2 DEF I!BounceRead
    <3> DEFINE r == [sort[w] EXCEPT !.step = "count", !.recip = p]
    <3>2. r \in I!Request /\ r.id \in I!Ids /\ source[r.id] \in Mails
      BY <2>0, <2>2 DEF I!BounceRead, I!Request, I!Steps
    <3>3. I!Become(w, r) /\ UNCHANGED <<kind, source, link, posted, linked, bounced, listens, last>>
      BY <2>2, <3>1 DEF I!BounceRead
    <3> HIDE DEF r
    <3> QED BY <2>10, <3>2, <3>3 DEF I!TypeOK, I!Ingested, Sourced
  <2>3. ASSUME NEW w \in Workers, I!BounceCount(w) PROVE I!TypeOK'
    <3> DEFINE stop == I!Hard(sort[w].recip) >= 3
    <3> DEFINE r == [sort[w] EXCEPT !.step = "flush", !.stop = stop]
    <3>1. stop \in BOOLEAN
      OBVIOUS
    <3>2. I!Become(w, r) /\ UNCHANGED <<kind, source, link, posted, linked, bounced, listens, last>>
      BY <2>3 DEF I!BounceCount
    <3> HIDE DEF stop
    <3>3. r \in I!Request /\ r.id \in I!Ids /\ source[r.id] \in Mails
      BY <2>0, <2>3, <3>1 DEF I!BounceCount, I!Request, I!Steps
    <3> HIDE DEF r
    <3> QED BY <2>10, <3>2, <3>3 DEF I!TypeOK, I!Ingested, Sourced
  <2>4. ASSUME NEW w \in Workers, I!FlushLink(w) PROVE I!TypeOK'
    <3> DEFINE r == IF I!Ingested(sort[w].id) THEN I!Idle ELSE [sort[w] EXCEPT !.step = "commit", !.last = last]
    <3>1. r \in I!Request
      <4>1. [sort[w] EXCEPT !.step = "commit", !.last = last] \in I!Request
        <5>1. sort[w] \in I!Request /\ last \in Mails \cup {NULL}
          BY <2>0 DEF I!TypeOK
        <5> QED BY <5>1 DEF I!Request, I!Steps
      <4> QED BY <2>0, <4>1
    <3>2. (r.id \in I!Ids => source[r.id] \in Mails) /\ (r.step # "idle" => r.id \in I!Ids)
      BY <2>0, <2>4 DEF I!FlushLink, I!Request
    <3>3. I!Become(w, r) /\ UNCHANGED <<kind, source, link, posted, linked, bounced, listens, last>>
      BY <2>4 DEF I!FlushLink
    <3> HIDE DEF r
    <3> QED BY <2>10, <3>1, <3>2, <3>3 DEF I!TypeOK, I!Ingested, Sourced
  <2>5. ASSUME NEW w \in Workers, I!CommitIngest(w) PROVE I!TypeOK'
    <3> DEFINE i == sort[w].id
    <3>1. i \in I!Ids /\ source[i] \in Mails /\ sort[w].recip \in Recips \cup {NULL}
      BY <2>0, <2>5 DEF I!CommitIngest, I!Request
    <3>2. link' \in [I!Ids -> I!LinkStates] /\ posted' \in [I!Ids -> Nat]
      BY <2>5, <3>1 DEF I!CommitIngest, I!TypeOK, I!LinkStates
    <3>3. bounced' \subseteq Recips /\ listens' \in BOOLEAN /\ last' \in Mails \cup {NULL}
      BY <2>5, <3>1 DEF I!CommitIngest, I!TypeOK, I!Newest
    <3>4. I!Become(w, I!Idle) /\ UNCHANGED <<kind, source, linked>>
      BY <2>5 DEF I!CommitIngest
    <3>5. \A n \in I!Ids : I!Ingested(n)' => I!Ingested(n) \/ source[n] \in Mails
      BY <2>5, <3>1 DEF I!CommitIngest, I!Ingested, I!TypeOK
    <3>6. sort' \in [Workers -> I!Request] /\ Sourced' /\ \A v \in Workers : sort'[v].step # "idle" => sort'[v].id \in I!Ids
      BY <2>0, <2>10, <3>4, <3>5
    <3> QED BY <3>2, <3>3, <3>4, <3>6 DEF I!TypeOK, I!Ingested, Sourced
  <2>6. ASSUME NEW w \in Workers, NEW i \in I!Ids, I!LinkRead(w, i) PROVE I!TypeOK'
    <3> DEFINE r == [I!Idle EXCEPT !.step = "link", !.id = i]
    <3>1. r \in I!Request /\ r.id = i
      BY <2>0 DEF I!Request, I!Idle, I!Steps
    <3>2. I!Become(w, r) /\ UNCHANGED <<kind, source, link, posted, linked, bounced, listens, last>> /\ source[i] \in Mails
      BY <2>6 DEF I!LinkRead, I!TypeOK, I!Ingested
    <3> HIDE DEF r
    <3> QED BY <2>10, <3>1, <3>2 DEF I!TypeOK, I!Ingested, Sourced
  <2>7. ASSUME NEW w \in Workers, I!CommitLink(w) PROVE I!TypeOK'
    <3> DEFINE i == sort[w].id
    <3>1. i \in I!Ids /\ source[i] \in Mails
      BY <2>0, <2>7 DEF I!CommitLink
    <3>2. PICK picked \in {0, 1} : linked[i] + picked <= MaxPosts /\ linked' = [linked EXCEPT ![i] = @ + picked]
      BY <2>7 DEF I!CommitLink
    <3>3. linked' \in [I!Ids -> 0 .. MaxPosts] /\ link' \in [I!Ids -> I!LinkStates]
      BY <2>7, <3>1, <3>2 DEF I!CommitLink, I!TypeOK, I!LinkStates
    <3>4. I!Become(w, I!Idle) /\ UNCHANGED <<kind, source, posted, bounced, listens, last>>
      BY <2>7 DEF I!CommitLink
    <3>5. \A n \in I!Ids : I!Ingested(n)' => I!Ingested(n) \/ source[n] \in Mails
      BY <2>7, <3>1 DEF I!CommitLink, I!Ingested, I!TypeOK
    <3>6. sort' \in [Workers -> I!Request] /\ Sourced' /\ \A v \in Workers : sort'[v].step # "idle" => sort'[v].id \in I!Ids
      BY <2>0, <2>10, <3>4, <3>5
    <3> QED BY <3>3, <3>4, <3>6 DEF I!TypeOK, I!Ingested, Sourced
  <2>8. ASSUME NEW w \in Workers, I!Abort(w) PROVE I!TypeOK'
    <3>1. I!Become(w, I!Idle) /\ UNCHANGED <<kind, source, link, posted, linked, bounced, listens, last>>
      BY <2>8 DEF I!Abort
    <3> QED BY <2>0, <2>10, <3>1 DEF I!TypeOK, I!Ingested, Sourced
  <2>9. CASE UNCHANGED I!vars
    BY <2>9 DEF I!vars, I!TypeOK
  <2> QED BY <2>1, <2>2, <2>3, <2>4, <2>5, <2>6, <2>7, <2>8, <2>9 DEF I!Next, I!Ingest, I!Link
<1> QED BY <1>1, <1>2, PTL DEF I!Spec

-----------------------------------------------------------------------------
\* What is known of a request: a link about to be committed is in nobody else's
\* INSERT and not there yet, one to be attached is there.
OnceInv ==
    /\ I!IngestedOnce
    /\ \A i \in I!Ids : source[i] \in Named => source[i] = i
    /\ \A w \in Workers : sort[w].step = "commit" => ~I!Ingested(sort[w].id)
    /\ \A w \in Workers : sort[w].step = "link" => I!Ingested(sort[w].id)
    /\ \A v, w \in Workers : /\ sort[v].step = "commit" /\ sort[w].step = "commit"
                             /\ sort[v].id = sort[w].id
                             => v = w

(* It is inductive: the INSERTs of one message_id wait for each other, and the one *)
(* that comes later fails. *)
LEMMA OnceInvariant == I!Spec => []OnceInv
<1>1. I!Init => OnceInv
  BY MailAssumption DEF I!Init, OnceInv, I!IngestedOnce, I!Ingested, I!Idle, I!Ids
<1>2. I!TypeOK /\ I!TypeOK' /\ OnceInv /\ [I!Next]_(I!vars) => OnceInv'
  <2> SUFFICES ASSUME I!TypeOK, I!TypeOK', OnceInv, [I!Next]_(I!vars) PROVE OnceInv'
    OBVIOUS
  <2>1. ASSUME NEW w \in Workers, AloneSort(w), UNCHANGED <<kind, link, posted>>,
               \/ source' = source
               \/ /\ \A i \in I!Ids : I!Ingested(i) => source'[i] = source[i]
                  /\ \A i \in I!Ids : source'[i] \in Named => source'[i] = i,
               \/ sort'[w].step \notin {"commit", "link"}
               \/ /\ sort'[w].step = "commit" /\ ~I!Ingested(sort'[w].id)
                  /\ \A v \in Workers : v # w => ~(sort[v].step = "commit" /\ sort[v].id = sort'[w].id)
               \/ sort'[w].step = "link" /\ I!Ingested(sort'[w].id)
        PROVE  OnceInv'
    <3>1. \A m : I!Ingested(m)' <=> I!Ingested(m)
      BY <2>1 DEF I!Ingested
    <3>6. \A i \in I!Ids : source'[i] \in Named => source'[i] = i
      BY <2>1 DEF OnceInv
    <3>2. I!IngestedOnce'
      <4>1. \A i \in I!Ids : posted'[i] = IF I!Ingested(i)' /\ kind'[source'[i]] \in {"reply", "letter"} THEN 1 ELSE 0
        BY <2>1, <3>1 DEF OnceInv, I!IngestedOnce, I!KindOf
      <4> QED BY <3>6, <4>1 DEF I!IngestedOnce, I!KindOf
    <3>3. \A v \in Workers : sort'[v].step = "commit" => ~I!Ingested(sort'[v].id)
      BY <2>1 DEF AloneSort, OnceInv
    <3>4. \A v \in Workers : sort'[v].step = "link" => I!Ingested(sort'[v].id)
      BY <2>1 DEF AloneSort, OnceInv
    <3>5. \A u, v \in Workers : /\ sort'[u].step = "commit" /\ sort'[v].step = "commit"
                                /\ sort'[u].id = sort'[v].id
                                => u = v
      BY <2>1 DEF AloneSort, OnceInv
    <3> QED BY <2>1, <3>2, <3>3, <3>4, <3>5, <3>6 DEF OnceInv, I!Ingested
  <2>2. ASSUME NEW w \in Workers, NEW m \in Mails, I!IngestRead(w, m) PROVE OnceInv'
    <3>1. PICK i \in I!MessageId(m) :
              /\ ~I!Ingested(i) /\ source' = [source EXCEPT ![i] = m]
              /\ I!Become(w, [I!Idle EXCEPT !.step = IF kind[m] = "bounce" THEN "new" ELSE "flush", !.id = i])
      BY <2>2 DEF I!IngestRead
    <3> DEFINE r == [I!Idle EXCEPT !.step = IF kind[m] = "bounce" THEN "new" ELSE "flush", !.id = i]
    <3>2. r.step \in {"new", "flush"} /\ I!Become(w, r)
      BY <3>1 DEF I!Idle
    <3> HIDE DEF r
    <3>3. AloneSort(w) /\ sort'[w].step \in {"new", "flush"}
      BY <3>2, BecameSort
    <3>4. /\ \A n \in I!Ids : I!Ingested(n) => source'[n] = source[n]
          /\ \A n \in I!Ids : source'[n] \in Named => source'[n] = n
      BY <3>1 DEF I!TypeOK, OnceInv, I!MessageId
    <3>5. UNCHANGED <<kind, link, posted>>
      BY <2>2 DEF I!IngestRead
    <3> QED BY <2>1, <3>3, <3>4, <3>5
  <2>3. ASSUME NEW w \in Workers, I!BounceRead(w) PROVE OnceInv'
    <3>1. PICK p : I!Become(w, [sort[w] EXCEPT !.step = "count", !.recip = p])
      BY <2>3 DEF I!BounceRead
    <3>2. AloneSort(w) /\ sort'[w] = [sort[w] EXCEPT !.step = "count", !.recip = p]
      BY <3>1, BecameSort
    <3>3. sort'[w].step = "count"
      BY <3>2 DEF I!TypeOK, I!Request
    <3> QED BY <2>1, <2>3, <3>2, <3>3 DEF I!BounceRead
  <2>4. ASSUME NEW w \in Workers, I!BounceCount(w) PROVE OnceInv'
    <3> DEFINE stop == I!Hard(sort[w].recip) >= 3
    <3>1. I!Become(w, [sort[w] EXCEPT !.step = "flush", !.stop = stop])
      BY <2>4 DEF I!BounceCount
    <3> HIDE DEF stop
    <3>2. AloneSort(w) /\ sort'[w] = [sort[w] EXCEPT !.step = "flush", !.stop = stop]
      BY <3>1, BecameSort
    <3>3. sort'[w].step = "flush"
      BY <3>2 DEF I!TypeOK, I!Request
    <3> QED BY <2>1, <2>4, <3>2, <3>3 DEF I!BounceCount
  <2>5. ASSUME NEW w \in Workers, I!FlushLink(w) PROVE OnceInv'
    <3> DEFINE i == sort[w].id
    <3>1. AloneSort(w) /\ sort'[w] = IF I!Ingested(i) THEN I!Idle ELSE [sort[w] EXCEPT !.step = "commit", !.last = last]
      BY <2>5, BecameSort DEF I!FlushLink
    <3>2. UNCHANGED <<kind, source, link, posted>>
      BY <2>5 DEF I!FlushLink
    <3>3. CASE I!Ingested(i)
      <4>1. sort'[w].step = "idle"
        BY <3>1, <3>3 DEF I!Idle
      <4> QED BY <2>1, <3>1, <3>2, <4>1
    <3>4. CASE ~I!Ingested(i)
      <4>1. sort'[w].step = "commit" /\ sort'[w].id = i
        BY <3>1, <3>4 DEF I!TypeOK, I!Request
      <4>2. \A v \in Workers : v # w => ~(sort[v].step = "commit" /\ sort[v].id = i)
        BY <2>5 DEF I!FlushLink, I!MessageIdFree
      <4> QED BY <2>1, <3>1, <3>2, <3>4, <4>1, <4>2
    <3> QED BY <3>3, <3>4
  <2>6. ASSUME NEW w \in Workers, I!CommitIngest(w) PROVE OnceInv'
    <3> DEFINE i == sort[w].id
    <3>1. /\ AloneSort(w) /\ sort'[w].step = "idle"
          /\ i \in I!Ids /\ sort[w].step = "commit" /\ ~I!Ingested(i)
      BY <2>6, BecameSort DEF I!CommitIngest, I!Idle, I!TypeOK, OnceInv
    <3>2. posted[i] = 0
      BY <3>1 DEF OnceInv, I!IngestedOnce
    <3>3. /\ \A n \in I!Ids \ {i} : link'[n] = link[n] /\ posted'[n] = posted[n]
          /\ link'[i] # "none" /\ posted'[i] = (IF I!Posts(i) THEN 1 ELSE 0)
          /\ kind' = kind /\ source' = source
      BY <2>6, <3>1, <3>2 DEF I!CommitIngest, I!TypeOK
    <3> HIDE DEF i
    <3>4. I!IngestedOnce'
      <4>1. \A n \in I!Ids : posted'[n] = IF I!Ingested(n)' /\ kind'[source'[n]] \in {"reply", "letter"} THEN 1 ELSE 0
        BY <3>3 DEF OnceInv, I!IngestedOnce, I!Ingested, I!Posts, I!KindOf
      <4>2. \A n, k \in I!Ids : source[n] = source[k] /\ source[n] \in Named => n = k
        BY DEF OnceInv
      <4> QED BY <3>3, <4>1, <4>2 DEF I!IngestedOnce, I!KindOf
    <3>5. \A v \in Workers : sort'[v].step \in {"commit", "link"} => v # w /\ sort'[v] = sort[v]
      BY <3>1 DEF AloneSort
    <3>6. \A v \in Workers : sort'[v].step = "commit" => sort'[v].id \in I!Ids \ {i}
      BY <3>1, <3>5 DEF OnceInv, I!TypeOK, i
    <3>7. \A v \in Workers : sort'[v].step = "commit" => ~I!Ingested(sort[v].id)'
      BY <3>3, <3>5, <3>6 DEF OnceInv, I!Ingested
    <3>8. \A v \in Workers : sort'[v].step = "link" => I!Ingested(sort[v].id)'
      BY <3>3, <3>5 DEF OnceInv, I!Ingested, I!TypeOK
    <3>9. \A n \in I!Ids : source'[n] \in Named => source'[n] = n
      BY <3>3 DEF OnceInv
    <3>10. \A u, v \in Workers : /\ sort'[u].step = "commit" /\ sort'[v].step = "commit"
                                 /\ sort'[u].id = sort'[v].id
                                 => u = v
      BY <3>5 DEF OnceInv
    <3>11. /\ \A v \in Workers : sort'[v].step = "commit" => ~I!Ingested(sort[v].id)'
           /\ \A v \in Workers : sort'[v].step = "link" => I!Ingested(sort[v].id)'
      BY <3>7, <3>8
    <3> QED BY <3>4, <3>9, <3>10, <3>11 DEF OnceInv
  <2>7. ASSUME NEW w \in Workers, NEW i \in I!Ids, I!LinkRead(w, i) PROVE OnceInv'
    <3>1. AloneSort(w) /\ sort'[w] = [I!Idle EXCEPT !.step = "link", !.id = i]
      BY <2>7, BecameSort DEF I!LinkRead
    <3>2. sort'[w].step = "link" /\ sort'[w].id = i
      BY <3>1 DEF I!Idle
    <3> QED BY <2>1, <2>7, <3>1, <3>2 DEF I!LinkRead
  <2>8. ASSUME NEW w \in Workers, I!CommitLink(w) PROVE OnceInv'
    <3> DEFINE i == sort[w].id
    <3>1. AloneSort(w) /\ sort'[w].step = "idle" /\ i \in I!Ids /\ I!Ingested(i)
      BY <2>8, BecameSort DEF I!CommitLink, I!Idle, I!TypeOK, OnceInv
    <3>2. \A n \in I!Ids : I!Ingested(n)' <=> I!Ingested(n)
      BY <2>8, <3>1 DEF I!CommitLink, I!Ingested, I!TypeOK
    <3>3. UNCHANGED <<kind, source, posted>>
      BY <2>8 DEF I!CommitLink
    <3>4. I!IngestedOnce'
      BY <3>2, <3>3 DEF OnceInv, I!IngestedOnce, I!KindOf
    <3>5. \A v \in Workers : sort'[v].step \in {"commit", "link"} => v # w /\ sort'[v] = sort[v]
      BY <3>1 DEF AloneSort
    <3>6. \A v \in Workers : sort[v].step \in {"commit", "link"} => sort[v].id \in I!Ids
      BY DEF I!TypeOK
    <3>7. \A n \in I!Ids : source'[n] \in Named => source'[n] = n
      BY <3>3 DEF OnceInv
    <3>8. /\ \A v \in Workers : sort'[v].step = "commit" => ~I!Ingested(sort[v].id)'
          /\ \A v \in Workers : sort'[v].step = "link" => I!Ingested(sort[v].id)'
      <4>1. \A v \in Workers : sort'[v].step \in {"commit", "link"} => (I!Ingested(sort[v].id)' <=> I!Ingested(sort[v].id))
        BY <3>2, <3>5, <3>6 DEF I!Ingested
      <4> QED BY <3>5, <4>1 DEF OnceInv
    <3>9. \A u, v \in Workers : /\ sort'[u].step = "commit" /\ sort'[v].step = "commit"
                                /\ sort'[u].id = sort'[v].id
                                => u = v
      BY <3>5 DEF OnceInv
    <3> QED BY <3>4, <3>7, <3>8, <3>9 DEF OnceInv
  <2>9. ASSUME NEW w \in Workers, I!Abort(w) PROVE OnceInv'
    <3>1. AloneSort(w) /\ sort'[w].step = "idle"
      BY <2>9, BecameSort DEF I!Abort, I!Idle
    <3> QED BY <2>1, <2>9, <3>1 DEF I!Abort
  <2>10. CASE UNCHANGED I!vars
    BY <2>10 DEF I!vars, OnceInv, I!IngestedOnce, I!Ingested, I!KindOf
  <2> QED BY <2>2, <2>3, <2>4, <2>5, <2>6, <2>7, <2>8, <2>9, <2>10 DEF I!Next, I!Ingest, I!Link
<1> QED BY <1>1, <1>2, MailroomTyping, PTL DEF I!Spec

(* However deliveries under one message_id race, repeat and die, a message is posted *)
(* when the link is there and only then, and no more than once; a piece that carries *)
(* its message_id has no other link (ingest_inbound). *)
THEOREM ExactlyOnce == BackOffice => []IngestedOnce
<1>1. OnceInv => IngestedOnce
  BY DEF OnceInv, IngestedOnce
<1> QED BY <1>1, OnceInvariant, PartsRun, PTL

-----------------------------------------------------------------------------
IngestedBounces == {i \in I!Ids : I!Ingested(i) /\ I!KindOf(i) = "bounce"}

\* The rows bounced once the request commits.
BouncedBy(r) == bounced \cup ({r.recip} \ {NULL})

\* A request counts a row for a bounce only, and switches off the alerts only when
\* it leaves two rows bounced.
Grounded(r) ==
    /\ r.step = "new" \/ r.recip # NULL => r.id \in I!Ids /\ I!KindOf(r.id) = "bounce"
    /\ r.step \in {"new", "count"} => ~r.stop
    /\ r.stop => Cardinality(BouncedBy(r)) >= 2

BounceInv == I!TwoBouncesToStop /\ \A w \in Workers : Grounded(sort[w])

(* Rows and links can be counted. *)
LEMMA BouncesCounted ==
    ASSUME I!TypeOK, I!TypeOK'
    PROVE  /\ IsFiniteSet(bounced) /\ Cardinality(bounced) \in Nat
           /\ IsFiniteSet(bounced') /\ Cardinality(bounced') \in Nat
           /\ IsFiniteSet(IngestedBounces) /\ Cardinality(IngestedBounces) \in Nat
           /\ IsFiniteSet(IngestedBounces') /\ Cardinality(IngestedBounces') \in Nat
           /\ \A r \in I!Request : IsFiniteSet(BouncedBy(r)) /\ Cardinality(BouncedBy(r)) \in Nat
<1>1. bounced \subseteq Recips /\ bounced' \subseteq Recips /\ IngestedBounces \subseteq I!Ids /\ IngestedBounces' \subseteq I!Ids
  BY DEF I!TypeOK, IngestedBounces
<1>5. IsFiniteSet(I!Ids)
  <2>1. IsFiniteSet(Named) /\ IsFiniteSet(Drawn)
    BY MailAssumption, FS_Subset
  <2> QED BY <2>1, FS_Union DEF I!Ids
<1>2. /\ IsFiniteSet(bounced) /\ IsFiniteSet(bounced') /\ IsFiniteSet(IngestedBounces) /\ IsFiniteSet(IngestedBounces')
  BY <1>1, <1>5, MailAssumption, FS_Subset
<1>3. \A r \in I!Request : BouncedBy(r) \subseteq Recips
  BY <1>1 DEF I!Request, BouncedBy
<1>4. \A r \in I!Request : IsFiniteSet(BouncedBy(r))
  BY <1>3, MailAssumption, FS_Subset
<1> QED BY <1>2, <1>4, FS_CardinalityType

\* What has been taken in, or is about to be by another request, stays what it is.
SourcesStay(w) == \A i \in I!Ids : I!Ingested(i) \/ (\E v \in Workers \ {w} : sort[v].id = i) => source'[i] = source[i]

(* A step that bounces no row, ingests nothing and leaves a grounded request keeps *)
(* the counts. *)
LEMMA BouncesKept ==
    ASSUME BounceInv, NEW w \in Workers, AloneSort(w), Grounded(sort[w])', UNCHANGED <<kind, bounced, listens>>,
           SourcesStay(w), \A i \in I!Ids : I!Ingested(i)' <=> I!Ingested(i)
    PROVE  BounceInv'
<1>1. IngestedBounces' = IngestedBounces
  BY DEF IngestedBounces, I!KindOf, SourcesStay
<1>2. I!TwoBouncesToStop'
  BY <1>1 DEF BounceInv, I!TwoBouncesToStop, IngestedBounces
<1>3. ASSUME NEW v \in Workers PROVE Grounded(sort[v])'
  <2>1. CASE v = w
    BY <2>1
  <2>2. CASE v # w
    <3>1. sort'[v] = sort[v] /\ Grounded(sort[v])
      BY <2>2 DEF BounceInv, AloneSort
    <3>2. sort[v].id \in I!Ids => source'[sort[v].id] = source[sort[v].id]
      BY <2>2 DEF SourcesStay
    <3> QED BY <3>1, <3>2 DEF Grounded, BouncedBy, I!KindOf
  <2> QED BY <2>1, <2>2
<1> QED BY <1>2, <1>3 DEF BounceInv

(* No buyer loses the alerts to fewer than two bounced rows, and no more rows are *)
(* bounced than bounces came in under message_ids of their own (_record_bounce). *)
THEOREM TwoBounces == BackOffice => []TwoBouncesToStop
<1>1. I!Init => BounceInv
  <2> SUFFICES ASSUME I!Init PROVE BounceInv
    OBVIOUS
  <2>1. bounced = {} /\ listens = TRUE /\ IngestedBounces = {}
    BY DEF I!Init, IngestedBounces, I!Ingested, I!Ids
  <2>2. I!TwoBouncesToStop
    BY <2>1, FS_EmptySet, MailCounts DEF I!TwoBouncesToStop, IngestedBounces
  <2> QED BY <2>2 DEF I!Init, BounceInv, Grounded, I!Idle
<1>2. I!TypeOK /\ I!TypeOK' /\ OnceInv /\ BounceInv /\ [I!Next]_(I!vars) => BounceInv'
  <2> SUFFICES ASSUME I!TypeOK, I!TypeOK', OnceInv, BounceInv, [I!Next]_(I!vars) PROVE BounceInv'
    OBVIOUS
  <2>0. \A w \in Workers : sort[w] \in I!Request /\ Grounded(sort[w])
    BY DEF I!TypeOK, BounceInv
  <2>1. Grounded(I!Idle)
    BY DEF Grounded, I!Idle
  <2>2. ASSUME NEW w \in Workers, NEW m \in Mails, I!IngestRead(w, m) PROVE BounceInv'
    <3>1. PICK i \in I!MessageId(m) :
              /\ ~I!Ingested(i) /\ source' = [source EXCEPT ![i] = m]
              /\ I!Become(w, [I!Idle EXCEPT !.step = IF kind[m] = "bounce" THEN "new" ELSE "flush", !.id = i])
      BY <2>2 DEF I!IngestRead
    <3> DEFINE r == [I!Idle EXCEPT !.step = IF kind[m] = "bounce" THEN "new" ELSE "flush", !.id = i]
    <3>2. r.recip = NULL /\ r.id = i /\ r.stop = FALSE /\ (r.step = "new" => kind[m] = "bounce")
      BY DEF I!Idle
    <3>3. I!Become(w, r)
      BY <3>1
    <3> HIDE DEF r
    <3>4. UNCHANGED <<kind, link, bounced, listens>> /\ i \in I!Ids /\ source'[i] = m
      BY <2>2, <3>1 DEF I!IngestRead, I!MessageId, I!Ids, I!TypeOK
    <3>5. AloneSort(w) /\ sort'[w] = r
      BY <3>3, BecameSort
    <3>6. Grounded(sort[w])'
      BY <3>2, <3>4, <3>5 DEF Grounded, I!KindOf
    <3>7. SourcesStay(w)
      BY <3>1 DEF SourcesStay, I!TypeOK, I!MessageId
    <3> QED BY <3>4, <3>5, <3>6, <3>7, BouncesKept DEF I!Ingested
  <2>11. ASSUME NEW w \in Workers, AloneSort(w), Grounded(sort'[w]), UNCHANGED <<kind, source, bounced, listens>>,
                \A i \in I!Ids : I!Ingested(i)' <=> I!Ingested(i)
         PROVE  BounceInv'
    <3>1. SourcesStay(w) /\ Grounded(sort[w])'
      BY <2>11 DEF SourcesStay, Grounded, BouncedBy, I!KindOf
    <3> QED BY <2>11, <3>1, BouncesKept
  <2>3. ASSUME NEW w \in Workers, I!BounceRead(w) PROVE BounceInv'
    <3>1. PICK p : I!Become(w, [sort[w] EXCEPT !.step = "count", !.recip = p])
      BY <2>3 DEF I!BounceRead
    <3> DEFINE r == [sort[w] EXCEPT !.step = "count", !.recip = p]
    <3>2. /\ sort[w].step = "new" /\ sort[w] \in I!Request /\ Grounded(sort[w])
          /\ UNCHANGED <<kind, source, link, bounced, listens>>
      BY <2>0, <2>3 DEF I!BounceRead
    <3>3. r.id = sort[w].id /\ r.stop = sort[w].stop /\ r.recip = p
      BY <3>2 DEF I!Request
    <3>4. AloneSort(w) /\ sort'[w] = r
      BY <3>1, BecameSort
    <3> HIDE DEF r
    <3>5. r.stop = FALSE
      BY <3>2, <3>3 DEF Grounded, I!Request
    <3>6. Grounded(r)
      BY <3>2, <3>3, <3>5 DEF Grounded
    <3> QED BY <3>2, <3>4, <3>6, <2>11 DEF I!Ingested
  <2>4. ASSUME NEW w \in Workers, I!BounceCount(w) PROVE BounceInv'
    <3> DEFINE p == sort[w].recip
    <3> DEFINE stop == I!Hard(p) >= 3
    <3> DEFINE r == [sort[w] EXCEPT !.step = "flush", !.stop = stop]
    <3>1. /\ sort[w].step = "count" /\ sort[w] \in I!Request /\ Grounded(sort[w])
          /\ I!Become(w, r) /\ UNCHANGED <<kind, source, link, bounced, listens>>
      BY <2>0, <2>4 DEF I!BounceCount
    <3>2. AloneSort(w) /\ sort'[w] = r
      BY <3>1, BecameSort
    <3>3. stop => Cardinality(BouncedBy(sort[w])) >= 2
      <4>1. CASE p = NULL
        <5>1. BouncedBy(sort[w]) = bounced
          BY <4>1 DEF BouncedBy
        <5>2. Cardinality(bounced) \in Nat
          BY BouncesCounted
        <5> QED BY <4>1, <5>1, <5>2, MailCounts DEF I!Hard
      <4>2. CASE p # NULL
        <5>1. BouncedBy(sort[w]) = bounced \cup {p}
          BY <4>2 DEF BouncedBy
        <5>2. Cardinality(bounced \cup {p}) \in Nat
          BY <3>1, <5>1, BouncesCounted
        <5> QED BY <4>2, <5>1, <5>2, MailCounts DEF I!Hard
      <4> QED BY <4>1, <4>2
    <3> HIDE DEF stop
    <3>4. r.step = "flush" /\ r.recip = sort[w].recip /\ r.id = sort[w].id /\ r.stop = stop
      BY <3>1 DEF I!Request
    <3> HIDE DEF r
    <3>5. Grounded(r)
      BY <3>1, <3>3, <3>4 DEF Grounded, BouncedBy
    <3> QED BY <3>1, <3>2, <3>5, <2>11 DEF I!Ingested
  <2>5. ASSUME NEW w \in Workers, I!FlushLink(w) PROVE BounceInv'
    <3> DEFINE r == IF I!Ingested(sort[w].id) THEN I!Idle ELSE [sort[w] EXCEPT !.step = "commit", !.last = last]
    <3>1. /\ sort[w].step = "flush" /\ sort[w] \in I!Request /\ Grounded(sort[w])
          /\ I!Become(w, r) /\ UNCHANGED <<kind, source, link, bounced, listens>>
      BY <2>0, <2>5 DEF I!FlushLink
    <3>2. AloneSort(w) /\ sort'[w] = r
      BY <3>1, BecameSort
    <3>3. \/ r = I!Idle
          \/ r.step = "commit" /\ r.recip = sort[w].recip /\ r.id = sort[w].id /\ r.stop = sort[w].stop
      BY <3>1 DEF I!Request
    <3> HIDE DEF r
    <3>4. Grounded(r)
      BY <2>1, <3>1, <3>3 DEF Grounded, BouncedBy
    <3> QED BY <3>1, <3>2, <3>4, <2>11 DEF I!Ingested
  <2>6. ASSUME NEW w \in Workers, I!CommitIngest(w) PROVE BounceInv'
    <3> DEFINE r == sort[w]
    <3> DEFINE m == r.id
    <3>1. /\ AloneSort(w) /\ sort'[w] = I!Idle
          /\ r.step = "commit" /\ r \in I!Request /\ Grounded(r) /\ m \in I!Ids /\ ~I!Ingested(m)
          /\ bounced' = BouncedBy(r) /\ kind' = kind /\ source' = source /\ listens' = (listens /\ ~r.stop)
      BY <2>0, <2>6, BecameSort DEF I!CommitIngest, BouncedBy, OnceInv, I!TypeOK
    <3>2. \A n \in I!Ids : I!Ingested(n)' <=> I!Ingested(n) \/ n = m
      BY <2>6, <3>1 DEF I!CommitIngest, I!Ingested, I!TypeOK
    <3> HIDE DEF r
    <3>3. bounced \subseteq bounced' /\ IngestedBounces \subseteq IngestedBounces'
      BY <3>1, <3>2 DEF BouncedBy, IngestedBounces, I!KindOf
    <3>4. Cardinality(bounced) <= Cardinality(bounced') /\ Cardinality(IngestedBounces) <= Cardinality(IngestedBounces')
      BY <3>3, BouncesCounted, FS_Subset
    <3>5. Cardinality(bounced) <= Cardinality(IngestedBounces)
      BY MailCounts DEF BounceInv, I!TwoBouncesToStop, IngestedBounces
    <3>6. Cardinality(bounced') <= Cardinality(IngestedBounces')
      <4>1. CASE r.recip = NULL
        <5>1. bounced' = bounced
          BY <3>1, <4>1 DEF BouncedBy
        <5> QED BY <3>4, <3>5, <5>1, BouncesCounted
      <4>2. CASE r.recip # NULL
        <5>1. bounced' = bounced \cup {r.recip}
          BY <3>1, <4>2 DEF BouncedBy
        <5>2. m \notin IngestedBounces /\ IngestedBounces' = IngestedBounces \cup {m}
          BY <3>1, <3>2, <4>2 DEF IngestedBounces, Grounded, I!KindOf
        <5>3. Cardinality(IngestedBounces') = Cardinality(IngestedBounces) + 1
          BY <5>2, BouncesCounted, FS_AddElement
        <5>4. Cardinality(bounced') <= Cardinality(bounced) + 1
          <6>1. IsFiniteSet(bounced) /\ Cardinality(bounced) \in Nat
            BY BouncesCounted
          <6>2. CASE r.recip \in bounced
            <7>1. bounced' = bounced
              BY <5>1, <6>2
            <7> QED BY <6>1, <7>1
          <6>3. CASE r.recip \notin bounced
            <7>1. Cardinality(bounced \cup {r.recip}) = Cardinality(bounced) + 1
              BY <6>1, <6>3, FS_AddElement
            <7> QED BY <5>1, <6>1, <7>1
          <6> QED BY <6>2, <6>3
        <5> QED BY <3>5, <5>3, <5>4, BouncesCounted
      <4> QED BY <4>1, <4>2
    <3>7. ~listens' => Cardinality(bounced') >= 2
      <4>1. CASE r.stop
        BY <3>1, <4>1 DEF Grounded
      <4>2. CASE ~r.stop
        <5>1. ~listens' => Cardinality(bounced) >= 2
          BY <3>1, <4>2, MailCounts DEF BounceInv, I!TwoBouncesToStop
        <5> QED BY <3>4, <5>1, BouncesCounted
      <4> QED BY <4>1, <4>2
    <3>8. I!TwoBouncesToStop'
      BY <3>6, <3>7, MailCounts DEF I!TwoBouncesToStop, IngestedBounces
    <3>9. ASSUME NEW v \in Workers PROVE Grounded(sort[v])'
      <4>1. CASE v = w
        BY <3>1, <4>1 DEF Grounded, I!Idle
      <4>2. CASE v # w
        <5> DEFINE q == sort[v]
        <5>1. sort'[v] = q /\ q \in I!Request /\ Grounded(q)
          BY <2>0, <3>1, <4>2 DEF AloneSort
        <5>2. BouncedBy(q) \subseteq bounced' \cup ({q.recip} \ {NULL})
          BY <3>3 DEF BouncedBy
        <5>3. IsFiniteSet(bounced' \cup ({q.recip} \ {NULL}))
          <6>1. bounced' \cup ({q.recip} \ {NULL}) \subseteq Recips
            BY <5>1 DEF I!TypeOK, I!Request
          <6> QED BY <6>1, MailAssumption, FS_Subset
        <5>4. Cardinality(BouncedBy(q)) <= Cardinality(bounced' \cup ({q.recip} \ {NULL}))
          BY <5>2, <5>3, FS_Subset
        <5>5. Cardinality(BouncedBy(q)) \in Nat /\ Cardinality(bounced' \cup ({q.recip} \ {NULL})) \in Nat
          BY <5>1, <5>3, BouncesCounted, FS_CardinalityType
        <5> HIDE DEF q
        <5>6. q.stop => Cardinality(bounced' \cup ({q.recip} \ {NULL})) >= 2
          BY <5>1, <5>4, <5>5 DEF Grounded
        <5> QED BY <3>1, <5>1, <5>6 DEF Grounded, BouncedBy, I!KindOf
      <4> QED BY <4>1, <4>2
    <3> QED BY <3>8, <3>9 DEF BounceInv
  <2>7. ASSUME NEW w \in Workers, NEW i \in I!Ids, I!LinkRead(w, i) PROVE BounceInv'
    <3> DEFINE r == [I!Idle EXCEPT !.step = "link", !.id = i]
    <3>1. r.step = "link" /\ r.recip = NULL /\ r.stop = FALSE
      BY DEF I!Idle
    <3>2. I!Become(w, r) /\ UNCHANGED <<kind, source, link, bounced, listens>>
      BY <2>7 DEF I!LinkRead
    <3> HIDE DEF r
    <3>3. AloneSort(w) /\ sort'[w] = r
      BY <3>2, BecameSort
    <3>4. Grounded(r)
      BY <3>1 DEF Grounded
    <3> QED BY <3>2, <3>3, <3>4, <2>11 DEF I!Ingested
  <2>8. ASSUME NEW w \in Workers, I!CommitLink(w) PROVE BounceInv'
    <3>1. AloneSort(w) /\ sort'[w] = I!Idle /\ I!Ingested(sort[w].id) /\ sort[w].id \in I!Ids
      BY <2>8, BecameSort DEF I!CommitLink, OnceInv, I!TypeOK
    <3>2. \A n \in I!Ids : I!Ingested(n)' <=> I!Ingested(n)
      BY <2>8, <3>1 DEF I!CommitLink, I!Ingested, I!TypeOK
    <3> QED BY <2>1, <2>8, <3>1, <3>2, <2>11 DEF I!CommitLink
  <2>9. ASSUME NEW w \in Workers, I!Abort(w) PROVE BounceInv'
    <3>1. AloneSort(w) /\ sort'[w] = I!Idle
      BY <2>9, BecameSort DEF I!Abort
    <3> QED BY <2>1, <2>9, <3>1, <2>11 DEF I!Abort, I!Ingested
  <2>10. CASE UNCHANGED I!vars
    <3>1. UNCHANGED <<kind, source, link, bounced, listens, sort>>
      BY <2>10 DEF I!vars
    <3> QED BY <3>1 DEF BounceInv, I!TwoBouncesToStop, Grounded, BouncedBy, I!Ingested, I!KindOf
  <2> QED BY <2>2, <2>3, <2>4, <2>5, <2>6, <2>7, <2>8, <2>9, <2>10 DEF I!Next, I!Ingest, I!Link
<1>3. BounceInv => TwoBouncesToStop
  BY DEF BounceInv, TwoBouncesToStop
<1> QED BY <1>1, <1>2, <1>3, MailroomTyping, OnceInvariant, PartsRun, PTL DEF I!Spec

-----------------------------------------------------------------------------
\* The requests on the way to a thread: each set out before there was any.
Asking == {w \in Workers : ask[w].step \in {"open", "commit"}}

\* Threads and requests that may add one, together no more than workers; an admin's
\* request marks notices that are there.
ThreadInv ==
    /\ D!TypeOK
    /\ D!QuestionsReachDesk
    /\ IsFiniteSet(threads)
    /\ Cardinality(threads) + Cardinality(Asking) <= Cardinality(Workers)
    /\ \A w \in Workers : ask[w].step = "read" => ask[w].rows \subseteq threads

(* Threads and requests can be counted: there are never more than workers. *)
LEMMA AskingCounted ==
    /\ IsFiniteSet(Workers) /\ Cardinality(Workers) \in Nat
    /\ IsFiniteSet(Asking) /\ Cardinality(Asking) \in Nat
    /\ IsFiniteSet(Asking') /\ Cardinality(Asking') \in Nat
    /\ Cardinality(Asking') <= Cardinality(Workers)
<1>1. Asking \subseteq Workers /\ Asking' \subseteq Workers
  BY DEF Asking
<1> QED BY <1>1, WorkersAssumption, FS_Subset, FS_CardinalityType

(* A request that becomes another of the right type leaves all of them typed. *)
LEMMA AskTyped ==
    ASSUME D!TypeOK, NEW w \in Workers, NEW r \in D!Request, r.step = "commit" => r.thread \in Threads, D!Become(w, r)
    PROVE  /\ ask' \in [Workers -> D!Request] /\ ask'[w] = r
           /\ \A v \in Workers : v # w => ask'[v] = ask[v]
           /\ \A v \in Workers : ask'[v].step = "commit" => ask'[v].thread \in Threads
BY DEF D!TypeOK, D!Become

(* A step that leaves the threads and their notices, and no more requests on the *)
(* way to a thread than before or no thread at all, keeps the invariant. *)
LEMMA ThreadsKept ==
    ASSUME ThreadInv, NEW w \in Workers, NEW r \in D!Request, D!Become(w, r),
           r.step = "commit" => r.thread \in Threads,
           r.step = "read" => r.rows \subseteq threads,
           UNCHANGED <<threads, notice>>,
           threads = {} \/ (r.step \in {"open", "commit"} => ask[w].step \in {"open", "commit"})
    PROVE  ThreadInv'
<1>1. /\ ask' \in [Workers -> D!Request] /\ ask'[w] = r
      /\ \A v \in Workers : v # w => ask'[v] = ask[v]
      /\ \A v \in Workers : ask'[v].step = "commit" => ask'[v].thread \in Threads
  BY AskTyped DEF ThreadInv
<1>2. D!TypeOK'
  BY <1>1 DEF ThreadInv, D!TypeOK
<1>3. D!QuestionsReachDesk'
  BY DEF ThreadInv, D!QuestionsReachDesk
<1>4. Cardinality(threads') + Cardinality(Asking') <= Cardinality(Workers)
  <2>1. CASE threads = {}
    BY <2>1, AskingCounted, FS_EmptySet
  <2>2. CASE r.step \in {"open", "commit"} => ask[w].step \in {"open", "commit"}
    <3>1. Asking' \subseteq Asking
      BY <1>1, <2>2 DEF Asking
    <3>2. Cardinality(Asking') <= Cardinality(Asking)
      BY <3>1, AskingCounted, FS_Subset
    <3>3. Cardinality(threads) \in Nat
      BY FS_CardinalityType DEF ThreadInv
    <3> QED BY <3>2, <3>3, AskingCounted DEF ThreadInv
  <2> QED BY <2>1, <2>2
<1>5. \A v \in Workers : ask'[v].step = "read" => ask'[v].rows \subseteq threads'
  BY <1>1 DEF ThreadInv
<1>6. IsFiniteSet(threads')
  BY DEF ThreadInv
<1> QED BY <1>6, <1>2, <1>3, <1>4, <1>5 DEF ThreadInv

(* It is inductive: whoever sets out for a thread found none. *)
LEMMA ThreadsInvariant == D!Spec => []ThreadInv
<1>1. D!Init => ThreadInv
  <2> SUFFICES ASSUME D!Init PROVE ThreadInv
    OBVIOUS
  <2>1. D!TypeOK
    BY DEF D!Init, D!TypeOK, D!Request, D!Idle
  <2>2. threads = {} /\ Asking = {} /\ IsFiniteSet({}) /\ Cardinality({}) = 0
    BY FS_EmptySet DEF D!Init, Asking, D!Idle
  <2>3. Cardinality(threads) + Cardinality(Asking) <= Cardinality(Workers)
    BY <2>2, AskingCounted
  <2>4. D!QuestionsReachDesk
    BY <2>2, ThreadCounts, AskingCounted DEF D!Init, D!QuestionsReachDesk
  <2> QED BY <2>1, <2>2, <2>3, <2>4 DEF ThreadInv, D!Init, D!Idle
<1>2. ThreadInv /\ [D!Next]_(D!vars) => ThreadInv'
  <2> SUFFICES ASSUME ThreadInv, [D!Next]_(D!vars) PROVE ThreadInv'
    OBVIOUS
  <2>0. /\ D!TypeOK /\ threads \subseteq Threads
        /\ D!Idle \in D!Request /\ D!Idle.step = "idle" /\ \A w \in Workers : ask[w] \in D!Request
    BY DEF ThreadInv, D!TypeOK, D!Request, D!Idle
  <2>1. ASSUME NEW w \in Workers, D!OpenRead(w) PROVE ThreadInv'
    <3> DEFINE r == [D!Idle EXCEPT !.step = "open"]
    <3>1. r \in D!Request /\ r.step = "open"
      BY <2>0 DEF D!Request, D!Idle
    <3>2. D!Become(w, r) /\ threads = {} /\ UNCHANGED <<threads, notice>>
      BY <2>1 DEF D!OpenRead, D!NoThread
    <3> HIDE DEF r
    <3> QED BY <2>0, <3>1, <3>2, ThreadsKept
  <2>2. ASSUME NEW w \in Workers, D!InsertThread(w) PROVE ThreadInv'
    <3>1. PICK t \in Threads : D!Become(w, [ask[w] EXCEPT !.step = "commit", !.thread = t])
      BY <2>2 DEF D!InsertThread
    <3> DEFINE r == [ask[w] EXCEPT !.step = "commit", !.thread = t]
    <3>2. r \in D!Request /\ r.step = "commit" /\ r.thread \in Threads
      BY <2>0 DEF D!Request
    <3>3. D!Become(w, r) /\ ask[w].step = "open" /\ UNCHANGED <<threads, notice>>
      BY <2>2, <3>1 DEF D!InsertThread
    <3> HIDE DEF r
    <3> QED BY <2>0, <3>2, <3>3, ThreadsKept
  <2>3. ASSUME NEW w \in Workers, D!CommitThread(w) PROVE ThreadInv'
    <3> DEFINE t == ask[w].thread
    <3>1. /\ ask[w].step = "commit" /\ t \in Threads
          /\ threads' = threads \cup {t} /\ notice' = [notice EXCEPT ![t] = "unread"]
          /\ D!Become(w, D!Idle)
      BY <2>3 DEF D!CommitThread, ThreadInv, D!TypeOK
    <3> HIDE DEF t
    <3>2. /\ ask' \in [Workers -> D!Request] /\ ask'[w] = D!Idle
          /\ \A v \in Workers : v # w => ask'[v] = ask[v]
          /\ \A v \in Workers : ask'[v].step = "commit" => ask'[v].thread \in Threads
      BY <2>0, <3>1, AskTyped
    <3>3. D!TypeOK'
      BY <2>0, <3>1, <3>2 DEF D!TypeOK
    <3>4. IsFiniteSet(threads') /\ Cardinality(threads) \in Nat /\ Cardinality(threads') \in Nat
          /\ Cardinality(threads') <= Cardinality(threads) + 1
      <4>1. IsFiniteSet(threads) /\ Cardinality(threads) \in Nat
        BY FS_CardinalityType DEF ThreadInv
      <4>2. CASE t \in threads
        <5>1. threads' = threads
          BY <3>1, <4>2
        <5> QED BY <4>1, <5>1
      <4>3. CASE t \notin threads
        <5>1. IsFiniteSet(threads') /\ Cardinality(threads') = Cardinality(threads) + 1
          BY <3>1, <4>1, <4>3, FS_AddElement
        <5> QED BY <4>1, <5>1
      <4> QED BY <4>2, <4>3
    <3>5. Cardinality(Asking') = Cardinality(Asking) - 1
      <4>1. w \in Asking /\ Asking' = Asking \ {w}
        BY <2>0, <3>1, <3>2 DEF Asking
      <4> QED BY <4>1, AskingCounted, FS_RemoveElement
    <3>6. Cardinality(threads') + Cardinality(Asking') <= Cardinality(Workers)
      BY <3>4, <3>5, AskingCounted DEF ThreadInv
    <3>7. D!QuestionsReachDesk'
      <4>1. Cardinality(threads') <= Cardinality(Workers)
        BY <3>4, <3>6, AskingCounted
      <4>2. \A s \in Threads : s \in threads' <=> notice'[s] # "none"
        BY <2>0, <3>1 DEF ThreadInv, D!QuestionsReachDesk, D!TypeOK
      <4> QED BY <4>1, <4>2, ThreadCounts DEF D!QuestionsReachDesk
    <3>8. \A v \in Workers : ask'[v].step = "read" => ask'[v].rows \subseteq threads'
      BY <2>0, <3>1, <3>2 DEF ThreadInv
    <3> QED BY <3>3, <3>4, <3>6, <3>7, <3>8 DEF ThreadInv
  <2>4. ASSUME NEW w \in Workers, D!NoticesRead(w) PROVE ThreadInv'
    <3> DEFINE unread == {t \in Threads : notice[t] = "unread"}
    <3>1. PICK rows \in {unread} \cup {{t} : t \in unread} :
              D!Become(w, [D!Idle EXCEPT !.step = "read", !.rows = rows])
      BY <2>4 DEF D!NoticesRead
    <3>2. rows \subseteq threads
      BY DEF ThreadInv, D!QuestionsReachDesk
    <3> DEFINE r == [D!Idle EXCEPT !.step = "read", !.rows = rows]
    <3>3. r \in D!Request /\ r.step = "read" /\ r.rows = rows
      BY <2>0, <3>2 DEF D!Request, D!Idle
    <3>4. D!Become(w, r) /\ UNCHANGED <<threads, notice>>
      BY <2>4, <3>1 DEF D!NoticesRead
    <3> HIDE DEF r
    <3> QED BY <3>2, <3>3, <3>4, ThreadsKept
  <2>5. ASSUME NEW w \in Workers, D!CommitNotices(w) PROVE ThreadInv'
    <3>1. /\ ask[w].step = "read" /\ ask[w].rows \subseteq threads /\ D!Become(w, D!Idle) /\ UNCHANGED threads
          /\ notice' = [t \in Threads |-> IF t \in ask[w].rows THEN "read" ELSE notice[t]]
      BY <2>5 DEF D!CommitNotices, ThreadInv
    <3>2. /\ ask' \in [Workers -> D!Request] /\ ask'[w] = D!Idle
          /\ \A v \in Workers : v # w => ask'[v] = ask[v]
          /\ \A v \in Workers : ask'[v].step = "commit" => ask'[v].thread \in Threads
      BY <2>0, <3>1, AskTyped
    <3>3. D!TypeOK'
      BY <2>0, <3>1, <3>2 DEF D!TypeOK
    <3>4. Asking' = Asking
      BY <2>0, <3>1, <3>2 DEF Asking
    <3>5. D!QuestionsReachDesk'
      BY <2>0, <3>1 DEF ThreadInv, D!QuestionsReachDesk
    <3> QED BY <2>0, <3>1, <3>2, <3>3, <3>4, <3>5 DEF ThreadInv
  <2>6. ASSUME NEW w \in Workers, D!Abort(w) PROVE ThreadInv'
    <3>1. D!Become(w, D!Idle) /\ UNCHANGED <<threads, notice>>
      BY <2>6 DEF D!Abort
    <3> QED BY <2>0, <3>1, ThreadsKept
  <2>7. CASE UNCHANGED D!vars
    <3>1. UNCHANGED <<threads, notice, ask>>
      BY <2>7 DEF D!vars
    <3> QED BY <3>1 DEF ThreadInv, D!TypeOK, D!QuestionsReachDesk, Asking
  <2> QED BY <2>1, <2>2, <2>3, <2>4, <2>5, <2>6, <2>7 DEF D!Next
<1> QED BY <1>1, <1>2, PTL DEF D!Spec

(* A buyer's first questions never make more threads than there were requests, and *)
(* the admins are told of each (_open_desk_thread). *)
THEOREM QuestionsReach == BackOffice => []QuestionsReachDesk
<1>1. ThreadInv => QuestionsReachDesk
  BY DEF ThreadInv, QuestionsReachDesk
<1> QED BY <1>1, ThreadsInvariant, PartsRun, PTL

-----------------------------------------------------------------------------
\* What was taken of city c when it had been switched off s times is worth
\* something in a table of markets and of how often each was switched off.
Sound(c, s, table, times) ==
    table[c] # "absent" /\ s <= times[c] /\ (table[c] = "active" \/ times[c] > s)

\* A request knows its manager and its city once it has them; one for a deal has
\* found the market active, or it raises it.
FitsMarkets(r, table, times) ==
    /\ r.op \in {"new", "patch", "delete"} => r.manager \in Managers
    /\ r.op \in {"create", "close"} \/ r.step = "flush" => r.city \in Cities
    /\ r.step = "owned" => r.op # "deal"
    /\ r.op = "deal" /\ r.step \in {"flush", "commit"} =>
        /\ r.city \in Cities /\ r.seen <= times[r.city]
        /\ r.found # "absent" => table[r.city] # "absent"
        /\ r.found = "active" => Sound(r.city, r.seen, table, times)
        /\ r.step = "commit" => r.found = "active" \/ r.city \in r.raised

MarketInv ==
    /\ M!TypeOK
    /\ \A d \in Deals : placed[d].city # NULL => Sound(placed[d].city, placed[d].seen, market, closings)
    /\ \A w \in Workers : FitsMarkets(place[w], market, closings)

\* No market goes, and an active one is switched off by what counts as that only.
Onward == \A c \in Cities :
    /\ market[c] # "absent" => market'[c] # "absent"
    /\ closings[c] <= closings'[c]
    /\ market[c] = "active" => market'[c] = "active" \/ closings'[c] > closings[c]

(* What is sound stays so as the markets go on. *)
LEMMA SoundOnward ==
    ASSUME closings \in [Cities -> Int], closings' \in [Cities -> Int], Onward,
           NEW c \in Cities, NEW s \in Int, Sound(c, s, market, closings)
    PROVE  Sound(c, s, market', closings')
BY DEF Sound, Onward

(* As the markets go on and one request becomes another that fits, all stay typed *)
(* and fitting. *)
LEMMA PlaceFits ==
    ASSUME MarketInv, NEW w \in Workers, NEW r \in M!Request, M!Become(w, r), FitsMarkets(r, market', closings'),
           closings' \in [Cities -> 0 .. MaxClosings], Onward
    PROVE  place' \in [Workers -> M!Request] /\ \A v \in Workers : FitsMarkets(place'[v], market', closings')
<1>1. place \in [Workers -> M!Request] /\ closings \in [Cities -> Int] /\ closings' \in [Cities -> Int]
  BY ClosingsAssumption DEF MarketInv, M!TypeOK
<1>2. place' \in [Workers -> M!Request] /\ \A v \in Workers : place'[v] = IF v = w THEN r ELSE place[v]
  BY <1>1 DEF M!Become
<1>3. ASSUME NEW q \in M!Request, FitsMarkets(q, market, closings) PROVE FitsMarkets(q, market', closings')
  <2>1. q.seen \in Int
    BY DEF M!Request
  <2>2. CASE q.op = "deal" /\ q.step \in {"flush", "commit"}
    <3>1. /\ q.city \in Cities /\ q.seen <= closings[q.city]
          /\ q.found # "absent" => market[q.city] # "absent"
          /\ q.found = "active" => Sound(q.city, q.seen, market, closings)
          /\ q.step = "commit" => q.found = "active" \/ q.city \in q.raised
      BY <1>3, <2>2 DEF FitsMarkets
    <3>2. q.seen <= closings'[q.city]
      BY <1>1, <2>1, <3>1 DEF Onward
    <3>3. q.found # "absent" => market'[q.city] # "absent"
      BY <3>1 DEF Onward
    <3>4. q.found = "active" => Sound(q.city, q.seen, market', closings')
      BY <1>1, <2>1, <3>1, SoundOnward
    <3> QED BY <2>2, <3>1, <3>2, <3>3, <3>4 DEF FitsMarkets
  <2>3. CASE ~(q.op = "deal" /\ q.step \in {"flush", "commit"})
    BY <1>3, <2>3 DEF FitsMarkets
  <2> QED BY <2>2, <2>3
<1>4. \A v \in Workers : FitsMarkets(place'[v], market', closings')
  BY <1>1, <1>2, <1>3 DEF MarketInv
<1> QED BY <1>2, <1>4

(* A step of a request that has changed no row yet. *)
LEMMA MarketsKept ==
    ASSUME MarketInv, NEW w \in Workers, NEW r \in M!Request, M!Become(w, r), FitsMarkets(r, market, closings),
           UNCHANGED <<market, manager, managers, placed, closings>>
    PROVE  MarketInv'
<1>1. closings' \in [Cities -> 0 .. MaxClosings] /\ Onward
  BY ClosingsAssumption DEF MarketInv, M!TypeOK, Onward
<1>2. place' \in [Workers -> M!Request] /\ \A v \in Workers : FitsMarkets(place'[v], market', closings')
  BY <1>1, PlaceFits
<1>3. M!TypeOK'
  BY <1>2 DEF MarketInv, M!TypeOK
<1>4. \A d \in Deals : placed'[d].city # NULL => Sound(placed'[d].city, placed'[d].seen, market', closings')
  BY DEF MarketInv
<1> QED BY <1>2, <1>3, <1>4 DEF MarketInv

(* A step that changes markets but places no deal. *)
LEMMA MarketsMoved ==
    ASSUME MarketInv, NEW w \in Workers, M!Become(w, M!Idle), placed' = placed, Onward,
           market' \in [Cities -> M!States], closings' \in [Cities -> 0 .. MaxClosings],
           managers' \subseteq Managers, manager' \in [Cities -> managers' \cup {NULL}]
    PROVE  MarketInv'
<1>1. M!Idle \in M!Request /\ FitsMarkets(M!Idle, market', closings')
  BY ClosingsAssumption DEF M!Idle, M!Request, M!Steps, M!Ops, M!States, FitsMarkets
<1>2. place' \in [Workers -> M!Request] /\ \A v \in Workers : FitsMarkets(place'[v], market', closings')
  BY <1>1, PlaceFits
<1>3. closings \in [Cities -> Int] /\ closings' \in [Cities -> Int]
  BY ClosingsAssumption DEF MarketInv, M!TypeOK
<1>4. ASSUME NEW d \in Deals, placed[d].city # NULL PROVE Sound(placed[d].city, placed[d].seen, market', closings')
  <2>1. placed[d].city \in Cities /\ placed[d].seen \in Int /\ Sound(placed[d].city, placed[d].seen, market, closings)
    BY <1>4, ClosingsAssumption DEF MarketInv, M!TypeOK
  <2> QED BY <1>3, <2>1, SoundOnward
<1>5. M!TypeOK'
  BY <1>2, <1>4 DEF MarketInv, M!TypeOK, Sound
<1> QED BY <1>2, <1>4, <1>5 DEF MarketInv

(* It is inductive. *)
LEMMA MarketsInvariant == M!Spec => []MarketInv
<1>1. M!Init => MarketInv
  BY ClosingsAssumption DEF M!Init, MarketInv, M!TypeOK, M!States, M!Request, M!Idle, M!Steps, M!Ops, M!NotPlaced, FitsMarkets
<1>2. MarketInv /\ [M!Next]_(M!vars) => MarketInv'
  <2> SUFFICES ASSUME MarketInv, [M!Next]_(M!vars) PROVE MarketInv'
    OBVIOUS
  <2>0. /\ M!TypeOK /\ \A w \in Workers : place[w] \in M!Request /\ FitsMarkets(place[w], market, closings)
        /\ M!Idle \in M!Request /\ FitsMarkets(M!Idle, market, closings)
    BY ClosingsAssumption DEF MarketInv, M!TypeOK, M!Idle, M!Request, M!Steps, M!Ops, M!States, FitsMarkets
  <2>1. ASSUME NEW w \in Workers, NEW c \in Cities, M!PlaceDeal(w, c) PROVE MarketInv'
    <3> DEFINE r == [M!Idle EXCEPT !.step = "ensure", !.op = "deal", !.wanted = {c}]
    <3>1. r \in M!Request /\ FitsMarkets(r, market, closings)
      BY <2>0, <2>1 DEF M!PlaceDeal, FitsMarkets, M!Request, M!Idle, M!Steps, M!Ops
    <3>2. M!Become(w, r) /\ UNCHANGED <<market, manager, managers, placed, closings>>
      BY <2>1 DEF M!PlaceDeal
    <3> HIDE DEF r
    <3> QED BY <3>1, <3>2, MarketsKept
  <2>2. ASSUME NEW w \in Workers, NEW g \in Managers, NEW wanted \in SUBSET Cities, M!Assign(w, g, wanted) PROVE MarketInv'
    <3> DEFINE start == [M!Idle EXCEPT !.manager = g, !.wanted = wanted, !.op = IF g \in managers THEN "patch" ELSE "new"]
    <3> DEFINE found == {c \in wanted : M!There(c)}
    <3>1. UNCHANGED <<market, manager, managers, placed, closings>>
      BY <2>2 DEF M!Assign
    <3>2. start \in M!Request /\ start.op \in {"patch", "new"} /\ start.manager = g
      BY <2>0 DEF M!Request, M!Idle, M!Ops
    <3>3. CASE M!Become(w, [start EXCEPT !.step = "ensure"])
      <4> DEFINE r == [start EXCEPT !.step = "ensure"]
      <4> HIDE DEF start
      <4>1. r \in M!Request /\ FitsMarkets(r, market, closings)
        BY <3>2 DEF M!Request, M!Steps, FitsMarkets
      <4> HIDE DEF r
      <4> QED BY <3>1, <3>3, <4>1, MarketsKept DEF r
    <3>4. CASE M!Become(w, [start EXCEPT !.step = "commit", !.write = found \ M!OwnedBy(g), !.owned = M!OwnedBy(g) \ found])
      <4> DEFINE write == found \ M!OwnedBy(g)
      <4> DEFINE owned == M!OwnedBy(g) \ found
      <4> DEFINE r == [start EXCEPT !.step = "commit", !.write = write, !.owned = owned]
      <4>1. write \subseteq Cities /\ owned \subseteq Cities
        BY DEF M!OwnedBy
      <4>2. M!Become(w, r)
        BY <3>4
      <4> HIDE DEF start, write, owned
      <4>3. r \in M!Request /\ FitsMarkets(r, market, closings)
        BY <3>2, <4>1 DEF M!Request, M!Steps, FitsMarkets
      <4> HIDE DEF r
      <4> QED BY <3>1, <4>2, <4>3, MarketsKept
    <3> QED BY <2>2, <3>3, <3>4 DEF M!Assign
  <2>3. ASSUME NEW w \in Workers, NEW c \in Cities, M!EnsureSelect(w, c) PROVE MarketInv'
    <3> DEFINE r == place[w]
    <3> DEFINE write == IF r.op # "deal" /\ manager[c] # r.manager THEN r.write \cup {c} ELSE r.write
    <3> DEFINE q == [r EXCEPT !.step = "flush", !.city = c, !.found = market[c], !.seen = closings[c],
                              !.charged = r.write, !.done = r.done \cup {c}, !.write = write]
    <3>1. r \in M!Request /\ FitsMarkets(r, market, closings)
      BY <2>0
    <3>2. M!Become(w, q) /\ UNCHANGED <<market, manager, managers, placed, closings>>
      BY <2>3, <3>1 DEF M!EnsureSelect, M!Request
    <3>3. market[c] \in M!States /\ closings[c] \in 0 .. MaxClosings /\ closings[c] \in Int
      BY <2>0, ClosingsAssumption DEF M!TypeOK
    <3>4. write \subseteq Cities /\ r.write \subseteq Cities /\ r.done \subseteq Cities
      BY <3>1 DEF M!Request
    <3> HIDE DEF write, r
    <3>5. q \in M!Request /\ q.step = "flush" /\ q.city = c /\ q.found = market[c] /\ q.seen = closings[c]
          /\ q.op = r.op /\ q.manager = r.manager
      BY <3>1, <3>3, <3>4 DEF M!Request, M!Steps
    <3> HIDE DEF q
    <3>6. FitsMarkets(q, market, closings)
      BY <3>1, <3>3, <3>5 DEF FitsMarkets, Sound
    <3> QED BY <3>2, <3>5, <3>6, MarketsKept
  <2>4. ASSUME NEW w \in Workers, M!EnsureFlush(w) PROVE MarketInv'
    <3> DEFINE r == place[w]
    <3> DEFINE next == IF r.op = "deal" THEN "commit" ELSE IF r.wanted = r.done THEN "owned" ELSE "ensure"
    <3> DEFINE raised == IF M!NeedsRaise(r.found) THEN r.raised \cup {r.city} ELSE r.raised
    <3> DEFINE q == [r EXCEPT !.step = next, !.raised = raised]
    <3>1. r \in M!Request /\ FitsMarkets(r, market, closings) /\ r.step = "flush"
      BY <2>0, <2>4 DEF M!EnsureFlush
    <3>2. UNCHANGED <<market, manager, managers, placed, closings>> /\ (M!Become(w, M!Idle) \/ M!Become(w, q))
      BY <2>4, <3>1 DEF M!EnsureFlush, M!Request
    <3>3. /\ next \in M!Steps /\ next # "flush" /\ (r.op = "deal" => next = "commit")
          /\ raised \subseteq Cities /\ (r.found = "active" \/ r.city \in raised)
      BY <3>1 DEF M!Request, M!States, M!Steps, M!NeedsRaise, FitsMarkets
    <3> HIDE DEF next, raised, r
    <3>4. q \in M!Request /\ q.step = next /\ q.raised = raised /\ q.op = r.op /\ q.manager = r.manager
          /\ q.city = r.city /\ q.seen = r.seen /\ q.found = r.found
      BY <3>1, <3>3 DEF M!Request
    <3> HIDE DEF q
    <3>5. FitsMarkets(q, market, closings)
      BY <3>1, <3>3, <3>4 DEF FitsMarkets
    <3> QED BY <2>0, <3>2, <3>4, <3>5, MarketsKept
  <2>5. ASSUME NEW w \in Workers, NEW d \in Deals, M!CommitDeal(w, d) PROVE MarketInv'
    <3> DEFINE r == place[w]
    <3>1. /\ r \in M!Request /\ r.step = "commit" /\ r.op = "deal" /\ FitsMarkets(r, market, closings)
          /\ placed' = [placed EXCEPT ![d] = [city |-> r.city, seen |-> r.seen]]
          /\ market' = [c \in Cities |-> IF c \in r.raised THEN "active" ELSE market[c]]
          /\ M!Become(w, M!Idle) /\ UNCHANGED <<manager, managers, closings>>
      BY <2>0, <2>5 DEF M!CommitDeal, M!Raise
    <3> HIDE DEF r
    <3>2. market' \in [Cities -> M!States] /\ closings' \in [Cities -> 0 .. MaxClosings] /\ Onward
          /\ closings \in [Cities -> Int]
      BY <2>0, <3>1, ClosingsAssumption DEF M!TypeOK, M!States, Onward
    <3>3. r.city \in Cities /\ r.seen \in 0 .. MaxClosings /\ r.seen \in Int
      BY <3>1, ClosingsAssumption DEF FitsMarkets, M!Request
    <3>4. Sound(r.city, r.seen, market', closings')
      <4>1. CASE r.found = "active"
        BY <3>1, <3>2, <3>3, <4>1, SoundOnward DEF FitsMarkets
      <4>2. CASE r.city \in r.raised
        BY <3>1, <3>3, <4>2 DEF FitsMarkets, Sound
      <4> QED BY <3>1, <4>1, <4>2 DEF FitsMarkets
    <3>5. placed' \in [Deals -> [city : Cities \cup {NULL}, seen : 0 .. MaxClosings]]
      BY <2>0, <3>1, <3>3 DEF M!TypeOK
    <3>6. ASSUME NEW e \in Deals, placed'[e].city # NULL
          PROVE  placed'[e].city \in Cities /\ Sound(placed'[e].city, placed'[e].seen, market', closings')
      <4>1. CASE e = d
        <5>1. placed'[e] = [city |-> r.city, seen |-> r.seen]
          BY <2>0, <3>1, <4>1 DEF M!TypeOK
        <5> QED BY <3>3, <3>4, <5>1
      <4>2. CASE e # d
        <5>1. placed'[e] = placed[e]
          BY <2>0, <3>1, <4>2 DEF M!TypeOK
        <5>2. placed[e].city \in Cities /\ placed[e].seen \in Int /\ Sound(placed[e].city, placed[e].seen, market, closings)
          BY <3>6, <5>1, ClosingsAssumption DEF MarketInv, M!TypeOK
        <5> QED BY <3>1, <3>2, <5>1, <5>2, SoundOnward
      <4> QED BY <4>1, <4>2
    <3>7. place' \in [Workers -> M!Request] /\ \A v \in Workers : FitsMarkets(place'[v], market', closings')
      <4>1. FitsMarkets(M!Idle, market', closings')
        BY DEF FitsMarkets, M!Idle
      <4> QED BY <2>0, <3>1, <3>2, <4>1, PlaceFits
    <3>8. M!TypeOK'
      BY <2>0, <3>1, <3>2, <3>5, <3>6, <3>7 DEF M!TypeOK, Sound
    <3> QED BY <3>6, <3>7, <3>8 DEF MarketInv
  <2>6. ASSUME NEW w \in Workers, M!OwnedSelect(w) PROVE MarketInv'
    <3> DEFINE r == place[w]
    <3> DEFINE owned == M!OwnedBy(r.manager) \ r.wanted
    <3> DEFINE q == [r EXCEPT !.step = "commit", !.charged = r.write, !.owned = owned]
    <3>1. r \in M!Request /\ FitsMarkets(r, market, closings) /\ r.step = "owned"
      BY <2>0, <2>6 DEF M!OwnedSelect
    <3>2. M!Become(w, q) /\ UNCHANGED <<market, manager, managers, placed, closings>>
      BY <2>6 DEF M!OwnedSelect
    <3>3. owned \subseteq Cities
      BY DEF M!OwnedBy
    <3> HIDE DEF owned, r
    <3>4. q \in M!Request /\ q.step = "commit" /\ q.op = r.op /\ q.manager = r.manager /\ q.city = r.city
      BY <3>1, <3>3 DEF M!Request, M!Steps
    <3> HIDE DEF q
    <3>5. FitsMarkets(q, market, closings)
      BY <3>1, <3>4 DEF FitsMarkets
    <3> QED BY <3>2, <3>4, <3>5, MarketsKept
  <2>7. ASSUME NEW w \in Workers, M!CommitAssign(w) PROVE MarketInv'
    <3> DEFINE r == place[w]
    <3>1. /\ r \in M!Request /\ r.op \in {"new", "patch"} /\ FitsMarkets(r, market, closings)
          /\ market' = [c \in Cities |-> IF c \in r.raised THEN "active" ELSE market[c]]
          /\ manager' = [c \in Cities |-> IF c \in r.write THEN r.manager ELSE IF c \in r.owned THEN NULL ELSE manager[c]]
          /\ managers' = managers \cup {r.manager}
          /\ M!Become(w, M!Idle) /\ UNCHANGED <<placed, closings>>
      BY <2>0, <2>7 DEF M!CommitAssign, M!Raise
    <3> HIDE DEF r
    <3>2. market' \in [Cities -> M!States] /\ closings' \in [Cities -> 0 .. MaxClosings] /\ Onward
      BY <2>0, <3>1, ClosingsAssumption DEF M!TypeOK, M!States, Onward
    <3>3. managers' \subseteq Managers /\ manager' \in [Cities -> managers' \cup {NULL}]
      BY <2>0, <3>1 DEF M!TypeOK, FitsMarkets
    <3> QED BY <3>1, <3>2, <3>3, MarketsMoved
  <2>8. ASSUME NEW w \in Workers, NEW g \in Managers, M!DeleteRead(w, g) PROVE MarketInv'
    <3> DEFINE r == [M!Idle EXCEPT !.step = "commit", !.op = "delete", !.manager = g, !.owned = M!OwnedBy(g)]
    <3>1. r \in M!Request /\ FitsMarkets(r, market, closings)
      BY <2>0, <2>8 DEF M!DeleteRead, FitsMarkets, M!Request, M!Idle, M!Steps, M!Ops, M!OwnedBy
    <3>2. M!Become(w, r) /\ UNCHANGED <<market, manager, managers, placed, closings>>
      BY <2>8 DEF M!DeleteRead
    <3> HIDE DEF r
    <3> QED BY <3>1, <3>2, MarketsKept
  <2>9. ASSUME NEW w \in Workers, M!CommitDelete(w) PROVE MarketInv'
    <3> DEFINE r == place[w]
    <3>1. /\ manager' = [c \in Cities |-> IF c \in r.owned THEN NULL ELSE manager[c]]
          /\ \A c \in Cities : manager[c] = r.manager => c \in r.owned
          /\ managers' = managers \ {r.manager}
          /\ M!Become(w, M!Idle) /\ UNCHANGED <<market, placed, closings>>
      BY <2>9 DEF M!CommitDelete, M!NobodyRefers, M!OwnedBy
    <3> HIDE DEF r
    <3>2. market' \in [Cities -> M!States] /\ closings' \in [Cities -> 0 .. MaxClosings] /\ Onward
      BY <2>0, <3>1, ClosingsAssumption DEF M!TypeOK, Onward
    <3>3. managers' \subseteq Managers /\ manager' \in [Cities -> managers' \cup {NULL}]
      BY <2>0, <3>1 DEF M!TypeOK
    <3> QED BY <3>1, <3>2, <3>3, MarketsMoved
  <2>10. ASSUME NEW w \in Workers, NEW c \in Cities, M!CreateRead(w, c) PROVE MarketInv'
    <3> DEFINE r == [M!Idle EXCEPT !.step = "commit", !.op = "create", !.city = c]
    <3>1. r \in M!Request /\ FitsMarkets(r, market, closings)
      BY <2>0, <2>10 DEF M!CreateRead, FitsMarkets, M!Request, M!Idle, M!Steps, M!Ops
    <3>2. M!Become(w, r) /\ UNCHANGED <<market, manager, managers, placed, closings>>
      BY <2>10 DEF M!CreateRead
    <3> HIDE DEF r
    <3> QED BY <3>1, <3>2, MarketsKept
  <2>11. ASSUME NEW w \in Workers, M!CommitCreate(w) PROVE MarketInv'
    <3> DEFINE c == place[w].city
    <3>1. /\ c \in Cities /\ M!Become(w, M!Idle)
          /\ market' = [market EXCEPT ![c] = "active"] /\ UNCHANGED <<manager, managers, placed, closings>>
      BY <2>0, <2>11 DEF M!CommitCreate, FitsMarkets
    <3> HIDE DEF c
    <3>2. market' \in [Cities -> M!States] /\ closings' \in [Cities -> 0 .. MaxClosings] /\ Onward
      BY <2>0, <3>1, ClosingsAssumption DEF M!TypeOK, M!States, Onward
    <3> QED BY <2>0, <3>1, <3>2, MarketsMoved DEF M!TypeOK
  <2>12. ASSUME NEW w \in Workers, NEW c \in Cities, M!CloseRead(w, c) PROVE MarketInv'
    <3> DEFINE r == [M!Idle EXCEPT !.step = "commit", !.op = "close", !.city = c]
    <3>1. r \in M!Request /\ FitsMarkets(r, market, closings)
      BY <2>0, <2>12 DEF M!CloseRead, FitsMarkets, M!Request, M!Idle, M!Steps, M!Ops
    <3>2. M!Become(w, r) /\ UNCHANGED <<market, manager, managers, placed, closings>>
      BY <2>12 DEF M!CloseRead
    <3> HIDE DEF r
    <3> QED BY <3>1, <3>2, MarketsKept
  <2>13. ASSUME NEW w \in Workers, M!CommitClose(w) PROVE MarketInv'
    <3> DEFINE c == place[w].city
    <3>1. /\ c \in Cities /\ closings[c] < MaxClosings /\ M!Become(w, M!Idle)
          /\ market' = [market EXCEPT ![c] = "inactive"] /\ closings' = [closings EXCEPT ![c] = @ + 1]
          /\ UNCHANGED <<manager, managers, placed>>
      BY <2>0, <2>13 DEF M!CommitClose, FitsMarkets
    <3> HIDE DEF c
    <3>2. market' \in [Cities -> M!States] /\ closings' \in [Cities -> 0 .. MaxClosings] /\ Onward
      BY <2>0, <3>1, ClosingsAssumption DEF M!TypeOK, M!States, Onward
    <3> QED BY <2>0, <3>1, <3>2, MarketsMoved DEF M!TypeOK
  <2>14. ASSUME NEW w \in Workers, M!Abort(w) PROVE MarketInv'
    BY <2>0, <2>14, MarketsKept DEF M!Abort
  <2>15. CASE UNCHANGED M!vars
    <3>1. UNCHANGED <<market, manager, managers, placed, closings, place>>
      BY <2>15 DEF M!vars
    <3> QED BY <3>1 DEF MarketInv, M!TypeOK
  <2> QED BY <2>1, <2>2, <2>3, <2>4, <2>5, <2>6, <2>7, <2>8, <2>9, <2>10, <2>11, <2>12, <2>13, <2>14, <2>15
          DEF M!Next, M!Place, M!Manage, M!Run
<1> QED BY <1>1, <1>2, PTL DEF M!Spec

(* A deal's market is one that buyers can choose, unless an admin has switched it *)
(* off after the request that placed the deal had read it (ensure_market,         *)
(* deactivate_market). *)
THEOREM MarketsOfDeals == BackOffice => []MarketOfDealActive
<1>1. MarketInv => MarketOfDealActive
  BY DEF MarketInv, MarketOfDealActive, M!MarketOfDealActive, Sound
<1> QED BY <1>1, MarketsInvariant, PartsRun, PTL

(* The rows and the requests of every part keep their types: a deal's market is    *)
(* there, a market's manager too, the tables of mail and threads hold together.    *)
THEOREM BackOfficeTyping == BackOffice => []PartsTyped
<1>1. ListInv /\ I!TypeOK /\ ThreadInv /\ MarketInv => PartsTyped
  BY DEF PartsTyped, ListInv, ThreadInv, MarketInv
<1> QED BY <1>1, BlastTyping, MailroomTyping, ThreadsInvariant, MarketsInvariant, PartsRun, PTL
=============================================================================
