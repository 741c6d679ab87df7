-------------------------------- MODULE Blast --------------------------------
(***************************************************************************)
(* One blast campaign: its recipients, the send with its single commit at  *)
(* the end, pause and resume, and the tracked clicks (services/blasts.py,  *)
(* api/v1/admin_extra.py, track_click in api/v1/desk.py).                  *)
(*                                                                         *)
(* A request runs in one of Workers, one action per SELECT whose result it *)
(* keeps, one per message of a send, one for the commit.  What a session   *)
(* flushes before a SELECT it holds until its commit: the campaign row and *)
(* rows of recipients.  A send goes by the campaign its session read.  The *)
(* text a failed message leaves in its row is not modelled.                *)
(***************************************************************************)
EXTENDS Integers, FiniteSets

CONSTANTS
    Workers, \* requests in flight at the same time
    Buyers,
    MaxLost, \* bound on the messages to one buyer that no row remembers
    NULL

ASSUME WorkersAssumption == IsFiniteSet(Workers)
ASSUME BuyersAssumption == IsFiniteSet(Buyers)
ASSUME LostAssumption == MaxLost \in Nat

VARIABLES
    alerts,   \* buyers who may be mailed: email_alerts_enabled, not do_not_contact
    status,   \* blast_campaigns.status, "none" before the campaign is created
    sent,     \* blast_campaigns.sent
    clicked,  \* blast_campaigns.clicked
    recip,    \* buyers with a row in blast_recipients
    marked,   \* ... whose sent_at is set
    clickers, \* ... whose clicked_at is set
    mails,    \* how many messages went out to each buyer (history)
    lost,     \* how many of them no row remembers: the send never committed, or
              \* the provider raised after the message had left (history)
    request   \* what each worker has read and done so far

vars == <<alerts, status, sent, clicked, recip, marked, clickers, mails, lost, request>>

Statuses == {"none", "draft", "sending", "paused", "done"}
Steps == {"idle", "create", "send", "sending", "pause", "click", "clicking"}
Request == [step : Steps, status : Statuses, count : Nat, buyer : Buyers \cup {NULL}, todo : SUBSET Buyers,
            mailed : SUBSET Buyers, flushed : SUBSET Buyers, camp : BOOLEAN]
Idle == [step |-> "idle", status |-> "none", count |-> 0, buyer |-> NULL, todo |-> {},
         mailed |-> {}, flushed |-> {}, camp |-> FALSE]

TypeOK ==
    /\ alerts \subseteq Buyers /\ status \in Statuses
    /\ sent \in Nat /\ clicked \in Nat
    /\ recip \subseteq Buyers /\ marked \subseteq recip /\ clickers \subseteq recip
    /\ mails \in [Buyers -> Nat] /\ lost \in [Buyers -> 0 .. MaxLost]
    /\ request \in [Workers -> Request]
    /\ \A w \in Workers : request[w].step \in {"click", "clicking"} => request[w].buyer \in recip

Init ==
    /\ alerts = Buyers /\ status = "none"
    /\ sent = 0 /\ clicked = 0
    /\ recip = {} /\ marked = {} /\ clickers = {}
    /\ mails = [b \in Buyers |-> 0] /\ lost = [b \in Buyers |-> 0]
    /\ request = [w \in Workers |-> Idle]

-----------------------------------------------------------------------------
Become(w, r) == request' = [request EXCEPT ![w] = r]

\* Nobody else has flushed a change of the campaign, or of one of these rows.
CampaignFree(w) == \A v \in Workers \ {w} : ~request[v].camp
RowsFree(w, rows) == \A v \in Workers \ {w} : request[v].flushed \cap rows = {}

\* eligible_buyers: those of the segment who want mail.
Eligible(segment) == segment \cap alerts

-----------------------------------------------------------------------------
\* create_campaign: the buyers, of any segment ...
CreateRead(w) ==
    /\ request[w].step = "idle" /\ status = "none"
    /\ \E segment \in SUBSET Buyers : Become(w, [Idle EXCEPT !.step = "create", !.todo = Eligible(segment)])
    /\ UNCHANGED <<alerts, status, sent, clicked, recip, marked, clickers, mails, lost>>

\* ... and the campaign with its recipients, in one commit.
CommitCreate(w) ==
    /\ request[w].step = "create" /\ status = "none"
    /\ status' = "draft" /\ recip' = request[w].todo
    /\ Become(w, Idle)
    /\ UNCHANGED <<alerts, sent, clicked, marked, clickers, mails, lost>>

\* POST .../send and .../resume are the same: the campaign is read ...
SendRead(w) ==
    /\ request[w].step = "idle" /\ status # "none"
    /\ Become(w, [Idle EXCEPT !.step = "send", !.status = status, !.count = sent])
    /\ UNCHANGED <<alerts, status, sent, clicked, recip, marked, clickers, mails, lost>>

\* Mutant: the recipients are selected whole.
AllRows == recip

\* The rows whose sent_at is NULL.
Unsent == recip \ marked

\* ... and its recipients, which flushes the status "sending" if it was another.
\* The send goes on as an admin's, whatever the campaign's status is.
SelectRecipients(w) ==
    LET flush == request[w].status # "sending" IN
    /\ request[w].step = "send"
    /\ flush => CampaignFree(w)
    /\ Become(w, [request[w] EXCEPT !.step = "sending", !.todo = Unsent, !.camp = flush])
    /\ UNCHANGED <<alerts, status, sent, clicked, recip, marked, clickers, mails, lost>>

\* One turn of the loop, in any order of the rows: the SELECT of the buyer flushes
\* what the turns before have set, and provider.send returns or raises.  It raises
\* before the message has left, or after: QUIT comes last, inside the same try.
SendOne(w, b) ==
    LET r == request[w] IN
    /\ r.step = "sending" /\ b \in r.todo
    /\ r.mailed # {} => CampaignFree(w) /\ RowsFree(w, r.mailed)
    /\ \E left, ok \in BOOLEAN :
        /\ ok => left
        /\ left /\ ~ok => lost[b] < MaxLost
        /\ Become(w, [r EXCEPT !.todo = @ \ {b}, !.mailed = IF ok THEN @ \cup {b} ELSE @,
                               !.flushed = r.mailed, !.camp = @ \/ r.mailed # {}])
        /\ mails' = [mails EXCEPT ![b] = IF left THEN @ + 1 ELSE @]
        /\ lost' = [lost EXCEPT ![b] = IF left /\ ~ok THEN @ + 1 ELSE @]
    /\ UNCHANGED <<alerts, status, sent, clicked, recip, marked, clickers>>

\* camp.sent, one more per message, from the value read.
SentAfter(r) == r.count + Cardinality(r.mailed)

\* Mutant: done as soon as every recipient has been tried.
DoneWhenTried(r) == "done"

\* Mutant: the status is misspelt.
StatusMisspelt(r) == IF SentAfter(r) >= Cardinality(recip) THEN "sent" ELSE "sending"

\* The status a send ends with.
StatusAfter(r) == IF SentAfter(r) >= Cardinality(recip) THEN "done" ELSE "sending"

\* row.sent_at
Marks(r) == r.mailed

\* The one commit of a send: only columns that changed are written.
CommitSend(w) ==
    LET r == request[w] IN
    /\ r.step = "sending" /\ r.todo = {} /\ CampaignFree(w) /\ RowsFree(w, r.mailed)
    /\ status' = IF r.status = StatusAfter(r) /\ r.status = "sending" THEN status ELSE StatusAfter(r)
    /\ sent' = IF r.mailed = {} THEN sent ELSE SentAfter(r)
    /\ marked' = marked \cup Marks(r)
    /\ Become(w, Idle)
    /\ UNCHANGED <<alerts, clicked, recip, clickers, mails, lost>>

\* POST .../pause
PauseRead(w) ==
    /\ request[w].step = "idle" /\ status \notin {"none", "paused"}
    /\ Become(w, [Idle EXCEPT !.step = "pause"])
    /\ UNCHANGED <<alerts, status, sent, clicked, recip, marked, clickers, mails, lost>>

CommitPause(w) ==
    /\ request[w].step = "pause" /\ CampaignFree(w)
    /\ status' = "paused"
    /\ Become(w, Idle)
    /\ UNCHANGED <<alerts, sent, clicked, recip, marked, clickers, mails, lost>>

-----------------------------------------------------------------------------
\* recip.clicked_at is None
FirstClick(b) == b \in recip \ clickers

\* track_click: the row of the buyer who follows the link of a message ...
ClickRead(w, b) ==
    /\ request[w].step = "idle" /\ mails[b] > 0 /\ FirstClick(b)
    /\ Become(w, [Idle EXCEPT !.step = "click", !.buyer = b])
    /\ UNCHANGED <<alerts, status, sent, clicked, recip, marked, clickers, mails, lost>>

\* ... then the campaign, which flushes clicked_at ...
ClickCampaign(w) ==
    LET r == request[w] IN
    /\ r.step = "click" /\ RowsFree(w, {r.buyer})
    /\ Become(w, [r EXCEPT !.step = "clicking", !.count = clicked, !.flushed = {r.buyer}])
    /\ UNCHANGED <<alerts, status, sent, clicked, recip, marked, clickers, mails, lost>>

\* ... and one more click on the count read.
CommitClick(w) ==
    LET r == request[w] IN
    /\ r.step = "clicking" /\ CampaignFree(w)
    /\ clicked' = r.count + 1
    /\ clickers' = clickers \cup {r.buyer}
    /\ Become(w, Idle)
    /\ UNCHANGED <<alerts, status, sent, recip, marked, mails, lost>>

\* PATCH /auth/me/profile and PATCH /admin/buyers/{id}: a buyer wants mail, or no more.
SetAlerts(b) ==
    /\ alerts' = IF b \in alerts THEN alerts \ {b} ELSE alerts \cup {b}
    /\ UNCHANGED <<status, sent, clicked, recip, marked, clickers, mails, lost, request>>

\* The process dies, the commit fails, or the database breaks a tie of held rows:
\* what was mailed stays mailed, and nothing remembers it.
Abort(w) ==
    LET gone == request[w].mailed IN
    /\ request[w].step # "idle"
    /\ \A b \in gone : lost[b] < MaxLost
    /\ lost' = [b \in Buyers |-> IF b \in gone THEN lost[b] + 1 ELSE lost[b]]
    /\ Become(w, Idle)
    /\ UNCHANGED <<alerts, status, sent, clicked, recip, marked, clickers, mails>>

Send(w) ==
    \/ SendRead(w) \/ SelectRecipients(w) \/ CommitSend(w)
    \/ \E b \in Buyers : SendOne(w, b)

Click(w) ==
    \/ \E b \in Buyers : ClickRead(w, b)
    \/ ClickCampaign(w) \/ CommitClick(w)

Next ==
    \/ \E w \in Workers :
        \/ CreateRead(w) \/ CommitCreate(w)
        \/ Send(w) \/ PauseRead(w) \/ CommitPause(w)
        \/ Click(w) \/ Abort(w)
    \/ \E b \in Buyers : SetAlerts(b)

Spec == Init /\ [][Next]_vars

-----------------------------------------------------------------------------
(* A recipient gets at most one message per request in flight, not counting *)
(* those of sends that died before their commit and those the provider      *)
(* raised for after they had left: a send that starts after a commit finds  *)
(* the rows marked (send_campaign). *)
MailsBound == \A b \in Buyers : mails[b] - lost[b] <= Cardinality(Workers)

(* However sends, pauses and crashes interleave, the count shown to the admin *)
(* never exceeds the recipients that are marked: a lost update of camp.sent *)
(* only loses (send_campaign). *)
SentNotOvercounted == sent <= Cardinality(marked)

(* A campaign that reads "done" has mailed everybody on its list, whatever *)
(* failed, died or was sent twice on the way (send_campaign). *)
DoneMeansSent == status = "done" => marked = recip
=============================================================================
