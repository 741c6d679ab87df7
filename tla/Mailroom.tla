------------------------------ MODULE Mailroom ------------------------------
(***************************************************************************)
(* Mail that comes in: each message_id is ingested once, a bounce counts   *)
(* against its buyer, and an admin attaches what nobody could be found for *)
(* (services/imap_inbound.py, the mail endpoints of api/v1/desk.py).       *)
(*                                                                         *)
(* A piece of mail is delivered any number of times.  One that carries a   *)
(* message_id is known by it; one that carries none gets a new one on each *)
(* delivery, and is a new piece to the desk.                               *)
(*                                                                         *)
(* A request runs in one of Workers, one action per SELECT whose result it *)
(* keeps and one for the commit.  A SELECT first flushes what the session  *)
(* has changed: a flushed row is held until the commit, and INSERTs of one *)
(* UNIQUE message_id wait for each other.  The bounces are those of one    *)
(* buyer.  Who takes part in a thread is left out: it is added with the    *)
(* message that needs it.                                                  *)
(***************************************************************************)
EXTENDS Integers, FiniteSets

CONSTANTS
    Workers,  \* requests in flight at the same time
    Mails,    \* the imap_uid of each piece of mail
    Named,    \* those that carry a message_id, here the uid again
    Drawn,    \* message_ids that new_id() makes for the others
    Recips,   \* the buyer's rows in blast_recipients
    MaxPosts, \* bound on the messages an admin makes of one link
    NULL

VARIABLES
    kind,    \* what each piece is: constant
    source,  \* the piece each message_id stands for, NULL as long as it is not drawn
    link,    \* email_links.unmatched by message_id, "none" before there is a row
    posted,  \* messages the ingestion made under it (history)
    linked,  \* messages an admin's linking made of it (history)
    bounced, \* blast_recipients.bounced
    alerts,  \* buyer_profiles.email_alerts_enabled
    last,    \* mailbox_state.last_imap_uid, NULL before there is a row
    request  \* what each worker has read and done so far

vars == <<kind, source, link, posted, linked, bounced, alerts, last, request>>

\* A reply carries the token of a thread, a letter comes from a known address, a
\* stranger's from an unknown one; a bounce is of a blast to the buyer.
Kinds == {"reply", "letter", "stranger", "bounce"}
LinkStates == {"none", "unmatched", "matched"}
Steps == {"idle", "new", "count", "flush", "commit", "link"}
Ids == Named \cup Drawn
Request == [step : Steps, id : Ids \cup {NULL}, recip : Recips \cup {NULL}, stop : BOOLEAN, last : Mails \cup {NULL}]
Idle == [step |-> "idle", id |-> NULL, recip |-> NULL, stop |-> FALSE, last |-> NULL]

TypeOK ==
    /\ kind \in [Mails -> Kinds] /\ link \in [Ids -> LinkStates]
    /\ source \in [Ids -> Mails \cup {NULL}] /\ \A m \in Named : source[m] = m
    /\ posted \in [Ids -> Nat] /\ linked \in [Ids -> 0 .. MaxPosts]
    /\ bounced \subseteq Recips /\ alerts \in BOOLEAN
    /\ last \in Mails \cup {NULL}
    /\ request \in [Workers -> Request]
    /\ \A w \in Workers : request[w].step # "idle" => request[w].id \in Ids
    /\ \A i \in Ids : link[i] # "none" \/ (\E w \in Workers : request[w].id = i) => source[i] \in Mails

Init ==
    /\ kind \in [Mails -> Kinds]
    /\ source = [i \in Ids |-> IF i \in Named THEN i ELSE NULL]
    /\ link = [i \in Ids |-> "none"]
    /\ posted = [i \in Ids |-> 0] /\ linked = [i \in Ids |-> 0]
    /\ bounced = {} /\ alerts = TRUE
    /\ last = NULL
    /\ request = [w \in Workers |-> Idle]

-----------------------------------------------------------------------------
Become(w, r) == request' = [request EXCEPT ![w] = r]
Ingested(i) == link[i] # "none"
KindOf(i) == kind[source[i]]

\* Nobody else has flushed a row: the recipient's after it is counted, the link's,
\* the mailbox's only with the commit.
RecipFree(w, p) == \A v \in Workers \ {w} : request[v].recip = p => request[v].step = "count"

\* Mutant: email_links.message_id is not UNIQUE.
NoConstraint(w, i) == TRUE

\* UNIQUE email_links.message_id: no other INSERT of it is in flight.
MessageIdFree(w, i) == \A v \in Workers \ {w} : ~(request[v].id = i /\ request[v].step = "commit")

\* payload.get("message_id") or new_id()
MessageId(m) ==
    IF m \in Named THEN {m} ELSE {i \in Drawn : ~Ingested(i) /\ \A v \in Workers : request[v].id # i}

-----------------------------------------------------------------------------
\* ingest_inbound: the message_id is new; one that is known is returned as it is.
IngestRead(w, m) ==
    /\ request[w].step = "idle"
    /\ \E i \in MessageId(m) :
        /\ ~Ingested(i)
        /\ source' = [source EXCEPT ![i] = m]
        /\ Become(w, [Idle EXCEPT !.step = IF kind[m] = "bounce" THEN "new" ELSE "flush", !.id = i])
    /\ UNCHANGED <<kind, link, posted, linked, bounced, alerts, last>>

\* _record_bounce: a recipient row not yet bounced, if there is one ...
BounceRead(w) ==
    /\ request[w].step = "new"
    /\ LET clean == Recips \ bounced IN
       \E p \in IF clean = {} THEN {NULL} ELSE clean :
            Become(w, [request[w] EXCEPT !.step = "count", !.recip = p])
    /\ UNCHANGED <<kind, source, link, posted, linked, bounced, alerts, last>>

\* The count of the bounced rows sees the one just flushed, and one is added for it.
Hard(p) == IF p = NULL THEN Cardinality(bounced) ELSE Cardinality(bounced \cup {p}) + 1

\* ... the SELECT of the count flushes it: at three the alerts are switched off ...
BounceCount(w) ==
    LET p == request[w].recip IN
    /\ request[w].step = "count"
    /\ p # NULL => RecipFree(w, p)
    /\ Become(w, [request[w] EXCEPT !.step = "flush", !.stop = Hard(p) >= 3])
    /\ UNCHANGED <<kind, source, link, posted, linked, bounced, alerts, last>>

\* ... the SELECT of the mailbox flushes message and link, which fails when the
\* message_id is taken by now ...
FlushLink(w) ==
    LET i == request[w].id IN
    /\ request[w].step = "flush" /\ MessageIdFree(w, i)
    /\ Become(w, IF Ingested(i) THEN Idle ELSE [request[w] EXCEPT !.step = "commit", !.last = last])
    /\ UNCHANGED <<kind, source, link, posted, linked, bounced, alerts, last>>

\* A message is posted for a reply, into its thread, and for a letter, into a new one.
Posts(i) == KindOf(i) \in {"reply", "letter"}

\* last_imap_uid, raised from the value read.
Newest(uid, read) == IF read = NULL \/ uid > read THEN uid ELSE last

\* ... and all is committed; of two that insert the mailbox only one gets through.
CommitIngest(w) ==
    LET r == request[w] i == r.id IN
    /\ r.step = "commit"
    /\ r.last = NULL => last = NULL
    /\ link' = [link EXCEPT ![i] = IF KindOf(i) = "stranger" THEN "unmatched" ELSE "matched"]
    /\ posted' = [posted EXCEPT ![i] = IF Posts(i) THEN @ + 1 ELSE @]
    /\ bounced' = IF r.recip = NULL THEN bounced ELSE bounced \cup {r.recip}
    /\ alerts' = (alerts /\ ~r.stop)
    /\ last' = Newest(source[i], r.last)
    /\ Become(w, Idle)
    /\ UNCHANGED <<kind, source, linked>>

-----------------------------------------------------------------------------
\* link_unmatched: the link, matched already or not ...
LinkRead(w, i) ==
    /\ request[w].step = "idle" /\ Ingested(i)
    /\ Become(w, [Idle EXCEPT !.step = "link", !.id = i])
    /\ UNCHANGED <<kind, source, link, posted, linked, bounced, alerts, last>>

\* ... is attached to a thread, new or not, and when a buyer is picked the
\* piece is posted there.
CommitLink(w) ==
    LET i == request[w].id IN
    /\ request[w].step = "link"
    /\ link' = [link EXCEPT ![i] = "matched"]
    /\ \E picked \in {0, 1} :
        /\ linked[i] + picked <= MaxPosts
        /\ linked' = [linked EXCEPT ![i] = @ + picked]
    /\ Become(w, Idle)
    /\ UNCHANGED <<kind, source, posted, bounced, alerts, last>>

\* The process dies, or the flush or the commit fails: a delivery may come again.
Abort(w) ==
    /\ request[w].step # "idle"
    /\ Become(w, Idle)
    /\ UNCHANGED <<kind, source, link, posted, linked, bounced, alerts, last>>

Ingest(w) ==
    \/ \E m \in Mails : IngestRead(w, m)
    \/ BounceRead(w) \/ BounceCount(w) \/ FlushLink(w) \/ CommitIngest(w)

Link(w) == (\E i \in Ids : LinkRead(w, i)) \/ CommitLink(w)

Next == \E w \in Workers : Ingest(w) \/ Link(w) \/ Abort(w)

Spec == Init /\ [][Next]_vars

-----------------------------------------------------------------------------
(* Exactly once: however deliveries under one message_id race, repeat and die, *)
(* a message is posted when the link is there and only then, and no more than  *)
(* once (ingest_inbound commits message and link together, and the link's      *)
(* message_id is UNIQUE); a piece that carries its message_id has no other     *)
(* link, while one that carries none is posted again on each delivery.         *)
IngestedOnce ==
    /\ \A i \in Ids : posted[i] = IF Ingested(i) /\ KindOf(i) \in {"reply", "letter"} THEN 1 ELSE 0
    /\ \A i, j \in Ids : Ingested(i) /\ Ingested(j) /\ source[i] = source[j] /\ source[i] \in Named => i = j

(* No buyer loses the alerts to fewer than two bounced rows, and no more rows  *)
(* are bounced than bounces came in under message_ids of their own, so a piece *)
(* that carries one does not count twice (_record_bounce counts the row it has *)
(* just flushed twice, so two are enough).                                     *)
TwoBouncesToStop ==
    /\ Cardinality(bounced) <= Cardinality({i \in Ids : Ingested(i) /\ KindOf(i) = "bounce"})
    /\ ~alerts => Cardinality(bounced) >= 2

(* DESIGN 1163 and 1656: the third hard bounce switches the alerts off. *)
ThreeBouncesToStop == ~alerts => Cardinality(bounced) >= 3
=============================================================================
