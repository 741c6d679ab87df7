---------------------------- MODULE MCBackOffice ----------------------------
(* The parts of the desk behind the deals side by side, each on its own:     *)
(* blasts, the mail that comes in, the desk's threads, the markets.  They    *)
(* share no state that both sides of a property read.                        *)
EXTENDS Blast, TLC

CONSTANTS Mails, Named, Drawn, Recips, MaxPosts, Threads, Cities, Managers, Deals, MaxClosings

ASSUME MailAssumption ==
    /\ IsFiniteSet(Mails) /\ IsFiniteSet(Recips) /\ MaxPosts \in Nat
    /\ Named \subseteq Mails /\ IsFiniteSet(Drawn) /\ Drawn \cap Mails = {}
    /\ NULL \notin Mails \cup Drawn
ASSUME ClosingsAssumption == MaxClosings \in Nat

VARIABLES
    part, \* the one that runs
    kind, source, link, posted, linked, bounced, listens, last, sort,
    threads, notice, ask,
    market, manager, managers, placed, closings, place

I == INSTANCE Mailroom WITH alerts <- listens, request <- sort
D == INSTANCE DeskThreads WITH request <- ask
M == INSTANCE Markets WITH request <- place

blast == vars
mailroom == <<kind, source, link, posted, linked, bounced, listens, last, sort>>
desk == <<threads, notice, ask>>
markets == <<market, manager, managers, placed, closings, place>>

\* The kinds of the mail matter to the mailroom only.
Begin ==
    /\ part \in {"blast", "mailroom", "desk", "markets"}
    /\ Init /\ I!Init /\ D!Init /\ M!Init
    /\ part # "mailroom" => kind = [m \in Mails |-> "letter"]

Step ==
    \/ part = "blast" /\ Next /\ UNCHANGED <<part, mailroom, desk, markets>>
    \/ part = "mailroom" /\ I!Next /\ UNCHANGED <<part, blast, desk, markets>>
    \/ part = "desk" /\ D!Next /\ UNCHANGED <<part, blast, mailroom, markets>>
    \/ part = "markets" /\ M!Next /\ UNCHANGED <<part, blast, mailroom, desk>>

BackOffice == Begin /\ [][Step]_<<part, blast, mailroom, desk, markets>>

\* Requests, cities and drawn message_ids are interchangeable.
Symmetry == Permutations(Workers) \cup Permutations(Cities) \cup Permutations(Drawn)

(* The type invariants of the parts. *)
PartsTyped == TypeOK /\ I!TypeOK /\ D!TypeOK /\ M!TypeOK

(* The properties of Mailroom: ingest_inbound, delivered more than once. *)
IngestedOnce == I!IngestedOnce
TwoBouncesToStop == I!TwoBouncesToStop

(* DESIGN 1163 and 1656: the third hard bounce switches the alerts off. *)
ThreeBouncesToStop == I!ThreeBouncesToStop

(* The property of DeskThreads: _open_desk_thread, asked for twice at once. *)
QuestionsReachDesk == D!QuestionsReachDesk

(* The property of Markets: ensure_market against deactivate_market. *)
MarketOfDealActive == M!MarketOfDealActive
=============================================================================
