---------------------------- MODULE DeskThreads -----------------------------
(***************************************************************************)
(* The thread in which a buyer asks the desk, and the notices an admin     *)
(* gets of it (_open_desk_thread, read_note and read_all_notes in          *)
(* api/v1/desk.py).                                                        *)
(*                                                                         *)
(* One buyer and one admin, who has one notice per thread.  A request runs *)
(* in one of Workers, one action per SELECT whose result it keeps and one  *)
(* for the commit.  What is said in the thread is left out: post_message   *)
(* appends a row and reads none that changes.                              *)
(***************************************************************************)
EXTENDS Integers, FiniteSets

CONSTANTS
    Workers, \* requests in flight at the same time
    Threads, \* identifiers desk threads of the buyer can get
    NULL

VARIABLES
    threads, \* the buyer's rows in threads with channel "desk"
    notice,  \* notifications "ask.new" of each thread
    request  \* what each worker has read so far

vars == <<threads, notice, request>>

Request == [step : {"idle", "open", "commit", "read"}, thread : Threads \cup {NULL}, rows : SUBSET Threads]
Idle == [step |-> "idle", thread |-> NULL, rows |-> {}]

TypeOK ==
    /\ threads \subseteq Threads
    /\ notice \in [Threads -> {"none", "unread", "read"}]
    /\ request \in [Workers -> Request]
    /\ \A w \in Workers : request[w].step = "commit" => request[w].thread \in Threads

Init ==
    /\ threads = {}
    /\ notice = [t \in Threads |-> "none"]
    /\ request = [w \in Workers |-> Idle]

-----------------------------------------------------------------------------
Become(w, r) == request' = [request EXCEPT ![w] = r]

\* Mutant: the buyer's thread is not looked for.
NobodyAsked == TRUE

\* Thread.created_by == user.id, channel "desk"
NoThread == threads = {}

\* create_thread, desk_thread: the oldest thread of the buyer is returned, if any ...
OpenRead(w) ==
    /\ request[w].step = "idle" /\ NoThread
    /\ Become(w, [Idle EXCEPT !.step = "open"])
    /\ UNCHANGED <<threads, notice>>

\* ... else one is inserted under a new id ...
InsertThread(w) ==
    /\ request[w].step = "open"
    /\ \E t \in Threads \ threads :
        /\ \A v \in Workers : request[v].thread # t
        /\ Become(w, [request[w] EXCEPT !.step = "commit", !.thread = t])
    /\ UNCHANGED <<threads, notice>>

\* ... and committed with a notice to every admin.
CommitThread(w) ==
    LET t == request[w].thread IN
    /\ request[w].step = "commit"
    /\ threads' = threads \cup {t}
    /\ notice' = [notice EXCEPT ![t] = "unread"]
    /\ Become(w, Idle)

\* read_all_notes selects the unread notices, read_note one of them ...
NoticesRead(w) ==
    LET unread == {t \in Threads : notice[t] = "unread"} IN
    /\ request[w].step = "idle"
    /\ \E rows \in {unread} \cup {{t} : t \in unread} : Become(w, [Idle EXCEPT !.step = "read", !.rows = rows])
    /\ UNCHANGED <<threads, notice>>

\* ... and the commit sets read_at of those, whatever has come in since.
CommitNotices(w) ==
    /\ request[w].step = "read"
    /\ notice' = [t \in Threads |-> IF t \in request[w].rows THEN "read" ELSE notice[t]]
    /\ Become(w, Idle)
    /\ UNCHANGED threads

\* The process dies or the commit fails.
Abort(w) ==
    /\ request[w].step # "idle"
    /\ Become(w, Idle)
    /\ UNCHANGED <<threads, notice>>

Next == \E w \in Workers :
    \/ OpenRead(w) \/ InsertThread(w) \/ CommitThread(w)
    \/ NoticesRead(w) \/ CommitNotices(w)
    \/ Abort(w)

Spec == Init /\ [][Next]_vars

-----------------------------------------------------------------------------
(* A buyer's first questions may race into more than one thread, but never    *)
(* into more than there were requests in flight, and the admins are told of   *)
(* each of them, whatever they mark as read meanwhile (_open_desk_thread      *)
(* commits thread and notices together).                                      *)
QuestionsReachDesk ==
    /\ Cardinality(threads) <= Cardinality(Workers)
    /\ \A t \in Threads : t \in threads <=> notice[t] # "none"
=============================================================================
