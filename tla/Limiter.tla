------------------------------- MODULE Limiter -------------------------------
(***************************************************************************)
(* MemoryLimiter of core/kv.py for one key, in the memory of one server    *)
(* process: the times of the hits it let through, purged as it is asked.   *)
(* Time is counted in steps of a clock that never goes back; a hit the     *)
(* list still has is known by its place among all that were let through.   *)
(***************************************************************************)
EXTENDS Integers, Sequences, FiniteSets

CONSTANTS
    Limit,  \* hits allowed ...
    Window, \* ... within this many steps
    MaxNow  \* bound on the clock

VARIABLES
    now,    \* time.monotonic()
    hits,   \* _hits[key]: which of those in allowed it still has
    allowed \* the times of all hits let through since the process started (history)

vars == <<now, hits, allowed>>

Times == 0 .. MaxNow

TypeOK ==
    /\ now \in Times
    /\ allowed \in Seq(Times) /\ hits \subseteq DOMAIN allowed
    /\ Cardinality(hits) <= Limit

Init == now = 0 /\ hits = {} /\ allowed = <<>>

\* Mutant: a hit is forgotten one step early.
ForgottenEarly(arr) == {i \in arr : now - allowed[i] < Window - 1}

\* The hits that still count.
Recent(arr) == {i \in arr : now - allowed[i] < Window}

\* allow, which keeps what still counts even when it refuses.
Allow ==
    LET arr == Recent(hits) IN
    IF Cardinality(arr) >= Limit
      THEN hits' = arr /\ UNCHANGED <<now, allowed>>
      ELSE hits' = arr \cup {Len(allowed) + 1} /\ allowed' = Append(allowed, now) /\ UNCHANGED now

Tick == now < MaxNow /\ now' = now + 1 /\ UNCHANGED <<hits, allowed>>

\* The process starts again: its memory is empty.
Restart == hits' = {} /\ allowed' = <<>> /\ UNCHANGED now

Next == Allow \/ Tick \/ Restart

Spec == Init /\ [][Next]_vars

-----------------------------------------------------------------------------
(* Wherever a window is laid, a process lets at most Limit hits through in it, *)
(* although it purges its list only when it is asked (allow).                  *)
WindowBound == \A start \in Times :
    Cardinality({i \in DOMAIN allowed : allowed[i] \in start .. start + Window - 1}) <= Limit
=============================================================================
