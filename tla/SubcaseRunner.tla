---------------------------- MODULE SubcaseRunner ----------------------------
(***************************************************************************)
(* What a test case built of subcases promises, whatever its subcases do  *)
(* (spec.md 4.3): after the session opens, the subcases run one at a time *)
(* in catalog order; each is begun, then ends passed or failed and the    *)
(* next one starts, never short-circuiting; the secure-side resources a    *)
(* subcase still holds when it ends stay allocated only if it failed; when *)
(* the catalog is exhausted the session closes and releases them all.     *)
(***************************************************************************)
EXTENDS Naturals

CONSTANTS
    N,          \* number of subcases
    Resources   \* the kinds of resource one subcase allocates

VARIABLES
    stage,      \* "open", "idle", "running", "closing", "done", "aborted"
    cur,        \* the subcase running or next to run
    outcome,    \* each subcase's "pending", "running", "pass" or "fail"
    leaked      \* resources of ended subcases still allocated: <<i, kind>>

vars == <<stage, cur, outcome, leaked>>

Init ==
    /\ stage = "open"
    /\ cur = 1
    /\ outcome = [i \in 1..N |-> "pending"]
    /\ leaked = {}

\* The session opens, or the test case gives up.
Open ==
    /\ stage = "open"
    /\ stage' \in {"idle", "aborted"}
    /\ UNCHANGED <<cur, outcome, leaked>>

\* The next subcase begins.
Begin ==
    /\ stage = "idle"
    /\ cur <= N
    /\ stage' = "running"
    /\ outcome' = [outcome EXCEPT ![cur] = "running"]
    /\ UNCHANGED <<cur, leaked>>

\* The running subcase ends with verdict r, leaving L of its resources.
Finish ==
    /\ stage = "running"
    /\ \E r \in {"pass", "fail"}, L \in SUBSET ({cur} \X Resources) :
         /\ r = "pass" => L = {}
         /\ outcome' = [outcome EXCEPT ![cur] = r]
         /\ leaked' = leaked \cup L
    /\ cur' = cur + 1
    /\ stage' = "idle"

\* Every subcase has run.
Exhausted ==
    /\ stage = "idle"
    /\ cur > N
    /\ stage' = "closing"
    /\ UNCHANGED <<cur, outcome, leaked>>

\* Closing the session releases everything.
Close ==
    /\ stage = "closing"
    /\ stage' = "done"
    /\ leaked' = {}
    /\ UNCHANGED <<cur, outcome>>

Next == Open \/ Begin \/ Finish \/ Exhausted \/ Close

Spec == Init /\ [][Next]_vars /\ WF_vars(Next)
=============================================================================
