----------------------------- MODULE ThreadTree ------------------------------
(***************************************************************************)
(* What thread.c promises about the lives of threads, and nothing of how:  *)
(* a thread is created by a living parent, lives until it exits, stays a   *)
(* zombie until its parent reaps it, and leaves its children to that       *)
(* parent.  Main and idle never exit.                                      *)
(***************************************************************************)
EXTENDS Integers

CONSTANT NTHR

Tids == 0 .. NTHR - 1
MAIN_TID == 0
IDLE_TID == NTHR - 1
NoTid == -1

VARIABLES
    life,   \* "free", "alive" or "zombie"
    parent
treeVars == <<life, parent>>

Init ==
    /\ life = [t \in Tids |-> IF t \in {MAIN_TID, IDLE_TID} THEN "alive" ELSE "free"]
    /\ parent = [t \in Tids |-> IF t = IDLE_TID THEN MAIN_TID ELSE NoTid]

Create(p, t) ==
    /\ life[p] = "alive"
    /\ life[t] = "free"
    /\ life' = [life EXCEPT ![t] = "alive"]
    /\ parent' = [parent EXCEPT ![t] = p]

Die(t) ==
    /\ t \notin {MAIN_TID, IDLE_TID}
    /\ life[t] = "alive"
    /\ life' = [life EXCEPT ![t] = "zombie"]
    /\ UNCHANGED parent

Reap(t) ==
    /\ life[t] = "zombie"
    /\ life[parent[t]] = "alive"
    /\ life' = [life EXCEPT ![t] = "free"]
    /\ parent' = [u \in Tids |-> IF u = t THEN NoTid
                               ELSE IF parent[u] = t THEN parent[t] ELSE parent[u]]

Next == \/ \E p, t \in Tids : Create(p, t)
        \/ \E t \in Tids : Die(t) \/ Reap(t)

Spec == Init /\ [][Next]_treeVars

==============================================================================
