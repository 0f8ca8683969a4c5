------------------------------ MODULE TaskPool ------------------------------
(***************************************************************************)
(* What a pool of workers promises of the tasks it is given: a task that   *)
(* was accepted is worked on once, or dropped before that if it allows it, *)
(* and the pool stops only when nothing is left to do.                     *)
(***************************************************************************)
EXTENDS Naturals

CONSTANTS
    Tasks,      \* the tasks that may be given to the pool
    Droppable   \* those of them that may be dropped

VARIABLES
    todo,     \* accepted and not begun
    active,   \* begun and not over
    over,     \* worked on or dropped
    open,     \* whether tasks are accepted
    stopped   \* whether the pool has stopped

vars == <<todo, active, over, open, stopped>>

Init ==
    /\ todo = {} /\ active = {} /\ over = {}
    /\ open = TRUE /\ stopped = FALSE

Accept(t) ==
    /\ open
    /\ t \in Tasks \ (todo \cup active \cup over)
    /\ todo' = todo \cup {t}
    /\ UNCHANGED <<active, over, open, stopped>>

Begin(t) ==
    /\ t \in todo
    /\ todo' = todo \ {t}
    /\ active' = active \cup {t}
    /\ UNCHANGED <<over, open, stopped>>

End(t) ==
    /\ t \in active
    /\ active' = active \ {t}
    /\ over' = over \cup {t}
    /\ UNCHANGED <<todo, open, stopped>>

Drop(dropped) ==
    /\ dropped # {}
    /\ dropped \subseteq todo \cap Droppable
    /\ todo' = todo \ dropped
    /\ over' = over \cup dropped
    /\ UNCHANGED <<active, open, stopped>>

Close ==
    /\ open
    /\ open' = FALSE
    /\ UNCHANGED <<todo, active, over, stopped>>

Stop ==
    /\ ~open /\ ~stopped
    /\ todo = {} /\ active = {}
    /\ stopped' = TRUE
    /\ UNCHANGED <<todo, active, over, open>>

Next ==
    \/ \E t \in Tasks : Accept(t) \/ Begin(t) \/ End(t)
    \/ \E dropped \in SUBSET Droppable : Drop(dropped)
    \/ Close
    \/ Stop

Spec == Init /\ [][Next]_vars
=============================================================================
