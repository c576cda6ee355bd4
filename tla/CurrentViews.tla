----------------------------- MODULE CurrentViews -----------------------------
(***************************************************************************)
(* What incremental tables promise: a table is a view of the dynamic code, *)
(* and a query gets the answers that follow from the code as it is when    *)
(* the query returns, however the tables were kept.  A query may also end  *)
(* with an error, and then gives no answers.                               *)
(***************************************************************************)
EXTENDS DynamicProgram

VARIABLES
    db,          \* the facts of each leaf
    query,       \* the subgoal that is queried, or NoTable
    reply        \* the last query that returned, and its answers

vars == <<db, query, reply>>

Init ==
    /\ db \in [Leaves -> SUBSET Vals]
    /\ query = NoTable
    /\ reply = [call |-> NoTable, answers |-> {}]

Update ==
    /\ \E f \in Leaves, v \in SUBSET Vals : db' = [db EXCEPT ![f] = v]
    /\ UNCHANGED <<query, reply>>

Ask ==
    /\ query = NoTable
    /\ query' \in Tabled
    /\ UNCHANGED <<db, reply>>

Answer ==
    /\ query # NoTable
    /\ reply' = [call |-> query, answers |-> LeastModel(db)[query]]
    /\ query' = NoTable
    /\ UNCHANGED db

Fail ==
    /\ query # NoTable
    /\ query' = NoTable
    /\ UNCHANGED <<db, reply>>

Next == Update \/ Ask \/ Answer \/ Fail

Spec == Init /\ [][Next]_vars
===============================================================================
