--------------------------- MODULE IncrementalTables ---------------------------
(***************************************************************************)
(* Incremental tabling: the dependency graph of tables and dynamic code    *)
(* (emu/call_graph_xsb.c), the invalidation of tables by an update, and    *)
(* the recomputation of an invalid table when it is called                 *)
(* (emu/tables.c, emu/slginsts_xsb_i.h, emu/tries.c, syslib/increval.P).   *)
(*                                                                         *)
(* A callnode stands for one evaluation of a subgoal.  While a subgoal is  *)
(* recomputed it has two: that of the new subgoal frame, and the previous  *)
(* one it is compared with.  The two share the outedges structure, so that *)
(* edges lead from a goal to a callnode: <<g, n>> says that n depends on   *)
(* g, n is in the outedges of g, and outedges of g is in the inedges of n. *)
(*                                                                         *)
(* The engine is that of local evaluation, one thread: the youngest frame  *)
(* of the youngest SCC that can do something does it, and the SCC is       *)
(* completed when none of its frames can.                                  *)
(*                                                                         *)
(* Left out: answers that are conditional, early completion, choice points *)
(* that still read the answers of a table that is recomputed or abolished, *)
(* opaque tables, and tables called by subsumption.  The callnode of a     *)
(* leaf has no state that the code ever reads.                             *)
(*                                                                         *)
(* Operators whose names end in a remark (_kept, _once, _none, ...) are    *)
(* mistakes the code does not make; the properties are tested on them.     *)
(***************************************************************************)
EXTENDS DynamicProgram

CONSTANTS
    Copies,          \* which callnodes a subgoal can have at a time
    NoCopy,
    CountRange,      \* a falsecount is counted modulo this; 2^14 in the code
    MaxUpdates,      \* bound on updates, abolishes and errors
    NestedUpdates    \* TRUE if clauses may assert and retract facts

ASSUME IncrementalOK ==
    /\ NoCopy \notin Copies
    /\ CountRange \in Nat \ {0}
    /\ MaxUpdates \in Nat
    /\ NestedUpdates \in BOOLEAN

Node == Tabled \X Copies

VARIABLES
    db,          \* the facts of each leaf
    query,       \* the subgoal that is queried, or NoTable
    reply,       \* the last query that returned, and its answers
    cn,          \* the callnodes; NoNode: not allocated
    edges,       \* the dependency graph
    node,        \* which callnode the subgoal frame has; NoCopy: no frame
    answers,     \* the answers of each subgoal frame
    marked,      \* the answers that were marked as deleted, of the previous evaluation
    stack,       \* completion stack, below it a frame for the query
    job,         \* what the walk through the graph is for
    walk,        \* its stack
    updates,     \* counts what MaxUpdates bounds
    fault        \* TRUE once the code has used a structure it freed

engine == <<node, answers, marked, stack>>
graph == <<cn, edges>>
history == <<updates, fault>>
vars == <<db, query, reply, cn, edges, node, answers, marked, stack, job, walk,
             updates, fault>>

NoNode == [used |-> FALSE]

(* makecallnode *)
New_callnode_deleted(p) ==
    [used |-> TRUE, falsecount |-> 0, deleted |-> TRUE, changed |-> FALSE,
     directly |-> FALSE, no_of_answers |-> 0, prev_call |-> p]

New_callnode(p) ==
    [used |-> TRUE, falsecount |-> 0, deleted |-> FALSE, changed |-> FALSE,
     directly |-> FALSE, no_of_answers |-> 0, prev_call |-> p]

NoJob == [kind |-> "none"]

CallNode == {NoNode} \cup
    [used : {TRUE}, falsecount : 0 .. CountRange - 1, deleted : BOOLEAN, changed : BOOLEAN,
     directly : BOOLEAN, no_of_answers : 0 .. Cardinality(Vals), prev_call : Copies \cup {NoCopy}]

Jobs == {NoJob} \cup [kind : {"update"}, leaf : Leaves, facts : SUBSET Vals]
                \cup [kind : {"abolish"}, table : Tabled]
                \cup [kind : {"list"}, frame : Nat, list : Seq(Tabled)]

(* The variables stay within their types. *)
TypeOK ==
    /\ db \in [Leaves -> SUBSET Vals]
    /\ query \in Tabled \cup {NoTable}
    /\ reply \in [call : Tabled \cup {NoTable}, answers : SUBSET Vals]
    /\ cn \in [Node -> CallNode]
    /\ edges \subseteq Goals \X Node
    /\ node \in [Tabled -> Copies \cup {NoCopy}]
    /\ answers \in [Tabled -> SUBSET Vals]
    /\ marked \in [Tabled -> SUBSET Vals]
    /\ \A i \in DOMAIN stack :
          /\ stack[i].table \in Tabled \cup {NoTable}
          /\ stack[i].level \in 1 .. i
          /\ stack[i].called \subseteq Goals
          /\ \A j \in DOMAIN stack[i].todo : stack[i].todo[j].table \in Tabled
    /\ job \in Jobs
    /\ \A i \in DOMAIN walk : walk[i].goal \in Goals
    /\ updates \in 0 .. MaxUpdates
    /\ fault \in BOOLEAN
--------------------------------------------------------------------------------
NodeOf(t) == <<t, node[t]>>

Incomplete == {stack[i].table : i \in DOMAIN stack} \ {NoTable}

Completed == {t \in Tabled : node[t] # NoCopy /\ t \notin Incomplete}

Valid(t) == cn[NodeOf(t)].falsecount = 0

(* A previous callnode whose new evaluation ended with an error.  It stays *)
(* in the graph; its outedges went with the new callnode.                  *)
Forgotten(n) ==
    /\ cn[n].used
    /\ node[n[1]] # n[2]
    /\ node[n[1]] # NoCopy => cn[NodeOf(n[1])].prev_call # n[2]

Idle == job.kind = "none"

Init ==
    /\ db \in [Leaves -> SUBSET Vals]
    /\ query = NoTable
    /\ reply = [call |-> NoTable, answers |-> {}]
    /\ cn = [n \in Node |-> NoNode]
    /\ edges = {}
    /\ node = [t \in Tabled |-> NoCopy]
    /\ answers = [t \in Tabled |-> {}]
    /\ marked = [t \in Tabled |-> {}]
    /\ stack = <<>>
    /\ job = NoJob
    /\ walk = <<>>
    /\ updates = 0
    /\ fault = FALSE
--------------------------------------------------------------------------------
(* Updates: incr_assert, incr_retract, abolish_table_call.                 *)

Counted == updates < MaxUpdates /\ updates' = updates + 1

May_update == Idle /\ (NestedUpdates \/ stack = <<>>)

(* incr_assert, incr_retract and incr_retractall invalidate all that       *)
(* depends on the leaf, and then change it.                                *)
Incr_update(f, v) ==
    /\ May_update /\ Counted
    /\ job' = [kind |-> "update", leaf |-> f, facts |-> v]
    /\ walk' = <<[goal |-> f, rest |-> {n \in Node : <<f, n>> \in edges}]>>
    /\ UNCHANGED <<db, query, reply, engine, graph, fault>>

(* invalidate_call for a table that is abolished: it has been walked from  *)
(* already if it is deleted.                                               *)
Abolish(t) ==
    /\ Idle /\ stack = <<>> /\ Counted
    /\ t \in Completed
    /\ job' = [kind |-> "abolish", table |-> t]
    /\ IF cn[NodeOf(t)].deleted
       THEN UNCHANGED <<cn, walk>>
       ELSE /\ cn' = [cn EXCEPT ![NodeOf(t)].falsecount = (@ + 1) % CountRange,
                                ![NodeOf(t)].deleted = TRUE]
            /\ walk' = <<[goal |-> t, rest |-> {n \in Node : <<t, n>> \in edges}]>>
    /\ UNCHANGED <<db, query, reply, engine, edges, fault>>

(* dfs_outedges: the next node among those that depend on the top of the   *)
(* walk.  Every visit is counted, the walk goes on from a node only the    *)
(* first time.                                                             *)
Falsified(n) == [cn EXCEPT ![n].falsecount = (@ + 1) % CountRange, ![n].deleted = TRUE]

Visited(n) == cn[n].deleted

Dfs_outedges ==
    /\ job.kind \in {"update", "abolish"} /\ walk # <<>>
    /\ \E n \in Last(walk).rest :
          LET below == Append(Front(walk), [Last(walk) EXCEPT !.rest = @ \ {n}])
          IN IF Visited(n)
             THEN /\ cn' = Falsified(n)
                  /\ walk' = below
                  /\ UNCHANGED job
             ELSE IF n[1] \in Incomplete /\ node[n[1]] = n[2]
             THEN /\ cn' = [cn EXCEPT ![n].falsecount = (@ + 1) % CountRange]
                  /\ walk' = <<>> /\ job' = NoJob
             ELSE /\ cn' = Falsified(n)
                  /\ walk' = Append(below, [goal |-> n[1],
                                            rest |-> {x \in Node : <<n[1], x>> \in edges}])
                  /\ UNCHANGED job
    /\ UNCHANGED <<db, query, reply, engine, edges, updates, fault>>

Dfs_pop ==
    /\ job.kind \in {"update", "abolish"} /\ walk # <<>>
    /\ Last(walk).rest = {}
    /\ walk' = Front(walk)
    /\ UNCHANGED <<db, query, reply, engine, graph, job, history>>

Change_fact ==
    /\ job.kind = "update" /\ walk = <<>>
    /\ db' = [db EXCEPT ![job.leaf] = job.facts]
    /\ job' = NoJob
    /\ UNCHANGED <<query, reply, engine, graph, walk, history>>

(* deleteoutedges, delete_dependency_edges, deletecallnode, and the        *)
(* subgoal frame with its answers, for the subgoals in ts.                 *)
Detach(ts) ==
    /\ edges' = {e \in edges : e[1] \notin ts /\ \A t \in ts : e[2] # NodeOf(t)}
    /\ cn' = [n \in Node |-> IF n[1] \in ts /\ n = NodeOf(n[1]) THEN NoNode ELSE cn[n]]
    /\ node' = [t \in Tabled |-> IF t \in ts THEN NoCopy ELSE node[t]]
    /\ answers' = [t \in Tabled |-> IF t \in ts THEN {} ELSE answers[t]]
    /\ marked' = [t \in Tabled |-> IF t \in ts THEN {} ELSE marked[t]]

Abolished ==
    /\ job.kind = "abolish" /\ walk = <<>>
    /\ Detach({job.table})
    /\ job' = NoJob
    /\ UNCHANGED <<db, query, reply, stack, walk, history>>
--------------------------------------------------------------------------------
(* Evaluation.                                                             *)

Bodies(i) == IF stack[i].table = NoTable THEN {<<query>>} ELSE Clauses[stack[i].table]

(* The answers that frame i can use: of the goals it has called.           *)
Seen(i) == [g \in Goals |-> IF g \notin stack[i].called THEN {}
                            ELSE IF g \in Leaves THEN db[g] ELSE answers[g]]

To_call(i) ==
    UNION {{b[k] : k \in {j \in DOMAIN b : \A m \in 1 .. j - 1 : Seen(i)[b[m]] # {}}} :
             b \in Bodies(i)} \ stack[i].called

New_answers(i) ==
    IF stack[i].table = NoTable THEN {}
    ELSE Consequences(stack[i].table, Seen(i)) \ answers[stack[i].table]

Has_work(i) == stack[i].todo # <<>> \/ To_call(i) # {} \/ New_answers(i) # {}

Leader == CHOOSE i \in DOMAIN stack :
             /\ stack[i].level = i
             /\ \A j \in DOMAIN stack : j > i => stack[j].level # j

Runs(i) ==
    /\ Idle /\ i \in DOMAIN stack /\ i >= Leader
    /\ Has_work(i)
    /\ \A j \in DOMAIN stack : j > i => ~Has_work(j)

Exhausted == Idle /\ stack # <<>> /\ \A i \in Leader .. Len(stack) : ~Has_work(i)

Query(t) ==
    /\ Idle /\ stack = <<>> /\ query = NoTable
    /\ query' = t
    /\ stack' = <<[table |-> NoTable, level |-> 1, called |-> {}, todo |-> <<>>]>>
    /\ UNCHANGED <<db, reply, node, answers, marked, graph, job, walk, history>>

(* addcalledge, for a call of g by the clauses of frame i *)
With_edge_none(i, g) == edges

With_edge(i, g) ==
    IF stack[i].table = NoTable THEN edges ELSE edges \cup {<<g, NodeOf(stack[i].table)>>}

(* adjust_level, when frame i has called the subgoal of frame k *)
Joined(st, k) == [j \in DOMAIN st |-> IF j > k /\ st[j].level > st[k].level
                                      THEN [st[j] EXCEPT !.level = st[k].level] ELSE st[j]]

FrameOf(t) == CHOOSE k \in DOMAIN stack : stack[k].table = t

(* An error in dfs_dependency_edges or in a clause ends the query; what is *)
(* incomplete is removed (remove_incomplete_tries).                        *)
End_with_error ==
    /\ Detach(Incomplete)
    /\ stack' = <<>> /\ query' = NoTable
    /\ job' = NoJob /\ walk' = <<>>

(* tabletrysinglenoanswers: the call of a leaf *)
Call_leaf(i) ==
    /\ Runs(i) /\ stack[i].todo = <<>>
    /\ \E f \in To_call(i) \cap Leaves :
          /\ edges' = With_edge(i, f)
          /\ stack' = [stack EXCEPT ![i].called = @ \cup {f}]
    /\ UNCHANGED <<db, query, reply, cn, node, answers, marked, job, walk, history>>

(* tabletry, for a call of t by frame i that leaves the stack as st        *)
Use_table(i, t, st) ==
    /\ t \in Completed /\ Valid(t)
    /\ edges' = With_edge(i, t)
    /\ stack' = st
    /\ UNCHANGED <<query, cn, node, answers, marked, job, walk>>

Use_incomplete(i, t, st) ==
    /\ t \in Incomplete
    /\ IF Valid(t)
       THEN /\ edges' = With_edge(i, t)
            /\ stack' = Joined(st, FrameOf(t))
            /\ UNCHANGED <<query, cn, node, answers, marked, job, walk>>
       ELSE End_with_error

(* Any callnode that is not used will do: this picks one.                  *)
Free_copy(t) ==
    LET free == {c \in Copies : ~cn[<<t, c>>].used}
    IN  {c \in free : c = CHOOSE d \in free : TRUE}

Without_frame(i, t, st) ==
    /\ node[t] = NoCopy
    /\ \E c \in Free_copy(t) :
          /\ cn' = [cn EXCEPT ![<<t, c>>] = New_callnode(NoCopy)]
          /\ node' = [node EXCEPT ![t] = c]
    /\ edges' = With_edge(i, t)
    /\ stack' = Append(st, [table |-> t, level |-> Len(stack) + 1, called |-> {}, todo |-> <<>>])
    /\ UNCHANGED <<query, answers, marked, job, walk>>

(* handle_incremental_recomputation: the answers are marked as deleted,    *)
(* and the new producer shares the outedges of the previous callnode.      *)
Recompute(i, t, st) ==
    /\ t \in Completed /\ ~Valid(t) /\ cn[NodeOf(t)].directly
    /\ \E c \in Free_copy(t) :
          /\ cn' = [cn EXCEPT ![<<t, c>>] = New_callnode(node[t]),
                              ![NodeOf(t)].falsecount = 0,
                              ![NodeOf(t)].deleted = TRUE]
          /\ node' = [node EXCEPT ![t] = c]
    /\ marked' = [marked EXCEPT ![t] = answers[t]]
    /\ answers' = [answers EXCEPT ![t] = {}]
    /\ edges' = With_edge(i, t)
    /\ stack' = Append(st, [table |-> t, level |-> Len(stack) + 1, called |-> {}, todo |-> <<>>])
    /\ UNCHANGED <<query, job, walk>>

Inedges(t) == {u \in Tabled : <<u, NodeOf(t)>> \in edges}

(* The next call of t is not interrupted.                                  *)
To_be_computed_directly_not(t) == cn

To_be_computed_directly(t) == [cn EXCEPT ![NodeOf(t)].directly = TRUE]

(* The call is interrupted, to recompute what t depends on first.          *)
Interrupt(i, t, st) ==
    /\ t \in Completed /\ ~Valid(t) /\ ~cn[NodeOf(t)].directly
    /\ cn' = To_be_computed_directly(t)
    /\ job' = [kind |-> "list", frame |-> i, list |-> <<>>]
    /\ walk' = <<[goal |-> t, rest |-> Inedges(t)]>>
    /\ stack' = st
    /\ UNCHANGED <<query, edges, node, answers, marked>>

(* A call whose frame i becomes `called' when it goes through, and         *)
(* `waiting' when it is interrupted.                                       *)
Call(i, t, called, waiting) ==
    /\ \/ Use_table(i, t, called)
       \/ Use_incomplete(i, t, called)
       \/ Without_frame(i, t, called)
       \/ Recompute(i, t, called)
       \/ Interrupt(i, t, waiting)
    /\ UNCHANGED <<db, reply, history>>

Call_table(i) ==
    /\ Runs(i) /\ stack[i].todo = <<>>
    /\ \E t \in To_call(i) \cap Tabled :
          Call(i, t, [stack EXCEPT ![i].called = @ \cup {t}], stack)

(* lazy_reeval_trap calls the subgoals of the list that are still invalid, *)
(* and repeats the call that was interrupted, the last of the list.        *)
Done(i) == [stack EXCEPT ![i].todo = Tail(@)]

Skips(t) == node[t] = NoCopy \/ Valid(t)

Call_if_affected(i) ==
    /\ Runs(i) /\ stack[i].todo # <<>> /\ ~Head(stack[i].todo).last
    /\ LET t == Head(stack[i].todo).table
       IN  IF Skips(t)
           THEN /\ stack' = Done(i)
                /\ UNCHANGED <<db, query, reply, graph, node, answers, marked, job, walk, history>>
           ELSE Call(i, t, Done(i), Done(i))

Call_again(i) ==
    /\ Runs(i) /\ stack[i].todo # <<>> /\ Head(stack[i].todo).last
    /\ LET t == Head(stack[i].todo).table
       IN  Call(i, t, [Done(i) EXCEPT ![i].called = @ \cup {t}], Done(i))

(* dfs_dependency_edges: the next subgoal that the top of the walk depends *)
(* on.  Those that were met before are to be computed directly already.    *)
Dfs_dependency_edges ==
    /\ job.kind = "list" /\ walk # <<>>
    /\ \E u \in Last(walk).rest :
          LET below == Append(Front(walk), [Last(walk) EXCEPT !.rest = @ \ {u}])
          IN IF Valid(u)
             THEN /\ walk' = below
                  /\ UNCHANGED <<query, engine, graph, job>>
             ELSE IF u \in Incomplete
             THEN End_with_error
             ELSE IF cn[NodeOf(u)].directly
             THEN /\ walk' = below
                  /\ UNCHANGED <<query, engine, graph, job>>
             ELSE /\ cn' = To_be_computed_directly(u)
                  /\ walk' = Append(below, [goal |-> u, rest |-> Inedges(u)])
                  /\ UNCHANGED <<query, engine, edges, job>>
    /\ UNCHANGED <<db, reply, history>>

(* The subgoals are listed as the walk leaves them.                        *)
Listed_reversed(l, t) == <<t>> \o l

Listed(l, t) == Append(l, t)

Add_callnode ==
    /\ job.kind = "list" /\ walk # <<>>
    /\ Last(walk).rest = {}
    /\ job' = [job EXCEPT !.list = Listed(@, Last(walk).goal)]
    /\ walk' = Front(walk)
    /\ UNCHANGED <<db, query, reply, engine, graph, history>>

Return_lazy_call_list ==
    /\ job.kind = "list" /\ walk = <<>>
    /\ LET items == [k \in DOMAIN job.list |-> [table |-> job.list[k], last |-> k = Len(job.list)]]
       IN  stack' = [stack EXCEPT ![job.frame].todo = items \o @]
    /\ job' = NoJob
    /\ UNCHANGED <<db, query, reply, node, answers, marked, graph, walk, history>>

(* table_answer_search and new_answer_dealloc: an answer that the previous *)
(* evaluation had too is taken off its count; another one changes it.      *)
Changes(t, v) == v \notin marked[t]

New_answer(i) ==
    /\ Runs(i) /\ stack[i].todo = <<>>
    /\ \E v \in New_answers(i) :
          LET t == stack[i].table
              p == cn[NodeOf(t)].prev_call
          IN /\ answers' = [answers EXCEPT ![t] = @ \cup {v}]
             /\ marked' = [marked EXCEPT ![t] = @ \ {v}]
             /\ cn' = [n \in Node |->
                   IF n = NodeOf(t) THEN [cn[n] EXCEPT !.no_of_answers = @ + 1]
                   ELSE IF n # <<t, p>> THEN cn[n]
                   ELSE IF Changes(t, v) THEN [cn[n] EXCEPT !.changed = TRUE]
                   ELSE IF v \in marked[t] THEN [cn[n] EXCEPT !.no_of_answers = @ - 1]
                   ELSE cn[n]]
    /\ UNCHANGED <<db, query, reply, edges, node, stack, job, walk, history>>

(* propagate_no_change from the callnode of t: every callnode whose        *)
(* falsecount falls to 0 passes it on.                                     *)
Reaching(g, s, n) == Cardinality({x \in s : <<x[1], n>> \in g.edges})

Unaffected(g, p) ==
    LET zero[k \in Nat] ==
          IF k = 0 THEN {}
          ELSE {n \in Node : /\ g.cn[n].used
                             /\ g.cn[n].falsecount > 0
                             /\ g.cn[n].falsecount <= Reaching(g, zero[k - 1] \cup {p}, n)}
    IN  zero[Cardinality(Node)]

Propagate_no_change_below_0(g, p) ==
    LET zero == Unaffected(g, p)
    IN  [g EXCEPT
          !.cn = [n \in Node |->
              IF n \in zero THEN [g.cn[n] EXCEPT !.falsecount = 0, !.deleted = FALSE,
                                                 !.directly = FALSE]
              ELSE IF ~g.cn[n].used THEN g.cn[n]
              ELSE [g.cn[n] EXCEPT !.falsecount = @ - Reaching(g, zero \cup {p}, n)]],
          !.fault = g.fault \/ \E n \in zero : Forgotten(n)]

Propagate_no_change(g, p) ==
    LET zero == Unaffected(g, p)
    IN  [g EXCEPT
          !.cn = [n \in Node |->
              IF n \in zero THEN [g.cn[n] EXCEPT !.falsecount = 0, !.deleted = FALSE,
                                                 !.directly = FALSE]
              ELSE IF ~g.cn[n].used \/ g.cn[n].falsecount = 0 THEN g.cn[n]
              ELSE [g.cn[n] EXCEPT !.falsecount = @ - Reaching(g, zero \cup {p}, n)]],
          !.fault = g.fault \/ \E n \in zero : Forgotten(n)]

Unchanged_if_none_new(g, p) == ~g.cn[p].changed

Unchanged(g, p) == ~g.cn[p].changed /\ g.cn[p].no_of_answers = 0

(* reclaim_incomplete_table_structs, for the subgoal t of a completed SCC  *)
Reclaim(g, t) ==
    LET n == NodeOf(t)
        p == <<t, g.cn[n].prev_call>>
        after == [g EXCEPT !.cn[n].directly = FALSE]
    IN  IF p[2] = NoCopy THEN after
        ELSE LET k == IF Unchanged(after, p) THEN Propagate_no_change(after, p) ELSE after
             IN  [k EXCEPT !.cn[n].prev_call = NoCopy, !.cn[p] = NoNode,
                           !.edges = {e \in k.edges : e[2] # p}]

(* CompleteSimplifyAndReclaim: the leader comes last. *)
Complete ==
    /\ Exhausted /\ Leader > 1
    /\ LET scc == [k \in 1 .. Len(stack) - Leader |-> stack[Leader + k].table]
                     \o <<stack[Leader].table>>
           after == FoldLeft(Reclaim, [cn |-> cn, edges |-> edges, fault |-> fault], scc)
       IN  /\ cn' = after.cn /\ edges' = after.edges /\ fault' = after.fault
           /\ marked' = [t \in Tabled |-> IF t \in ToSet(scc) THEN {} ELSE marked[t]]
    /\ stack' = SubSeq(stack, 1, Leader - 1)
    /\ UNCHANGED <<db, query, reply, node, answers, job, walk, updates>>

Return ==
    /\ Exhausted /\ Leader = 1
    /\ reply' = [call |-> query, answers |-> answers[query]]
    /\ stack' = <<>> /\ query' = NoTable
    /\ UNCHANGED <<db, graph, node, answers, marked, job, walk, history>>

Error ==
    /\ Idle /\ stack # <<>> /\ Counted
    /\ End_with_error
    /\ UNCHANGED <<db, reply, fault>>

Evaluate ==
    \/ \E i \in DOMAIN stack : \/ Call_leaf(i) \/ Call_table(i) \/ New_answer(i)
                               \/ Call_if_affected(i) \/ Call_again(i)
    \/ Dfs_outedges \/ Dfs_pop \/ Change_fact \/ Abolished
    \/ Dfs_dependency_edges \/ Add_callnode \/ Return_lazy_call_list
    \/ Complete \/ Return

Next ==
    \/ \E f \in Leaves, v \in SUBSET Vals : Incr_update(f, v)
    \/ \E t \in Tabled : Abolish(t) \/ Query(t)
    \/ Evaluate

Spec == Init /\ [][Next]_vars

(* The engine goes on with a query or an update: WF_vars(Evaluate), with   *)
(* ENABLED Evaluate written out.  While the engine is busy Evaluate is     *)
(* enabled (the absence of deadlock) and nothing else changes vars, unless *)
(* clauses update facts.                                                   *)
Busy == query # NoTable \/ ~Idle

Fairness == []<>~Busy \/ []<><<TRUE>>_vars

FairSpec == Spec /\ Fairness

(* With errors, of which the code leaves traces: see FreedNotWalked.       *)
SpecWithErrors == Init /\ [][Next \/ Error]_vars
--------------------------------------------------------------------------------
(* Properties.                                                             *)

(* A completed table that is not invalid has the answers that follow from  *)
(* the dynamic code: no sequence of updates, recomputations that changed   *)
(* or did not change an answer, and abolishes leaves a stale table         *)
(* that handle_incremental_recomputation takes for a good one.             *)
CurrentAnswers ==
    \A t \in Completed : Valid(t) => answers[t] = LeastModel(db)[t]

(* What depends on an invalid table is invalid.  dfs_outedges relies on it *)
(* when it does not go on from a node that is deleted.                     *)
InvalidUpwards ==
    Idle => \A t, u \in Completed :
               <<u, NodeOf(t)>> \in edges /\ ~Valid(u) => ~Valid(t)

(* The callnode of an evaluation that ended with an error is never walked  *)
(* from: its outedges were freed with the evaluation.                      *)
FreedNotWalked == ~fault

(* The tabled goals that t depends on, directly or not. *)
DependsOn(t) ==
    LET more(s) == s \cup UNION {Inedges(u) : u \in s \cap Completed}
        reach[k \in Nat] == IF k = 0 THEN Inedges(t) ELSE more(reach[k - 1])
    IN  reach[Cardinality(Tabled)]

(* When the turn of a table comes in the list of those to recompute, what  *)
(* it depends on has been recomputed or found to be unchanged, unless it   *)
(* is recursive.                                                           *)
Turn_of(t) == \E i \in DOMAIN stack : /\ Runs(i) /\ stack[i].todo # <<>>
                                     /\ Head(stack[i].todo).table = t

DependenciesFirst ==
    [][\A t \in Completed : Turn_of(t) /\ node'[t] # node[t] /\ ~t \in DependsOn(t)
          => \A u \in Inedges(t) : Valid(u)]_vars

(* A query gets the answers that follow from the dynamic code.             *)
Views == INSTANCE CurrentViews

IsView == Views!Spec

(* Every query returns.                                                    *)
QueryEnds == query # NoTable ~> query = NoTable
================================================================================
