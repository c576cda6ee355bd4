----------------------- MODULE DelaySimplification -----------------------
(***************************************************************************)
(* Negation in the sequential engine: a literal that cannot be decided is  *)
(* delayed, its clause adds a conditional answer with a delay list, and    *)
(* the simplification of delay lists decides answers later, when another   *)
(* answer becomes unconditional, loses its last delay list, or a table is  *)
(* completed without answers.  Goals are ground, so that a table has one   *)
(* answer at most.                                                         *)
(* Abstracted: the clauses of an SCC run in any order, one literal at a    *)
(* time, as local scheduling and the stacks are in LocalEvaluation; the    *)
(* order within the lists of delay elements; the exit of the engine when   *)
(* simplifications are nested too deeply (see DepthIsNesting).             *)
(***************************************************************************)
EXTENDS Integers, Sequences, SequencesExt, FiniteSets, FiniteSetsExt, Relation

CONSTANTS
  Atoms,        \* the ground tabled goals
  MaxClauses,   \* how many clauses a goal may have
  Programs,     \* the programs, numbered: the clauses of each goal
  Queries       \* sequences of goals that the user calls in turn

(* The body of a clause is a sequence of literals p and tnot(p). *)
Pos(a) == [sign |-> "pos", atom |-> a]
Neg(a) == [sign |-> "neg", atom |-> a]

Literals == {Pos(a) : a \in Atoms} \cup {Neg(a) : a \in Atoms}

ASSUME ProgramsAssumption ==
  /\ MaxClauses \in Nat
  /\ \A p \in DOMAIN Programs :
       /\ Programs[p] \in [Atoms -> Seq(Seq(Literals))]
       /\ \A a \in Atoms : Len(Programs[p][a]) \in 1..MaxClauses
ASSUME QueriesAssumption == Queries \subseteq Seq(Atoms)

VARIABLES
  program,      \* the program that is loaded
  todo,         \* the queries not yet finished
  frames,       \* the completion stack, oldest first: open goals
  leaders,      \* the frames that are leader of an SCC
  complete,     \* the goals whose table is complete, early completion included
  completing,   \* the frame that CompleteSimplifyAndReclaim is at, or 0
  answer,       \* the answer of each goal: "none", "cond" or "uncond"
  clause,       \* the run of each clause: where it is, what it has delayed
  nde_list,     \* the negative delay elements on a goal
  pdes,         \* the positive delay elements on the answer of a goal
  calls,        \* the calls of simplification routines, innermost last
  neg_fails,    \* dyn_simplify_neg_fails_stack
  depth         \* simplification_depth_gl

vars == <<program, todo, frames, leaders, complete, completing, answer, clause,
          nde_list, pdes, calls, neg_fails, depth>>

stack == <<frames, leaders, complete, completing>>
lists == <<nde_list, pdes>>
simplifying == <<calls, neg_fails, depth>>
--------------------------------------------------------------------------
Body(r) == Programs[program][r[1]][r[2]]
Clauses(p) == UNION {{a} \X DOMAIN Programs[p][a] : a \in Atoms}
Rules == DOMAIN clause

called == complete \cup Range(frames)
subgoal_fails(a) == answer[a] = "none"
is_conditional_answer(a) == answer[a] = "cond"
is_unconditional_answer(a) == answer[a] = "uncond"

(* The topmost SCC, and its goals. *)
Leader == Max(leaders)
Scc == {frames[f] : f \in {f \in DOMAIN frames : f >= Leader}}

adjust_level(a) == {l \in leaders : l <= CHOOSE f \in DOMAIN frames : frames[f] = a}

(* A clause is running, waits to be run on, is suspended on a negative     *)
(* literal or resumed there, has failed, has its delay list at the answer  *)
(* of its goal (dl), or is gone: its goal has an unconditional answer.     *)
Start == [at |-> 1, delays |-> {}, status |-> "waiting"]
At(r) == clause[r].at
Literal(r) == Body(r)[At(r)]
Goal(r) == Literal(r).atom
Turn(r, status) == [clause EXCEPT ![r].status = status]
Advance(r) == [clause EXCEPT ![r].at = @ + 1, ![r].status = "running"]
Delay(r) == [clause EXCEPT ![r].at = @ + 1, ![r].status = "running",
                           ![r].delays = @ \cup {At(r)}]

(* Delay lists: dls(a) are the clauses that have one at the answer of a.   *)
dls(a) == {r \in Rules : r[1] = a /\ clause[r].status = "dl"}

Elements(R) == UNION {{r} \X clause[r].delays : r \in R}
ElementsOn(sign, a) ==
  {e \in Elements({r \in Rules : clause[r].status = "dl"}) :
     Body(e[1])[e[2]] = [sign |-> sign, atom |-> a]}
Without(list, E) == [a \in Atoms |-> list[a] \ E]

Init ==
  /\ program \in DOMAIN Programs
  /\ todo \in Queries
  /\ frames = <<>> /\ leaders = {} /\ complete = {} /\ completing = 0
  /\ answer = [a \in Atoms |-> "none"]
  /\ clause = [r \in Clauses(program) |-> Start]
  /\ nde_list = [a \in Atoms |-> {}]
  /\ pdes = [a \in Atoms |-> {}]
  /\ calls = <<>> /\ neg_fails = <<>> /\ depth = 0
--------------------------------------------------------------------------
(* EVALUATION *)

Evaluating == calls = <<>> /\ completing = 0

(* The engine takes up a clause of the topmost SCC when none is running.   *)
Runs(r, status) ==
  /\ Evaluating
  /\ \/ clause[r].status = "running"
     \/ /\ clause[r].status = status /\ r[1] \in Scc
        /\ \A q \in Rules : clause[q].status # "running"
AtLiteral(r, sign) ==
  Runs(r, "waiting") /\ At(r) <= Len(Body(r)) /\ Literal(r).sign = sign

Open(a) ==
  /\ frames' = Append(frames, a)
  /\ leaders' = leaders \cup {Len(frames) + 1}
  /\ UNCHANGED <<program, complete, completing, answer, lists, simplifying>>

Query ==
  /\ Evaluating /\ frames = <<>> /\ todo # <<>>
  /\ \/ Head(todo) \notin called /\ Open(Head(todo)) /\ UNCHANGED <<todo, clause>>
     \/ /\ Head(todo) \in called
        /\ todo' = Tail(todo)
        /\ UNCHANGED <<program, stack, answer, clause, lists, simplifying>>

(* The first call of a goal, by p as well as by tnot(p): its clauses run.  *)
CallNew(r) ==
  /\ AtLiteral(r, "pos") \/ AtLiteral(r, "neg")
  /\ Goal(r) \notin called
  /\ Open(Goal(r))
  /\ clause' = Turn(r, "waiting")
  /\ UNCHANGED todo

(* A call of an open goal joins the SCCs down to it and waits for answers. *)
CallIncomplete(r) ==
  /\ AtLiteral(r, "pos")
  /\ Goal(r) \in called \ complete
  /\ \/ Goal(r) \notin Scc
     \/ clause[r].status = "running" /\ subgoal_fails(Goal(r))
  /\ leaders' = adjust_level(Goal(r))
  /\ clause' = Turn(r, "waiting")
  /\ UNCHANGED <<program, todo, frames, complete, completing, answer, lists, simplifying>>

(* A conditional answer is delayed; the first call of a goal by its own    *)
(* clause fails instead.                                                   *)
AnswerReturn(r) ==
  /\ AtLiteral(r, "pos")
  /\ Goal(r) \in complete \cup Scc
  /\ \/ is_unconditional_answer(Goal(r)) /\ clause' = Advance(r)
     \/ is_conditional_answer(Goal(r)) /\ clause' = Delay(r)
     \/ is_conditional_answer(Goal(r)) /\ Goal(r) = r[1] /\ clause' = Turn(r, "failed")
     \/ /\ subgoal_fails(Goal(r)) /\ Goal(r) \in complete
        /\ clause' = Turn(r, "failed")
  /\ UNCHANGED <<program, todo, stack, answer, lists, simplifying>>

(* is_incomplete: tnot of an open goal is a completion suspension.         *)
Suspend(r) ==
  /\ AtLiteral(r, "neg")
  /\ Goal(r) \in called \ complete
  /\ leaders' = adjust_level(Goal(r))
  /\ clause' = Turn(r, "suspended")
  /\ UNCHANGED <<program, todo, frames, complete, completing, answer, lists, simplifying>>

(* slg_not: whether tnot of a goal without answers is true is known only   *)
(* when its table is complete.                                             *)
NegationHolds_open(a) == subgoal_fails(a)
NegationHolds(a) == subgoal_fails(a) /\ a \in complete

SLG_NOT(r) ==
  /\ \/ AtLiteral(r, "neg") /\ Goal(r) \in complete
     \/ clause[r].status = "resumed" /\ Runs(r, "resumed")
  /\ clause' = IF NegationHolds(Goal(r)) THEN Advance(r)
               ELSE IF is_unconditional_answer(Goal(r)) THEN Turn(r, "failed")
               ELSE Delay(r)
  /\ UNCHANGED <<program, todo, stack, answer, lists, simplifying>>

(* Early completion lets the other clauses of the goal go, at once or when *)
(* they would be scheduled.                                                *)
Prune(r) ==
  /\ Evaluating
  /\ r[1] \in complete \cap Scc
  /\ clause[r].status \in {"running", "waiting", "resumed"}
  /\ clause' = Turn(r, "gone")
  /\ UNCHANGED <<program, todo, stack, answer, lists, simplifying>>
--------------------------------------------------------------------------
(* ANSWERS *)

was_simplifiable(l) ==
  IF l.sign = "neg" THEN l.atom \in complete /\ subgoal_fails(l.atom)
                    ELSE is_unconditional_answer(l.atom)
is_failing_delay_element(l) ==
  IF l.sign = "neg" THEN l.atom \in complete /\ is_unconditional_answer(l.atom)
                    ELSE subgoal_fails(l.atom)

Proved(r) == Runs(r, "waiting") /\ At(r) > Len(Body(r))
answer_is_unsupported(r) ==
  \E i \in clause[r].delays : is_failing_delay_element(Body(r)[i])
interned(r) == {i \in clause[r].delays : ~ was_simplifiable(Body(r)[i])}

RejectAnswer(r) ==
  /\ Proved(r)
  /\ \/ r[1] \in complete /\ clause' = Turn(r, "gone")
     \/ /\ r[1] \notin complete /\ answer_is_unsupported(r)
        /\ clause' = Turn(r, "failed")
  /\ UNCHANGED <<program, todo, stack, answer, lists, simplifying>>

AcceptsAnswer(r) == Proved(r) /\ r[1] \notin complete /\ ~ answer_is_unsupported(r)
Conditional(r) == interned(r) # {} /\ ~ is_unconditional_answer(r[1])

record_de_usage_pos(sign, r) ==
  [a \in Atoms |-> {e \in {r} \X interned(r) : sign = "pos" /\ Body(r)[e[2]] = Pos(a)}]
record_de_usage(sign, r) ==
  [a \in Atoms |-> {e \in {r} \X interned(r) : Body(r)[e[2]] = [sign |-> sign, atom |-> a]}]
Joined(list, more) == [a \in Atoms |-> list[a] \cup more[a]]

ConditionalAnswer(r) ==
  /\ AcceptsAnswer(r) /\ Conditional(r)
  /\ answer' = [answer EXCEPT ![r[1]] = "cond"]
  /\ clause' = [clause EXCEPT ![r].status = "dl", ![r].delays = interned(r)]
  /\ nde_list' = Joined(nde_list, record_de_usage("neg", r))
  /\ pdes' = Joined(pdes, record_de_usage("pos", r))
  /\ depth' = 0
  /\ UNCHANGED <<program, todo, stack, calls, neg_fails>>

(* A call of a routine, at one of its steps. *)
Call(op, step, a) == [op |-> op, step |-> step, atom |-> a, rule |-> 0]
CallEmptyDl(r) == [op |-> "empty_dl", step |-> "enter", atom |-> r[1], rule |-> r[2]]

(* do_delay_stuff for an answer without delays left: a conditional answer  *)
(* that was found becomes unconditional.                                   *)
UnconditionalAnswer(r) ==
  /\ AcceptsAnswer(r) /\ ~ Conditional(r)
  /\ clause' = [clause EXCEPT ![r].status = "gone", ![r].delays = interned(r)]
  /\ answer' = [answer EXCEPT ![r[1]] = IF @ = "none" THEN "uncond" ELSE @]
  /\ calls' = IF is_conditional_answer(r[1])
                THEN <<Call("new_answer", "old", r[1]),
                       Call("pos_unconditional", "enter", r[1])>>
                ELSE <<Call("new_answer", IF subgoal_fails(r[1]) THEN "new" ELSE "old", r[1])>>
  /\ depth' = 0
  /\ UNCHANGED <<program, todo, stack, lists, neg_fails>>
--------------------------------------------------------------------------
(* SIMPLIFICATION *)

Top == Last(calls)
Doing(op, step) == calls # <<>> /\ Top.op = op /\ Top.step = step
Returned == Front(calls)
Replace(c) == Append(Returned, c)
Goto(step) == Replace([Top EXCEPT !.step = step])
MayPush(more, c) == IF more THEN Append(calls, c) ELSE calls

(* The rest of do_delay_stuff, and early completion by a new answer.       *)
FinishAnswer(step) ==
  /\ Doing("new_answer", step)
  /\ IF nde_list[Top.atom] # {}
       THEN /\ calls' = Append(calls, Call("neg_succeeds", "enter", Top.atom))
            /\ UNCHANGED complete
       ELSE /\ calls' = Returned
            /\ complete' = IF step = "new" THEN complete \cup {Top.atom} ELSE complete
  /\ UNCHANGED <<program, todo, frames, leaders, completing, answer, clause, lists,
                 neg_fails, depth>>

(* simplify_pos_unconditional: the answer gives up its delay lists, then   *)
(* each delay element on it leaves its list.                               *)
release_all_dls_pos(a) == /\ pdes' = Without(pdes, Elements(dls(a)))
                          /\ UNCHANGED nde_list
release_all_dls(a) == /\ pdes' = Without(pdes, Elements(dls(a)))
                      /\ nde_list' = Without(nde_list, Elements(dls(a)))

Released(R) == [r \in Rules |-> IF r \in R THEN [clause[r] EXCEPT !.status = "gone"]
                                           ELSE clause[r]]

EnterPosUnconditional ==
  /\ Doing("pos_unconditional", "enter")
  /\ release_all_dls(Top.atom)
  /\ clause' = Released(dls(Top.atom))
  /\ answer' = [answer EXCEPT ![Top.atom] = "uncond"]
  /\ calls' = Goto("loop")
  /\ depth' = depth + 1
  /\ UNCHANGED <<program, todo, stack, neg_fails>>

(* remove_de_from_dl; handle_empty_dl_creation follows on the last one.    *)
remove_de_from_dl(e) == [clause EXCEPT ![e[1]].delays = @ \ {e[2]}]
IsLast(e) == clause[e[1]].delays = {e[2]}

SimplifyPosUnconditional ==
  /\ Doing("pos_unconditional", "loop")
  /\ \E e \in pdes[Top.atom] :
       /\ pdes' = [pdes EXCEPT ![Top.atom] = @ \ {e}]
       /\ clause' = remove_de_from_dl(e)
       /\ calls' = MayPush(IsLast(e), CallEmptyDl(e[1]))
  /\ UNCHANGED <<program, todo, stack, answer, nde_list, neg_fails, depth>>

Exit(op, a, list) ==
  /\ Doing(op, "loop") /\ list[a] = {}
  /\ calls' = Returned
  /\ depth' = depth - 1
  /\ UNCHANGED <<program, todo, stack, answer, clause, lists, neg_fails>>

(* handle_empty_dl_creation *)
EnterEmptyDl ==
  /\ Doing("empty_dl", "enter")
  /\ IF is_conditional_answer(Top.atom)
       THEN /\ calls' = Append(Goto("after"), Call("pos_unconditional", "enter", Top.atom))
            /\ clause' = Turn(<<Top.atom, Top.rule>>, "gone")
       ELSE calls' = Returned /\ UNCHANGED clause
  /\ UNCHANGED <<program, todo, stack, answer, lists, neg_fails, depth>>

SuspendedOn(a) == {r \in Rules : clause[r].status = "suspended" /\ Goal(r) = a}
Disposed(R) == [r \in Rules |-> IF r \in R THEN [clause[r] EXCEPT !.status = "failed"]
                                           ELSE clause[r]]

LeaveEmptyDl ==
  /\ Doing("empty_dl", "after")
  /\ IF Top.atom \in complete
       THEN UNCHANGED <<complete, clause>>
       ELSE /\ complete' = complete \cup {Top.atom}
            /\ clause' = Disposed(SuspendedOn(Top.atom))
  /\ calls' = Replace(Call("neg_succeeds", "enter", Top.atom))
  /\ UNCHANGED <<program, todo, frames, leaders, completing, answer, lists, neg_fails, depth>>

(* simplify_neg_succeeds and simplify_pos_unsupported remove the delay     *)
(* lists that have an element on the goal; handle_unsupported_answer_subst *)
(* follows on the last list of an answer.                                  *)
Enter(op) ==
  /\ Doing(op, "enter")
  /\ calls' = Goto("loop")
  /\ depth' = depth + 1
  /\ UNCHANGED <<program, todo, stack, answer, clause, lists, neg_fails>>

remove_pndes_of(list, r) == Without(list, Elements({r}))

RemoveDl(r) ==
  /\ is_conditional_answer(r[1])
  /\ nde_list' = remove_pndes_of(nde_list, r)
  /\ pdes' = remove_pndes_of(pdes, r)
  /\ clause' = Turn(r, "failed")
  /\ calls' = MayPush(dls(r[1]) = {r}, Call("unsupported", "enter", r[1]))
  /\ UNCHANGED <<program, todo, stack, answer, neg_fails, depth>>

SimplifyNegSucceeds ==
  /\ Doing("neg_succeeds", "loop")
  /\ \E e \in nde_list[Top.atom] : RemoveDl(e[1])
SimplifyPosUnsupported ==
  /\ Doing("pos_unsupported", "loop")
  /\ \E e \in pdes[Top.atom] : RemoveDl(e[1])

(* handle_unsupported_answer_subst deletes the answer first. *)
EnterUnsupported ==
  /\ Doing("unsupported", "enter")
  /\ answer' = [answer EXCEPT ![Top.atom] = "none"]
  /\ calls' = Append(Goto("after"), Call("pos_unsupported", "enter", Top.atom))
  /\ UNCHANGED <<program, todo, stack, clause, lists, neg_fails, depth>>

AfterUnsupported(a) == a \in complete /\ subgoal_fails(a)

LeaveUnsupported ==
  /\ Doing("unsupported", "after")
  /\ calls' = IF AfterUnsupported(Top.atom)
                THEN Replace(Call("neg_fails", "enter", Top.atom))
                ELSE Returned
  /\ UNCHANGED <<program, todo, stack, answer, clause, lists, neg_fails, depth>>

(* simplify_neg_fails: a nested call leaves its goal to the one that is    *)
(* under way.                                                              *)
in_simplify_neg_fails ==
  \E i \in DOMAIN calls : calls[i].op = "neg_fails" /\ calls[i].step = "loop"

EnterNegFails ==
  /\ Doing("neg_fails", "enter")
  /\ depth' = depth + 1
  /\ IF in_simplify_neg_fails
       THEN neg_fails' = Append(neg_fails, Top.atom) /\ calls' = Returned
       ELSE calls' = Goto("loop") /\ UNCHANGED neg_fails
  /\ UNCHANGED <<program, todo, stack, answer, clause, lists>>

SimplifyNegFails ==
  /\ Doing("neg_fails", "loop")
  /\ \E e \in nde_list[Top.atom] :
       /\ nde_list' = [nde_list EXCEPT ![Top.atom] = @ \ {e}]
       /\ clause' = remove_de_from_dl(e)
       /\ calls' = MayPush(IsLast(e), CallEmptyDl(e[1]))
  /\ UNCHANGED <<program, todo, stack, answer, pdes, neg_fails, depth>>

NextNegFails ==
  /\ Doing("neg_fails", "loop")
  /\ nde_list[Top.atom] = {} /\ neg_fails # <<>>
  /\ calls' = Replace([Top EXCEPT !.atom = Last(neg_fails)])
  /\ neg_fails' = Front(neg_fails)
  /\ UNCHANGED <<program, todo, stack, answer, clause, lists, depth>>

Simplify ==
  \/ FinishAnswer("new") \/ FinishAnswer("old")
  \/ EnterPosUnconditional \/ SimplifyPosUnconditional
  \/ Exit("pos_unconditional", Top.atom, pdes)
  \/ EnterEmptyDl \/ LeaveEmptyDl
  \/ Enter("neg_succeeds") \/ SimplifyNegSucceeds
  \/ Exit("neg_succeeds", Top.atom, nde_list)
  \/ EnterUnsupported \/ LeaveUnsupported
  \/ Enter("pos_unsupported") \/ SimplifyPosUnsupported
  \/ Exit("pos_unsupported", Top.atom, pdes)
  \/ EnterNegFails \/ SimplifyNegFails \/ NextNegFails
  \/ neg_fails = <<>> /\ Exit("neg_fails", Top.atom, nde_list)
--------------------------------------------------------------------------
(* COMPLETION *)

(* A clause with nothing to do before its SCC is complete. *)
Settled(r) ==
  \/ clause[r].status \in {"failed", "dl", "gone", "suspended"}
  \/ /\ clause[r].status = "waiting" /\ AtLiteral(r, "pos")
     /\ Goal(r) \in Scc \ complete /\ subgoal_fails(Goal(r))

Fixpoint ==
  /\ Evaluating /\ frames # <<>>
  /\ \A r \in Rules : r[1] \in Scc => Settled(r)

Suspensions == {r \in Rules : r[1] \in Scc /\ clause[r].status = "suspended"}

(* Suspensions on a goal that was completed early fail, those of such a    *)
(* goal are dropped, and the others are resumed to delay their literal.    *)
AfterSuspension_anew(r) == "waiting"
AfterSuspension(r) == IF Goal(r) \in complete THEN "failed"
                      ELSE IF r[1] \in complete THEN "gone" ELSE "resumed"

ProcessSuspensionFrames ==
  /\ Fixpoint /\ Suspensions # {}
  /\ clause' = [r \in Rules |->
       IF r \notin Suspensions THEN clause[r]
       ELSE [clause[r] EXCEPT !.status = AfterSuspension(r)]]
  /\ UNCHANGED <<program, todo, stack, answer, lists, simplifying>>

StartCompletion ==
  /\ Fixpoint /\ Suspensions = {}
  /\ completing' = Leader
  /\ UNCHANGED <<program, todo, frames, leaders, complete, answer, clause, lists, simplifying>>

(* CompleteSimplifyAndReclaim marks the goals of the SCC one by one.       *)
neg_simplif_possible(a) == subgoal_fails(a) /\ nde_list[a] # {}

CompleteGoal ==
  /\ completing \in DOMAIN frames /\ calls = <<>>
  /\ LET a == frames[completing]
     IN  /\ complete' = complete \cup {a}
         /\ calls' = MayPush(neg_simplif_possible(a), Call("neg_fails", "enter", a))
  /\ completing' = completing + 1
  /\ UNCHANGED <<program, todo, frames, leaders, answer, clause, lists, neg_fails, depth>>

Older(leader) == {l \in leaders : l < leader}

FinishCompletion ==
  /\ completing = Len(frames) + 1 /\ calls = <<>>
  /\ frames' = SubSeq(frames, 1, Leader - 1)
  /\ leaders' = Older(Leader)
  /\ completing' = 0
  /\ UNCHANGED <<program, todo, complete, answer, clause, lists, simplifying>>

Finished == todo = <<>>
Idle == Finished /\ UNCHANGED vars

Evaluate ==
  \E r \in Rules :
    \/ CallNew(r) \/ CallIncomplete(r) \/ AnswerReturn(r)
    \/ Suspend(r) \/ SLG_NOT(r) \/ Prune(r)
    \/ RejectAnswer(r) \/ ConditionalAnswer(r) \/ UnconditionalAnswer(r)

Step ==
  \/ Query \/ Evaluate \/ Simplify
  \/ ProcessSuspensionFrames \/ StartCompletion \/ CompleteGoal \/ FinishCompletion

Next == Step \/ Idle

(* The engine goes on until the queries are finished: WF_vars(Step), with  *)
(* ENABLED Step written out.  That Step is enabled until then is checked   *)
(* as the absence of deadlock, and only Step changes vars.                 *)
Fairness == []<>Finished \/ []<><<TRUE>>_vars

Spec == Init /\ [][Next]_vars /\ Fairness
--------------------------------------------------------------------------
(* The well-founded model of a program, by alternating fixpoints.          *)
Bodies(p, r) == Range(Programs[p][r[1]][r[2]])
Consequences(p, X, Y) ==
  {r[1] : r \in {c \in Clauses(p) :
     \A l \in Bodies(p, c) : IF l.sign = "pos" THEN l.atom \in X ELSE l.atom \notin Y}}
LeastModel(p, Y) ==
  LET model[n \in Nat] == IF n = 0 THEN {} ELSE Consequences(p, model[n - 1], Y)
  IN  model[Cardinality(Atoms)]
PossibleAtoms(p) ==
  LET possible[n \in Nat] ==
        IF n = 0 THEN Atoms ELSE LeastModel(p, LeastModel(p, possible[n - 1]))
  IN  possible[Cardinality(Atoms)]
PossibleIn == UNION {{p} \X PossibleAtoms(p) : p \in DOMAIN Programs}
TrueIn == UNION {{p} \X LeastModel(p, PossibleAtoms(p)) : p \in DOMAIN Programs}

Value(a) ==
  IF <<program, a>> \in TrueIn THEN "uncond"
  ELSE IF <<program, a>> \in PossibleIn THEN "cond" ELSE "none"

(* The dependencies of conditional answers on one another. *)
Depends(signs) ==
  [a, b \in Atoms |-> \E r \in dls(a) : \E i \in clause[r].delays :
                       Body(r)[i].atom = b /\ Body(r)[i].sign \in signs]
Reaches == TransitiveClosure(Depends({"pos", "neg"}), Atoms)
Loops == {a \in Atoms : TransitiveClosure(Depends({"pos"}), Atoms)[a, a]}

(* The program that is left: a clause still has what it has delayed and    *)
(* what it has not come to.  Names of clauses that a goal does not have    *)
(* stand for clauses that call their own goal.                             *)
RuleNames == Atoms \X (1..MaxClauses)
Pending(r) == clause[r].delays \cup (At(r)..Len(Body(r)))
HeadOf == [r \in RuleNames |-> r[1]]
BodyOf == [r \in RuleNames |-> IF r \in Rules THEN Range(Body(r)) ELSE {Pos(r[1])}]
LeftOf == [r \in RuleNames |-> IF r \in Rules THEN {Body(r)[i] : i \in Pending(r)}
                                              ELSE {Pos(r[1])}]
Dead == {r \in Rules : clause[r].status = "failed"}
TrueGoals == {a \in Atoms : is_unconditional_answer(a)}
FalseGoals == {a \in complete \cup (IF completing = 0 THEN {} ELSE Scc) : subgoal_fails(a)}

Residual == INSTANCE ResidualProgram
  WITH Rules <- RuleNames, head <- HeadOf, body <- BodyOf, left <- LeftOf,
       dead <- Dead, true <- TrueGoals, false <- FalseGoals
--------------------------------------------------------------------------
(* PROPERTIES *)

(* Types of the stacks, the answers and the lists. *)
TypeOK ==
  /\ program \in DOMAIN Programs
  /\ frames \in Seq(Atoms) /\ IsInjective(frames)
  /\ leaders \subseteq DOMAIN frames /\ completing \in 0..Len(frames) + 1
  /\ complete \subseteq Atoms
  /\ answer \in [Atoms -> {"none", "cond", "uncond"}]
  /\ \A r \in Rules :
       /\ clause[r].at \in 1..Len(Body(r)) + 1
       /\ clause[r].delays \subseteq 1..clause[r].at - 1
       /\ clause[r].status \in {"running", "waiting", "suspended", "resumed", "failed", "dl", "gone"}
  /\ \A a \in Atoms : nde_list[a] \cup pdes[a] \subseteq Rules \X Nat
  /\ depth \in Nat

(* Every step of the evaluation and of the simplification is one that the  *)
(* semantics of the residual program allows: no literal is dropped, and no *)
(* answer made unconditional or deleted, without a reason.                 *)
ImplementsResidual == Residual!Spec

(* The lists of a goal lead to just the delay elements on it, so that none *)
(* is missed when the goal is decided and none is followed after it has    *)
(* been released.                                                          *)
ListsAgree ==
  /\ TypeOK
  /\ \A a \in Atoms : nde_list[a] = ElementsOn("neg", a) /\ pdes[a] = ElementsOn("pos", a)

(* A table that is complete agrees with the well-founded model, except     *)
(* where a conditional answer depends on a positive loop of such answers:  *)
(* those are left to answer completion.                                    *)
Decided ==
  Evaluating => \A a \in complete \ Range(frames) :
    \/ answer[a] = Value(a)
    \/ is_conditional_answer(a) /\ \E b \in Loops : a = b \/ Reaches[a, b]

(* Simplification ends, and with it each query. *)
Terminates == <>Finished

(* simplification_depth_gl counts the simplifications that are nested: the *)
(* engine exits with "Too many nested simplifications" by it.              *)
DepthIsNesting ==
  depth = Cardinality({i \in DOMAIN calls :
            calls[i].step = "loop"
              /\ calls[i].op \in {"pos_unconditional", "neg_succeeds",
                                  "pos_unsupported", "neg_fails"}})
==========================================================================
