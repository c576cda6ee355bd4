------------------------- MODULE LocalEvaluation -------------------------
(***************************************************************************)
(* The evaluation of tabled positive programs by the sequential engine     *)
(* under local scheduling: generators, consumers and their lists of        *)
(* answers, the choice point stack and its freeze register, the completion *)
(* stack with its leaders, the scheduling of pending answers up to the     *)
(* fixpoint of an SCC, early completion of ground subgoals, and the return *)
(* of the answers of a leader once its SCC is complete.                    *)
(* Abstracted: terms (an answer is a value, a clause maps the answers of   *)
(* its literals to an answer), bindings, environments and trail; the       *)
(* program has no untabled choice points, no cut and no negation.          *)
(***************************************************************************)
EXTENDS Integers, Sequences, SequencesExt, FiniteSets, FiniteSetsExt

CONSTANTS
  Subgoals,     \* the tabled subgoals
  Ground,       \* those without variables: they have at most one answer
  Values,       \* the answers
  Truth,        \* the answer of a ground subgoal
  NoGoal,       \* the root of the query, which is not tabled
  Programs,     \* the programs, numbered: the clauses of each subgoal
  Queries       \* sequences of subgoals that the user calls in turn

IsSequence(x) == x \in Seq(Range(x))

(* A clause starts from a value and, for each literal of its body, maps    *)
(* the value so far and an answer of the literal's goal to the next value, *)
(* or fails where step is not defined.  Its head has the last value.       *)
ASSUME ProgramsAssumption ==
  /\ Ground \subseteq Subgoals /\ Truth \in Values /\ NoGoal \notin Subgoals
  /\ \A p \in DOMAIN Programs : \A s \in Subgoals :
       /\ IsSequence(Programs[p][s]) /\ Programs[p][s] # <<>>
       /\ \A i \in DOMAIN Programs[p][s] :
            LET clause == Programs[p][s][i]
            IN  /\ clause.start \in Values
                /\ IsSequence(clause.body)
                /\ \A l \in Range(clause.body) :
                     /\ l.goal \in Subgoals
                     /\ DOMAIN l.step \subseteq Values \X Values
                     /\ \A xy \in DOMAIN l.step : l.step[xy] \in Values
  /\ Queries \subseteq Seq(Subgoals) \ {<<>>}

VARIABLES
  program,      \* the program that is loaded
  todo,         \* the queries not yet finished; the first is being run
  got,          \* the answers it has returned to the user
  sf,           \* the subgoal frames
  cps,          \* the choice point stack, also what is left above its top
  breg,         \* the choice point to which a failure goes
  bfreg,        \* the freeze register: the youngest frozen choice point
  root_address, \* the generator of the outermost open subgoal
  frames,       \* the completion stack, oldest first: open subgoals
  leaders,      \* the frames that are leader of an SCC
  sched_heap,   \* the frames with answers to be scheduled
  at            \* where the engine is in a clause, or Failed

vars == <<program, todo, got, sf, cps, breg, bfreg, root_address, frames,
          leaders, sched_heap, at>>

stacks == <<breg, bfreg, root_address, frames, leaders, sched_heap>>
--------------------------------------------------------------------------
Clauses(s) == Programs[program][s]

(* A place in a clause of the table root, with the value it has reached.   *)
Failed == [root |-> NoGoal, clause |-> 0, lit |-> 0, val |-> Truth]
Enter(s, i) == [root |-> s, clause |-> i, lit |-> 1, val |-> Clauses(s)[i].start]
AskQuery == [root |-> NoGoal, clause |-> 1, lit |-> 1, val |-> Truth]

Body(place) ==
  IF place.root = NoGoal
    THEN <<[goal |-> Head(todo), step |-> [xy \in Values \X Values |-> xy[2]]]>>
    ELSE Clauses(place.root)[place.clause].body

Calling == at # Failed /\ at.lit <= Len(Body(at))
Goal == Body(at)[at.lit].goal

(* The place after literal place.lit has been answered by y. *)
Return(place, y) ==
  LET step == Body(place)[place.lit].step
  IN  IF <<place.val, y>> \in DOMAIN step
        THEN [place EXCEPT !.lit = @ + 1, !.val = step[<<place.val, y>>]]
        ELSE Failed

(* Subgoal frames.  is_complete is set by early completion too. *)
NoFrame == [exists |-> FALSE, is_complete |-> FALSE, is_reclaimed |-> FALSE,
            answers |-> <<>>, pos_cons |-> 0, cp_ptr |-> 0]
is_completed(s) == sf[s].exists /\ sf[s].is_complete

(* Choice points.  pc is the next clause of a generator (past the last one *)
(* it is check_complete), ret the answers a consumer has taken, left those *)
(* a completed table has still to return.                                  *)
Generator(s) ==
  [kind |-> "generator", goal |-> s, pc |-> 2, cont |-> at, prev |-> breg,
   bf |-> bfreg, look |-> 0, ret |-> 0, left |-> {}]
Consumer(s) ==
  [kind |-> "consumer", goal |-> s, pc |-> 0, cont |-> at, prev |-> breg,
   bf |-> 0, look |-> sf[s].pos_cons, ret |-> 0, left |-> {}]
TrieReturn(s, cont, prev, left) ==
  [kind |-> "trie", goal |-> s, pc |-> 0, cont |-> cont, prev |-> prev,
   bf |-> 0, look |-> 0, ret |-> 0, left |-> left]

top_of_cpstack_breg == breg
top_of_cpstack == Max({breg, bfreg})
Put(stack, a, cp) == [i \in 1..Max({Len(stack), a}) |-> IF i = a THEN cp ELSE stack[i]]

FrameOf(s) == CHOOSE i \in DOMAIN frames : frames[i] = s

(* The leaders that are left when the SCCs down to that of s are joined.   *)
adjust_level_ptrs_none(s) == leaders
adjust_level_ptrs(s) == {l \in leaders : l <= FrameOf(s)}

(* The list of consumers that starts at head, newest first. *)
Walk(stack, head) ==
  LET pos[k \in 0..Len(stack)] ==
        IF k = 0 THEN head
        ELSE LET c == pos[k - 1] IN IF c = 0 THEN 0 ELSE stack[c].look
  IN  pos
Consumers(stack, head) ==
  LET pos == Walk(stack, head)
  IN  [k \in 1..Cardinality({k \in DOMAIN pos : pos[k] # 0}) |-> pos[k - 1]]

(* Answers of a completed table, in any order: all but the last leave a    *)
(* choice point on top of the stack.                                       *)
AnswerFromTrie(s, place, prev, top) ==
  LET all == Range(sf[s].answers)
  IN  \E y \in all :
        /\ at' = Return(place, y)
        /\ IF all = {y}
             THEN breg' = prev /\ UNCHANGED cps
             ELSE /\ breg' = top
                  /\ cps' = Put(cps, top, TrieReturn(s, place, prev, all \ {y}))
--------------------------------------------------------------------------
Init ==
  /\ program \in DOMAIN Programs
  /\ todo \in Queries
  /\ got = {}
  /\ sf = [s \in Subgoals |-> NoFrame]
  /\ cps = <<>>
  /\ breg = 0 /\ bfreg = 0 /\ root_address = 0
  /\ frames = <<>> /\ leaders = {} /\ sched_heap = {}
  /\ at = AskQuery

(* tabletry, tabletrysingle: the first call makes the subgoal its own      *)
(* leader and starts its first clause.                                     *)
CallNew ==
  /\ Calling /\ ~ sf[Goal].exists
  /\ LET top == top_of_cpstack + 1
     IN  /\ cps' = Put(cps, top, Generator(Goal))
         /\ breg' = top
         /\ sf' = [sf EXCEPT ![Goal] = [NoFrame EXCEPT !.exists = TRUE, !.cp_ptr = top]]
         /\ root_address' = IF root_address = 0 THEN top ELSE root_address
  /\ frames' = Append(frames, Goal)
  /\ leaders' = leaders \cup {Len(frames) + 1}
  /\ at' = Enter(Goal, 1)
  /\ UNCHANGED <<program, todo, got, bfreg, sched_heap>>

CallCompleted ==
  /\ Calling /\ is_completed(Goal)
  /\ IF sf[Goal].answers = <<>>
       THEN at' = Failed /\ UNCHANGED <<breg, cps>>
       ELSE AnswerFromTrie(Goal, at, breg, top_of_cpstack + 1)
  /\ UNCHANGED <<program, todo, got, sf, bfreg, root_address, frames, leaders, sched_heap>>

(* A call of an open subgoal joins its SCC to that of the caller, freezes  *)
(* the stack and takes the first answer, if there is one.                  *)
CallIncomplete ==
  /\ Calling /\ sf[Goal].exists /\ ~ is_completed(Goal)
  /\ leaders' = adjust_level_ptrs(Goal)
  /\ LET top == top_of_cpstack + 1
         answered == sf[Goal].answers # <<>>
     IN  /\ cps' = Put(cps, top, [Consumer(Goal) EXCEPT !.ret = IF answered THEN 1 ELSE 0])
         /\ sf' = [sf EXCEPT ![Goal].pos_cons = top]
         /\ bfreg' = top
         /\ breg' = IF answered THEN top ELSE breg
         /\ at' = IF answered THEN Return(at, Head(sf[Goal].answers)) ELSE Failed
  /\ UNCHANGED <<program, todo, got, root_address, frames, sched_heap>>

(* new_answer_dealloc: the engine fails after the answer in any case; an   *)
(* answer of a ground subgoal completes it early, and then drops every     *)
(* choice point younger than its generator.                                *)
Proved == at # Failed /\ at.lit > Len(Body(at)) /\ at.root # NoGoal
IsNewAnswer == ~ is_completed(at.root) /\ at.val \notin Range(sf[at.root].answers)

IgnoreAnswer ==
  /\ Proved /\ ~ IsNewAnswer
  /\ at' = Failed
  /\ UNCHANGED <<program, todo, got, sf, cps, stacks>>

NewAnswer ==
  /\ Proved /\ IsNewAnswer
  /\ LET s == at.root
         early == s \in Ground
         generates == cps[sf[s].cp_ptr].kind = "generator"
     IN  /\ sf' = [sf EXCEPT ![s].answers = Append(@, at.val),
                             ![s].is_complete = early]
         /\ sched_heap' = sched_heap \cup {FrameOf(s)}
         /\ IF early /\ generates
              THEN /\ cps' = [cps EXCEPT ![sf[s].cp_ptr].pc = Len(Clauses(s)) + 1]
                   /\ breg' = sf[s].cp_ptr
              ELSE UNCHANGED <<cps, breg>>
  /\ at' = Failed
  /\ UNCHANGED <<program, todo, got, bfreg, root_address, frames, leaders>>

AnswerQuery ==
  /\ at # Failed /\ at.root = NoGoal /\ at.lit > 1
  /\ got' = got \cup {at.val}
  /\ at' = Failed
  /\ UNCHANGED <<program, todo, sf, cps, stacks>>
--------------------------------------------------------------------------
Backtracking(kind) == at = Failed /\ breg # 0 /\ cps[breg].kind = kind

(* tableretry, tabletrust *)
NextClause ==
  /\ Backtracking("generator")
  /\ cps[breg].pc <= Len(Clauses(cps[breg].goal))
  /\ at' = Enter(cps[breg].goal, cps[breg].pc)
  /\ cps' = [cps EXCEPT ![breg].pc = @ + 1]
  /\ UNCHANGED <<program, todo, got, sf, stacks>>

AnswerReturn ==
  /\ Backtracking("consumer")
  /\ LET c == cps[breg]
     IN  IF c.ret < Len(sf[c.goal].answers)
           THEN /\ at' = Return(c.cont, sf[c.goal].answers[c.ret + 1])
                /\ cps' = [cps EXCEPT ![breg].ret = @ + 1]
                /\ UNCHANGED breg
           ELSE breg' = c.prev /\ UNCHANGED <<at, cps>>
  /\ UNCHANGED <<program, todo, got, sf, bfreg, root_address, frames, leaders, sched_heap>>

(* The next answer of a completed table, or the last one. *)
TrieAnswer ==
  /\ Backtracking("trie")
  /\ \E y \in cps[breg].left :
       /\ at' = Return(cps[breg].cont, y)
       /\ IF cps[breg].left = {y}
            THEN breg' = cps[breg].prev /\ UNCHANGED cps
            ELSE cps' = [cps EXCEPT ![breg].left = @ \ {y}] /\ UNCHANGED breg
  /\ UNCHANGED <<program, todo, got, sf, bfreg, root_address, frames, leaders, sched_heap>>

NextQuery ==
  /\ at = Failed /\ breg = 0 /\ todo # <<>>
  /\ todo' = Tail(todo)
  /\ got' = {}
  /\ at' = IF Tail(todo) = <<>> THEN Failed ELSE AskQuery
  /\ UNCHANGED <<program, sf, cps, stacks>>
--------------------------------------------------------------------------
(* sched_answers links the consumers of s that have not taken all answers  *)
(* of s into a chain, newest first, whose last one leads back to base.     *)
(* Consumers whose root is complete are meant to be dropped from the list: *)
(* perm is where the list is cut, AtHead or a consumer.                    *)
AtHead == -1

AllTaken_never(s, consumer) == consumer.ret > Len(sf[s].answers)
AllTaken(s, consumer) == consumer.ret = Len(sf[s].answers)

Link(stack, c, next) == IF c = 0 THEN stack ELSE [stack EXCEPT ![c].prev = next]

ScheduleOrUnchain(s, w) ==
  LET c == w.next
      consumer == w.stack[c]
  IN  IF AllTaken(s, consumer) THEN [w EXCEPT !.next = consumer.look]
      ELSE IF ~ is_completed(consumer.cont.root) THEN
             [w EXCEPT !.next = consumer.look,
                       !.perm = consumer.look,
                       !.first = IF @ = 0 THEN c ELSE @,
                       !.stack = Link(w.stack, w.last, c),
                       !.last = c]
      ELSE IF w.perm = AtHead THEN
             [w EXCEPT !.next = consumer.look, !.perm = consumer.look]
      ELSE   [w EXCEPT !.next = consumer.look,
                       !.stack[w.perm].look = consumer.look]

WalkConsumers(s, stack) ==
  LET walk[k \in 0..Len(stack)] ==
        IF k = 0
          THEN [stack |-> stack, next |-> sf[s].pos_cons, perm |-> AtHead,
                first |-> 0, last |-> 0]
          ELSE LET w == walk[k - 1]
               IN  IF w.next = 0 THEN w ELSE ScheduleOrUnchain(s, w)
  IN  walk

sched_answers(s, stack, base) ==
  LET frame == sf[s]
      w == WalkConsumers(s, stack)[Len(stack)]
  IN  IF frame.answers = <<>> \/ frame.pos_cons = 0 \/ frame.is_reclaimed
        THEN [stack |-> stack, first |-> 0, last |-> 0, head |-> frame.pos_cons]
        ELSE [stack |-> Link(w.stack, w.last, base), first |-> w.first, last |-> w.last,
              head |-> IF frame.is_complete THEN 0 ELSE frame.pos_cons]

(* find_fixpoint does this for the scheduled frames of the SCC, youngest   *)
(* first, and joins their chains; the last one leads back to the leader.   *)
(* The newest consumer of a frame leads back to the leader if it is not    *)
(* scheduled.                                                              *)
ScheduleFrame(w, f) ==
  LET s == frames[f]
      r == sched_answers(s, Link(w.stack, sf[s].pos_cons, breg), breg)
  IN  IF r.first = 0
        THEN [w EXCEPT !.stack = r.stack, !.heads[s] = r.head]
        ELSE [w EXCEPT !.stack = Link(r.stack, w.last, r.first),
                       !.heads[s] = r.head,
                       !.chain = IF @ = 0 THEN r.first ELSE @,
                       !.last = r.last]

DueFrames_past_next(leader) == {f \in sched_heap : f > leader + 1}
DueFrames(leader) == {f \in sched_heap : f > leader}

WalkFrames(leader, stack, heads) ==
  LET walk[k \in 0..Len(frames) - leader] ==
        IF k = 0 THEN [stack |-> stack, heads |-> heads, chain |-> 0, last |-> 0]
        ELSE LET w == walk[k - 1]
                 f == Len(frames) + 1 - k
             IN  IF f \in DueFrames(leader) THEN ScheduleFrame(w, f) ELSE w
  IN  walk

find_fixpoint(leader, stack, heads) ==
  LET w == WalkFrames(leader, stack, heads)[Len(frames) - leader]
  IN  [w EXCEPT !.stack = Link(w.stack, w.last, breg)]

WithHeads(heads) == [s \in Subgoals |-> [sf[s] EXCEPT !.pos_cons = heads[s]]]

(* check_complete: the clauses of the generator at breg are exhausted.     *)
CheckingComplete ==
  /\ Backtracking("generator")
  /\ cps[breg].pc > Len(Clauses(cps[breg].goal))
Checked == cps[breg].goal
IsLeader == FrameOf(Checked) \in leaders
OwnSchedule == sched_answers(Checked, cps, breg)
SccSchedule ==
  find_fixpoint(FrameOf(Checked), OwnSchedule.stack,
                [s \in Subgoals |-> IF s = Checked THEN OwnSchedule.head ELSE sf[s].pos_cons])

ScheduleOwnConsumers ==
  /\ CheckingComplete /\ OwnSchedule.first # 0
  /\ cps' = OwnSchedule.stack
  /\ sf' = [sf EXCEPT ![Checked].pos_cons = OwnSchedule.head]
  /\ breg' = OwnSchedule.first
  /\ UNCHANGED <<program, todo, got, bfreg, root_address, frames, leaders, sched_heap, at>>

ScheduleScc ==
  /\ CheckingComplete /\ OwnSchedule.first = 0 /\ IsLeader
  /\ LET scc == SccSchedule
     IN  /\ scc.chain # 0
         /\ cps' = scc.stack
         /\ sf' = WithHeads(scc.heads)
         /\ breg' = scc.chain
  /\ sched_heap' = {f \in sched_heap : f < FrameOf(Checked)}
  /\ UNCHANGED <<program, todo, got, bfreg, root_address, frames, leaders, at>>

(* Nothing is left to schedule: the SCC is complete.  Its frames and the   *)
(* frozen stack are given back, and the leader returns its answers.        *)
Older_or_leader(fs, leader) == {f \in fs : f <= leader}
Older(fs, leader) == {f \in fs : f < leader}

reclaim_stacks ==
  IF breg = root_address
    THEN bfreg' = 0 /\ root_address' = 0
    ELSE bfreg' = Min({bfreg, cps[breg].bf}) /\ UNCHANGED root_address

(* mark_as_completed, then reclaim_incomplete_table_structs. *)
mark_as_completed(frame) ==
  [frame EXCEPT !.is_complete = TRUE, !.is_reclaimed = TRUE, !.pos_cons = 0]

CompleteSimplifyAndReclaim(leader) ==
  LET scc == {frames[f] : f \in leader..Len(frames)}
  IN  /\ sf' = [s \in Subgoals |-> IF s \in scc THEN mark_as_completed(sf[s]) ELSE sf[s]]
      /\ frames' = SubSeq(frames, 1, leader - 1)
      /\ leaders' = Older(leaders, leader)
      /\ sched_heap' = Older(sched_heap, leader)

(* With no answer to return, check_complete fails to the previous SCC. *)
SetupReturnFromLeader ==
  LET generator == cps[breg]
  IN  IF sf[Checked].answers = <<>>
        THEN breg' = generator.prev /\ UNCHANGED <<at, cps>>
        ELSE AnswerFromTrie(Checked, generator.cont, generator.prev,
                            Max({generator.prev, bfreg'}) + 1)

CompleteScc ==
  /\ CheckingComplete /\ OwnSchedule.first = 0 /\ IsLeader
  /\ SccSchedule.chain = 0
  /\ CompleteSimplifyAndReclaim(FrameOf(Checked))
  /\ reclaim_stacks
  /\ SetupReturnFromLeader
  /\ UNCHANGED <<program, todo, got>>

(* The generator of a subgoal that is no leader becomes a consumer. *)
makeConsumerFromGenerator ==
  /\ CheckingComplete /\ OwnSchedule.first = 0 /\ ~ IsLeader
  /\ cps' = [OwnSchedule.stack EXCEPT ![breg].kind = "consumer", ![breg].ret = 0,
                                      ![breg].look = OwnSchedule.head]
  /\ sf' = [sf EXCEPT ![Checked].pos_cons = breg]
  /\ breg' = cps[breg].prev
  /\ UNCHANGED <<program, todo, got, bfreg, root_address, frames, leaders, sched_heap, at>>
--------------------------------------------------------------------------
Finished == todo = <<>>
Idle == Finished /\ UNCHANGED vars

Step ==
  \/ CallNew \/ CallCompleted \/ CallIncomplete
  \/ IgnoreAnswer \/ NewAnswer \/ AnswerQuery
  \/ NextClause \/ AnswerReturn \/ TrieAnswer \/ NextQuery
  \/ ScheduleOwnConsumers \/ ScheduleScc \/ CompleteScc \/ makeConsumerFromGenerator

Next == Step \/ Idle

(* The engine goes on until the queries are finished: WF_vars(Step), with  *)
(* ENABLED Step written out.  That Step is enabled until then is checked   *)
(* as the absence of deadlock, and only Step changes vars.                 *)
Fairness == []<>Finished \/ []<><<TRUE>>_vars

Spec == Init /\ [][Next]_vars /\ Fairness
--------------------------------------------------------------------------
(* The ground rules of a program: every way in which a clause can run.     *)
Extend(S, l) ==
  {[val |-> l.step[<<ry[1].val, ry[2]>>], body |-> ry[1].body \cup {<<l.goal, ry[2]>>}] :
     ry \in {q \in S \X Values : <<q[1].val, q[2]>> \in DOMAIN l.step}}

Runs(clause) ==
  LET runs[k \in 0..Len(clause.body)] ==
        IF k = 0 THEN {[val |-> clause.start, body |-> {}]}
        ELSE Extend(runs[k - 1], clause.body[k])
  IN  runs
RunsOf(clause) == Runs(clause)[Len(clause.body)]

RulesOf(p) ==
  UNION {UNION {{[head |-> <<s, r.val>>, body |-> r.body] : r \in RunsOf(c)} :
                  c \in Range(Programs[p][s])} : s \in Subgoals}

(* A ground subgoal has no answer but Truth.                               *)
ASSUME GroundAssumption ==
  \A p \in DOMAIN Programs : \A r \in RulesOf(p) :
    r.head[1] \in Ground => r.head[2] = Truth

(* The least model, after as many rounds as there are atoms. *)
LeastModel(p) ==
  LET rules == RulesOf(p)
      model[n \in Nat] ==
        IF n = 0 THEN {}
        ELSE LET known == model[n - 1]
             IN  {r.head : r \in {q \in rules : q.body \subseteq known}}
  IN  model[Cardinality(Subgoals \X Values)]
TrueAtoms == UNION {{p} \X LeastModel(p) : p \in DOMAIN Programs}

ModelOf(s) == {v \in Values : <<program, <<s, v>>>> \in TrueAtoms}
Answers(s) == Range(sf[s].answers)

Tables == INSTANCE TableCompletion
            WITH rules <- RulesOf(program),
                 called <- {s \in Subgoals : sf[s].exists},
                 answers <- [s \in Subgoals |-> Answers(s)],
                 done <- {s \in Subgoals : is_completed(s)}
--------------------------------------------------------------------------
(* PROPERTIES *)

ChoicePoint ==
  [kind : {"generator", "consumer", "trie"}, goal : Subgoals, pc : Nat,
   cont : [root : Subgoals \cup {NoGoal}, clause : Nat, lit : Nat, val : Values],
   prev : Nat, bf : Nat, look : Nat, ret : Nat, left : SUBSET Values]

(* Types of the registers, the frames and the choice points. *)
TypeOK ==
  /\ program \in DOMAIN Programs
  /\ got \subseteq Values
  /\ cps \in Seq(ChoicePoint)
  /\ {breg, bfreg, root_address} \subseteq 0..Len(cps)
  /\ \A s \in Subgoals : sf[s].answers \in Seq(Values) /\ sf[s].pos_cons \in 0..Len(cps)
  /\ Range(frames) \subseteq Subgoals
  /\ leaders \subseteq DOMAIN frames /\ sched_heap \subseteq DOMAIN frames

(* The tables are opened, filled and completed as TableCompletion allows:  *)
(* no SCC is closed while a clause of it can still add an answer.          *)
ImplementsTables == Tables!Spec

(* A completed table holds every answer that the program has for it. *)
CompletedHasAll == \A s \in Subgoals : is_completed(s) => Answers(s) = ModelOf(s)

(* When a query has failed back to the user he has been given each answer. *)
QueryAnswered ==
  at = Failed /\ breg = 0 /\ todo # <<>> => got = ModelOf(Head(todo))

(* The list of consumers of an open subgoal holds live ones of that        *)
(* subgoal, each once and on the frozen part of the stack, where nothing   *)
(* overwrites them; sched_answers reads their root, which is a table.      *)
ConsumersFrozen ==
  \A s \in Subgoals : sf[s].exists /\ ~ is_completed(s) =>
    LET list == Consumers(cps, sf[s].pos_cons)
    IN  /\ IsInjective(list)
        /\ \A c \in Range(list) :
             /\ c <= bfreg
             /\ cps[c].kind = "consumer" /\ cps[c].goal = s /\ cps[c].cont.root # NoGoal

(* A call of a tabled subgoal returns to the user, whatever recursion the  *)
(* program has.                                                            *)
Terminates == <>Finished
==========================================================================
