---------------------------- MODULE TableAbolition ----------------------------
(***************************************************************************)
(* Abolishing tables and their garbage collection, for one thread: the     *)
(* lists through which the engine keeps track of tables that were          *)
(* abolished while a choice point could still return into them             *)
(* (emu/tr_utils.c and the macros of emu/tab_structs.h).                   *)
(*                                                                         *)
(* A table is a subgoal frame.  The frames of a predicate are the leaves   *)
(* of its call trie and are chained from its table info frame (tif).  A    *)
(* table that is abolished while it is used is handed to a deleted table   *)
(* frame (deltf), one for a call trie or one for a subgoal; the deltfs are *)
(* chained twice, all of them and those of a predicate.  Addresses are     *)
(* reused once they are free.                                              *)
(*                                                                         *)
(* Answers, delay lists, incremental and subsumptive tables and            *)
(* transitive abolishing along conditional answers are left out.           *)
(***************************************************************************)
EXTENDS Naturals, FiniteSets, Sequences, SequencesExt

CONSTANTS
    Preds,          \* the tabled predicates
    Goals,          \* what a predicate is called with
    Frames,         \* addresses of subgoal frames
    Tries,          \* addresses of roots of call tries
    DelTFs,         \* addresses of deleted table frames
    None,
    MaxChoices,     \* bound on the choice points
    Workloads       \* what programs call and abolish

ASSUME NoneAssumption == None \notin Frames \cup Tries \cup DelTFs

Calls == Preds \X Goals
PredOf(c) == c[1]

VARIABLES
    workload,    \* the goals that are called, the predicates and the goals
                 \* that are abolished, and whether all tables are at once
    mem,         \* the table space: tif, the call tries as sets of frames,
                 \* sf, dtf and deltf_chain_begin
    cps          \* the choice points of tables, the newest last

vars == <<workload, mem, cps>>

NewTIF == [call_trie |-> None, subgoals |-> None, deltf |-> None, mark |-> FALSE]
FreeSF == [state |-> "free", call |-> None, trie |-> None, next |-> None, prev |-> None,
           deleted |-> FALSE, deltf |-> None]
FreeDTF == [type |-> "free", pred |-> None, trie |-> None, subgoals |-> None, mark |-> FALSE,
            next |-> None, prev |-> None, nextp |-> None, prevp |-> None]

Init ==
  /\ workload \in Workloads
  /\ mem = [tif |-> [p \in Preds |-> NewTIF], trie |-> [t \in Tries |-> {}],
            sf |-> [f \in Frames |-> FreeSF], dtf |-> [d \in DelTFs |-> FreeDTF],
            chain |-> None]
  /\ cps = <<>>
--------------------------------------------------------------------------
(* LISTS *)

(* What a list that starts at first leads to, along a link. *)
Along(link, first) ==
  LET n == Cardinality(DOMAIN link)
      at[k \in 1..n] == IF k = 1 THEN first
                        ELSE IF at[k - 1] = None THEN None ELSE link[at[k - 1]]
  IN  [k \in 1..Cardinality({k \in 1..n : at[k] # None}) |-> at[k]]

Subgoals(m, p) == Along([f \in Frames |-> m.sf[f].next], m.tif[p].subgoals)
Chain(m) == Along([d \in DelTFs |-> m.dtf[d].next], m.chain)
PredChain(m, p) == Along([d \in DelTFs |-> m.dtf[d].nextp], m.tif[p].deltf)

(* The table of a goal: the leaf of the call trie of its predicate. *)
CallTrie(m, p) == IF m.tif[p].call_trie = None THEN {} ELSE m.trie[m.tif[p].call_trie]
Current(m, c) == {f \in CallTrie(m, PredOf(c)) : m.sf[f].call = c}

(* The frames that choice points in answer tries lead to. *)
Used == {cps[i].frame : i \in {i \in DOMAIN cps : cps[i].kind = "answers"}}
UsedPreds == {PredOf(mem.sf[f].call) : f \in Used}

NewProducerSF(m, c, f, t) ==
  LET p == PredOf(c)
      head == m.tif[p].subgoals
  IN  [m EXCEPT !.sf = [x \in Frames |->
                          IF x = f THEN [FreeSF EXCEPT !.state = "incomplete", !.call = c,
                                                       !.trie = t, !.next = head]
                          ELSE IF x = head THEN [m.sf[x] EXCEPT !.prev = f]
                          ELSE m.sf[x]],
                !.tif[p].subgoals = f,
                !.tif[p].call_trie = t,
                !.trie[t] = @ \cup {f}]

(* subg_dll_remove_sf and the release of the frame. *)
FreeProducerSF(m, f) ==
  LET s == m.sf[f]
  IN  [m EXCEPT !.sf = [x \in Frames |->
                          IF x = f THEN FreeSF
                          ELSE [m.sf[x] EXCEPT !.next = IF x = s.prev THEN s.next ELSE @,
                                               !.prev = IF x = s.next THEN s.prev ELSE @]],
                !.tif[PredOf(s.call)].subgoals =
                   IF s.prev = None /\ @ = f THEN s.next ELSE @]

delete_branch(m, f) ==
  LET t == m.sf[f].trie
  IN  [m EXCEPT !.trie[t] = @ \ {f},
                !.tif[PredOf(m.sf[f].call)].call_trie = IF m.trie[t] = {f} THEN None ELSE @]

delete_variant_predicate_table(m, t) ==
  IF t = None THEN m
  ELSE [FoldLeft(FreeProducerSF, m, SetToSeq(m.trie[t])) EXCEPT !.trie[t] = {}]

(* Mutant: the links back to the new deltf are not set. *)
New_DelTF_alone(m, p, type, trie, subgoals, d) ==
  [m EXCEPT !.dtf[d] = [type |-> type, pred |-> p, trie |-> trie, subgoals |-> subgoals,
                        mark |-> FALSE, next |-> m.chain, prev |-> None,
                        nextp |-> m.tif[p].deltf, prevp |-> None],
            !.chain = d,
            !.tif[p].deltf = d]

(* New_DelTF_Pred and New_DelTF_Subgoal *)
New_DelTF(m, p, type, trie, subgoals, d) ==
  LET next == m.chain
      nextp == m.tif[p].deltf
  IN  [m EXCEPT !.dtf = [x \in DelTFs |->
                           IF x = d THEN [type |-> type, pred |-> p, trie |-> trie,
                                          subgoals |-> subgoals, mark |-> FALSE,
                                          next |-> next, prev |-> None,
                                          nextp |-> nextp, prevp |-> None]
                           ELSE [m.dtf[x] EXCEPT !.prev = IF x = next THEN d ELSE @,
                                                 !.prevp = IF x = nextp THEN d ELSE @]],
                !.chain = d,
                !.tif[p].deltf = d]

(* The head of a predicate's chain is replaced by the next frame of the    *)
(* chain of all deltfs.                                                    *)
Free_Global_DelTF(m, d) ==
  LET o == m.dtf[d]
  IN  [m EXCEPT !.dtf = [x \in DelTFs |->
                           IF x = d THEN FreeDTF
                           ELSE [m.dtf[x] EXCEPT !.next = IF x = o.prev THEN o.next ELSE @,
                                                 !.prev = IF x = o.next THEN o.prev ELSE @,
                                                 !.nextp = IF x = o.prevp THEN o.nextp ELSE @,
                                                 !.prevp = IF x = o.nextp THEN o.prevp ELSE @]],
                !.chain = IF o.prev = None THEN o.next ELSE @,
                !.tif[o.pred].deltf = IF o.prevp = None THEN o.next ELSE @]

FreeDelTFs(m) == {d \in DelTFs : m.dtf[d].type = "free"}
--------------------------------------------------------------------------
(* GARBAGE COLLECTION *)

Marked(m, D) ==
  [m EXCEPT !.dtf = [d \in DelTFs |-> [m.dtf[d] EXCEPT !.mark = @ \/ d \in D]]]

(* Mutant: only the newest deltf of the predicate is looked at. *)
mark_deltfs_newest(m, f, root) ==
  LET hits == {d \in {m.tif[PredOf(m.sf[f].call)].deltf} \ {None} : m.dtf[d].trie = root}
  IN  Marked(m, hits \cup {m.sf[f].deltf})

(* mark_deltfs for a choice point in f; root is what the walk up from its  *)
(* leaf in the call trie ends at.                                          *)
mark_deltfs(m, f, root) ==
  LET hits == SelectSeq(PredChain(m, PredOf(m.sf[f].call)), LAMBDA d : m.dtf[d].trie = root)
  IN  Marked(m, (IF hits = <<>> THEN {} ELSE {Head(hits)}) \cup {m.sf[f].deltf})

mark_tabled_preds(m, root) ==
  FoldLeft(LAMBDA a, f : mark_deltfs(a, f, root[f]), m, SetToSeq(Used))

(* Mutant: a deltf is freed without what it holds. *)
Sweep_frame(m, d) ==
  IF m.dtf[d].mark THEN [m EXCEPT !.dtf[d].mark = FALSE] ELSE Free_Global_DelTF(m, d)

(* Mutant: marks stay. *)
Sweep_marks_stay(m, d) ==
  LET o == m.dtf[d]
  IN  IF o.mark THEN m
      ELSE Free_Global_DelTF(IF o.type = "pred"
                               THEN delete_variant_predicate_table(m, o.trie)
                               ELSE FreeProducerSF(m, o.subgoals), d)

(* One deltf of sweep_tabled_preds, with reclaim_deleted_predicate_table.  *)
Sweep(m, d) ==
  LET o == m.dtf[d]
  IN  IF o.mark THEN [m EXCEPT !.dtf[d].mark = FALSE]
      ELSE Free_Global_DelTF(IF o.type = "pred"
                               THEN delete_variant_predicate_table(m, o.trie)
                               ELSE FreeProducerSF(m, o.subgoals), d)

gc_tabled_preds(m, root) ==
  LET marked == mark_tabled_preds(m, root)
  IN  FoldLeft(Sweep, marked, Chain(marked))

(* The leaf of a subgoal whose branch was deleted is freed memory: the     *)
(* walk up from there may end anywhere.                                    *)
Roots == {root \in [Used -> Tries] :
            \A f \in Used : f \in mem.trie[mem.sf[f].trie] => root[f] = mem.sf[f].trie}

GC ==
  /\ workload.preds \cup workload.subgoals # {}
  /\ \E root \in Roots : mem' = gc_tabled_preds(mem, root)
  /\ UNCHANGED <<workload, cps>>
--------------------------------------------------------------------------
(* CALLS *)

(* A goal without a table gets one, and its evaluation begins. *)
CallNew(c) ==
  /\ c \in workload.calls /\ Len(cps) < MaxChoices
  /\ Current(mem, c) = {}
  /\ \E f \in Frames, t \in Tries :
       /\ mem.sf[f].state = "free"
       /\ \/ t = mem.tif[PredOf(c)].call_trie
          \/ CallTrie(mem, PredOf(c)) = {} /\ mem.trie[t] = {}
       /\ mem' = NewProducerSF(mem, c, f, t)
       /\ cps' = Append(cps, [kind |-> "generator", frame |-> f])
  /\ UNCHANGED workload

(* A goal with a completed table returns its answers. *)
CallComplete(c) ==
  /\ c \in workload.calls /\ Len(cps) < MaxChoices
  /\ \E f \in Current(mem, c) :
       /\ mem.sf[f].state = "complete"
       /\ cps' = Append(cps, [kind |-> "answers", frame |-> f])
  /\ UNCHANGED <<workload, mem>>

(* The newest generator completes and returns the answers it found. *)
Complete ==
  /\ cps # <<>> /\ Last(cps).kind = "generator"
  /\ mem' = [mem EXCEPT !.sf[Last(cps).frame].state = "complete"]
  /\ cps' = [cps EXCEPT ![Len(cps)].kind = "answers"]
  /\ UNCHANGED workload

(* The last answer is returned, or the choice point is cut. *)
Leave ==
  /\ cps # <<>> /\ Last(cps).kind = "answers"
  /\ cps' = Front(cps)
  /\ UNCHANGED <<workload, mem>>
--------------------------------------------------------------------------
(* ABOLISHING *)

(* A deltf of a subgoal gives way to that of its predicate; the predicate  *)
(* is left without tables.                                                 *)
check_insert_deltf_pred(m, p, d) ==
  LET walk == PredChain(m, p)
      tif == m.tif[p]
      found == \E i \in DOMAIN walk : /\ m.dtf[walk[i]].type = "pred"
                                      /\ m.dtf[walk[i]].trie = tif.call_trie
                                      /\ m.dtf[walk[i]].subgoals = tif.subgoals
      freed == FoldLeft(Free_Global_DelTF, m, SelectSeq(walk, LAMBDA x : m.dtf[x].type = "subgoal"))
      added == IF found THEN freed
               ELSE New_DelTF(freed, p, "pred", tif.call_trie, tif.subgoals, d)
  IN  [added EXCEPT !.tif[p].call_trie = None, !.tif[p].subgoals = None]

is_completed_table(m, p) == \A f \in Range(Subgoals(m, p)) : m.sf[f].state # "incomplete"

(* mark_cp_tabled_preds and unmark_cp_tabled_preds *)
MarkPreds(m, mark) ==
  [m EXCEPT !.tif = [p \in Preds |-> IF p \in UsedPreds THEN [m.tif[p] EXCEPT !.mark = mark]
                                     ELSE m.tif[p]]]

(* An incomplete table is an error, which leaves the marks. *)
abolish_table_pred(m, p, d) ==
  LET marked == MarkPreds(m, TRUE)
  IN  IF ~ is_completed_table(m, p) THEN marked
      ELSE MarkPreds(
             IF ~ marked.tif[p].mark
               THEN [delete_variant_predicate_table(marked, marked.tif[p].call_trie)
                       EXCEPT !.tif[p].call_trie = None, !.tif[p].subgoals = None]
             ELSE IF marked.tif[p].subgoals = None THEN marked
             ELSE check_insert_deltf_pred(marked, p, d), FALSE)

(* abolish_table_predicate collects garbage first. *)
AbolishPred(p) ==
  /\ p \in workload.preds
  /\ \E root \in Roots :
       LET m == gc_tabled_preds(mem, root)
       IN  \E d \in FreeDelTFs(m) : mem' = abolish_table_pred(m, p, d)
  /\ UNCHANGED <<workload, cps>>

(* The links of the subgoal's neighbours stay as they are. *)
check_insert_deltf_subgoal(m, f, d) ==
  IF m.sf[f].deleted THEN m
  ELSE LET s == m.sf[f]
           prev == IF s.prev = None THEN None ELSE s.next
           next == IF s.next = None THEN None ELSE prev
       IN  [New_DelTF(m, PredOf(s.call), "subgoal", None, f, d)
              EXCEPT !.sf[f] = [s EXCEPT !.deleted = TRUE, !.prev = prev, !.next = next,
                                         !.deltf = d]]

(* abolish_table_call_single; an incomplete table is an error. *)
AbolishCall(c) ==
  /\ c \in workload.subgoals
  /\ \E f \in Current(mem, c), d \in FreeDelTFs(mem) :
       /\ mem.sf[f].state = "complete"
       /\ mem' = IF f \in Used THEN check_insert_deltf_subgoal(delete_branch(mem, f), f, d)
                               ELSE FreeProducerSF(delete_branch(mem, f), f)
  /\ UNCHANGED <<workload, cps>>

(* abolish_all_tables: an error while a table is incomplete or used. *)
AbolishAll ==
  /\ workload.all /\ cps = <<>>
  /\ mem' = [mem EXCEPT !.tif = [p \in Preds |-> [@[p] EXCEPT !.call_trie = None, !.subgoals = None]],
                        !.trie = [t \in Tries |-> {}], !.sf = [f \in Frames |-> FreeSF],
                        !.dtf = [d \in DelTFs |-> FreeDTF], !.chain = None]
  /\ UNCHANGED <<workload, cps>>

Next ==
  \/ \E c \in Calls : CallNew(c) \/ CallComplete(c) \/ AbolishCall(c)
  \/ \E p \in Preds : AbolishPred(p)
  \/ Complete \/ Leave \/ GC \/ AbolishAll

Spec == Init /\ [][Next]_vars
--------------------------------------------------------------------------
(* PROPERTIES *)

Alive == {f \in Frames : mem.sf[f].state # "free"}
Live == UNION {CallTrie(mem, p) : p \in Preds}
OnChain == Range(Chain(mem))
HeldBy(d) ==
  LET o == mem.dtf[d]
  IN  CASE o.type = "subgoal" -> {o.subgoals}
        [] o.trie # None      -> mem.trie[o.trie]
        [] OTHER              -> {}

(* Types, and the two chains of deltfs: they have neither a free frame nor *)
(* a repetition, and the chain of a predicate is that part of the chain of *)
(* all that is about the predicate.                                        *)
ChainsAgree ==
  /\ mem.trie \in [Tries -> SUBSET Frames]
  /\ \A f \in Frames : mem.sf[f].state \in {"free", "incomplete", "complete"}
  /\ {d \in DelTFs : mem.dtf[d].type # "free"} = OnChain
  /\ \A p \in Preds :
       PredChain(mem, p) = SelectSeq(Chain(mem), LAMBDA d : mem.dtf[d].pred = p)

(* No table is lost: a frame that is not free is in the call trie of its   *)
(* predicate or held by a deltf, from which it will be reclaimed.          *)
NothingLost == Alive = Live \cup UNION {HeldBy(d) : d \in OnChain}

(* A table that a choice point returns into, or that is being evaluated,   *)
(* is not reclaimed (the purpose of mark_deltfs).                          *)
InUseKept == \A i \in DOMAIN cps : cps[i].frame \in Alive

(* The collector leaves nothing but what is used. *)
GcReclaims == [][GC => \A d \in OnChain' : HeldBy(d)' \cap Used # {}]_vars

(* Abolishing refines the promise of TableStore. *)
Store == INSTANCE TableStore
  WITH current  <- [c \in Calls |-> IF Current(mem, c) = {} THEN None
                                    ELSE CHOOSE f \in Frames : Current(mem, c) = {f}],
       complete <- {f \in Frames : mem.sf[f].state = "complete"},
       old      <- Alive \ Live,
       used     <- [i \in DOMAIN cps |-> cps[i].frame]
IsTableStore == Store!Spec
===============================================================================
