--------------------------- MODULE MCMessageQueue ---------------------------
(* Small instances of MessageQueue for TLC. *)
EXTENDS MessageQueue, TLC

CONSTANTS p, q, r, a, b, c1, c2, c3

TwoThreads == {p, r}
AllThreads == {p, q, r}
SplitGoals == {{a}, {b}}

(* p and q send, r reads and peeks, p also creates and destroys. *)
TwoSenders == (p :> {"create", "send", "destroy"}) @@ (q :> {"send", "destroy"})
                @@ (r :> {"get", "peek"})
(* p and q send, q and r read. *)
SendersAndReaders == (p :> {"create", "send"}) @@ (q :> {"send", "get"})
                       @@ (r :> {"get", "destroy"})

(* p sends and destroys, r reads, q reads, peeks or sends. *)
Mixed == (p :> {"create", "send", "destroy"}) @@ (q :> {"get", "peek", "send"})
           @@ (r :> {"get"})
(* p creates and destroys, r reads and is signalled. *)
OneReader == (p :> {"create", "send", "destroy"}) @@ (r :> {"get"})

TermSymmetry == Permutations(Terms) \cup Permutations(Cells)
=============================================================================
