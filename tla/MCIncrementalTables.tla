------------------------- MODULE MCIncrementalTables -------------------------
(* Instances of IncrementalTables: small programs. *)
EXTENDS IncrementalTables, TLC

CONSTANTS f, g, h, a, b, c, one, two

(* a :- f.   b :- a.   b :- c.   c :- g, b.   c :- g. *)
Recursive == (a :> {<<f>>}) @@ (b :> {<<a>>, <<c>>}) @@ (c :> {<<g, b>>, <<g>>})

(* a :- f.   b :- a.   c :- b.   c :- a, g. *)
Layers == (a :> {<<f>>}) @@ (b :> {<<a>>}) @@ (c :> {<<b>>, <<a, g>>})
==============================================================================
