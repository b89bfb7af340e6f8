---------------------------- MODULE MCGroupSync -----------------------------
(* GroupSync for TLC: two peers. *)
EXTENDS GroupSync

Both == {1, 2}

Case(old, who, step, late, lost, n, c) ==
  [old_done |-> old, writers |-> who, in_step |-> step, wait_out |-> late, lose_answer |-> lost,
   writes |-> n, crashes |-> c]

\* A key is written again and again; requests are late and answers get lost; all
\* servers are new; only the second one has its old data; peers lag behind.
AnyJoin ==
  {Case(Both, {2}, TRUE, FALSE, FALSE, 3, 2),
   Case(Both, Both, TRUE, TRUE, TRUE, 1, 1),
   Case({}, Both, TRUE, TRUE, TRUE, 1, 1),
   Case({2}, {1}, TRUE, TRUE, FALSE, 3, 1),
   Case(Both, Both, FALSE, FALSE, TRUE, 1, 1)}

\* The same with a single write, at least one peer having its old data.
AnyEnd ==
  {Case(old, {1}, TRUE, TRUE, TRUE, 1, 1) : old \in SUBSET Both \ {{}}}

\* The first server asks late.
LateFirst == {Case(Both, {1}, TRUE, TRUE, FALSE, 2, 0)}
=============================================================================
