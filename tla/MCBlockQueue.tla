---------------------------- MODULE MCBlockQueue -----------------------------
(* Instances of BlockQueue for TLC. *)
EXTENDS BlockQueue, TLC

SymmetricHeads == Permutations(Heads)

Request(type, sector, count, value, layout) ==
    [type |-> type, sector |-> sector, count |-> count, value |-> value, layout |-> layout]

\* Two sectors: reads, writes that fit, that overlap and that pass the end, in
\* both layouts, and requests that get no answer.
Mixture == {
    Request("in", 0, 2, "none", "split"), Request("in", 1, 1, "none", "joined"),
    Request("out", 0, 2, "a", "joined"), Request("out", 1, 1, "b", "joined"),
    Request("out", 1, 2, "a", "joined"), Request("out", 0, 2, "b", "split"),
    Request("other", 0, 0, "none", "split")}

\* For the passage of requests, one of each fate.
Fates == {
    Request("out", 0, 1, "a", "joined"), Request("other", 0, 0, "none", "split"),
    Request("in", 0, 1, "none", "mixed"), Request("in", 0, 1, "none", "short")}

\* The writes of the two layouts.
Writes == {Request("out", 0, 2, "a", "joined"), Request("out", 0, 1, "b", "split")}
=============================================================================
