---------------------------- MODULE MCToolBatch ----------------------------
(* TLC instances of ToolBatch: batches of calls and the workers among them. *)
EXTENDS ToolBatch

CONSTANTS a, b, c, w, x

\* a tool, a worker with a call of its own, and two tools, which have to
\* wait where there are two slots
MixedBatch == <<a, w, b, c>>
MixedInside == [v \in {w} |-> <<x>>]

\* two tools
PairBatch == <<a, b>>
PairInside == [v \in {} |-> <<>>]

\* a worker alone
WorkerBatch == <<w>>
WorkerInside == [v \in {w} |-> <<x>>]
=============================================================================
