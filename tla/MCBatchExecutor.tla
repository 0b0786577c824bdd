--------------------------- MODULE MCBatchExecutor ---------------------------
(* The batches submitted in the runs, and the symmetry of calls.           *)
EXTENDS BatchExecutor, TLC

Intent(t, id, part) == [key |-> <<t, id>>, part |-> part]
Batch(route, intents) == [route |-> route, intents |-> intents]

(* A plain batch, one that shares an intent with it, and batches the
   routes refuse at once. *)
MCPlain == {Batch("batch", <<Intent(1, "a", "other"), Intent(1, "b", "other")>>),
            Batch("batch", <<Intent(1, "a", "other")>>),
            Batch("batch", <<>>),
            Batch("cross", <<Intent(1, "a", "other")>>)}

(* A settlement, a trade over the same intents' ids and a linked pair. *)
MCCoordinated ==
    {Batch("settle", <<Intent(1, "s", "settle"), Intent(1, "v", "value")>>),
     Batch("trade", <<Intent(2, "v", "value"), Intent(1, "s", "settle")>>),
     Batch("cross", <<Intent(2, "x", "other"), Intent(1, "x", "other")>>)}

MCBatches == MCPlain \cup MCCoordinated

Symmetry == Permutations(Callers) \cup Permutations(Payloads)
=============================================================================
