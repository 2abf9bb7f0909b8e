------------------------------- MODULE KeyQueue -------------------------------
(***************************************************************************)
(* The queues of hashicorp's caches, as the policies around them see them: *)
(* sequences of distinct keys, the oldest first.                           *)
(***************************************************************************)
EXTENDS PolicyOps, Sequences

\* Whether k is in the queue.
InQueue(q, k) == \E i \in DOMAIN q : q[i] = k

\* The keys of the queue that are in S, in the order of the queue.
Among(q, S) ==
  LET kept[i \in 0 .. Len(q)] ==
        IF i = 0 THEN <<>>
        ELSE IF q[i] \in S THEN Append(kept[i - 1], q[i]) ELSE kept[i - 1]
  IN  kept[Len(q)]

\* The queue without k.
Unqueued(q, k) == Among(q, Keys \ {k})

=============================================================================
