-------------------------- MODULE LeastRecentlyUsed --------------------------
(* What a cache of the most recently used keys promises to its clients:    *)
(* every request but an uncached one makes its key the last used, and      *)
(* MaxSize keys are remembered.                                            *)
EXTENDS Naturals, Sequences

CONSTANTS Clients, Keys, Uncached, MaxSize

VARIABLES
    order,     \* the cached keys, last used first
    client     \* per client, whether it waits for an answer, and for which key

vars == <<order, client>>

\* The cached keys without k.
Others(k) ==
    LET i == CHOOSE j \in DOMAIN order : order[j] = k
    IN  IF \E j \in DOMAIN order : order[j] = k
          THEN [j \in 1..Len(order) - 1 |-> IF j < i THEN order[j] ELSE order[j + 1]]
          ELSE order

Newest(s) == SubSeq(s, 1, IF Len(s) < MaxSize THEN Len(s) ELSE MaxSize)

Ask(c, k) ==
    /\ client[c].state = "idle"
    /\ client' = [client EXCEPT ![c] = [state |-> "waiting", key |-> k]]
    /\ UNCHANGED order

Serve(c) ==
    LET k == client[c].key IN
    /\ client[c].state = "waiting"
    /\ client' = [client EXCEPT ![c].state = "served"]
    /\ order' = IF k \in Uncached THEN order ELSE Newest(<<k>> \o Others(k))

Leave(c) ==
    /\ client[c].state = "served"
    /\ client' = [client EXCEPT ![c].state = "idle"]
    /\ UNCHANGED order

Init ==
    /\ order = <<>>
    /\ client \in [Clients -> {[state |-> "idle", key |-> k] : k \in Keys}]

Next == \E c \in Clients : (\E k \in Keys : Ask(c, k)) \/ Serve(c) \/ Leave(c)

Spec == Init /\ [][Next]_vars
==============================================================================
