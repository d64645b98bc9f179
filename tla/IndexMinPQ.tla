----------------------------- MODULE IndexMinPQ -----------------------------
(***************************************************************************)
(* The indexed binary heap of libadbmdns (client/adbmdns/index_min_pq.rs): *)
(* the mDNS stack keeps in it the resource records that need attention.    *)
(*                                                                         *)
(* A queue is a record: data, the heap laid out as an array, and index,    *)
(* where in the array each item is.  Items are records whose field key     *)
(* identifies them and whose field attention is what they are ordered by.  *)
(* Array positions count from 1 here and from 0 in the source.             *)
(***************************************************************************)
EXTENDS Integers, Sequences, FiniteSets, TLC

EmptyPQ == [data |-> <<>>, index |-> <<>>]

\* cmp_attention: the one that needs attention first is the smaller
Less(i, j) == i.attention < j.attention

\* Exchanges two places of the array and their entries of the index
swap(pq, i, j) ==
    [data  |-> [pq.data EXCEPT ![i] = pq.data[j], ![j] = pq.data[i]],
     index |-> (pq.data[j].key :> i) @@ (pq.data[i].key :> j) @@ pq.index]

\* Moves an item up while it is smaller than its parent
RECURSIVE swim(_, _)
swim(pq, i) ==
    IF i > 1 /\ Less(pq.data[i], pq.data[i \div 2])
    THEN swim(swap(pq, i, i \div 2), i \div 2)
    ELSE pq

\* A plausible slip: only the left child is looked at
smallest_left(data, i) ==
    LET l == 2 * i IN IF l <= Len(data) /\ Less(data[l], data[i]) THEN l ELSE i

\* The child an item has to be exchanged with, or the item itself
smallest(data, i) ==
    LET l  == 2 * i
        r  == 2 * i + 1
        s1 == IF l <= Len(data) /\ Less(data[l], data[i]) THEN l ELSE i
    IN IF r <= Len(data) /\ Less(data[r], data[i]) /\ Less(data[r], data[s1]) THEN r ELSE s1

\* Moves an item down while one of its children is smaller
RECURSIVE sink(_, _)
sink(pq, i) ==
    LET s == smallest(pq.data, i) IN IF s = i THEN pq ELSE sink(swap(pq, i, s), s)

\* Inserts an item, or replaces the one of the same key and restores the order
push(pq, item) ==
    IF item.key \in DOMAIN pq.index
    THEN LET i   == pq.index[item.key]
             new == [pq EXCEPT !.data[i] = item]
         IN IF Less(item, pq.data[i]) THEN swim(new, i)
            ELSE IF Less(pq.data[i], item) THEN sink(new, i) ELSE new
    ELSE LET n == Len(pq.data) + 1
         IN swim([data |-> Append(pq.data, item), index |-> (item.key :> n) @@ pq.index], n)

peek(pq) == Head(pq.data)

\* The queue without its first item: the last one takes its place and sinks
popped(pq) ==
    LET n     == Len(pq.data)
        last  == swap(pq, 1, n)
        gone  == last.data[n].key
        rest  == [data  |-> SubSeq(last.data, 1, n - 1),
                  index |-> [k \in DOMAIN last.index \ {gone} |-> last.index[k]]]
    IN IF n = 1 THEN rest ELSE sink(rest, 1)

\* The array is a heap and the index says where each item is
IsHeap(pq) ==
    /\ \A i \in 2 .. Len(pq.data) : ~Less(pq.data[i], pq.data[i \div 2])
    /\ DOMAIN pq.index = {pq.data[i].key : i \in 1 .. Len(pq.data)}
    /\ \A i \in 1 .. Len(pq.data) : pq.index[pq.data[i].key] = i
=============================================================================
