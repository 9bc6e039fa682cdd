------------------------------ MODULE ListHead ------------------------------
(***************************************************************************)
(* Circular doubly linked lists (core/list.h).  m is the memory of the     *)
(* list_head structs: m[n] has the pointers next and prev of node n.  Each *)
(* operator makes its assignments in the order of the code, because the    *)
(* nodes it is given may be the same.                                      *)
(***************************************************************************)
EXTENDS Integers, Sequences

NULLP == <<"NULL", 0>>     \* other nodes are pairs of a field and an index
Zeroed == [next |-> NULLP, prev |-> NULLP]

INIT_LIST_HEAD(m, list) == [m EXCEPT ![list] = [next |-> list, prev |-> list]]

list_ensure_init(m, list) == IF m[list].next = NULLP THEN INIT_LIST_HEAD(m, list) ELSE m

list_empty(m, head) == m[head].next = NULLP \/ m[head].next = head

\* _list_add: put new between a and b.
list_add_between(m, new, a, b) ==
    [m EXCEPT ![a].next = new, ![new].prev = a, ![new].next = b, ![b].prev = new]

list_add(m, new, head) ==
    LET i == list_ensure_init(m, head)
    IN  list_add_between(i, new, head, i[head].next)

list_add_tail(m, new, head) ==
    LET i == list_ensure_init(m, head)
    IN  list_add_between(i, new, i[head].prev, head)

\* Bug: the next item keeps its pointer to the item.
list_del_half(m, item) == [m EXCEPT ![m[item].prev].next = m[item].next, ![item] = Zeroed]
list_del(m, item) ==
    LET a == [m EXCEPT ![m[item].prev].next = m[item].next]
        b == [a EXCEPT ![a[item].next].prev = a[item].prev]
    IN  [b EXCEPT ![item] = Zeroed]

\* "if (item.next && item.prev) list_del(item)", as the kernel calls it.
list_del_linked(m, item) ==
    IF m[item].next # NULLP /\ m[item].prev # NULLP THEN list_del(m, item) ELSE m

list_rotate_left(m, head) ==
    IF list_empty(m, head) THEN m
    ELSE LET first == m[head].next
         IN  list_add(list_del(m, head), head, first)

list_first(m, head) == m[head].next
list_last(m, head) == m[head].prev

\* The nodes a cursor passes that starts at the head and follows step until it
\* is back at the head; at most as many steps as there are nodes.
Passed(step, head, bound) ==
    LET at[k \in 0 .. bound] == IF k = 0 THEN head
                                ELSE IF at[k - 1] = NULLP THEN NULLP
                                ELSE step[at[k - 1]]
        ends == {k \in 1 .. bound : at[k] = head \/ at[k] = NULLP}
    IN  IF ends = {} THEN at
        ELSE [j \in 1 .. (CHOOSE k \in ends : \A i \in ends : k <= i) - 1 |-> at[j]]

list_for_each_entry(m, head, bound) == Passed([n \in DOMAIN m |-> m[n].next], head, bound)
list_for_each_entry_prev(m, head, bound) == Passed([n \in DOMAIN m |-> m[n].prev], head, bound)
=============================================================================
