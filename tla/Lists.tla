------------------------------- MODULE Lists -------------------------------
(* The circular doubly linked lists of listx.h.  A heap of list_head cells *)
(* is a record of two functions, next and prev; a list is known by its     *)
(* sentinel cell.                                                          *)
EXTENDS Integers, FiniteSets, Sequences

INIT_LIST_HEAD(h, n) == [h EXCEPT !.next[n] = n, !.prev[n] = n]

\* __list_add: "new" goes between two neighbours.
AddBetween(h, new, prev, next) ==
  [h EXCEPT !.prev[next] = new, !.next[new] = next, !.prev[new] = prev, !.next[prev] = new]

list_add(h, new, head)      == AddBetween(h, new, head, h.next[head])
list_add_tail(h, new, head) == AddBetween(h, new, h.prev[head], head)

\* Faulty variant: the cell that follows keeps its old prev.
list_del_half(h, n) == INIT_LIST_HEAD([h EXCEPT !.next[h.prev[n]] = h.next[n]], n)

\* __list_del, then the cell is made a list of its own.
list_del(h, n) ==
  INIT_LIST_HEAD([h EXCEPT !.prev[h.next[n]] = h.prev[n], !.next[h.prev[n]] = h.next[n]], n)

list_empty(h, head) == h.next[head] = head

\* list_for_each: the cells of a list in the order in which it visits them.
Walk(h, head) ==
  LET visit[i \in Nat] == IF i = 0 THEN head ELSE h.next[visit[i - 1]] IN visit

Cells(h, head) ==
  LET visit == Walk(h, head)
      end == CHOOSE n \in 1 .. Cardinality(DOMAIN h.next) :
               visit[n] = head /\ \A m \in 1 .. n - 1 : visit[m] # head
  IN  [i \in 1 .. end - 1 |-> visit[i]]

\* next and prev are each other's inverse: every walk closes.
Linked(h) == \A n \in DOMAIN h.next : h.prev[h.next[n]] = n /\ h.next[h.prev[n]] = n
=============================================================================
