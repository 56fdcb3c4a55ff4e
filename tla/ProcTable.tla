----------------------------- MODULE ProcTable -----------------------------
(* What pcb.c and asl.c promise to the nucleus: a pool of PCBs, a ready    *)
(* queue, one FIFO queue for each semaphore address, and a tree.           *)
EXTENDS Integers, FiniteSets, Sequences

CONSTANTS PCB, Key, NULL, NCPU

VARIABLES free, ready, blocked, parent, running

vars == <<free, ready, blocked, parent, running>>

Init ==
  \E first \in PCB :
    /\ free = PCB \ {first}
    /\ ready = <<first>>
    /\ blocked = [k \in Key |-> <<>>]
    /\ parent = [p \in PCB |-> NULL]
    /\ running = {}

Create(p) ==
  /\ p \in running
  /\ \E new \in free :
       /\ free' = free \ {new}
       /\ ready' = Append(ready, new)
       /\ parent' = [parent EXCEPT ![new] = p]
  /\ UNCHANGED <<blocked, running>>

Dispatch ==
  /\ ready # <<>> /\ Cardinality(running) < NCPU
  /\ running' = running \cup {Head(ready)}
  /\ ready' = Tail(ready)
  /\ UNCHANGED <<free, blocked, parent>>

Preempt(p) ==
  /\ p \in running
  /\ running' = running \ {p}
  /\ ready' = Append(ready, p)
  /\ UNCHANGED <<free, blocked, parent>>

Block(p, k) ==
  /\ p \in running
  /\ running' = running \ {p}
  /\ blocked' = [blocked EXCEPT ![k] = Append(@, p)]
  /\ UNCHANGED <<free, ready, parent>>

Wake(k) ==
  /\ blocked[k] # <<>>
  /\ blocked' = [blocked EXCEPT ![k] = Tail(@)]
  /\ ready' = Append(ready, Head(blocked[k]))
  /\ UNCHANGED <<free, parent, running>>

Descendants(r) ==
  {p \in PCB : \A S \in SUBSET PCB :
     (r \in S /\ \A q \in PCB : parent[q] \in S => q \in S) => p \in S}

\* r holds the elements of the queue q that are not in S, in their order.
Without(r, q, S) ==
  /\ r \in Seq(PCB)
  /\ {r[i] : i \in DOMAIN r} = {q[i] : i \in DOMAIN q} \ S
  /\ \A i, j \in DOMAIN r : i < j => \E a, b \in DOMAIN q : a < b /\ q[a] = r[i] /\ q[b] = r[j]

\* A process goes with its descendants, wherever they are.
Kill(r) ==
  /\ r \notin free
  /\ LET killed == Descendants(r) IN
       /\ free' = free \cup killed
       /\ Without(ready', ready, killed)
       /\ DOMAIN blocked' = Key /\ \A k \in Key : Without(blocked'[k], blocked[k], killed)
       /\ parent' = [p \in PCB |-> IF p \in killed THEN NULL ELSE parent[p]]
       /\ running' = running \ killed

Next ==
  \/ \E p \in PCB : Create(p) \/ Preempt(p) \/ Kill(p) \/ \E k \in Key : Block(p, k)
  \/ Dispatch
  \/ \E k \in Key : Wake(k)

Spec == Init /\ [][Next]_vars
=============================================================================
