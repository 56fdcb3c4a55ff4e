-------------------------- MODULE AtomicSemaphore --------------------------
(* What PASSEREN and VERHOGEN promise: on a binary semaphore each call     *)
(* takes effect at one instant.  A call with op = 0 is a P, with op = 1 a  *)
(* V; it blocks when the value is op, otherwise it releases the process    *)
(* that has waited longest or, when nobody waits, sets the value to op.    *)
(* Only a call of another process or its own death takes a process out of  *)
(* a queue.                                                                *)
EXTENDS Naturals, Sequences, SequencesExt

CONSTANTS Proc, Sem

VARIABLES value,  \* the value of each semaphore
          queue,  \* the blocked calls <<process, op>> of each semaphore
          live    \* the processes that exist

vars == <<value, queue, live>>

Init ==
  /\ value \in [Sem -> {0, 1}]
  /\ queue = [s \in Sem |-> <<>>]
  /\ live \subseteq Proc

Blocks(p, s, op) ==
  /\ p \in live /\ value[s] = op
  /\ queue' = [queue EXCEPT ![s] = Append(@, <<p, op>>)]
  /\ UNCHANGED <<value, live>>

Releases(s, op) ==
  /\ value[s] # op /\ queue[s] # <<>>
  /\ queue' = [queue EXCEPT ![s] = Tail(@)]
  /\ UNCHANGED <<value, live>>

Passes(s, op) ==
  /\ value[s] # op /\ queue[s] = <<>>
  /\ value' = [value EXCEPT ![s] = op]
  /\ UNCHANGED <<queue, live>>

Starts(p) ==
  /\ p \notin live /\ live' = live \cup {p}
  /\ UNCHANGED <<value, queue>>

\* A process waits in one call at most.
Terminates(p) ==
  /\ p \in live /\ live' = live \ {p}
  /\ queue' = [s \in Sem |-> RemoveFirst(RemoveFirst(queue[s], <<p, 0>>), <<p, 1>>)]
  /\ UNCHANGED value

Next ==
  \/ \E s \in Sem, op \in {0, 1} :
       \/ \E p \in Proc : Blocks(p, s, op)
       \/ Releases(s, op) \/ Passes(s, op)
  \/ \E p \in Proc : Starts(p) \/ Terminates(p)

Spec == Init /\ [][Next]_vars
=============================================================================
