--------------------------- MODULE NucleusHistory ---------------------------
(* The nucleus with two history variables about the semaphores of the      *)
(* processes, and what they show of PASSEREN and VERHOGEN.                 *)
EXTENDS Nucleus

VARIABLES
  want,   \* for a process that has blocked in a P or a V: the "at" of the call
  credit  \* initial value + completed V - completed P, kept within -1 .. 2

hvars == <<vars, want, credit>>

Weight(at) == IF at = 1 THEN 1 ELSE -1
Clip(n)    == IF n > 2 THEN 2 ELSE IF n < -1 THEN -1 ELSE n

HInit == Init /\ want = [p \in PCB |-> 0] /\ credit = val

\* The call of c has blocked in this step.
Blocked(c) == cpu[c].pc = "block" /\ cpu'[c].pc = "save"

\* The call of c on s has completed in this step, and with it the call of
\* the process it has woken.
Completed(c, s) == cpu[c].pc = "pass" /\ cpu'[c].pc = "run" /\ cpu[c].sem = s
Gain(c, s) ==
  Weight(cpu[c].at) + (IF semq[s] = <<>> THEN 0 ELSE Weight(want[Head(semq[s])]))

HNext ==
  /\ Next
  /\ want' = [p \in PCB |->
       IF \E c \in CPU : Blocked(c) /\ current[c] = p
         THEN cpu[CHOOSE c \in CPU : Blocked(c)].at ELSE want[p]]
  /\ credit' = [s \in Sem |->
       IF \E c \in CPU : Completed(c, s)
         THEN Clip(credit[s] + Gain(CHOOSE c \in CPU : Completed(c, s), s))
         ELSE credit[s]]

HSpec == HInit /\ [][HNext]_hvars

\* The completed calls of a semaphore account for its value at every moment,
\* those of the processes that were woken included.
CreditConserved == credit = val

\* P and V on a semaphore that starts at 1 enclose a critical section: the
\* completed P never exceed the initial value and the completed V.
MutualExclusion == \A s \in Sem : credit[s] >= 0

\* Nobody waits for what is already there: a P waits only while the value is
\* 0 and a V only while it is 1.
NoLostWakeup ==
  \A s \in Sem : \A p \in Range(semq[s]) : want[p] = val[s]

\* The calls, with their reads outside the lock and a process that is in the
\* queue before its state is saved, are atomic.
Atomic == \* the abstract specification under its refinement mapping
  INSTANCE AtomicSemaphore WITH
    Proc <- PCB, value <- val, live <- Live,
    queue <- [s \in Sem |-> [i \in 1 .. Len(semq[s]) |-> <<semq[s][i], want[semq[s][i]]>>]]
AtomicCalls == Atomic!Spec
=============================================================================
