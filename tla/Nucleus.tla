------------------------------ MODULE Nucleus ------------------------------
(* The phase 2 nucleus of MultiPandOS: the scheduler, the system calls and *)
(* the interrupt handlers, run by every CPU on the shared kernel state.    *)
(*                                                                         *)
(* Grain.  Everything a handler does between ACQUIRE_LOCK and RELEASE_LOCK *)
(* is one step, enabled while the lock is free.  Every access made outside *)
(* the lock that another CPU can observe is a step of its own.  killTree   *)
(* holds the lock for one step per PCB that it removes.                    *)
EXTENDS Integers, FiniteSets, Sequences, SequencesExt

CONSTANTS CPU,       \* processor ids (getPRID)
          PCB,       \* the entries of pcbFree_table (MAXPROC of them)
          Sem,       \* addresses that processes hand to PASSEREN and VERHOGEN
          Dev,       \* the device numbers of one interrupt line
          CLOCK,     \* the pseudo-clock entry of device_semaphores
          NULL,
          Services,  \* the system calls that the workload issues
          Liberties  \* the rules of conduct that the workload may break

Conduct == {"overcommit", "shareddevice"}

ASSUME CpuAssumption == CPU \subseteq Nat /\ CPU # {} /\ NULL \notin CPU
ASSUME PcbAssumption == IsFiniteSet(PCB) /\ PCB # {} /\ NULL \notin PCB
ASSUME DevAssumption == Dev \subseteq Nat /\ NULL \notin Dev
ASSUME KeyAssumption == /\ CLOCK \notin Sem \cup Dev
                        /\ Sem \cap Dev = {}
                        /\ NULL \notin Sem \cup {CLOCK}
ASSUME LibertiesAssumption == Liberties \subseteq Conduct

VARIABLES
  lock,          \* holder of global_lock, NULL when it is 0
  process_count,
  ready,         \* ready_queue
  current,       \* current_process[prid]
  semq,          \* the s_procq of each active semaphore, <<>> when it has none
  semAdd,        \* p_semAdd
  val,           \* the integer at each semaphore address
  parent,        \* p_parent
  pcbFree,       \* pcbFree_h
  saved,         \* p_s holds the state with which the process has to go on
  dev,           \* status of each device
  irt,           \* the CPU to which the interrupt of each device is routed
  cpu,           \* where each CPU is, and the local variables of its handler
  intact         \* history: no process has been killed while another CPU had it

lists  == <<ready, semq, semAdd, pcbFree, parent, process_count>>
devs   == <<dev, irt>>
kernel == <<lists, current, saved, val, lock>>
vars   == <<lists, current, saved, val, lock, devs, cpu, intact>>

Key   == Sem \cup Dev \cup {CLOCK}
Live  == PCB \ pcbFree
NoDev == -1

\* Locations with a live local process pointer, and the others.
Handlers == {"create", "term", "termpid", "test1", "test2", "block", "pass",
             "clockwait", "doio"}
Window   == {"save", "clear"}
Killing  == {"kill", "killpid"}
Location == Handlers \cup Window \cup Killing
            \cup {"sched", "load", "run", "idle", "trapped", "irq", "cmd", "halted", "wild"}

Local(l, p, k, v, x) ==
  [pc |-> l, caller |-> p, sem |-> k, at |-> v, victim |-> x]
Locals == [pc : Location, caller : PCB \cup {NULL}, sem : Key \cup {NULL, NoDev},
           at : {0, 1}, victim : PCB \cup {NULL}]
Forget(l, p)   == Local(l, p, NULL, 0, NULL)
Enter(c, l, p) == cpu' = [cpu EXCEPT ![c] = Forget(l, p)]
Move(c, l)     == cpu' = [cpu EXCEPT ![c].pc = l]

\* A fault under the lock: control never comes back to release it.
Fault(c) == lock' = c /\ Move(c, "wild")

\* Faulty variants: the test of current_process[prid] is forgotten.
AfterInterrupt_schedules(c) == Enter(c, "sched", NULL)
AfterInterrupt_resumes(c)   == Enter(c, "run", cpu[c].caller)

\* After an interrupt the CPU goes on with what it was doing if it has a
\* process, and calls the scheduler if it has none.
AfterInterrupt(c) ==
  IF current[c] = NULL THEN Enter(c, "sched", NULL)
  ELSE IF cpu[c].caller = NULL THEN Enter(c, "wild", NULL)
  ELSE Enter(c, "run", cpu[c].caller)

-----------------------------------------------------------------------------
\* main(): one process in the ready queue, every CPU about to schedule.
Init ==
  \E first \in PCB, v \in [Sem -> {0, 1}] :
    /\ lock = NULL
    /\ process_count = 1
    /\ ready = <<first>>
    /\ current = [c \in CPU |-> NULL]
    /\ semq = [k \in Key |-> <<>>]
    /\ semAdd = [p \in PCB |-> NULL]
    /\ val = v
    /\ parent = [p \in PCB |-> NULL]
    /\ pcbFree = PCB \ {first}
    /\ saved = [p \in PCB |-> TRUE]
    /\ dev = [d \in Dev |-> "idle"]
    /\ irt = [d \in Dev |-> CHOOSE c \in CPU : TRUE]
    /\ cpu = [c \in CPU |-> Forget("sched", NULL)]
    /\ intact = TRUE

-----------------------------------------------------------------------------
(* The scheduler *)

\* Faulty variant: the process that was queued last comes first.
Dispatch_last(c) ==
  /\ cpu[c].pc = "sched" /\ lock = NULL
  /\ ready # <<>>
  /\ ready' = Front(ready)
  /\ current' = [current EXCEPT ![c] = Last(ready)]
  /\ Enter(c, "load", Last(ready))
  /\ UNCHANGED <<lock, process_count, semq, semAdd, val, parent, pcbFree, saved, devs>>

Dispatch(c) ==
  /\ cpu[c].pc = "sched" /\ lock = NULL
  /\ ready # <<>>
  /\ ready' = Tail(ready)
  /\ current' = [current EXCEPT ![c] = Head(ready)]
  /\ Enter(c, "load", Head(ready))
  /\ UNCHANGED <<lock, process_count, semq, semAdd, val, parent, pcbFree, saved, devs>>

\* LDST(&pcb->p_s), after the lock has been released.
Load(c) ==
  /\ cpu[c].pc = "load"
  /\ saved' = [saved EXCEPT ![cpu[c].caller] = FALSE]
  /\ Move(c, "run")
  /\ UNCHANGED <<lists, current, val, lock, devs>>

Wait(c) ==
  /\ cpu[c].pc = "sched" /\ lock = NULL
  /\ ready = <<>> /\ process_count # 0
  /\ Enter(c, "idle", NULL)
  /\ UNCHANGED <<kernel, devs>>

\* Faulty variant: process_count is not looked at.
Halt_idle(c) ==
  /\ cpu[c].pc = "sched" /\ lock = NULL /\ ready = <<>>
  /\ Enter(c, "halted", NULL)
  /\ UNCHANGED <<kernel, devs>>

Halt(c) ==
  /\ cpu[c].pc = "sched" /\ lock = NULL
  /\ ready = <<>> /\ process_count = 0
  /\ Enter(c, "halted", NULL)
  /\ UNCHANGED <<kernel, devs>>

-----------------------------------------------------------------------------
(* The workload: a running process issues a system call.  The handler      *)
(* reads current_process[prid] outside the lock.                           *)

Request(c, l, k, v, x) ==
  /\ cpu[c].pc = "run"
  /\ cpu' = [cpu EXCEPT ![c] = Local(l, current[c], k, v, x)]
  /\ UNCHANGED <<kernel, devs>>

\* Unless told otherwise the workload never has more than MAXPROC processes.
CallCreate(c) ==
  /\ "CREATEPROCESS" \in Services
  /\ \/ process_count + Cardinality({i \in CPU : cpu[i].pc = "create"})
          < Cardinality(PCB)
     \/ "overcommit" \in Liberties
  /\ Request(c, "create", NULL, 0, NULL)

CallTerm(c) == "TERMPROCESS" \in Services /\ Request(c, "term", NULL, 0, NULL)

CallTermPid(c) ==
  /\ "TERMPID" \in Services
  /\ \E x \in Live : Request(c, "termpid", NULL, 0, x)

CallP(c) ==
  "PASSEREN" \in Services /\ \E s \in Sem : Request(c, "test1", s, 0, NULL)

CallV(c) ==
  "VERHOGEN" \in Services /\ \E s \in Sem : Request(c, "test1", s, 1, NULL)

\* Unless told otherwise one process at a time uses a device: the workload
\* guards every device with a semaphore of its own.
CallDoIO(c) ==
  /\ "DOIO" \in Services
  /\ \E d \in Dev :
       /\ \/ /\ semq[d] = <<>> /\ dev[d] = "idle"
             /\ \A i \in CPU : cpu[i].pc \in {"doio", "cmd"} => cpu[i].sem # d
          \/ "shareddevice" \in Liberties
       /\ Request(c, "doio", d, 0, NULL)

CallClockWait(c) ==
  "CLOCKWAIT" \in Services /\ Request(c, "clockwait", CLOCK, 0, NULL)

\* A program trap of a process with no support structure: passUpOrDie reads
\* the current process under the lock and later kills its tree.
ProgramTrap(c) ==
  /\ "TRAP" \in Services /\ cpu[c].pc = "run" /\ lock = NULL
  /\ Enter(c, IF current[c] = NULL THEN "wild" ELSE "term", current[c])
  /\ UNCHANGED <<kernel, devs>>

-----------------------------------------------------------------------------
(* CREATEPROCESS.  With no free PCB the handler returns with the lock held *)
(* and without resuming the caller.                                        *)

Create(c) ==
  /\ cpu[c].pc = "create" /\ lock = NULL
  /\ \E p \in pcbFree :
       /\ pcbFree' = pcbFree \ {p}
       /\ ready' = Append(ready, p)
       /\ parent' = [parent EXCEPT ![p] = cpu[c].caller]
       /\ semAdd' = [semAdd EXCEPT ![p] = NULL]
       /\ saved' = [saved EXCEPT ![p] = TRUE]
  /\ process_count' = process_count + 1
  /\ Move(c, "run")
  /\ UNCHANGED <<lock, current, semq, val, devs>>

CreateFails(c) ==
  /\ cpu[c].pc = "create" /\ lock = NULL
  /\ pcbFree = {}
  /\ Fault(c)
  /\ UNCHANGED <<lists, current, saved, val, devs>>

-----------------------------------------------------------------------------
(* PASSEREN and VERHOGEN are one another's mirror image: "at" is the value *)
(* on which the call blocks, 0 for P and 1 for V, and the value it leaves  *)
(* behind when it passes and nobody waits.  *semaddr is read twice, both   *)
(* times outside the lock.                                                 *)

FirstTest(c) ==
  /\ cpu[c].pc = "test1"
  /\ Move(c, IF val[cpu[c].sem] = cpu[c].at THEN "block" ELSE "test2")
  /\ UNCHANGED <<kernel, devs>>

\* Faulty variant: the second test repeats the first one.
SecondTest_repeats(c) ==
  /\ cpu[c].pc = "test2"
  /\ Move(c, IF val[cpu[c].sem] = cpu[c].at THEN "pass" ELSE "wild")
  /\ UNCHANGED <<kernel, devs>>

\* When neither test succeeds the handler falls through.
SecondTest(c) ==
  /\ cpu[c].pc = "test2"
  /\ Move(c, IF val[cpu[c].sem] # cpu[c].at THEN "pass" ELSE "wild")
  /\ UNCHANGED <<kernel, devs>>

\* Faulty variant: the failure of insertBlocked, that nobody looks at.
InsertBlocked_fails(k, p) == UNCHANGED <<semq, semAdd>>

InsertBlocked(k, p) ==
  /\ semq' = [semq EXCEPT ![k] = Append(@, p)]
  /\ semAdd' = [semAdd EXCEPT ![p] = k]

\* The queue gets current_process[prid], read again under the lock.
Block(c) ==
  /\ cpu[c].pc = "block" /\ lock = NULL
  /\ IF current[c] = NULL
       THEN Fault(c) /\ UNCHANGED <<semq, semAdd>>
       ELSE InsertBlocked(cpu[c].sem, current[c]) /\ Move(c, "save") /\ UNCHANGED lock
  /\ UNCHANGED <<process_count, ready, current, val, parent, pcbFree, saved, devs>>

\* Faulty variants: headBlocked for removeBlocked, and the wrong end of the queue.
Wake_peeks(k) == ready' = Append(ready, Head(semq[k])) /\ UNCHANGED semq
Wake_last(k) ==
  /\ semq' = [semq EXCEPT ![k] = Front(@)]
  /\ ready' = Append(ready, Last(semq[k]))

\* removeBlocked followed by insertProcQ on the ready queue.
Wake(k) ==
  /\ semq' = [semq EXCEPT ![k] = Tail(@)]
  /\ ready' = Append(ready, Head(semq[k]))

\* Faulty variants: the value is counted, is set although a process has been
\* woken, or is set without a look at the queue.
Release_counts(s, at) ==
  \/ semq[s] # <<>> /\ Wake(s) /\ UNCHANGED val
  \/ semq[s] = <<>> /\ UNCHANGED <<semq, ready>>
     /\ val' = [val EXCEPT ![s] = IF at = 1 THEN @ + 1 ELSE @ - 1]
Release_sets(s, at) ==
  /\ val' = [val EXCEPT ![s] = at]
  /\ IF semq[s] = <<>> THEN UNCHANGED <<semq, ready>> ELSE Wake(s)
Release_silent(s, at) == val' = [val EXCEPT ![s] = at] /\ UNCHANGED <<semq, ready>>

\* The value changes only when there is no process to wake.
Release(s, at) ==
  \/ semq[s] # <<>> /\ Wake(s) /\ UNCHANGED val
  \/ semq[s] = <<>> /\ val' = [val EXCEPT ![s] = at] /\ UNCHANGED <<semq, ready>>

Pass(c) ==
  /\ cpu[c].pc = "pass" /\ lock = NULL
  /\ Release(cpu[c].sem, cpu[c].at)
  /\ Enter(c, "run", cpu[c].caller)
  /\ UNCHANGED <<lock, process_count, current, semAdd, parent, pcbFree, saved, devs>>

ClockWait(c) ==
  /\ cpu[c].pc = "clockwait" /\ lock = NULL
  /\ IF cpu[c].caller = NULL
       THEN Fault(c) /\ UNCHANGED <<semq, semAdd>>
       ELSE InsertBlocked(CLOCK, cpu[c].caller) /\ Move(c, "save") /\ UNCHANGED lock
  /\ UNCHANGED <<process_count, ready, current, val, parent, pcbFree, saved, devs>>

\* Faulty variant: caller->p_s = *state is forgotten.
Save_forgets(c) ==
  /\ cpu[c].pc = "save"
  /\ Move(c, IF cpu[c].caller = NULL THEN "wild" ELSE "clear")
  /\ UNCHANGED <<lists, current, saved, val, lock, devs>>

\* blocksys: the state is saved outside the lock, after the insertion.
Save(c) ==
  /\ cpu[c].pc = "save"
  /\ IF cpu[c].caller = NULL
       THEN Move(c, "wild") /\ UNCHANGED saved
       ELSE Move(c, "clear") /\ saved' = [saved EXCEPT ![cpu[c].caller] = TRUE]
  /\ UNCHANGED <<lists, current, val, lock, devs>>

Clear(c) ==
  /\ cpu[c].pc = "clear" /\ lock = NULL
  /\ current' = [current EXCEPT ![c] = NULL]
  /\ Enter(c, "sched", NULL)
  /\ UNCHANGED <<lists, saved, val, lock, devs>>

\* Faulty variant: caller->p_s = *state is forgotten in the copy of blocksys.
DoIO_forgets(c) ==
  /\ cpu[c].pc = "doio" /\ lock = NULL
  /\ InsertBlocked(cpu[c].sem, cpu[c].caller)
  /\ current' = [current EXCEPT ![c] = NULL]
  /\ Move(c, "cmd")
  /\ UNCHANGED <<lock, process_count, ready, saved, val, parent, pcbFree, devs>>

\* DOIO does the whole of blocksys under the lock ...
DoIO(c) ==
  /\ cpu[c].pc = "doio" /\ lock = NULL
  /\ LET p == cpu[c].caller IN
     IF p = NULL
       THEN Fault(c) /\ UNCHANGED <<semq, semAdd, saved, current>>
       ELSE /\ InsertBlocked(cpu[c].sem, p)
            /\ saved' = [saved EXCEPT ![p] = TRUE]
            /\ current' = [current EXCEPT ![c] = NULL]
            /\ Move(c, "cmd") /\ UNCHANGED lock
  /\ UNCHANGED <<process_count, ready, val, parent, pcbFree, devs>>

\* ... and writes the command register as its last access.  A device that
\* is busy ignores the command.
Command(c) ==
  /\ cpu[c].pc = "cmd"
  /\ dev' = [dev EXCEPT ![cpu[c].sem] = IF @ = "idle" THEN "busy" ELSE @]
  /\ Enter(c, "sched", NULL)
  /\ UNCHANGED <<kernel, irt>>

-----------------------------------------------------------------------------
(* TERMPROCESS.  A process and its descendants are removed one by one, the *)
(* children of a PCB before the PCB, with the lock held all along.         *)

\* The least set that holds r and the children of its members.
Subtree(tree, r) ==
  {p \in PCB : \A S \in SUBSET PCB :
     (r \in S /\ \A q \in PCB : tree[q] \in S => q \in S) => p \in S}

\* The first half of killTree(r): outChild(r), then down to the leaves.
StartKill(c, r, l) ==
  /\ lock' = c
  /\ parent' = [parent EXCEPT ![r] = NULL]
  /\ cpu' = [cpu EXCEPT ![c].pc = l, ![c].victim = r]

\* findProcessByPid dereferences the entries of current_process up to the
\* one of p, those of idle CPUs included.
NullEntryBefore(p) ==
  \E i \in CPU : current[i] = NULL /\ \A j \in CPU : j < i => current[j] # p

Term(c) ==
  /\ cpu[c].pc = "term" /\ lock = NULL
  /\ IF cpu[c].caller = NULL
       THEN Enter(c, "sched", NULL) /\ UNCHANGED <<lock, parent>>
       ELSE StartKill(c, cpu[c].caller, "kill")
  /\ UNCHANGED <<process_count, ready, current, semq, semAdd, val, pcbFree, saved, devs>>

TermPid(c) ==
  /\ cpu[c].pc = "termpid" /\ lock = NULL
  /\ IF cpu[c].victim = NULL
       THEN Enter(c, "run", cpu[c].caller) /\ UNCHANGED <<lock, parent>>
       ELSE StartKill(c, cpu[c].victim, "killpid")
  /\ UNCHANGED <<process_count, ready, current, semq, semAdd, val, pcbFree, saved, devs>>

\* The fault is one outcome of the dereference, a word that is nobody's pid
\* is the other.
SearchFaults(c) ==
  /\ \/ /\ cpu[c].pc = "termpid" /\ lock = NULL
        /\ NullEntryBefore(cpu[c].victim)
     \/ /\ cpu[c].pc = "killpid" /\ cpu[c].victim = NULL
        /\ cpu[c].caller = NULL \/ NullEntryBefore(cpu[c].caller)
  /\ Fault(c)
  /\ UNCHANGED <<lists, current, saved, val, devs>>

\* The queues and current_process let go of p.
Detach(p) ==
  /\ semq' = [k \in Key |-> IF k = semAdd[p] THEN RemoveFirst(semq[k], p) ELSE semq[k]]
  /\ ready' = RemoveFirst(ready, p)
  /\ current' = [i \in CPU |->
       IF current[i] = p /\ \A j \in CPU : j < i => current[j] # p THEN NULL ELSE current[i]]

\* A pid that another CPU is about to search for is gone.
Forgotten(c, p) ==
  [i \in CPU |-> IF (i = c \/ cpu[i].pc = "termpid") /\ cpu[i].victim = p
                   THEN [cpu[i] EXCEPT !.victim = NULL] ELSE cpu[i]]

\* Faulty variant: process_count is decremented for the root only.
RemovePcb_once(c, p) ==
  /\ Detach(p)
  /\ process_count' = process_count - (IF p = cpu[c].victim THEN 1 ELSE 0)
  /\ pcbFree' = pcbFree \cup {p}
  /\ parent' = [parent EXCEPT ![p] = NULL]
  /\ cpu' = Forgotten(c, p)

RemovePcb(c, p) ==
  /\ Detach(p)
  /\ process_count' = process_count - 1
  /\ pcbFree' = pcbFree \cup {p}
  /\ parent' = [parent EXCEPT ![p] = NULL]
  /\ cpu' = Forgotten(c, p)

\* Faulty variant: the children of the victim are left to themselves.
KillOne_root(c) ==
  /\ cpu[c].pc \in Killing /\ cpu[c].victim # NULL
  /\ RemovePcb(c, cpu[c].victim)
  /\ UNCHANGED <<lock, semAdd, val, saved, devs>>

KillOne(c) ==
  /\ cpu[c].pc \in Killing /\ cpu[c].victim # NULL
  /\ \E p \in Subtree(parent, cpu[c].victim) :
       /\ \A q \in PCB : parent[q] # p
       /\ RemovePcb(c, p)
  /\ UNCHANGED <<lock, semAdd, val, saved, devs>>

\* Faulty variant: RELEASE_LOCK is missing when the caller is gone.
EndKill_keeps(c) ==
  /\ cpu[c].pc \in Killing /\ cpu[c].victim = NULL
  /\ IF cpu[c].pc = "killpid" /\ cpu[c].caller \in Live
       THEN lock' = NULL /\ Enter(c, "run", cpu[c].caller)
       ELSE Enter(c, "sched", NULL) /\ UNCHANGED lock
  /\ UNCHANGED <<lists, current, saved, val, devs>>

\* The caller goes on if it was not one of the victims.
EndKill(c) ==
  /\ cpu[c].pc \in Killing /\ cpu[c].victim = NULL
  /\ IF cpu[c].pc = "killpid" /\ cpu[c].caller \in Live
       THEN Enter(c, "run", cpu[c].caller)
       ELSE Enter(c, "sched", NULL)
  /\ lock' = NULL
  /\ UNCHANGED <<lists, current, saved, val, devs>>

-----------------------------------------------------------------------------
(* Interrupts, taken by a CPU that runs a process or waits.                *)

Interruptible(c) == cpu[c].pc \in {"run", "idle"}

\* Faulty variant: every CPU takes the interrupt.
TakeInterrupt_shared(c) ==
  /\ Interruptible(c)
  /\ \E d \in Dev : dev[d] = "done"
  /\ Move(c, "trapped")
  /\ UNCHANGED <<kernel, devs>>

TakeInterrupt(c) ==
  /\ Interruptible(c)
  /\ \E d \in Dev : dev[d] = "done" /\ irt[d] = c
  /\ Move(c, "trapped")
  /\ UNCHANGED <<kernel, devs>>

\* getDevNo: the lowest pending device of the line, read outside the lock.
IsDevNo(d) ==
  IF d = NoDev THEN \A e \in Dev : dev[e] # "done"
  ELSE dev[d] = "done" /\ \A e \in Dev : dev[e] = "done" => d <= e

ReadBitmap(c) ==
  /\ cpu[c].pc = "trapped"
  /\ \E d \in Dev \cup {NoDev} :
       IsDevNo(d) /\ cpu' = [cpu EXCEPT ![c].pc = "irq", ![c].sem = d]
  /\ UNCHANGED <<kernel, devs>>

\* Faulty variants: nobody is woken, or a waiter of the line's first device.
Unblock_none(k) == UNCHANGED <<semq, ready>>
Unblock_first(k) ==
  LET d == CHOOSE d \in Dev : \A e \in Dev : d <= e IN
    IF semq[d] = <<>> THEN UNCHANGED <<semq, ready>> ELSE Wake(d)

\* A waiter that is found is woken.
Unblock(k) ==
  IF semq[k] = <<>> THEN UNCHANGED <<semq, ready>> ELSE Wake(k)

\* ACK and V on the device semaphore.  A busy device ignores the ACK.  With
\* NoDev the handler serves the last device of the line before this one.
ServeInterrupt(c) ==
  /\ cpu[c].pc = "irq" /\ lock = NULL
  /\ IF cpu[c].sem = NoDev
       THEN UNCHANGED <<dev, semq, ready>>
       ELSE /\ dev' = [dev EXCEPT ![cpu[c].sem] = IF @ = "done" THEN "idle" ELSE @]
            /\ Unblock(cpu[c].sem)
  /\ AfterInterrupt(c)
  /\ UNCHANGED <<lock, process_count, current, semAdd, val, parent, pcbFree, saved, irt>>

\* The processor local timer: the end of a time slice.
Preempt(c) ==
  /\ cpu[c].pc = "run" /\ lock = NULL
  /\ IF current[c] = NULL
       THEN UNCHANGED <<saved, ready>>
       ELSE /\ saved' = [saved EXCEPT ![current[c]] = TRUE]
            /\ ready' = Append(ready, current[c])
  /\ current' = [current EXCEPT ![c] = NULL]
  /\ Enter(c, "sched", NULL)
  /\ UNCHANGED <<lock, process_count, semq, semAdd, val, parent, pcbFree, devs>>

\* Faulty variant: a CPU that waits takes the tick and wakes nobody.
Tick_busy(c) ==
  /\ Interruptible(c) /\ lock = NULL
  /\ IF current[c] = NULL THEN UNCHANGED <<semq, ready>>
     ELSE ready' = ready \o semq[CLOCK] /\ semq' = [semq EXCEPT ![CLOCK] = <<>>]
  /\ AfterInterrupt(c)
  /\ UNCHANGED <<lock, process_count, current, semAdd, val, parent, pcbFree, saved, devs>>

\* The interval timer: everybody who waits for the clock is woken.
Tick(c) ==
  /\ Interruptible(c) /\ lock = NULL
  /\ ready' = ready \o semq[CLOCK]
  /\ semq' = [semq EXCEPT ![CLOCK] = <<>>]
  /\ AfterInterrupt(c)
  /\ UNCHANGED <<lock, process_count, current, semAdd, val, parent, pcbFree, saved, devs>>

\* A device completes its command and its interrupt is routed to some CPU.
Complete(d) ==
  /\ dev[d] = "busy"
  /\ dev' = [dev EXCEPT ![d] = "done"]
  /\ \E c \in CPU : irt' = [irt EXCEPT ![d] = c]
  /\ UNCHANGED <<kernel, cpu>>

-----------------------------------------------------------------------------
Schedule(c) == Dispatch(c) \/ Load(c) \/ Wait(c) \/ Halt(c)
Call(c)     == \/ CallCreate(c) \/ CallTerm(c) \/ CallTermPid(c) \/ CallP(c)
               \/ CallV(c) \/ CallDoIO(c) \/ CallClockWait(c) \/ ProgramTrap(c)
Handle(c)   == \/ Create(c) \/ CreateFails(c) \/ FirstTest(c) \/ SecondTest(c)
               \/ Block(c) \/ Pass(c) \/ ClockWait(c) \/ Save(c) \/ Clear(c)
               \/ DoIO(c) \/ Command(c) \/ Term(c) \/ TermPid(c)
               \/ SearchFaults(c) \/ KillOne(c) \/ EndKill(c)
Interrupt(c) == \/ TakeInterrupt(c) \/ ReadBitmap(c) \/ ServeInterrupt(c)
                \/ Preempt(c) \/ Tick(c)

\* The CPUs that lose their process to a killTree which another CPU begins in
\* this step.  The code goes on all the same: the victim is freed while its
\* CPU executes it or is about to save it.
Struck ==
  {i \in CPU : \E c \in CPU \ {i} :
     /\ cpu[c].pc \notin Killing /\ cpu'[c].pc \in Killing
     /\ current[i] \in Subtree(parent, cpu'[c].victim)}
Track == intact' = (intact /\ Struck = {})

\* HALT stops the machine, the other CPUs with it.
Halted == \E c \in CPU : cpu[c].pc = "halted"

Runs ==
  /\ ~Halted
  /\ \/ \E c \in CPU : Schedule(c) \/ Call(c) \/ Handle(c) \/ Interrupt(c)
     \/ \E d \in Dev : Complete(d)
  /\ Track
Stays == Halted /\ UNCHANGED vars

Next == Runs \/ Stays

Spec == Init /\ [][Next]_vars

Going(A) == ~Halted /\ A /\ Track

\* A CPU keeps executing the nucleus.  The local timer of a CPU runs on while
\* its process comes and goes through system calls, and the interval timer is
\* reloaded at each interrupt: neither is put off for ever.
Fairness ==
  /\ \A c \in CPU :
       /\ WF_vars(Going(Schedule(c))) /\ WF_vars(Going(Handle(c)))
       /\ WF_vars(Going(ReadBitmap(c))) /\ WF_vars(Going(ServeInterrupt(c)))
       /\ SF_vars(Going(TakeInterrupt(c))) /\ SF_vars(Going(Preempt(c)))
  /\ SF_vars(Going(\E c \in CPU : Tick(c)))
  /\ \A d \in Dev : WF_vars(Going(Complete(d)))

FairSpec == Spec /\ Fairness

-----------------------------------------------------------------------------
(* Properties.  A killTree looks at no other CPU: what it takes from one     *)
(* that is executing it is freed under its feet, and may be allocated again *)
(* while it still runs.  Most properties are therefore claimed until that   *)
(* happens (intact), which also says that nothing else can break them.      *)

\* Types of the variables.
TypeOK ==
  /\ lock \in CPU \cup {NULL}
  /\ process_count \in Int
  /\ ready \in Seq(PCB)
  /\ current \in [CPU -> PCB \cup {NULL}]
  /\ semq \in [Key -> Seq(PCB)]
  /\ semAdd \in [PCB -> Key \cup {NULL}]
  /\ val \in [Sem -> {0, 1}]
  /\ parent \in [PCB -> PCB \cup {NULL}]
  /\ pcbFree \subseteq PCB
  /\ saved \in [PCB -> BOOLEAN]
  /\ dev \in [Dev -> {"idle", "busy", "done"}]
  /\ irt \in [Dev -> CPU]
  /\ cpu \in [CPU -> Locals]
  /\ intact \in BOOLEAN

Queued(p)    == p \in Range(ready) \/ \E k \in Key : p \in Range(semq[k])
Executing(c) == current[c] # NULL /\ cpu[c].pc \notin Window

InOneList ==
  /\ IsInjective(ready) /\ \A k \in Key : IsInjective(semq[k])
  /\ \A p \in Range(ready) : p \in Live /\ \A k \in Key : p \notin Range(semq[k])
  /\ \A k \in Key : \A p \in Range(semq[k]) : p \in Live /\ semAdd[p] = k
\* A PCB has one p_list: it is a member of at most one of the free list, the
\* ready queue and the semaphore queues, and only once; p_semAdd names the
\* queue of a PCB that waits (removePcb finds it by that).  Only a kill of a
\* process that another CPU has can change that.
OneList == intact => InOneList

InSomePlace ==
  \A p \in Live : Queued(p) \/ \E c \in CPU : Executing(c) /\ current[c] = p
\* A live process is always in a queue or executed by a CPU: no path of a
\* handler (and no step of another CPU between two of its steps) loses it.
NobodyLost == intact => InSomePlace

RunByOne ==
  \A c \in CPU : Executing(c) =>
    /\ current[c] \in Live /\ ~Queued(current[c])
    /\ \A i \in CPU : Executing(i) /\ current[i] = current[c] => i = c
\* A CPU that executes a process is the only one, the process is alive, and
\* it is in no queue from which another CPU could dispatch it.  The one way
\* to break this is a killTree that reaches a process of another CPU.
OneExecutor == intact => RunByOne

CountIsLive == process_count = Cardinality(Live)
\* process_count is the number of the processes that have been created and
\* not yet terminated, whatever the tree that a termination took with it.
CountMatches == intact => CountIsLive

LinksLive ==
  \A p \in PCB : parent[p] # NULL => p \in Live /\ parent[p] \in Live
\* The process tree holds live processes only: no child outlives the removal
\* of its parent, and a PCB that is freed keeps no link into the tree.
TreeIsLive == intact => LinksLive

BareWhenIdle ==
  \A c \in CPU : cpu[c].pc \in {"sched", "idle", "cmd"} => current[c] = NULL
\* A CPU without a process has no current process: an interrupt that finds
\* one resumes a CPU that has nothing to resume.  It takes a kill of what
\* another CPU has as well to leave an entry behind.
IdleHasNoProcess == intact => BareWhenIdle

Valid(c) ==
  LET me == cpu[c] IN
    /\ me.pc \in Handlers \cup Window \cup {"load", "run"} =>
         me.caller # NULL /\ current[c] = me.caller
    /\ me.pc \in {"trapped", "irq"} => current[c] = me.caller
    /\ me.pc \in {"sched", "idle", "cmd", "halted"} => current[c] = NULL
    /\ me.pc = "idle" => me.caller = NULL
    /\ me.pc \in Window => me.caller \in Live
    /\ me.pc \in {"test1", "test2", "block", "pass", "doio", "cmd"} => me.sem \in Key
    /\ me.pc = "irq" => me.sem \in Key \cup {NoDev}
    /\ me.pc = "termpid" /\ me.victim # NULL => me.victim \in Live
    /\ me.pc \in Killing =>
         /\ lock = c /\ me.caller # NULL
         /\ current[c] = (IF me.caller \in Live THEN me.caller ELSE NULL)
         /\ me.pc = "kill" => me.victim = (IF me.caller \in Live THEN me.caller ELSE NULL)
         /\ me.victim # NULL =>
              /\ me.victim \in Live
              /\ \A i \in CPU \ {c} : current[i] \notin Subtree(parent, me.victim)
LocalsHold == \A c \in CPU : Valid(c)
\* What the local variables of a handler say of the shared state: the caller
\* is still the current process and alive, a pid that is searched for is
\* alive, and a killTree has the lock and victims that no other CPU has.  Of
\* all that the other CPUs do between the read and the use, only a kill of a
\* process that this CPU has makes them stale.
LocalsAreValid == intact => LocalsHold

StateIsSaved == \A c \in CPU : cpu[c].pc = "load" => saved[cpu[c].caller]
\* LDST loads the state with which the process left its last CPU.
FreshResume == intact => StateIsSaved

RequestStands ==
  \A d \in Dev : semq[d] # <<>> =>
    \/ dev[d] \in {"busy", "done"}
    \/ \E c \in CPU : cpu[c].pc = "cmd" /\ cpu[c].sem = d
\* Who waits for a device will be answered: the device has the command, or
\* has executed it, or the CPU that issues the command has still to write it.
WaiterIsServed == intact => RequestStands

\* A process that leaves a device's queue for the ready queue does so when
\* the device has completed its command, not before.
WokenByCompletion ==
  [][intact => \A d \in Dev : \A p \in Range(semq[d]) :
       p \in Range(ready') => dev[d] = "done"]_vars

\* getDevNo finds a pending device on the line whose interrupt was taken.
DeviceFound == \A c \in CPU : cpu[c].pc = "irq" => cpu[c].sem # NoDev

HaltAtZero == Halted => Live = {}
\* The machine halts only when every process has terminated.
HaltsWhenDone == intact => HaltAtZero

NoneWild == \A c \in CPU : cpu[c].pc # "wild"
\* No handler falls through, returns to nowhere or dereferences NULL.
NoFault == intact => NoneWild

LockAtKill == lock # NULL => cpu[lock].pc \in Killing
\* The lock is never left behind: between steps only a CPU that is in the
\* middle of a killTree holds it.
LockIsReleased == intact => LockAtKill

\* Round robin: a process in the ready queue is eventually dispatched (or
\* killed), although an idle CPU is not told that the queue has filled.
ReadyRuns ==
  \A p \in PCB : p \in Range(ready) ~> p \notin Range(ready) \/ ~intact

\* A request to a device is eventually answered.
DeviceAnswers ==
  \A d \in Dev, p \in PCB :
    p \in Range(semq[d]) ~> p \notin Range(semq[d]) \/ ~intact

\* A process that waits for the pseudo-clock is eventually woken.
ClockWakes ==
  \A p \in PCB : p \in Range(semq[CLOCK]) ~> p \notin Range(semq[CLOCK]) \/ ~intact

\* When the last process has terminated the machine halts.
HaltsInTheEnd == Live = {} ~> Halted \/ ~intact
=============================================================================
