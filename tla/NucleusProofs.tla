--------------------------- MODULE NucleusProofs ---------------------------
(* The structural invariants of the nucleus hold for every number of CPUs, *)
(* of PCBs, of semaphores and of devices, for every set of services and    *)
(* all liberties, until a process is killed while another CPU has it.      *)
EXTENDS Nucleus, QueueLemmas, FiniteSetTheorems, TLAPS

Inv == /\ TypeOK /\ InOneList /\ InSomePlace /\ RunByOne /\ CountIsLive
       /\ LinksLive /\ LocalsHold

\* What is intact has always been, and no step has struck another CPU.
LEMMA StaysIntact == [Next]_vars /\ intact' => intact /\ (UNCHANGED vars \/ Struck = {})
<1>1. CASE UNCHANGED vars
  BY <1>1 DEF vars
<1>2. CASE Track
  BY <1>2 DEF Track
<1>. QED  BY <1>1, <1>2 DEF Next, Runs, Stays

-----------------------------------------------------------------------------
(* Types *)

\* The semaphore that a handler works on, if it works on one.
SemTyped(c) ==
  /\ cpu[c].pc \in {"test1", "test2", "block", "pass", "doio", "cmd"} => cpu[c].sem \in Key
  /\ cpu[c].pc = "irq" => cpu[c].sem \in Key \cup {NoDev}

LEMMA InitType == Init => TypeOK
<1>. SUFFICES ASSUME Init PROVE TypeOK
  OBVIOUS
<1>1. PICK first \in PCB, v \in [Sem -> {0, 1}] : Init!(first, v)
  BY DEF Init
<1>2. <<first>> \in Seq(PCB) /\ \A k \in Key : <<>> \in Seq(PCB)
  OBVIOUS
<1>3. (CHOOSE c \in CPU : TRUE) \in CPU
  BY CpuAssumption
<1>4. Forget("sched", NULL) \in Locals
  BY DEF Forget, Local, Locals, Location
<1>. QED  BY <1>1, <1>2, <1>3, <1>4 DEF TypeOK

\* The new value of cpu has the right type when the new locals of c have.
LEMMA MoveType ==
  ASSUME TypeOK, NEW c \in CPU, NEW l \in Location
  PROVE  /\ Move(c, l) => cpu' \in [CPU -> Locals]
         /\ \A p \in PCB \cup {NULL} : Enter(c, l, p) => cpu' \in [CPU -> Locals]
<1>1. cpu \in [CPU -> Locals]
  BY DEF TypeOK
<1>2. [cpu[c] EXCEPT !.pc = l] \in Locals
  BY <1>1 DEF Locals
<1>3. \A p \in PCB \cup {NULL} : Forget(l, p) \in Locals
  BY DEF Forget, Local, Locals
<1>. QED  BY <1>1, <1>2, <1>3 DEF Move, Enter

LEMMA ScheduleType ==
  ASSUME TypeOK, intact' \in BOOLEAN, NEW c \in CPU, Schedule(c) PROVE TypeOK'
<1>1. CASE Dispatch(c)
  <2>1. Head(ready) \in PCB /\ Tail(ready) \in Seq(PCB)
    BY <1>1, HeadTailProperties DEF Dispatch, TypeOK
  <2>2. cpu' \in [CPU -> Locals]
    BY <1>1, <2>1, MoveType, "load" \in Location DEF Dispatch, Location
  <2>. QED  BY <1>1, <2>1, <2>2 DEF Dispatch, TypeOK, devs
<1>2. CASE Load(c)
  <2>1. cpu' \in [CPU -> Locals]
    BY <1>2, MoveType, "run" \in Location DEF Load, Location
  <2>. QED  BY <1>2, <2>1 DEF Load, TypeOK, devs, lists
<1>3. CASE Wait(c) \/ Halt(c)
  <2>1. cpu' \in [CPU -> Locals]
    BY <1>3, MoveType, "idle" \in Location, "halted" \in Location DEF Wait, Halt, Location
  <2>. QED  BY <1>3, <2>1 DEF Wait, Halt, TypeOK, kernel, devs, lists
<1>. QED  BY <1>1, <1>2, <1>3 DEF Schedule

\* The lists and the memory of the kernel keep their types when only the
\* locals of a CPU change.
LEMMA LocalType ==
  ASSUME TypeOK, intact' \in BOOLEAN, UNCHANGED <<kernel, devs>>, cpu' \in [CPU -> Locals]
  PROVE  TypeOK'
BY DEF TypeOK, kernel, devs, lists

LEMMA CallType ==
  ASSUME TypeOK, intact' \in BOOLEAN, NEW c \in CPU, Call(c) PROVE TypeOK'
<1>1. ASSUME NEW l \in Location, NEW k \in Key \cup {NULL}, NEW v \in {0, 1},
             NEW x \in PCB \cup {NULL}, Request(c, l, k, v, x)
      PROVE  TypeOK'
  <2>1. Local(l, current[c], k, v, x) \in Locals
    BY DEF Local, Locals, TypeOK
  <2>2. cpu' \in [CPU -> Locals]
    BY <1>1, <2>1 DEF Request, TypeOK
  <2>. QED  BY <1>1, <2>2, LocalType DEF Request
<1>2. /\ {"create", "term", "termpid", "test1", "doio", "clockwait", "wild"} \subseteq Location
      /\ Sem \subseteq Key /\ Dev \subseteq Key /\ CLOCK \in Key
  BY DEF Location, Handlers, Key
<1>3. CASE CallCreate(c) \/ CallTerm(c)
  BY <1>1, <1>2, <1>3 DEF CallCreate, CallTerm
<1>4. CASE CallTermPid(c)
  BY <1>1, <1>2, <1>4 DEF CallTermPid, Live
<1>5. CASE CallP(c) \/ CallV(c)
  BY <1>1, <1>2, <1>5 DEF CallP, CallV
<1>6. CASE CallDoIO(c)
  BY <1>1, <1>2, <1>6 DEF CallDoIO
<1>7. CASE CallClockWait(c)
  BY <1>1, <1>2, <1>7 DEF CallClockWait
<1>8. CASE ProgramTrap(c)
  <2>1. current[c] \in PCB \cup {NULL}
    BY DEF TypeOK
  <2>2. cpu' \in [CPU -> Locals]
    BY <1>2, <1>8, <2>1, MoveType DEF ProgramTrap
  <2>. QED  BY <1>8, <2>2, LocalType DEF ProgramTrap
<1>. QED  BY <1>3, <1>4, <1>5, <1>6, <1>7, <1>8 DEF Call

LEMMA InterruptType ==
  ASSUME TypeOK, intact' \in BOOLEAN, NEW c \in CPU, SemTyped(c), Interrupt(c) PROVE TypeOK'
<1>1. {"sched", "wild", "run", "trapped", "irq"} \subseteq Location
  BY DEF Location
<1>2. cpu \in [CPU -> Locals] /\ cpu[c].caller \in PCB \cup {NULL}
      /\ current[c] \in PCB \cup {NULL}
  BY DEF TypeOK, Locals
<1>3. AfterInterrupt(c) => cpu' \in [CPU -> Locals]
  BY <1>1, <1>2, MoveType DEF AfterInterrupt
<1>4. ASSUME NEW k \in Key, Unblock(k)
      PROVE  ready' \in Seq(PCB) /\ semq' \in [Key -> Seq(PCB)]
  <2>1. semq[k] # <<>> => Head(semq[k]) \in PCB /\ Tail(semq[k]) \in Seq(PCB)
    BY HeadTailProperties DEF TypeOK
  <2>2. ready \in Seq(PCB) /\ semq \in [Key -> Seq(PCB)]
    BY DEF TypeOK
  <2>3. CASE semq[k] = <<>>
    BY <1>4, <2>2, <2>3 DEF Unblock
  <2>4. CASE semq[k] # <<>>
    <3>1. Append(ready, Head(semq[k])) \in Seq(PCB)
      BY <2>1, <2>2, <2>4, AppendProperties
    <3>2. [semq EXCEPT ![k] = Tail(@)] \in [Key -> Seq(PCB)]
      BY <2>1, <2>2, <2>4
    <3>. QED  BY <1>4, <2>4, <3>1, <3>2 DEF Unblock, Wake
  <2>. QED  BY <2>3, <2>4
<1>5. CASE TakeInterrupt(c)
  <2>1. cpu' \in [CPU -> Locals]
    BY <1>1, <1>5, MoveType DEF TakeInterrupt
  <2>. QED  BY <1>5, <2>1, LocalType DEF TakeInterrupt
<1>6. CASE ReadBitmap(c)
  <2>1. PICK d \in Key \cup {NoDev} : cpu' = [cpu EXCEPT ![c].pc = "irq", ![c].sem = d]
    BY <1>6 DEF ReadBitmap, Key
  <2>2. [cpu[c] EXCEPT !.pc = "irq", !.sem = d] \in Locals
    BY <1>1, <1>2 DEF Locals
  <2>3. cpu' \in [CPU -> Locals]
    BY <1>2, <2>1, <2>2
  <2>. QED  BY <1>6, <2>3, LocalType DEF ReadBitmap
<1>7. CASE ServeInterrupt(c)
  <2>1. cpu[c].sem \in Key \cup {NoDev}
    BY <1>7 DEF ServeInterrupt, SemTyped
  <2>2. cpu' \in [CPU -> Locals]
    BY <1>3, <1>7 DEF ServeInterrupt
  <2>3. ready' \in Seq(PCB) /\ semq' \in [Key -> Seq(PCB)]
    BY <1>4, <1>7, <2>1 DEF ServeInterrupt, TypeOK
  <2>4. dev' \in [Dev -> {"idle", "busy", "done"}]
    BY <1>7 DEF ServeInterrupt, TypeOK
  <2>. QED  BY <1>7, <2>2, <2>3, <2>4 DEF ServeInterrupt, TypeOK
<1>8. CASE Preempt(c)
  <2>1. cpu' \in [CPU -> Locals]
    BY <1>1, <1>8, MoveType DEF Preempt
  <2>2. ready' \in Seq(PCB)
    <3>1. ready \in Seq(PCB)  BY DEF TypeOK
    <3>. QED  BY <1>2, <1>8, <3>1, AppendProperties DEF Preempt
  <2>3. saved' \in [PCB -> BOOLEAN] /\ current' \in [CPU -> PCB \cup {NULL}]
    BY <1>8 DEF Preempt, TypeOK
  <2>. QED  BY <1>8, <2>1, <2>2, <2>3 DEF Preempt, TypeOK, devs
<1>9. CASE Tick(c)
  <2>1. ready' \in Seq(PCB)
    BY <1>9, ConcatProperties DEF Tick, TypeOK, Key
  <2>2. semq' \in [Key -> Seq(PCB)]
    <3>1. semq \in [Key -> Seq(PCB)] /\ semq' = [semq EXCEPT ![CLOCK] = <<>>]
      BY <1>9 DEF Tick, TypeOK
    <3>2. <<>> \in Seq(PCB)
      OBVIOUS
    <3>. QED  BY <3>1, <3>2
  <2>3. cpu' \in [CPU -> Locals]
    BY <1>3, <1>9 DEF Tick
  <2>4. UNCHANGED <<lock, process_count, current, semAdd, val, parent, pcbFree, saved, dev, irt>>
    BY <1>9 DEF Tick, devs
  <2>. QED  BY <2>1, <2>2, <2>3, <2>4 DEF TypeOK
<1>. QED  BY <1>5, <1>6, <1>7, <1>8, <1>9 DEF Interrupt

LEMMA HandleType ==
  ASSUME TypeOK, intact' \in BOOLEAN, NEW c \in CPU, SemTyped(c), Handle(c) PROVE TypeOK'
<1>1. Handlers \cup Window \cup Killing \cup {"sched", "run", "cmd", "wild"} \subseteq Location
  BY DEF Location
<1>2. /\ cpu \in [CPU -> Locals] /\ current[c] \in PCB \cup {NULL}
      /\ cpu[c].caller \in PCB \cup {NULL} /\ cpu[c].victim \in PCB \cup {NULL}
  BY DEF TypeOK, Locals
<1>3. Fault(c) => lock' \in CPU \cup {NULL} /\ cpu' \in [CPU -> Locals]
  BY <1>1, MoveType DEF Fault
<1>4. ready \in Seq(PCB) /\ semq \in [Key -> Seq(PCB)]
  BY DEF TypeOK
<1>5. ASSUME NEW k \in Key, NEW p \in PCB, InsertBlocked(k, p)
      PROVE  semq' \in [Key -> Seq(PCB)] /\ semAdd' \in [PCB -> Key \cup {NULL}]
  <2>1. Append(semq[k], p) \in Seq(PCB)
    BY <1>4, AppendProperties
  <2>2. semq' \in [Key -> Seq(PCB)]
    BY <1>4, <1>5, <2>1 DEF InsertBlocked
  <2>3. semAdd' \in [PCB -> Key \cup {NULL}]
    BY <1>5 DEF InsertBlocked, TypeOK
  <2>. QED  BY <2>2, <2>3
<1>6. CASE Create(c)
  <2>1. PICK p \in pcbFree : Create(c)!2!(p)
    BY <1>6 DEF Create
  <2>2. p \in PCB
    BY DEF TypeOK
  <2>3. ready' \in Seq(PCB)
    BY <1>4, <2>1, <2>2, AppendProperties
  <2>4. cpu' \in [CPU -> Locals]
    BY <1>1, <1>6, MoveType DEF Create
  <2>5. parent' \in [PCB -> PCB \cup {NULL}] /\ semAdd' \in [PCB -> Key \cup {NULL}]
        /\ saved' \in [PCB -> BOOLEAN] /\ pcbFree' \subseteq PCB
    BY <1>2, <2>1, <2>2 DEF TypeOK
  <2>6. process_count' \in Int
        /\ UNCHANGED <<lock, current, semq, val, dev, irt>>
    BY <1>6 DEF Create, TypeOK, devs
  <2>. QED  BY <2>3, <2>4, <2>5, <2>6 DEF TypeOK
<1>7. CASE CreateFails(c)
  BY <1>3, <1>7 DEF CreateFails, TypeOK, lists, devs
<1>8. CASE FirstTest(c)
  <2>1. cpu' \in [CPU -> Locals]
    BY <1>1, <1>8, MoveType DEF FirstTest, Handlers
  <2>. QED  BY <1>8, <2>1, LocalType DEF FirstTest
<1>9. CASE SecondTest(c)
  <2>1. cpu' \in [CPU -> Locals]
    BY <1>1, <1>9, MoveType DEF SecondTest, Handlers
  <2>. QED  BY <1>9, <2>1, LocalType DEF SecondTest
<1>10. CASE Block(c)
  <2>1. cpu[c].sem \in Key
    BY <1>10 DEF Block, SemTyped
  <2>2. /\ semq' \in [Key -> Seq(PCB)] /\ semAdd' \in [PCB -> Key \cup {NULL}]
        /\ cpu' \in [CPU -> Locals] /\ lock' \in CPU \cup {NULL}
    <3>1. CASE current[c] = NULL
      BY <1>3, <1>10, <3>1 DEF Block, TypeOK
    <3>2. CASE current[c] # NULL
      <4>1. cpu' \in [CPU -> Locals]
        BY <1>1, <1>10, <3>2, MoveType DEF Block, Window
      <4>. QED  BY <1>2, <1>5, <1>10, <2>1, <3>2, <4>1 DEF Block, TypeOK
    <3>. QED  BY <3>1, <3>2
  <2>3. UNCHANGED <<process_count, ready, current, val, parent, pcbFree, saved, dev, irt>>
    BY <1>10 DEF Block, devs
  <2>. QED  BY <2>2, <2>3 DEF TypeOK
<1>11. CASE ClockWait(c)
  <2>1. CLOCK \in Key
    BY DEF Key
  <2>2. /\ semq' \in [Key -> Seq(PCB)] /\ semAdd' \in [PCB -> Key \cup {NULL}]
        /\ cpu' \in [CPU -> Locals] /\ lock' \in CPU \cup {NULL}
    <3>1. CASE cpu[c].caller = NULL
      BY <1>3, <1>11, <3>1 DEF ClockWait, TypeOK
    <3>2. CASE cpu[c].caller # NULL
      <4>1. cpu' \in [CPU -> Locals]
        BY <1>1, <1>11, <3>2, MoveType DEF ClockWait, Window
      <4>. QED  BY <1>2, <1>5, <1>11, <2>1, <3>2, <4>1 DEF ClockWait, TypeOK
    <3>. QED  BY <3>1, <3>2
  <2>3. UNCHANGED <<process_count, ready, current, val, parent, pcbFree, saved, dev, irt>>
    BY <1>11 DEF ClockWait, devs
  <2>. QED  BY <2>2, <2>3 DEF TypeOK
<1>12. CASE DoIO(c)
  <2>1. cpu[c].sem \in Key
    BY <1>12 DEF DoIO, SemTyped
  <2>2. /\ semq' \in [Key -> Seq(PCB)] /\ semAdd' \in [PCB -> Key \cup {NULL}]
        /\ cpu' \in [CPU -> Locals] /\ lock' \in CPU \cup {NULL}
        /\ current' \in [CPU -> PCB \cup {NULL}] /\ saved' \in [PCB -> BOOLEAN]
    <3>1. CASE cpu[c].caller = NULL
      BY <1>3, <1>12, <3>1 DEF DoIO, TypeOK
    <3>2. CASE cpu[c].caller # NULL
      <4>1. cpu' \in [CPU -> Locals]
        BY <1>1, <1>12, <3>2, MoveType DEF DoIO
      <4>2. semq' \in [Key -> Seq(PCB)] /\ semAdd' \in [PCB -> Key \cup {NULL}]
        BY <1>2, <1>5, <1>12, <2>1, <3>2 DEF DoIO
      <4>. QED  BY <1>12, <3>2, <4>1, <4>2 DEF DoIO, TypeOK
    <3>. QED  BY <3>1, <3>2
  <2>3. UNCHANGED <<process_count, ready, val, parent, pcbFree, dev, irt>>
    BY <1>12 DEF DoIO, devs
  <2>. QED  BY <2>2, <2>3 DEF TypeOK
<1>13. CASE Pass(c)
  <2>1. cpu[c].sem \in Key /\ cpu[c].at \in {0, 1}
    BY <1>2, <1>13 DEF Pass, Release, SemTyped, Locals
  <2>2. cpu' \in [CPU -> Locals]
    BY <1>1, <1>2, <1>13, MoveType DEF Pass, Release
  <2>3. UNCHANGED <<lock, process_count, current, semAdd, parent, pcbFree, saved, dev, irt>>
    BY <1>13 DEF Pass, Release, devs
  <2>4. /\ ready' \in Seq(PCB) /\ semq' \in [Key -> Seq(PCB)]
        /\ val' \in [Sem -> {0, 1}]
    <3>. DEFINE s == cpu[c].sem
    <3>1. val \in [Sem -> {0, 1}]
      BY DEF TypeOK
    <3>2. CASE semq[s] # <<>>
      <4>1. Head(semq[s]) \in PCB /\ Tail(semq[s]) \in Seq(PCB)
        BY <1>4, <2>1, <3>2, HeadTailProperties
      <4>2. Append(ready, Head(semq[s])) \in Seq(PCB)
        BY <1>4, <4>1, AppendProperties
      <4>3. [semq EXCEPT ![s] = Tail(@)] \in [Key -> Seq(PCB)]
        BY <1>4, <2>1, <4>1
      <4>. QED  BY <1>13, <3>1, <3>2, <4>2, <4>3 DEF Pass, Release, Wake
    <3>3. CASE semq[s] = <<>>
      <4>1. val' = [val EXCEPT ![s] = cpu[c].at] /\ UNCHANGED <<semq, ready>>
        BY <1>13, <3>3 DEF Pass, Release
      <4>. QED  BY <1>4, <2>1, <3>1, <4>1
    <3>. QED  BY <3>2, <3>3
  <2>. QED  BY <2>2, <2>3, <2>4 DEF TypeOK
<1>14. CASE Save(c)
  <2>1. cpu' \in [CPU -> Locals]
    BY <1>1, <1>14, MoveType DEF Save, Window
  <2>. QED  BY <1>14, <2>1 DEF Save, TypeOK, lists, devs
<1>15. CASE Clear(c)
  <2>1. cpu' \in [CPU -> Locals]
    BY <1>1, <1>15, MoveType DEF Clear
  <2>. QED  BY <1>15, <2>1 DEF Clear, TypeOK, lists, devs
<1>16. CASE Command(c)
  <2>1. cpu' \in [CPU -> Locals]
    BY <1>1, <1>16, MoveType DEF Command
  <2>2. dev' \in [Dev -> {"idle", "busy", "done"}]
    BY <1>16 DEF Command, TypeOK
  <2>3. UNCHANGED <<lists, current, saved, val, lock, irt>>
    BY <1>16 DEF Command, kernel
  <2>. QED  BY <2>1, <2>2, <2>3 DEF TypeOK, lists
<1>17. ASSUME NEW r \in PCB, NEW l \in Killing, StartKill(c, r, l)
       PROVE  /\ lock' \in CPU /\ parent' \in [PCB -> PCB \cup {NULL}]
              /\ cpu' \in [CPU -> Locals]
  <2>1. [cpu[c] EXCEPT !.pc = l, !.victim = r] \in Locals
    BY <1>1, <1>2 DEF Locals
  <2>. QED  BY <1>2, <1>17, <2>1 DEF StartKill, TypeOK
<1>18. CASE Term(c) \/ TermPid(c)
  <2>1. UNCHANGED <<process_count, ready, current, semq, semAdd, val, pcbFree, saved, dev, irt>>
    BY <1>18 DEF Term, TermPid, devs
  <2>2. \/ \E l \in {"sched", "run"} : \E p \in PCB \cup {NULL} :
               Enter(c, l, p) /\ UNCHANGED <<lock, parent>>
        \/ \E r \in PCB, l \in Killing : StartKill(c, r, l)
    BY <1>2, <1>18 DEF Term, TermPid, Killing
  <2>3. /\ cpu' \in [CPU -> Locals] /\ lock' \in CPU \cup {NULL}
        /\ parent' \in [PCB -> PCB \cup {NULL}]
    BY <1>1, <1>17, <2>2, MoveType DEF TypeOK
  <2>. QED  BY <2>1, <2>3 DEF TypeOK
<1>19. CASE SearchFaults(c)
  BY <1>3, <1>19 DEF SearchFaults, TypeOK, lists, devs
<1>20. CASE EndKill(c)
  <2>1. cpu' \in [CPU -> Locals]
    BY <1>1, <1>2, <1>20, MoveType DEF EndKill
  <2>. QED  BY <1>20, <2>1 DEF EndKill, TypeOK, lists, devs
<1>21. CASE KillOne(c)
  <2>1. PICK p \in PCB : RemovePcb(c, p)
    BY <1>21 DEF KillOne, Subtree
  <2>2. ready' \in Seq(PCB)
    BY <1>4, <2>1, RemoveKeepsType DEF RemovePcb, Detach
  <2>3. semq' \in [Key -> Seq(PCB)]
    <3>1. \A k \in Key : RemoveFirst(semq[k], p) \in Seq(PCB)
      BY <1>4, RemoveKeepsType
    <3>. QED  BY <1>4, <2>1, <3>1 DEF RemovePcb, Detach
  <2>4. cpu' \in [CPU -> Locals]
    <3>1. \A i \in CPU : [cpu[i] EXCEPT !.victim = NULL] \in Locals
      BY <1>2 DEF Locals
    <3>. QED  BY <1>2, <2>1, <3>1 DEF RemovePcb, Forgotten
  <2>5. current' \in [CPU -> PCB \cup {NULL}]
    BY <2>1 DEF RemovePcb, Detach, TypeOK
  <2>6. process_count' \in Int /\ pcbFree' \subseteq PCB /\ parent' \in [PCB -> PCB \cup {NULL}]
    BY <2>1 DEF RemovePcb, TypeOK
  <2>7. UNCHANGED <<lock, semAdd, val, saved, dev, irt>>
    BY <1>21 DEF KillOne, devs
  <2>. QED  BY <2>2, <2>3, <2>4, <2>5, <2>6, <2>7 DEF TypeOK
<1>. QED  BY <1>6, <1>7, <1>8, <1>9, <1>10, <1>11, <1>12, <1>13, <1>14, <1>15, <1>16,
             <1>18, <1>19, <1>20, <1>21 DEF Handle

LEMMA NextType ==
  ASSUME TypeOK, \A c \in CPU : SemTyped(c), [Next]_vars PROVE TypeOK'
<1>1. CASE UNCHANGED vars
  BY <1>1 DEF TypeOK, vars, lists, devs
<1>2. CASE Runs
  <2>. intact' \in BOOLEAN
    BY <1>2 DEF Runs, Track
  <2>1. ASSUME NEW d \in Dev, Complete(d) PROVE TypeOK'
    <3>1. irt' \in [Dev -> CPU] /\ dev' \in [Dev -> {"idle", "busy", "done"}]
      BY <2>1 DEF Complete, TypeOK
    <3>. QED  BY <2>1, <3>1 DEF Complete, TypeOK, kernel, lists
  <2>. QED  BY <1>2, <2>1, ScheduleType, CallType, HandleType, InterruptType DEF Runs
<1>. QED  BY <1>1, <1>2 DEF Next, Stays

-----------------------------------------------------------------------------
(* What Move and Enter leave of the locals *)

LEMMA MoveFacts ==
  ASSUME TypeOK, NEW c \in CPU, NEW l
  PROVE  /\ Move(c, l) =>
              /\ cpu'[c].pc = l /\ cpu'[c].caller = cpu[c].caller
              /\ cpu'[c].sem = cpu[c].sem /\ cpu'[c].victim = cpu[c].victim
              /\ \A i \in CPU \ {c} : cpu'[i] = cpu[i]
         /\ \A p : Enter(c, l, p) =>
              /\ cpu'[c].pc = l /\ cpu'[c].caller = p
              /\ cpu'[c].sem = NULL /\ cpu'[c].victim = NULL
              /\ \A i \in CPU \ {c} : cpu'[i] = cpu[i]
<1>1. cpu \in [CPU -> Locals] /\ cpu[c] \in Locals
  BY DEF TypeOK
<1>. QED  BY <1>1 DEF Move, Enter, Forget, Local, Locals

-----------------------------------------------------------------------------
(* Type correctness does not depend on what is killed *)

\* A CPU that leaves for a location where it works on no semaphore.
LEMMA SemLeft ==
  ASSUME TypeOK, NEW c \in CPU, NEW l,
         l \notin {"test1", "test2", "block", "pass", "doio", "cmd", "irq"}
  PROVE  /\ Move(c, l) => SemTyped(c)' /\ \A i \in CPU \ {c} : cpu'[i] = cpu[i]
         /\ \A p : Enter(c, l, p) => SemTyped(c)' /\ \A i \in CPU \ {c} : cpu'[i] = cpu[i]
<1>1. cpu'[c].pc = l => SemTyped(c)'
  BY DEF SemTyped
<1>2. Move(c, l) => SemTyped(c)' /\ \A i \in CPU \ {c} : cpu'[i] = cpu[i]
  BY <1>1, MoveFacts
<1>3. ASSUME NEW p, Enter(c, l, p)
      PROVE  SemTyped(c)' /\ \A i \in CPU \ {c} : cpu'[i] = cpu[i]
  BY <1>1, <1>3, MoveFacts
<1>. QED  BY <1>2, <1>3

LEMMA ScheduleSem ==
  ASSUME TypeOK, NEW c \in CPU, Schedule(c)
  PROVE  SemTyped(c)' /\ \A i \in CPU \ {c} : cpu'[i] = cpu[i]
BY SemLeft DEF Schedule, Dispatch, Load, Wait, Halt

LEMMA CallSem ==
  ASSUME TypeOK, NEW c \in CPU, Call(c)
  PROVE  SemTyped(c)' /\ \A i \in CPU \ {c} : cpu'[i] = cpu[i]
<1>t. cpu \in [CPU -> Locals]
  BY DEF TypeOK
<1>1. ASSUME NEW l \in {"create", "term", "termpid", "clockwait", "test1", "doio"}, NEW k,
             NEW v, NEW x, l \in {"test1", "doio"} => k \in Key, Request(c, l, k, v, x)
      PROVE  SemTyped(c)' /\ \A i \in CPU \ {c} : cpu'[i] = cpu[i]
  <2>1. cpu'[c].pc = l /\ cpu'[c].sem = k /\ \A i \in CPU \ {c} : cpu'[i] = cpu[i]
    BY <1>t, <1>1 DEF Request, Local
  <2>. QED  BY <1>1, <2>1 DEF SemTyped
<1>2. Sem \subseteq Key /\ Dev \subseteq Key
  BY DEF Key
<1>3. CASE ProgramTrap(c)
  BY <1>3, SemLeft DEF ProgramTrap
<1>4. CASE CallCreate(c) \/ CallTerm(c) \/ CallTermPid(c) \/ CallClockWait(c)
  BY <1>1, <1>4 DEF CallCreate, CallTerm, CallTermPid, CallClockWait
<1>5. CASE CallP(c) \/ CallV(c) \/ CallDoIO(c)
  BY <1>1, <1>2, <1>5 DEF CallP, CallV, CallDoIO
<1>. QED  BY <1>3, <1>4, <1>5 DEF Call

LEMMA HandleSem ==
  ASSUME TypeOK, NEW c \in CPU, SemTyped(c), Handle(c), ~KillOne(c)
  PROVE  SemTyped(c)' /\ \A i \in CPU \ {c} : cpu'[i] = cpu[i]
<1>t. cpu \in [CPU -> Locals]
  BY DEF TypeOK
<1>1. CASE \/ Create(c) \/ CreateFails(c) \/ Block(c) \/ Pass(c) \/ ClockWait(c) \/ Save(c)
           \/ Clear(c) \/ Command(c) \/ SearchFaults(c) \/ EndKill(c)
  BY <1>1, SemLeft DEF Create, CreateFails, Block, Pass, ClockWait, Save, Clear, Command,
                       SearchFaults, EndKill, Fault
<1>2. CASE FirstTest(c) \/ SecondTest(c)
  <2>1. /\ cpu'[c].pc \in {"block", "test2", "pass", "wild"} /\ cpu'[c].sem = cpu[c].sem
        /\ cpu[c].pc \in {"test1", "test2"} /\ \A i \in CPU \ {c} : cpu'[i] = cpu[i]
    BY <1>2, MoveFacts DEF FirstTest, SecondTest
  <2>. QED  BY <2>1 DEF SemTyped
<1>3. CASE DoIO(c)
  <2>1. /\ cpu'[c].pc \in {"cmd", "wild"} /\ cpu'[c].sem = cpu[c].sem
        /\ cpu[c].pc = "doio" /\ \A i \in CPU \ {c} : cpu'[i] = cpu[i]
    BY <1>3, MoveFacts DEF DoIO, Fault
  <2>. QED  BY <2>1 DEF SemTyped
<1>4. ASSUME NEW r, NEW l \in {"kill", "killpid"}, StartKill(c, r, l)
      PROVE  SemTyped(c)' /\ \A i \in CPU \ {c} : cpu'[i] = cpu[i]
  <2>1. cpu'[c].pc = l /\ \A i \in CPU \ {c} : cpu'[i] = cpu[i]
    BY <1>t, <1>4 DEF StartKill, Locals
  <2>. QED  BY <2>1 DEF SemTyped
<1>5. CASE Term(c)
  BY <1>4, <1>5, SemLeft DEF Term
<1>6. CASE TermPid(c)
  BY <1>4, <1>6, SemLeft DEF TermPid
<1>. QED  BY <1>1, <1>2, <1>3, <1>5, <1>6 DEF Handle

LEMMA InterruptSem ==
  ASSUME TypeOK, NEW c \in CPU, Interrupt(c)
  PROVE  SemTyped(c)' /\ \A i \in CPU \ {c} : cpu'[i] = cpu[i]
<1>t. cpu \in [CPU -> Locals]
  BY DEF TypeOK
<1>1. CASE TakeInterrupt(c) \/ Preempt(c)
  BY <1>1, SemLeft DEF TakeInterrupt, Preempt
<1>2. CASE ServeInterrupt(c) \/ Tick(c)
  BY <1>2, SemLeft DEF ServeInterrupt, Tick, AfterInterrupt
<1>3. CASE ReadBitmap(c)
  <2>1. PICK d \in Dev \cup {NoDev} : cpu' = [cpu EXCEPT ![c].pc = "irq", ![c].sem = d]
    BY <1>3 DEF ReadBitmap
  <2>2. /\ cpu'[c].pc = "irq" /\ cpu'[c].sem = d
        /\ \A i \in CPU \ {c} : cpu'[i] = cpu[i]
    BY <1>t, <2>1 DEF Locals
  <2>. QED  BY <2>2 DEF SemTyped, Key
<1>. QED  BY <1>1, <1>2, <1>3 DEF Interrupt

LEMMA StepSem ==
  ASSUME TypeOK, \A c \in CPU : SemTyped(c), [Next]_vars PROVE \A c \in CPU : SemTyped(c)'
<1>1. CASE UNCHANGED vars \/ \E d \in Dev : Complete(d)
  BY <1>1 DEF vars, Complete, SemTyped
<1>2. ASSUME NEW c \in CPU, KillOne(c) PROVE \A i \in CPU : SemTyped(i)'
  <2>1. PICK p \in PCB : RemovePcb(c, p)
    BY <1>2 DEF KillOne, Subtree
  <2>2. \A i \in CPU : cpu'[i].pc = cpu[i].pc /\ cpu'[i].sem = cpu[i].sem
    BY <2>1 DEF RemovePcb, Forgotten, Locals, TypeOK
  <2>. QED  BY <2>2 DEF SemTyped
<1>3. ASSUME NEW c \in CPU, Schedule(c) \/ Call(c) \/ Handle(c) \/ Interrupt(c), ~KillOne(c)
      PROVE  \A i \in CPU : SemTyped(i)'
  <2>1. SemTyped(c)' /\ \A i \in CPU \ {c} : cpu'[i] = cpu[i]
    BY <1>3, ScheduleSem, CallSem, HandleSem, InterruptSem
  <2>. QED  BY <2>1 DEF SemTyped
<1>. QED  BY <1>1, <1>2, <1>3 DEF Next, Runs, Stays

\* Every variable keeps its type, the local variables of the handlers too, on
\* any number of CPUs and whatever they kill under one another's feet.
THEOREM TypeCorrect == Spec => []TypeOK
<1>. DEFINE TInv == TypeOK /\ \A c \in CPU : SemTyped(c)
<1>1. Init => TInv
  BY InitType DEF Init, Forget, Local, SemTyped
<1>2. TInv /\ [Next]_vars => TInv'
  BY NextType, StepSem
<1>3. TInv => TypeOK
  OBVIOUS
<1>. HIDE DEF TInv
<1>. QED  BY <1>1, <1>2, <1>3, PTL DEF Spec

-----------------------------------------------------------------------------
(* Steps that change neither the lists nor the current processes *)

\* What a step of c leaves alone stays valid for the other CPUs.
LEMMA OthersStayValid ==
  ASSUME NEW i \in CPU, Valid(i), cpu'[i] = cpu[i], current'[i] = current[i],
         pcbFree' \subseteq pcbFree,
         cpu[i].pc \in Killing => UNCHANGED <<lock, current, parent, pcbFree>>
  PROVE  Valid(i)'
<1>1. CASE cpu[i].pc \in Killing
  BY <1>1 DEF Valid, Live
<1>2. CASE cpu[i].pc \notin Killing
  BY <1>2 DEF Valid, Live
<1>. QED  BY <1>1, <1>2

LEMMA LocalStep ==
  ASSUME Inv, TypeOK', NEW c \in CPU,
         UNCHANGED <<lists, current>>,
         \A i \in CPU \ {c} : cpu'[i] = cpu[i],
         cpu'[c].pc \in Window <=> cpu[c].pc \in Window,
         lock' = lock \/ lock \in {NULL, c},
         Valid(c)'
  PROVE  Inv'
<1>1. UNCHANGED <<ready, semq, semAdd, pcbFree, parent, process_count, current>>
  BY DEF lists
<1>2. \A i \in CPU : Executing(i)' <=> Executing(i)
  BY <1>1 DEF Executing
<1>3. InOneList' /\ CountIsLive' /\ LinksLive'
  BY <1>1 DEF Inv, InOneList, CountIsLive, LinksLive, Live
<1>4. InSomePlace'
  BY <1>1, <1>2 DEF Inv, InSomePlace, Live, Queued
<1>5. RunByOne'
  BY <1>1, <1>2 DEF Inv, RunByOne, Live, Queued
<1>6. ASSUME NEW i \in CPU \ {c} PROVE Valid(i)'
  <2>1. Valid(i)
    BY DEF Inv, LocalsHold
  <2>2. cpu[i].pc \in Killing => lock = i
    BY <2>1 DEF Valid
  <2>3. i # NULL
    BY CpuAssumption
  <2>. QED  BY <1>1, <2>1, <2>2, <2>3, OthersStayValid
<1>7. LocalsHold'
  BY <1>6 DEF LocalsHold
<1>. QED  BY <1>3, <1>4, <1>5, <1>7 DEF Inv

LEMMA ScheduleLocal ==
  ASSUME Inv, TypeOK', NEW c \in CPU, Load(c) \/ Wait(c) \/ Halt(c)
  PROVE  Inv'
<1>1. TypeOK /\ Valid(c)
  BY DEF Inv, LocalsHold
<1>2. UNCHANGED lists /\ current' = current /\ lock' = lock /\ pcbFree' = pcbFree
  BY DEF Load, Wait, Halt, kernel, lists
<1>3. CASE Load(c)
  <2>1. cpu[c].pc = "load" /\ Move(c, "run")
    BY <1>3 DEF Load
  <2>2. cpu'[c].pc = "run" /\ cpu'[c].caller = cpu[c].caller
        /\ \A i \in CPU \ {c} : cpu'[i] = cpu[i]
    BY <1>1, <2>1, MoveFacts
  <2>3. Valid(c)'
    BY <1>1, <1>2, <2>1, <2>2 DEF Valid, Handlers, Window, Killing
  <2>. QED  BY <1>2, <2>1, <2>2, <2>3, LocalStep DEF Window
<1>4. CASE Wait(c) \/ Halt(c)
  <2>1. cpu[c].pc = "sched" /\ (Enter(c, "idle", NULL) \/ Enter(c, "halted", NULL))
    BY <1>4 DEF Wait, Halt
  <2>2. cpu'[c].pc \in {"idle", "halted"} /\ cpu'[c].caller = NULL
        /\ \A i \in CPU \ {c} : cpu'[i] = cpu[i]
    <3>1. PICK l \in {"idle", "halted"} : Enter(c, l, NULL)
      BY <2>1
    <3>2. cpu \in [CPU -> Locals]
      BY <1>1 DEF TypeOK
    <3>3. cpu' = [cpu EXCEPT ![c] = Local(l, NULL, NULL, 0, NULL)]
      BY <3>1 DEF Enter, Forget
    <3>. QED  BY <3>1, <3>2, <3>3 DEF Local
  <2>3. Valid(c)'
    BY <1>1, <1>2, <2>1, <2>2 DEF Valid, Handlers, Window, Killing
  <2>. QED  BY <1>2, <2>1, <2>2, <2>3, LocalStep DEF Window
<1>. QED  BY <1>3, <1>4

LEMMA CallLocal ==
  ASSUME Inv, TypeOK', NEW c \in CPU, Call(c) PROVE Inv'
<1>1. TypeOK /\ Valid(c)
  BY DEF Inv, LocalsHold
<1>2. cpu[c].pc = "run" /\ UNCHANGED <<kernel, devs>>
  BY DEF Call, CallCreate, CallTerm, CallTermPid, CallP, CallV, CallDoIO, CallClockWait,
         ProgramTrap, Request
<1>3. UNCHANGED lists /\ current' = current /\ lock' = lock /\ pcbFree' = pcbFree
  BY <1>2 DEF kernel, lists
<1>4. current[c] # NULL
  BY <1>1, <1>2 DEF Valid
<1>5. ASSUME NEW l \in {"create", "term", "termpid", "test1", "doio", "clockwait"},
             NEW k, NEW v, NEW x, cpu' = [cpu EXCEPT ![c] = Local(l, current[c], k, v, x)],
             l \in {"test1", "doio"} => k \in Key,
             l = "termpid" => x \in Live \cup {NULL}
      PROVE  Inv'
  <2>1. /\ cpu'[c] = Local(l, current[c], k, v, x)
        /\ \A i \in CPU \ {c} : cpu'[i] = cpu[i]
    BY <1>1, <1>5 DEF TypeOK
  <2>2. cpu'[c].pc = l /\ cpu'[c].caller = current[c] /\ cpu'[c].sem = k /\ cpu'[c].victim = x
    BY <2>1 DEF Local
  <2>3. Valid(c)'
    BY <1>3, <1>4, <1>5, <2>2 DEF Valid, Handlers, Window, Killing, Live
  <2>. QED  BY <1>2, <1>3, <2>1, <2>2, <2>3, LocalStep DEF Window
<1>6. Sem \subseteq Key /\ Dev \subseteq Key
  BY DEF Key
<1>7. CASE CallCreate(c) \/ CallTerm(c) \/ CallClockWait(c)
  BY <1>5, <1>7 DEF CallCreate, CallTerm, CallClockWait, Request
<1>8. CASE CallTermPid(c)
  BY <1>5, <1>8 DEF CallTermPid, Request
<1>9. CASE CallP(c) \/ CallV(c)
  BY <1>5, <1>6, <1>9 DEF CallP, CallV, Request
<1>10. CASE CallDoIO(c)
  BY <1>5, <1>6, <1>10 DEF CallDoIO, Request
<1>11. CASE ProgramTrap(c)
  BY <1>4, <1>5, <1>11 DEF ProgramTrap, Enter, Forget
<1>. QED  BY <1>7, <1>8, <1>9, <1>10, <1>11 DEF Call

LEMMA HandleLocal ==
  ASSUME Inv, TypeOK', NEW c \in CPU,
         \/ CreateFails(c) \/ FirstTest(c) \/ SecondTest(c) \/ Save(c)
         \/ Command(c) \/ SearchFaults(c) \/ EndKill(c)
  PROVE  Inv'
<1>1. TypeOK /\ Valid(c)
  BY DEF Inv, LocalsHold
<1>2. UNCHANGED lists /\ current' = current /\ pcbFree' = pcbFree
  BY DEF CreateFails, FirstTest, SecondTest, Save, Command, SearchFaults, EndKill, kernel, lists
<1>3. CASE CreateFails(c) \/ SearchFaults(c)
  <2>1. lock \in {NULL, c} /\ cpu[c].pc \notin Window /\ Fault(c)
    BY <1>1, <1>3 DEF CreateFails, SearchFaults, Valid, Killing, Window
  <2>2. cpu'[c].pc = "wild" /\ \A i \in CPU \ {c} : cpu'[i] = cpu[i]
    BY <1>1, <2>1, MoveFacts DEF Fault
  <2>3. Valid(c)'
    BY <2>2 DEF Valid, Handlers, Window, Killing
  <2>. QED  BY <1>2, <2>1, <2>2, <2>3, LocalStep DEF Window
<1>4. CASE FirstTest(c) \/ SecondTest(c)
  <2>1. /\ cpu[c].pc \in {"test1", "test2"}
        /\ \E l \in {"block", "test2", "pass", "wild"} : Move(c, l)
        /\ UNCHANGED kernel
    BY <1>4 DEF FirstTest, SecondTest
  <2>2. PICK l \in {"block", "test2", "pass", "wild"} : Move(c, l)
    BY <2>1
  <2>3. /\ cpu'[c].pc = l /\ cpu'[c].caller = cpu[c].caller /\ cpu'[c].sem = cpu[c].sem
        /\ \A i \in CPU \ {c} : cpu'[i] = cpu[i]
    BY <1>1, <2>2, MoveFacts
  <2>4. cpu[c].sem \in Key
    BY <1>1, <1>4, <2>1 DEF Valid
  <2>5. Valid(c)'
    BY <1>1, <1>2, <2>1, <2>3, <2>4 DEF Valid, Handlers, Window, Killing
  <2>6. lock' = lock
    BY <2>1 DEF kernel
  <2>. QED  BY <1>2, <2>1, <2>3, <2>5, <2>6, LocalStep DEF Window
<1>5. CASE Save(c)
  <2>1. cpu[c].pc = "save" /\ cpu[c].caller # NULL /\ Move(c, "clear") /\ lock' = lock
    BY <1>1, <1>5 DEF Save, Valid, Window
  <2>2. cpu'[c].pc = "clear" /\ cpu'[c].caller = cpu[c].caller
        /\ \A i \in CPU \ {c} : cpu'[i] = cpu[i]
    BY <1>1, <2>1, MoveFacts
  <2>3. Valid(c)'
    BY <1>1, <1>2, <2>1, <2>2 DEF Valid, Handlers, Window, Killing, Live
  <2>. QED  BY <1>2, <2>1, <2>2, <2>3, LocalStep DEF Window
<1>6. CASE Command(c)
  <2>1. cpu[c].pc = "cmd" /\ Enter(c, "sched", NULL) /\ lock' = lock
    BY <1>6 DEF Command, kernel
  <2>2. cpu'[c].pc = "sched" /\ \A i \in CPU \ {c} : cpu'[i] = cpu[i]
    BY <1>1, <2>1, MoveFacts
  <2>3. Valid(c)'
    BY <1>1, <1>2, <2>1, <2>2 DEF Valid, Handlers, Window, Killing
  <2>. QED  BY <1>2, <2>1, <2>2, <2>3, LocalStep DEF Window
<1>7. CASE EndKill(c)
  <2>1. /\ cpu[c].pc \in Killing /\ cpu[c].victim = NULL
        /\ lock = c /\ lock' = NULL /\ cpu[c].caller # NULL
        /\ current[c] = (IF cpu[c].caller \in Live THEN cpu[c].caller ELSE NULL)
        /\ cpu[c].pc = "kill" => cpu[c].caller \notin Live
    BY <1>1, <1>7 DEF EndKill, Valid
  <2>2. CASE cpu[c].pc = "killpid" /\ cpu[c].caller \in Live
    <3>1. Enter(c, "run", cpu[c].caller)
      BY <1>7, <2>2 DEF EndKill
    <3>2. cpu'[c].pc = "run" /\ cpu'[c].caller = cpu[c].caller
          /\ \A i \in CPU \ {c} : cpu'[i] = cpu[i]
      BY <1>1, <3>1, MoveFacts
    <3>3. Valid(c)'
      BY <1>2, <2>1, <2>2, <3>2 DEF Valid, Handlers, Window, Killing
    <3>. QED  BY <1>2, <2>1, <3>2, <3>3, LocalStep DEF Window, Killing
  <2>3. CASE ~(cpu[c].pc = "killpid" /\ cpu[c].caller \in Live)
    <3>1. Enter(c, "sched", NULL) /\ current[c] = NULL
      BY <1>7, <2>1, <2>3 DEF EndKill, Killing
    <3>2. cpu'[c].pc = "sched" /\ \A i \in CPU \ {c} : cpu'[i] = cpu[i]
      BY <1>1, <3>1, MoveFacts
    <3>3. Valid(c)'
      BY <1>2, <3>1, <3>2 DEF Valid, Handlers, Window, Killing
    <3>. QED  BY <1>2, <2>1, <3>2, <3>3, LocalStep DEF Window, Killing
  <2>. QED  BY <2>2, <2>3
<1>. QED  BY <1>3, <1>4, <1>5, <1>6, <1>7

LEMMA InterruptLocal ==
  ASSUME Inv, TypeOK', NEW c \in CPU, TakeInterrupt(c) \/ ReadBitmap(c) PROVE Inv'
<1>1. TypeOK /\ Valid(c)
  BY DEF Inv, LocalsHold
<1>2. UNCHANGED lists /\ current' = current /\ lock' = lock /\ pcbFree' = pcbFree
  BY DEF TakeInterrupt, ReadBitmap, kernel, lists
<1>3. cpu \in [CPU -> Locals] /\ cpu[c].caller \in PCB \cup {NULL}
  BY <1>1 DEF TypeOK, Locals
<1>4. CASE TakeInterrupt(c)
  <2>1. cpu[c].pc \in {"run", "idle"} /\ Move(c, "trapped")
    BY <1>4 DEF TakeInterrupt, Interruptible
  <2>2. cpu'[c].pc = "trapped" /\ cpu'[c].caller = cpu[c].caller
        /\ \A i \in CPU \ {c} : cpu'[i] = cpu[i]
    BY <1>1, <2>1, MoveFacts
  <2>3. Valid(c)'
    BY <1>1, <1>2, <2>1, <2>2 DEF Valid, Handlers, Window, Killing
  <2>. QED  BY <1>2, <2>1, <2>2, <2>3, LocalStep DEF Window
<1>5. CASE ReadBitmap(c)
  <2>1. cpu[c].pc = "trapped"
    BY <1>5 DEF ReadBitmap
  <2>2. PICK d \in Dev \cup {NoDev} : cpu' = [cpu EXCEPT ![c].pc = "irq", ![c].sem = d]
    BY <1>5 DEF ReadBitmap
  <2>3. /\ cpu'[c].pc = "irq" /\ cpu'[c].caller = cpu[c].caller /\ cpu'[c].sem = d
        /\ \A i \in CPU \ {c} : cpu'[i] = cpu[i]
    BY <1>3, <2>2 DEF Locals
  <2>4. Valid(c)'
    BY <1>1, <1>2, <2>1, <2>3 DEF Valid, Handlers, Window, Killing, Key
  <2>. QED  BY <1>2, <2>1, <2>3, <2>4, LocalStep DEF Window
<1>. QED  BY <1>4, <1>5

-----------------------------------------------------------------------------
(* Steps that move processes between the queues and the CPUs *)

Holds(c, p) == Executing(c) /\ current[c] = p

\* A step of c that keeps the set of the processes, and moves none but the
\* one that c executes into or out of the queues.
LEMMA QueueStep ==
  ASSUME Inv, TypeOK', NEW c \in CPU, lock = NULL, lock' = NULL,
         UNCHANGED <<parent, pcbFree, process_count>>,
         \A i \in CPU \ {c} : cpu'[i] = cpu[i] /\ current'[i] = current[i],
         InOneList', Valid(c)',
         \A p \in Live : Queued(p) \/ Holds(c, p) => Queued(p)' \/ Holds(c, p)',
         \A p \in PCB : Queued(p)' => Queued(p) \/ Holds(c, p),
         \A p \in PCB : Holds(c, p)' =>
             p \in Live /\ ~Queued(p)' /\ (Queued(p) \/ Holds(c, p))
  PROVE  Inv'
<1>1. CountIsLive' /\ LinksLive'
  BY DEF Inv, CountIsLive, LinksLive, Live
<1>2. \A i \in CPU : /\ current[i] \in PCB \cup {NULL}
                     /\ current'[i] \in PCB \cup {NULL}
  BY DEF Inv, TypeOK
<1>3. \A i \in CPU \ {c} : \A p \in PCB : Holds(i, p)' <=> Holds(i, p)
  BY DEF Holds, Executing
<1>4. InSomePlace'
  <2>1. \A p \in Live : Queued(p) \/ \E i \in CPU : Holds(i, p)
    BY DEF Inv, InSomePlace, Holds
  <2>2. \A p \in Live : Queued(p)' \/ \E i \in CPU : Holds(i, p)'
    BY <1>3, <2>1 DEF Live
  <2>. QED  BY <2>2 DEF InSomePlace, Holds, Live
<1>5. ASSUME NEW i \in CPU, NEW p \in PCB, Holds(i, p)
      PROVE  p \in Live /\ ~Queued(p) /\ \A j \in CPU : Holds(j, p) => j = i
  BY <1>5 DEF Inv, RunByOne, Holds
<1>6. ASSUME NEW i \in CPU, NEW p \in PCB, Holds(i, p)'
      PROVE  p \in Live /\ ~Queued(p)' /\ \A j \in CPU : Holds(j, p)' => j = i
  <2>1. CASE i = c
    <3>1. p \in Live /\ ~Queued(p)' /\ (Queued(p) \/ Holds(c, p))
      BY <1>6, <2>1
    <3>2. \A j \in CPU \ {c} : ~Holds(j, p)'
      BY <1>3, <1>5, <3>1
    <3>. QED  BY <2>1, <3>1, <3>2
  <2>2. CASE i # c
    <3>1. Holds(i, p)
      BY <1>3, <1>6, <2>2
    <3>2. p \in Live /\ ~Queued(p) /\ \A j \in CPU : Holds(j, p) => j = i
      BY <1>5, <3>1
    <3>3. ~Queued(p)' /\ ~Holds(c, p)'
      BY <2>2, <3>2
    <3>. QED  BY <1>3, <3>2, <3>3
  <2>. QED  BY <2>1, <2>2
<1>7. RunByOne'
  <2>1. \A i \in CPU : Executing(i)' => current'[i] \in PCB /\ Holds(i, current[i])'
    BY <1>2 DEF Holds, Executing
  <2>2. \A i, j \in CPU : Executing(i)' /\ Executing(j)' /\ current'[j] = current'[i]
                            => Holds(j, current[i])'
    BY DEF Holds
  <2>3. \A i \in CPU : Executing(i)' => current'[i] \in Live' /\ ~Queued(current[i])'
    BY <1>6, <2>1 DEF Live
  <2>. QED  BY <1>6, <2>1, <2>2, <2>3 DEF RunByOne
<1>8. ASSUME NEW i \in CPU \ {c} PROVE Valid(i)'
  <2>1. Valid(i)
    BY DEF Inv, LocalsHold
  <2>2. cpu[i].pc \notin Killing
    BY <2>1, CpuAssumption DEF Valid
  <2>. QED  BY <2>1, <2>2, OthersStayValid
<1>9. LocalsHold'
  BY <1>8 DEF LocalsHold
<1>. QED  BY <1>1, <1>4, <1>7, <1>9 DEF Inv

LEMMA OneListFacts ==
  ASSUME TypeOK, InOneList
  PROVE  /\ ready \in Seq(PCB) /\ semq \in [Key -> Seq(PCB)]
         /\ IsInjective(ready) /\ \A k \in Key : IsInjective(semq[k])
         /\ \A p \in PCB : Queued(p) => p \in Live
         /\ \A k \in Key : semq[k] # <<>> => Head(semq[k]) \in PCB
<1>1. ready \in Seq(PCB) /\ semq \in [Key -> Seq(PCB)]
  BY DEF TypeOK
<1>2. \A p \in PCB : Queued(p) => p \in Live
  BY DEF InOneList, Queued
<1>3. \A k \in Key : semq[k] # <<>> => Head(semq[k]) \in PCB
  BY <1>1, HeadTailProperties
<1>. QED  BY <1>1, <1>2, <1>3 DEF InOneList

LEMMA WakeQueue ==
  ASSUME TypeOK, InOneList, NEW k \in Key, semq[k] # <<>>, Wake(k),
         UNCHANGED <<semAdd, pcbFree>>
  PROVE  InOneList' /\ \A p \in PCB : Queued(p)' <=> Queued(p)
<1>. DEFINE h == Head(semq[k])
<1>1. /\ ready \in Seq(PCB) /\ semq \in [Key -> Seq(PCB)] /\ h \in PCB
      /\ IsInjective(ready) /\ IsInjective(semq[k])
  BY OneListFacts
<1>2. /\ h \in Range(semq[k]) /\ Range(Tail(semq[k])) = Range(semq[k]) \ {h}
      /\ IsInjective(Tail(semq[k]))
  BY <1>1, TailOfQueue
<1>3. h \notin Range(ready) /\ h \in Live
  BY <1>2 DEF InOneList
<1>4. Range(ready') = Range(ready) \cup {h} /\ IsInjective(ready')
  BY <1>1, <1>3, AppendToQueue DEF Wake
<1>5. semq'[k] = Tail(semq[k]) /\ \A j \in Key \ {k} : semq'[j] = semq[j]
  BY <1>1 DEF Wake
<1>. HIDE DEF h
<1>6. \A j \in Key : h \notin Range(semq'[j])
  BY <1>2, <1>5 DEF InOneList
<1>7. \A j \in Key : IsInjective(semq'[j]) /\ Range(semq'[j]) \subseteq Range(semq[j])
  BY <1>2, <1>5 DEF InOneList
<1>8. Live' = Live
  BY DEF Live
<1>9. InOneList'
  <2>1. \A q \in Range(ready') : q \in Live' /\ \A j \in Key : q \notin Range(semq'[j])
    BY <1>3, <1>4, <1>6, <1>7, <1>8 DEF InOneList
  <2>2. \A j \in Key : \A q \in Range(semq'[j]) : q \in Live' /\ semAdd'[q] = j
    BY <1>7, <1>8 DEF InOneList
  <2>. QED  BY <1>4, <1>7, <2>1, <2>2 DEF InOneList
<1>10. ASSUME NEW p \in PCB PROVE Queued(p)' <=> Queued(p)
  <2>1. CASE p = h
    BY <1>2, <1>4, <2>1 DEF Queued
  <2>2. CASE p # h
    <3>1. p \in Range(ready') <=> p \in Range(ready)
      BY <1>4, <2>2
    <3>2. \A j \in Key : p \in Range(semq'[j]) <=> p \in Range(semq[j])
      BY <1>2, <1>5, <2>2
    <3>. QED  BY <3>1, <3>2 DEF Queued
  <2>. QED  BY <2>1, <2>2
<1>. QED  BY <1>9, <1>10

LEMMA BlockQueue ==
  ASSUME TypeOK, InOneList, NEW k \in Key, NEW p \in Live, ~Queued(p),
         InsertBlocked(k, p), UNCHANGED <<ready, pcbFree>>
  PROVE  InOneList' /\ \A q \in PCB : Queued(q)' <=> Queued(q) \/ q = p
<1>1. ready \in Seq(PCB) /\ semq \in [Key -> Seq(PCB)] /\ p \in PCB /\ Live' = Live
      /\ ready' = ready
  BY OneListFacts DEF Live
<1>2. p \notin Range(ready) /\ \A j \in Key : p \notin Range(semq[j])
  BY DEF Queued
<1>3. semq'[k] = Append(semq[k], p) /\ \A j \in Key \ {k} : semq'[j] = semq[j]
  BY <1>1 DEF InsertBlocked
<1>4. Range(semq'[k]) = Range(semq[k]) \cup {p} /\ IsInjective(semq'[k])
  BY <1>1, <1>2, <1>3, AppendToQueue DEF InOneList
<1>5. semAdd'[p] = k /\ \A q \in PCB \ {p} : semAdd'[q] = semAdd[q]
  BY <1>1 DEF InsertBlocked, TypeOK
<1>6. \A j \in Key : Range(semq[j]) \subseteq PCB
  BY DEF InOneList, Live
<1>7. InOneList'
  <2>1. \A j \in Key : IsInjective(semq'[j])
    BY <1>3, <1>4 DEF InOneList
  <2>2. ASSUME NEW q \in Range(ready') PROVE q \in Live' /\ \A j \in Key : q \notin Range(semq'[j])
    <3>1. q \in Range(ready) /\ q # p
      BY <1>1, <1>2, <2>2
    <3>2. q \in Live /\ \A j \in Key : q \notin Range(semq[j])
      BY <3>1 DEF InOneList
    <3>. QED  BY <1>1, <1>3, <1>4, <3>1, <3>2
  <2>3. ASSUME NEW j \in Key, NEW q \in Range(semq'[j]) PROVE q \in Live' /\ semAdd'[q] = j
    <3>1. CASE q = p
      <4>1. j = k
        BY <1>2, <1>3, <2>3, <3>1
      <4>. QED  BY <1>1, <1>5, <3>1, <4>1
    <3>2. CASE q # p
      <4>1. q \in Range(semq[j])
        BY <1>3, <1>4, <2>3, <3>2
      <4>2. q \in Live /\ semAdd[q] = j
        BY <4>1 DEF InOneList
      <4>. QED  BY <1>1, <1>5, <3>2, <4>2 DEF Live
    <3>. QED  BY <3>1, <3>2
  <2>4. IsInjective(ready')
    BY <1>1 DEF InOneList
  <2>. QED  BY <2>1, <2>2, <2>3, <2>4 DEF InOneList
<1>8. \A q \in PCB : Queued(q)' <=> Queued(q) \/ q = p
  BY <1>3, <1>4 DEF Queued
<1>. QED  BY <1>7, <1>8

LEMMA AppendReady ==
  ASSUME TypeOK, InOneList, NEW p \in PCB, ~Queued(p), ready' = Append(ready, p),
         semq' = semq, \A q \in PCB \ {p} : semAdd'[q] = semAdd[q],
         p \in Live', Live \subseteq Live'
  PROVE  InOneList' /\ \A q \in PCB : Queued(q)' <=> Queued(q) \/ q = p
<1>1. ready \in Seq(PCB) /\ IsInjective(ready)
  BY OneListFacts
<1>2. p \notin Range(ready) /\ \A j \in Key : p \notin Range(semq[j])
  BY DEF Queued
<1>3. Range(ready') = Range(ready) \cup {p} /\ IsInjective(ready')
  BY <1>1, <1>2, AppendToQueue
<1>4. \A q \in Range(ready') : q \in Live' /\ \A j \in Key : q \notin Range(semq'[j])
  BY <1>2, <1>3 DEF InOneList
<1>5. \A j \in Key : \A q \in Range(semq'[j]) : q \in Live' /\ semAdd'[q] = j
  <2>1. \A j \in Key : Range(semq[j]) \subseteq PCB \ {p}
    BY <1>2 DEF InOneList, Live
  <2>. QED  BY <2>1 DEF InOneList
<1>6. InOneList'
  BY <1>3, <1>4, <1>5 DEF InOneList
<1>7. \A q \in PCB : Queued(q)' <=> Queued(q) \/ q = p
  BY <1>3 DEF Queued
<1>. QED  BY <1>6, <1>7

LEMMA DispatchInv ==
  ASSUME Inv, TypeOK', NEW c \in CPU, Dispatch(c) PROVE Inv'
<1>. DEFINE h == Head(ready)
<1>1. TypeOK /\ InOneList /\ Valid(c)
  BY DEF Inv, LocalsHold
<1>2. /\ cpu[c].pc = "sched" /\ lock = NULL /\ lock' = NULL /\ ready # <<>>
      /\ ready' = Tail(ready) /\ Enter(c, "load", h)
      /\ current' = [current EXCEPT ![c] = h]
      /\ UNCHANGED <<process_count, semq, semAdd, parent, pcbFree>>
  BY DEF Dispatch
<1>3. /\ ready \in Seq(PCB) /\ IsInjective(ready) /\ h \in PCB /\ h # NULL
  BY <1>1, <1>2, OneListFacts, HeadTailProperties, PcbAssumption
<1>4. /\ h \in Range(ready) /\ Range(ready') = Range(ready) \ {h} /\ IsInjective(ready')
  BY <1>2, <1>3, TailOfQueue
<1>5. /\ current'[c] = h /\ cpu'[c].pc = "load" /\ cpu'[c].caller = h
      /\ \A i \in CPU \ {c} : cpu'[i] = cpu[i] /\ current'[i] = current[i]
  <2>1. /\ cpu'[c].pc = "load" /\ cpu'[c].caller = h
        /\ \A i \in CPU \ {c} : cpu'[i] = cpu[i]
    <3>1. cpu \in [CPU -> Locals]
      BY <1>1 DEF TypeOK
    <3>2. cpu' = [cpu EXCEPT ![c] = Local("load", h, NULL, 0, NULL)]
      BY <1>2 DEF Enter, Forget
    <3>. HIDE DEF h
    <3>. QED  BY <3>1, <3>2 DEF Local
  <2>2. current'[c] = h /\ \A i \in CPU \ {c} : current'[i] = current[i]
    <3>1. current \in [CPU -> PCB \cup {NULL}]
      BY <1>1 DEF TypeOK
    <3>2. current' = [current EXCEPT ![c] = h]
      BY <1>2
    <3>. HIDE DEF h
    <3>. QED  BY <3>1, <3>2
  <2>. QED  BY <2>1, <2>2
<1>6. h \in Live /\ \A k \in Key : h \notin Range(semq[k])
  BY <1>1, <1>4 DEF InOneList
<1>. HIDE DEF h
<1>7. InOneList'
  BY <1>1, <1>2, <1>4 DEF InOneList, Live
<1>8. \A p \in PCB : Queued(p)' <=> Queued(p) /\ p # h
  BY <1>2, <1>4, <1>6 DEF Queued
<1>9. current[c] = NULL
  BY <1>1, <1>2 DEF Valid
<1>10. \A p \in PCB : ~Holds(c, p) /\ (Holds(c, p)' <=> p = h)
  BY <1>3, <1>5, <1>9 DEF Holds, Executing, Window
<1>11. Valid(c)'
  BY <1>3, <1>5 DEF Valid, Handlers, Window, Killing
<1>12. Queued(h)
  BY <1>4 DEF Queued
<1>. QED  BY <1>2, <1>3, <1>5, <1>6, <1>7, <1>8, <1>10, <1>11, <1>12, QueueStep DEF Live

\* The three ways to block: the process that c executes joins a queue.
LEMMA BlockStep ==
  ASSUME Inv, TypeOK', NEW c \in CPU, NEW k \in Key, lock = NULL, lock' = NULL,
         current[c] # NULL, cpu[c].pc \notin Window, InsertBlocked(k, current[c]),
         UNCHANGED <<ready, parent, pcbFree, process_count>>,
         \A i \in CPU \ {c} : cpu'[i] = cpu[i] /\ current'[i] = current[i],
         Valid(c)', cpu'[c].pc \in Window \/ current'[c] = NULL
  PROVE  Inv'
<1>. DEFINE p == current[c]
<1>1. TypeOK /\ InOneList /\ Executing(c) /\ p \in PCB
  BY DEF Inv, Executing, TypeOK
<1>2. p \in Live /\ ~Queued(p)
  BY <1>1 DEF Inv, RunByOne
<1>3. InOneList' /\ \A q \in PCB : Queued(q)' <=> Queued(q) \/ q = p
  BY <1>1, <1>2, BlockQueue
<1>4. \A q \in PCB : (Holds(c, q) <=> q = p) /\ ~Holds(c, q)'
  BY <1>1 DEF Holds, Executing
<1>. HIDE DEF p
<1>. QED  BY <1>1, <1>2, <1>3, <1>4, QueueStep DEF Live

LEMMA BlockInv ==
  ASSUME Inv, TypeOK', NEW c \in CPU, Block(c) \/ ClockWait(c) \/ DoIO(c) PROVE Inv'
<1>1. TypeOK /\ InOneList /\ Valid(c)
  BY DEF Inv, LocalsHold
<1>2. /\ cpu[c].pc \in {"block", "clockwait", "doio"} /\ lock = NULL
      /\ UNCHANGED <<ready, parent, pcbFree, process_count>>
  BY DEF Block, ClockWait, DoIO
<1>3. cpu[c].caller # NULL /\ current[c] = cpu[c].caller /\ cpu[c].pc \notin Window
  BY <1>1, <1>2 DEF Valid, Handlers, Window
<1>4. cpu[c].caller \in Live
  BY <1>1, <1>3 DEF Inv, RunByOne, Executing, TypeOK
<1>5. Live' = Live
  BY <1>2 DEF Live
<1>6. CASE Block(c) \/ ClockWait(c)
  <2>1. PICK k \in Key : InsertBlocked(k, current[c])
    BY <1>1, <1>2, <1>3, <1>6 DEF Block, ClockWait, Valid, Key
  <2>2. Move(c, "save") /\ lock' = lock /\ current' = current
    BY <1>3, <1>6 DEF Block, ClockWait
  <2>3. /\ cpu'[c].pc = "save" /\ cpu'[c].caller = cpu[c].caller
        /\ \A i \in CPU \ {c} : cpu'[i] = cpu[i]
    BY <1>1, <2>2, MoveFacts
  <2>4. Valid(c)'
    BY <1>3, <1>4, <1>5, <2>2, <2>3 DEF Valid, Handlers, Window, Killing
  <2>. QED  BY <1>2, <1>3, <2>1, <2>2, <2>3, <2>4, BlockStep DEF Window
<1>7. CASE DoIO(c)
  <2>1. cpu[c].sem \in Key /\ InsertBlocked(cpu[c].sem, current[c])
    BY <1>1, <1>3, <1>7 DEF DoIO, Valid
  <2>2. Move(c, "cmd") /\ lock' = lock /\ current' = [current EXCEPT ![c] = NULL]
    BY <1>3, <1>7 DEF DoIO
  <2>3. /\ cpu'[c].pc = "cmd" /\ cpu'[c].sem = cpu[c].sem /\ current'[c] = NULL
        /\ \A i \in CPU \ {c} : cpu'[i] = cpu[i] /\ current'[i] = current[i]
    BY <1>1, <2>2, MoveFacts DEF TypeOK
  <2>4. Valid(c)'
    BY <2>1, <2>3 DEF Valid, Handlers, Window, Killing
  <2>. QED  BY <1>2, <1>3, <2>1, <2>2, <2>3, <2>4, BlockStep
<1>. QED  BY <1>6, <1>7

LEMMA ClearInv ==
  ASSUME Inv, TypeOK', NEW c \in CPU, Clear(c) PROVE Inv'
<1>1. TypeOK /\ InOneList /\ Valid(c)
  BY DEF Inv, LocalsHold
<1>2. /\ cpu[c].pc = "clear" /\ lock = NULL /\ lock' = NULL /\ Enter(c, "sched", NULL)
      /\ current' = [current EXCEPT ![c] = NULL]
      /\ UNCHANGED <<ready, semq, semAdd, parent, pcbFree, process_count>>
  BY DEF Clear, lists
<1>3. /\ cpu'[c].pc = "sched" /\ current'[c] = NULL
      /\ \A i \in CPU \ {c} : cpu'[i] = cpu[i] /\ current'[i] = current[i]
  BY <1>1, <1>2, MoveFacts DEF TypeOK
<1>4. Valid(c)'
  BY <1>3 DEF Valid, Handlers, Window, Killing
<1>5. InOneList' /\ \A p \in PCB : Queued(p)' <=> Queued(p)
  BY <1>1, <1>2 DEF InOneList, Live, Queued
<1>6. \A p \in PCB : ~Holds(c, p) /\ ~Holds(c, p)'
  BY <1>2, <1>3 DEF Holds, Executing, Window
<1>. QED  BY <1>2, <1>3, <1>4, <1>5, <1>6, QueueStep DEF Live

\* The ways to wake: processes go from a semaphore to the ready queue.
LEMMA WakeStep ==
  ASSUME Inv, TypeOK', NEW c \in CPU, lock = NULL, lock' = NULL,
         UNCHANGED <<current, parent, pcbFree, process_count>>,
         cpu[c].pc \notin Window, cpu'[c].pc \notin Window,
         \A i \in CPU \ {c} : cpu'[i] = cpu[i], Valid(c)',
         InOneList', \A p \in PCB : Queued(p)' <=> Queued(p)
  PROVE  Inv'
<1>1. \A p \in PCB : Holds(c, p)' <=> Holds(c, p)
  BY DEF Holds, Executing
<1>2. \A p \in PCB : Holds(c, p) => p \in Live /\ ~Queued(p)
  BY DEF Holds, Inv, RunByOne
<1>. QED  BY <1>1, <1>2, QueueStep DEF Live

LEMMA PassInv ==
  ASSUME Inv, TypeOK', NEW c \in CPU, Pass(c) PROVE Inv'
<1>1. TypeOK /\ InOneList /\ Valid(c)
  BY DEF Inv, LocalsHold
<1>2. /\ cpu[c].pc = "pass" /\ lock = NULL /\ lock' = NULL
      /\ Enter(c, "run", cpu[c].caller)
      /\ UNCHANGED <<current, semAdd, parent, pcbFree, process_count>>
  BY DEF Pass, Release
<1>3. /\ cpu'[c].pc = "run" /\ cpu'[c].caller = cpu[c].caller
      /\ \A i \in CPU \ {c} : cpu'[i] = cpu[i]
  BY <1>1, <1>2, MoveFacts
<1>4. /\ cpu[c].sem \in Key
      /\ cpu[c].caller # NULL /\ current[c] = cpu[c].caller
  BY <1>1, <1>2 DEF Valid, Handlers
<1>5. Valid(c)'
  BY <1>2, <1>3, <1>4 DEF Valid, Handlers, Window, Killing
<1>6. InOneList' /\ \A p \in PCB : Queued(p)' <=> Queued(p)
  <2>1. CASE semq[cpu[c].sem] # <<>>
    <3>1. Wake(cpu[c].sem)
      BY <2>1 DEF Pass, Release
    <3>. QED  BY <1>1, <1>2, <1>4, <2>1, <3>1, WakeQueue
  <2>2. CASE semq[cpu[c].sem] = <<>>
    <3>1. UNCHANGED <<semq, ready>>
      BY <2>2 DEF Pass, Release
    <3>. QED  BY <1>1, <1>2, <3>1 DEF InOneList, Live, Queued
  <2>. QED  BY <2>1, <2>2
<1>. QED  BY <1>2, <1>3, <1>5, <1>6, WakeStep DEF Window

\* Where an interrupt handler that wakes processes leaves its CPU.
LEMMA AfterInterruptFacts ==
  ASSUME TypeOK, NEW c \in CPU, current[c] = cpu[c].caller, current' = current,
         AfterInterrupt(c)
  PROVE  /\ cpu'[c].pc \notin Window /\ Valid(c)'
         /\ \A i \in CPU \ {c} : cpu'[i] = cpu[i]
<1>1. CASE current[c] = NULL
  <2>. Enter(c, "sched", NULL)
    BY <1>1 DEF AfterInterrupt
  <2>1. cpu'[c].pc = "sched" /\ \A i \in CPU \ {c} : cpu'[i] = cpu[i]
    BY MoveFacts
  <2>2. Valid(c)'
    BY <1>1, <2>1 DEF Valid, Handlers, Window, Killing
  <2>. QED  BY <2>1, <2>2 DEF Window
<1>2. CASE current[c] # NULL
  <2>1. Enter(c, "run", cpu[c].caller)
    BY <1>2 DEF AfterInterrupt
  <2>2. /\ cpu'[c].pc = "run" /\ cpu'[c].caller = cpu[c].caller
        /\ \A i \in CPU \ {c} : cpu'[i] = cpu[i]
    BY <2>1, MoveFacts
  <2>3. Valid(c)'
    BY <1>2, <2>2 DEF Valid, Handlers, Window, Killing
  <2>. QED  BY <2>2, <2>3 DEF Window
<1>. QED  BY <1>1, <1>2

LEMMA ServeInterruptInv ==
  ASSUME Inv, TypeOK', NEW c \in CPU, ServeInterrupt(c) PROVE Inv'
<1>1. TypeOK /\ InOneList /\ Valid(c)
  BY DEF Inv, LocalsHold
<1>2. /\ cpu[c].pc = "irq" /\ lock = NULL /\ lock' = NULL /\ AfterInterrupt(c)
      /\ UNCHANGED <<current, semAdd, parent, pcbFree, process_count>>
  BY DEF ServeInterrupt
<1>3. current[c] = cpu[c].caller /\ cpu[c].sem \in Key \cup {NoDev}
  BY <1>1, <1>2 DEF Valid
<1>4. InOneList' /\ \A p \in PCB : Queued(p)' <=> Queued(p)
  <2>1. CASE UNCHANGED <<semq, ready>>
    BY <1>1, <1>2, <2>1 DEF InOneList, Live, Queued
  <2>2. CASE \E k \in Key : semq[k] # <<>> /\ Wake(k)
    BY <1>1, <1>2, <2>2, WakeQueue
  <2>. QED  BY <1>3, <2>1, <2>2 DEF ServeInterrupt, Unblock
<1>. QED  BY <1>1, <1>2, <1>3, <1>4, AfterInterruptFacts, WakeStep DEF Window

LEMMA TickQueue ==
  ASSUME TypeOK, InOneList, ready' = ready \o semq[CLOCK],
         semq' = [semq EXCEPT ![CLOCK] = <<>>], UNCHANGED <<semAdd, pcbFree>>
  PROVE  InOneList' /\ \A p \in PCB : Queued(p)' <=> Queued(p)
<1>1. CLOCK \in Key
  BY DEF Key
<1>2. /\ ready \in Seq(PCB) /\ semq \in [Key -> Seq(PCB)]
      /\ IsInjective(ready) /\ IsInjective(semq[CLOCK])
      /\ Range(ready) \cap Range(semq[CLOCK]) = {}
  BY <1>1, OneListFacts DEF InOneList
<1>3. Range(ready') = Range(ready) \cup Range(semq[CLOCK]) /\ IsInjective(ready')
  BY <1>1, <1>2, ConcatOfQueues
<1>4. semq'[CLOCK] = <<>> /\ \A k \in Key \ {CLOCK} : semq'[k] = semq[k]
  BY <1>1, <1>2
<1>5. Range(<<>>) = {} /\ IsInjective(<<>>)
  BY DEF Range, IsInjective
<1>6. InOneList'
  <2>1. \A k \in Key : IsInjective(semq'[k]) /\ Range(semq'[k]) \subseteq Range(semq[k])
    BY <1>1, <1>4, <1>5 DEF InOneList
  <2>2. \A k \in Key : \A p \in Range(semq'[k]) : p \in Live' /\ semAdd'[p] = k
    BY <2>1 DEF InOneList, Live
  <2>3. ASSUME NEW p \in Range(ready') PROVE p \in Live' /\ \A k \in Key : p \notin Range(semq'[k])
    <3>1. CASE p \in Range(ready)
      BY <2>1, <3>1 DEF InOneList, Live
    <3>2. CASE p \in Range(semq[CLOCK])
      <4>1. p \in Live /\ semAdd[p] = CLOCK
        BY <1>1, <3>2 DEF InOneList
      <4>2. \A k \in Key \ {CLOCK} : p \notin Range(semq[k])
        BY <4>1 DEF InOneList
      <4>. QED  BY <1>4, <1>5, <4>1, <4>2 DEF Live
    <3>. QED  BY <1>3, <3>1, <3>2
  <2>. QED  BY <1>3, <2>1, <2>2, <2>3 DEF InOneList
<1>7. \A p \in PCB : Queued(p)' <=> Queued(p)
  BY <1>1, <1>3, <1>4, <1>5 DEF Queued
<1>. QED  BY <1>6, <1>7

LEMMA TickInv ==
  ASSUME Inv, TypeOK', NEW c \in CPU, Tick(c) PROVE Inv'
<1>1. TypeOK /\ InOneList /\ Valid(c)
  BY DEF Inv, LocalsHold
<1>2. /\ cpu[c].pc \in {"run", "idle"} /\ lock = NULL /\ lock' = NULL /\ AfterInterrupt(c)
      /\ ready' = ready \o semq[CLOCK] /\ semq' = [semq EXCEPT ![CLOCK] = <<>>]
      /\ UNCHANGED <<current, semAdd, parent, pcbFree, process_count>>
  BY DEF Tick, Interruptible
<1>3. current[c] = cpu[c].caller
  BY <1>1, <1>2 DEF Valid, Handlers
<1>4. InOneList' /\ \A p \in PCB : Queued(p)' <=> Queued(p)
  BY <1>1, <1>2, TickQueue
<1>. QED  BY <1>1, <1>2, <1>3, <1>4, AfterInterruptFacts, WakeStep DEF Window

LEMMA PreemptInv ==
  ASSUME Inv, TypeOK', NEW c \in CPU, Preempt(c) PROVE Inv'
<1>. DEFINE p == current[c]
<1>1. TypeOK /\ InOneList /\ Valid(c)
  BY DEF Inv, LocalsHold
<1>2. /\ cpu[c].pc = "run" /\ lock = NULL /\ lock' = NULL /\ Enter(c, "sched", NULL)
      /\ current' = [current EXCEPT ![c] = NULL]
      /\ UNCHANGED <<semq, semAdd, parent, pcbFree, process_count>>
  BY DEF Preempt
<1>3. p # NULL /\ p \in PCB /\ Executing(c)
  BY <1>1, <1>2 DEF Valid, TypeOK, Executing, Window
<1>4. p \in Live /\ ~Queued(p)
  BY <1>3 DEF Inv, RunByOne
<1>5. ready' = Append(ready, p)
  BY <1>3 DEF Preempt
<1>6. /\ cpu'[c].pc = "sched" /\ current'[c] = NULL
      /\ \A i \in CPU \ {c} : cpu'[i] = cpu[i] /\ current'[i] = current[i]
  BY <1>1, <1>2, MoveFacts DEF TypeOK
<1>7. Valid(c)'
  BY <1>6 DEF Valid, Handlers, Window, Killing
<1>8. \A q \in PCB : (Holds(c, q) <=> q = p) /\ ~Holds(c, q)'
  BY <1>3, <1>6 DEF Holds, Executing
<1>9. InOneList' /\ \A q \in PCB : Queued(q)' <=> Queued(q) \/ q = p
  <2>1. Live' = Live
    BY <1>2 DEF Live
  <2>. HIDE DEF p
  <2>. QED  BY <1>1, <1>2, <1>3, <1>4, <1>5, <2>1, AppendReady
<1>. HIDE DEF p
<1>. QED  BY <1>2, <1>3, <1>4, <1>6, <1>7, <1>8, <1>9, QueueStep DEF Live

LEMMA LiveIsFinite == TypeOK => Live \subseteq PCB /\ IsFiniteSet(Live)
BY PcbAssumption, FS_Subset DEF TypeOK, Live

LEMMA CreateInv ==
  ASSUME Inv, TypeOK', NEW c \in CPU, Create(c) PROVE Inv'
<1>1. TypeOK /\ InOneList /\ Valid(c)
  BY DEF Inv, LocalsHold
<1>2. PICK p \in pcbFree : Create(c)!2!(p)
  BY DEF Create
<1>3. /\ cpu[c].pc = "create" /\ lock = NULL /\ lock' = NULL /\ Move(c, "run")
      /\ process_count' = process_count + 1 /\ UNCHANGED <<current, semq>>
  BY DEF Create
<1>4. p \in PCB /\ p \notin Live /\ Live' = Live \cup {p} /\ pcbFree' \subseteq pcbFree
  BY <1>1, <1>2 DEF TypeOK, Live
<1>5. cpu[c].caller # NULL /\ current[c] = cpu[c].caller /\ Executing(c)
  BY <1>1, <1>3 DEF Valid, Handlers, Window, Executing
<1>6. cpu[c].caller \in Live
  BY <1>5 DEF Inv, RunByOne
<1>7. /\ cpu'[c].pc = "run" /\ cpu'[c].caller = cpu[c].caller
      /\ \A i \in CPU \ {c} : cpu'[i] = cpu[i]
  BY <1>1, <1>3, MoveFacts
<1>8. ~Queued(p)
  BY <1>1, <1>4, OneListFacts
<1>9. /\ ready' = Append(ready, p) /\ parent' = [parent EXCEPT ![p] = cpu[c].caller]
      /\ semAdd' = [semAdd EXCEPT ![p] = NULL]
  BY <1>2
<1>10. InOneList' /\ \A q \in PCB : Queued(q)' <=> Queued(q) \/ q = p
  <2>1. \A q \in PCB \ {p} : semAdd'[q] = semAdd[q]
    BY <1>1, <1>9 DEF TypeOK
  <2>2. p \in Live' /\ Live \subseteq Live'
    BY <1>4
  <2>. QED  BY <1>1, <1>3, <1>4, <1>8, <1>9, <2>1, <2>2, AppendReady
<1>11. \A i \in CPU : Executing(i)' <=> Executing(i)
  BY <1>3, <1>5, <1>7 DEF Executing, Window
<1>12. InSomePlace'
  <2>1. \A q \in Live : Queued(q) \/ \E i \in CPU : Executing(i)' /\ current'[i] = q
    BY <1>3, <1>11 DEF Inv, InSomePlace
  <2>. QED  BY <1>4, <1>10, <2>1 DEF InSomePlace, Live
<1>13. RunByOne'
  <2>1. ASSUME NEW i \in CPU, Executing(i)
        PROVE  /\ current[i] \in Live /\ ~Queued(current[i])
               /\ \A j \in CPU : Executing(j) /\ current[j] = current[i] => j = i
    BY <2>1 DEF Inv, RunByOne
  <2>2. ASSUME NEW i \in CPU, Executing(i)
        PROVE  current'[i] \in Live' /\ ~Queued(current[i])'
    <3>1. current[i] \in Live /\ ~Queued(current[i])
      BY <2>1, <2>2
    <3>2. current[i] \in PCB /\ current[i] # p
      BY <1>4, <3>1 DEF Live
    <3>3. ~Queued(current[i])'
      BY <1>3, <1>10, <3>1, <3>2
    <3>. QED  BY <1>3, <1>4, <3>1, <3>3
  <2>. QED  BY <1>3, <1>11, <2>1, <2>2 DEF RunByOne
<1>14. CountIsLive'
  <2>1. process_count = Cardinality(Live) /\ IsFiniteSet(Live)
    BY <1>1, LiveIsFinite DEF Inv, CountIsLive
  <2>2. Cardinality(Live \cup {p}) = Cardinality(Live) + 1
    BY <1>4, <2>1, FS_AddElement
  <2>. QED  BY <1>3, <1>4, <2>1, <2>2 DEF CountIsLive
<1>15. LinksLive'
  <2>1. parent'[p] = cpu[c].caller /\ \A q \in PCB \ {p} : parent'[q] = parent[q]
    BY <1>1, <1>4, <1>9 DEF TypeOK
  <2>. QED  BY <1>4, <1>6, <2>1 DEF Inv, LinksLive
<1>16. ASSUME NEW i \in CPU \ {c} PROVE Valid(i)'
  <2>1. Valid(i)
    BY DEF Inv, LocalsHold
  <2>2. cpu[i].pc \notin Killing
    BY <1>3, <2>1, CpuAssumption DEF Valid
  <2>3. cpu'[i] = cpu[i] /\ current'[i] = current[i]
    BY <1>3, <1>7
  <2>. QED  BY <1>4, <2>1, <2>2, <2>3, OthersStayValid
<1>17. Valid(c)'
  BY <1>3, <1>5, <1>7 DEF Valid, Handlers, Window, Killing
<1>18. LocalsHold'
  BY <1>16, <1>17 DEF LocalsHold
<1>. QED  BY <1>10, <1>12, <1>13, <1>14, <1>15, <1>18 DEF Inv

-----------------------------------------------------------------------------
(* killTree *)

\* Cutting a link of the tree adds nobody to a subtree.
LEMMA SubtreeShrinks ==
  ASSUME NEW tree \in [PCB -> PCB \cup {NULL}], NEW p \in PCB, NEW r \in PCB
  PROVE  Subtree([tree EXCEPT ![p] = NULL], r) \subseteq Subtree(tree, r)
<1>. DEFINE cut == [tree EXCEPT ![p] = NULL]
<1>1. ASSUME NEW x \in Subtree(cut, r), NEW S \in SUBSET PCB,
             r \in S, \A q \in PCB : tree[q] \in S => q \in S
      PROVE  x \in S
  <2>1. \A q \in PCB : cut[q] \in S => q \in S
    BY <1>1, PcbAssumption
  <2>. HIDE DEF cut
  <2>. QED  BY <1>1, <2>1 DEF Subtree
<1>. HIDE DEF cut
<1>2. Subtree(cut, r) \subseteq PCB
  BY DEF Subtree
<1>. QED  BY <1>1, <1>2 DEF Subtree, cut

\* The tree of a live process is live.
LEMMA SubtreeIsLive ==
  ASSUME TypeOK, LinksLive, NEW r \in Live PROVE Subtree(parent, r) \subseteq Live
<1>1. Live \in SUBSET PCB /\ \A q \in PCB : parent[q] \in Live => q \in Live
  BY PcbAssumption DEF LinksLive, Live
<1>. QED  BY <1>1 DEF Subtree

LEMMA StartKillInv ==
  ASSUME Struck = {}, Inv, TypeOK', NEW c \in CPU, NEW r \in Live,
         NEW l \in Killing, StartKill(c, r, l), lock = NULL,
         cpu[c].caller \in Live, current[c] = cpu[c].caller,
         cpu[c].pc \in Handlers, l = "kill" => r = cpu[c].caller,
         UNCHANGED <<process_count, ready, current, semq, semAdd, pcbFree>>
  PROVE  Inv'
<1>1. TypeOK /\ LinksLive /\ r \in PCB /\ Live' = Live
  BY DEF Inv, Live
<1>2. /\ lock' = c /\ parent' = [parent EXCEPT ![r] = NULL]
      /\ cpu' = [cpu EXCEPT ![c].pc = l, ![c].victim = r]
  BY DEF StartKill
<1>3. /\ cpu'[c].pc = l /\ cpu'[c].caller = cpu[c].caller /\ cpu'[c].victim = r
      /\ \A i \in CPU \ {c} : cpu'[i] = cpu[i]
  <2>1. cpu \in [CPU -> Locals] /\ cpu[c] \in Locals
    BY <1>1 DEF TypeOK
  <2>. QED  BY <1>2, <2>1 DEF Locals
<1>s. \A i \in CPU \ {c} : current[i] \notin Subtree(parent, r)
  BY <1>3 DEF Struck, Handlers, Killing
<1>4. parent \in [PCB -> PCB \cup {NULL}]
  BY <1>1 DEF TypeOK
<1>5. Subtree(parent', r) \subseteq Subtree(parent, r)
  BY <1>1, <1>2, <1>4, SubtreeShrinks
<1>6. LinksLive'
  <2>1. parent'[r] = NULL /\ \A q \in PCB \ {r} : parent'[q] = parent[q]
    BY <1>1, <1>2, <1>4
  <2>. QED  BY <1>1, <2>1 DEF LinksLive
<1>7. InOneList' /\ CountIsLive'
  BY <1>1 DEF Inv, InOneList, CountIsLive
<1>8. \A i \in CPU : Executing(i)' <=> Executing(i)
  BY <1>3 DEF Executing, Window, Handlers, Killing
<1>9. InSomePlace'
  BY <1>1, <1>8 DEF Inv, InSomePlace, Queued
<1>10. RunByOne'
  BY <1>1, <1>8 DEF Inv, RunByOne, Queued
<1>11. ASSUME NEW i \in CPU \ {c} PROVE Valid(i)'
  <2>1. Valid(i)
    BY DEF Inv, LocalsHold
  <2>2. cpu[i].pc \notin Killing
    BY <2>1, CpuAssumption DEF Valid
  <2>. QED  BY <1>3, <2>1, <2>2, OthersStayValid
<1>12. Valid(c)'
  <2>1. cpu[c].caller # NULL
    BY PcbAssumption DEF Live
  <2>2. \A i \in CPU \ {c} : current'[i] \notin Subtree(parent', r)
    BY <1>5, <1>s
  <2>3. cpu[c].caller \in Live' /\ current'[c] = cpu[c].caller /\ r \in Live'
    BY <1>1
  <2>4. /\ cpu'[c].pc \in Killing /\ lock' = c /\ cpu'[c].caller = cpu[c].caller
        /\ cpu'[c].pc = "kill" => r = cpu[c].caller
    BY <1>2, <1>3
  <2>. QED  BY <1>3, <2>1, <2>2, <2>3, <2>4 DEF Valid, Handlers, Window, Killing
<1>13. LocalsHold'
  BY <1>11, <1>12 DEF LocalsHold
<1>. QED  BY <1>6, <1>7, <1>9, <1>10, <1>13 DEF Inv

LEMMA TermInv ==
  ASSUME Struck = {}, Inv, TypeOK', NEW c \in CPU, Term(c) \/ TermPid(c)
  PROVE  Inv'
<1>1. TypeOK /\ Valid(c)
  BY DEF Inv, LocalsHold
<1>2. /\ cpu[c].pc \in {"term", "termpid"} /\ lock = NULL
      /\ UNCHANGED <<process_count, ready, current, semq, semAdd, pcbFree>>
  BY DEF Term, TermPid
<1>3. cpu[c].caller # NULL /\ current[c] = cpu[c].caller /\ cpu[c].pc \in Handlers
  BY <1>1, <1>2 DEF Valid, Handlers
<1>4. cpu[c].caller \in Live
  BY <1>2, <1>3 DEF Inv, RunByOne, Executing, Window
<1>5. CASE Term(c)
  <2>1. StartKill(c, cpu[c].caller, "kill")
    BY <1>3, <1>5 DEF Term
  <2>. QED  BY <1>2, <1>3, <1>4, <2>1, StartKillInv DEF Killing
<1>6. CASE TermPid(c) /\ cpu[c].victim # NULL
  <2>1. StartKill(c, cpu[c].victim, "killpid") /\ cpu[c].victim \in Live
    BY <1>1, <1>6 DEF TermPid, Valid
  <2>. QED  BY <1>2, <1>3, <1>4, <2>1, StartKillInv DEF Killing
<1>7. CASE TermPid(c) /\ cpu[c].victim = NULL
  <2>1. Enter(c, "run", cpu[c].caller) /\ UNCHANGED <<lock, parent>>
    BY <1>7 DEF TermPid
  <2>2. /\ cpu'[c].pc = "run" /\ cpu'[c].caller = cpu[c].caller
        /\ \A i \in CPU \ {c} : cpu'[i] = cpu[i]
    BY <1>1, <2>1, MoveFacts
  <2>3. Valid(c)'
    BY <1>2, <1>3, <2>2 DEF Valid, Handlers, Window, Killing
  <2>4. UNCHANGED <<lists, current>>
    BY <1>2, <2>1 DEF lists
  <2>. QED  BY <1>2, <2>1, <2>2, <2>3, <2>4, LocalStep DEF Window
<1>. QED  BY <1>5, <1>6, <1>7

\* removeProcQ and removeBlocked take one PCB out of whatever queue it is in.
LEMMA DetachQueue ==
  ASSUME TypeOK, InOneList, NEW p \in PCB, Detach(p)
  PROVE  /\ Range(ready') = Range(ready) \ {p} /\ IsInjective(ready')
         /\ \A k \in Key : Range(semq'[k]) = Range(semq[k]) \ {p} /\ IsInjective(semq'[k])
<1>1. ready \in Seq(PCB) /\ IsInjective(ready)
  BY OneListFacts
<1>2. ASSUME NEW k \in Key
      PROVE  Range(semq'[k]) = Range(semq[k]) \ {p} /\ IsInjective(semq'[k])
  <2>1. semq[k] \in Seq(PCB) /\ IsInjective(semq[k])
    BY OneListFacts
  <2>2. CASE k = semAdd[p]
    <3>1. semq'[k] = RemoveFirst(semq[k], p)
      BY <2>2 DEF Detach
    <3>. QED  BY <2>1, <3>1, RemoveFromQueue
  <2>3. CASE k # semAdd[p]
    <3>1. semq'[k] = semq[k]
      BY <2>3 DEF Detach
    <3>2. p \notin Range(semq[k])
      BY <2>3 DEF InOneList
    <3>. QED  BY <2>1, <3>1, <3>2
  <2>. QED  BY <2>2, <2>3
<1>3. Range(ready') = Range(ready) \ {p} /\ IsInjective(ready')
  BY <1>1, RemoveFromQueue DEF Detach
<1>. QED  BY <1>2, <1>3

LEMMA KillOneInv ==
  ASSUME Inv, TypeOK', NEW c \in CPU, KillOne(c) PROVE Inv'
<1>. DEFINE r == cpu[c].victim
<1>1. TypeOK /\ InOneList /\ LinksLive /\ Valid(c)
  BY DEF Inv, LocalsHold
<1>2. cpu[c].pc \in Killing /\ r # NULL /\ UNCHANGED <<lock, semAdd>>
  BY DEF KillOne
<1>3. PICK p \in Subtree(parent, r) : (\A q \in PCB : parent[q] # p) /\ RemovePcb(c, p)
  BY DEF KillOne
<1>4. /\ lock = c /\ cpu[c].caller # NULL /\ r \in Live
      /\ current[c] = (IF cpu[c].caller \in Live THEN cpu[c].caller ELSE NULL)
      /\ cpu[c].pc = "kill" => r = cpu[c].caller
      /\ \A i \in CPU \ {c} : current[i] \notin Subtree(parent, r)
  BY <1>1, <1>2 DEF Valid
<1>5. p \in Live /\ p \in PCB /\ r \in PCB /\ p # NULL
  BY <1>1, <1>3, <1>4, SubtreeIsLive, PcbAssumption DEF Live
<1>6. \A i \in CPU \ {c} : current[i] # p
  BY <1>3, <1>4
<1>7. /\ parent' = [parent EXCEPT ![p] = NULL] /\ pcbFree' = pcbFree \cup {p}
      /\ process_count' = process_count - 1 /\ ready' = RemoveFirst(ready, p)
      /\ semq' = [k \in Key |-> IF k = semAdd[p] THEN RemoveFirst(semq[k], p) ELSE semq[k]]
      /\ cpu' = [i \in CPU |->
                   IF (i = c \/ cpu[i].pc = "termpid") /\ cpu[i].victim = p
                     THEN [cpu[i] EXCEPT !.victim = NULL] ELSE cpu[i]]
  BY <1>3 DEF RemovePcb, Detach, Forgotten
<1>8. /\ current'[c] = (IF current[c] = p THEN NULL ELSE current[c])
      /\ \A i \in CPU \ {c} : current'[i] = current[i]
  <2>1. \A j \in CPU : j < c => current[j] # p
    <3>1. \A j \in CPU : j < c => j # c
      BY CpuAssumption
    <3>. QED  BY <1>6, <3>1
  <2>. QED  BY <1>3, <1>6, <2>1 DEF RemovePcb, Detach
<1>9. Live' = Live \ {p} /\ Live \subseteq PCB
  BY <1>7 DEF Live
<1>10. /\ \A i \in CPU : /\ cpu'[i].pc = cpu[i].pc /\ cpu'[i].caller = cpu[i].caller
                         /\ cpu'[i].sem = cpu[i].sem
       /\ cpu'[c].victim = (IF r = p THEN NULL ELSE r)
       /\ \A i \in CPU : cpu[i].pc = "termpid" =>
            cpu'[i].victim = (IF cpu[i].victim = p THEN NULL ELSE cpu[i].victim)
  <2>1. \A i \in CPU : cpu[i] \in Locals
    BY <1>1 DEF TypeOK
  <2>2. \A i \in CPU : /\ [cpu[i] EXCEPT !.victim = NULL].pc = cpu[i].pc
                       /\ [cpu[i] EXCEPT !.victim = NULL].caller = cpu[i].caller
                       /\ [cpu[i] EXCEPT !.victim = NULL].sem = cpu[i].sem
                       /\ [cpu[i] EXCEPT !.victim = NULL].victim = NULL
    BY <2>1 DEF Locals
  <2>. QED  BY <1>7, <2>2
<1>11. Subtree(parent', r) \subseteq Subtree(parent, r)
  <2>1. parent \in [PCB -> PCB \cup {NULL}]
    BY <1>1 DEF TypeOK
  <2>. QED  BY <1>5, <1>7, <2>1, SubtreeShrinks
<1>. HIDE DEF r
<1>12. /\ Range(ready') = Range(ready) \ {p} /\ IsInjective(ready')
       /\ \A k \in Key : Range(semq'[k]) = Range(semq[k]) \ {p} /\ IsInjective(semq'[k])
  BY <1>1, <1>3, <1>5, DetachQueue DEF RemovePcb
<1>13. InOneList'
  <2>1. \A q \in Range(ready') : q \in Live' /\ \A k \in Key : q \notin Range(semq'[k])
    BY <1>1, <1>9, <1>12 DEF InOneList
  <2>2. \A k \in Key : \A q \in Range(semq'[k]) : q \in Live' /\ semAdd'[q] = k
    BY <1>1, <1>2, <1>9, <1>12 DEF InOneList
  <2>. QED  BY <1>12, <2>1, <2>2 DEF InOneList
<1>14. \A q \in PCB : Queued(q)' <=> Queued(q) /\ q # p
  BY <1>12 DEF Queued
<1>15. \A i \in CPU : current[i] # p => (Executing(i)' <=> Executing(i)) /\ current'[i] = current[i]
  BY <1>8, <1>10 DEF Executing
<1>16. \A i \in CPU : Executing(i)' => current[i] # p
  BY <1>6, <1>8 DEF Executing
<1>17. InSomePlace'
  <2>1. ASSUME NEW q \in Live, q # p PROVE Queued(q)' \/ \E i \in CPU : Executing(i)' /\ current'[i] = q
    <3>1. Queued(q) \/ \E i \in CPU : Executing(i) /\ current[i] = q
      BY DEF Inv, InSomePlace
    <3>. QED  BY <1>9, <1>14, <1>15, <2>1, <3>1
  <2>. QED  BY <1>9, <2>1 DEF InSomePlace
<1>18. RunByOne'
  <2>1. ASSUME NEW i \in CPU, Executing(i)'
        PROVE  /\ current'[i] \in Live' /\ ~Queued(current[i])'
               /\ \A j \in CPU : Executing(j)' /\ current'[j] = current'[i] => j = i
    <3>1. Executing(i) /\ current'[i] = current[i] /\ current[i] # p
      BY <1>15, <1>16, <2>1
    <3>2. /\ current[i] \in Live /\ ~Queued(current[i])
          /\ \A j \in CPU : Executing(j) /\ current[j] = current[i] => j = i
      BY <3>1 DEF Inv, RunByOne
    <3>3. ~Queued(current[i])'
      BY <1>9, <1>14, <3>1, <3>2
    <3>. QED  BY <1>9, <1>15, <1>16, <3>1, <3>2, <3>3
  <2>. QED  BY <2>1 DEF RunByOne
<1>19. CountIsLive'
  <2>1. process_count = Cardinality(Live) /\ IsFiniteSet(Live)
    BY <1>1, LiveIsFinite DEF Inv, CountIsLive
  <2>2. Cardinality(Live \ {p}) = Cardinality(Live) - 1
    BY <1>5, <2>1, FS_RemoveElement
  <2>. QED  BY <1>7, <1>9, <2>1, <2>2 DEF CountIsLive
<1>20. LinksLive'
  <2>1. parent'[p] = NULL /\ \A q \in PCB \ {p} : parent'[q] = parent[q]
    BY <1>1, <1>5, <1>7 DEF TypeOK
  <2>. QED  BY <1>1, <1>3, <1>9, <2>1 DEF LinksLive
<1>21. ASSUME NEW i \in CPU \ {c} PROVE Valid(i)'
  <2>1. Valid(i) /\ cpu[i].pc \notin Killing
    BY <1>4 DEF Inv, LocalsHold, Valid
  <2>2. cpu[i].pc \in Window => cpu[i].caller # p
    BY <1>6, <2>1 DEF Valid
  <2>3. cpu'[i].pc = "termpid" /\ cpu'[i].victim # NULL => cpu'[i].victim \in Live'
    BY <1>9, <1>10, <2>1 DEF Valid
  <2>4. /\ cpu'[i].pc = cpu[i].pc /\ cpu'[i].caller = cpu[i].caller
        /\ cpu'[i].sem = cpu[i].sem /\ current'[i] = current[i]
    BY <1>8, <1>10
  <2>5. cpu[i].pc \in Window => cpu[i].caller \in Live'
    BY <1>9, <2>1, <2>2 DEF Valid
  <2>. QED  BY <2>1, <2>3, <2>4, <2>5 DEF Valid
<1>22. Valid(c)'
  <2>1. current'[c] = (IF cpu[c].caller \in Live' THEN cpu[c].caller ELSE NULL)
    BY <1>4, <1>5, <1>8, <1>9
  <2>2. cpu[c].pc = "kill" =>
          cpu'[c].victim = (IF cpu[c].caller \in Live' THEN cpu[c].caller ELSE NULL)
    BY <1>4, <1>5, <1>9, <1>10
  <2>3. cpu'[c].victim # NULL =>
          /\ cpu'[c].victim = r /\ r \in Live'
          /\ \A i \in CPU \ {c} : current'[i] \notin Subtree(parent', r)
    BY <1>4, <1>8, <1>9, <1>10, <1>11
  <2>4. /\ cpu'[c].pc \in Killing /\ cpu'[c].pc = cpu[c].pc
        /\ cpu'[c].caller = cpu[c].caller /\ lock' = c
    BY <1>2, <1>4, <1>10
  <2>. QED  BY <1>4, <2>1, <2>2, <2>3, <2>4 DEF Valid, Handlers, Window, Killing
<1>23. LocalsHold'
  BY <1>21, <1>22 DEF LocalsHold
<1>. QED  BY <1>13, <1>17, <1>18, <1>19, <1>20, <1>23 DEF Inv

-----------------------------------------------------------------------------
(* The invariant and what follows from it *)

LEMMA InitInv == Init => Inv
<1>. SUFFICES ASSUME Init PROVE Inv
  OBVIOUS
<1>1. TypeOK
  BY InitType
<1>2. PICK first \in PCB, v \in [Sem -> {0, 1}] : Init!(first, v)
  BY DEF Init
<1>3. Live = {first} /\ Range(ready) = {first} /\ IsInjective(ready)
  BY <1>2 DEF Live, Range, IsInjective
<1>4. \A k \in Key : Range(semq[k]) = {} /\ IsInjective(semq[k])
  BY <1>2 DEF Range, IsInjective
<1>5. InOneList
  BY <1>3, <1>4 DEF InOneList
<1>6. InSomePlace
  BY <1>3 DEF InSomePlace, Queued
<1>7. \A c \in CPU : cpu[c].pc = "sched" /\ current[c] = NULL
  BY <1>2 DEF Forget, Local
<1>8. RunByOne
  BY <1>7 DEF RunByOne, Executing
<1>9. CountIsLive
  BY <1>2, <1>3, FS_Singleton DEF CountIsLive
<1>10. LinksLive
  BY <1>2 DEF LinksLive
<1>11. LocalsHold
  BY <1>7 DEF LocalsHold, Valid, Handlers, Window, Killing
<1>. QED  BY <1>1, <1>5, <1>6, <1>8, <1>9, <1>10, <1>11 DEF Inv

LEMMA StepInv ==
  ASSUME intact', Inv, [Next]_vars PROVE Inv'
<1>1. TypeOK'
  <2>1. \A c \in CPU : SemTyped(c)
    BY DEF Inv, LocalsHold, Valid, SemTyped
  <2>. QED  BY <2>1, NextType DEF Inv
<1>2. CASE UNCHANGED vars
  <2>1. UNCHANGED <<lists, current, saved, val, lock, cpu>>
    BY <1>2 DEF vars
  <2>2. PICK c \in CPU : TRUE
    BY CpuAssumption
  <2>3. Valid(c)'
    BY <2>1 DEF Inv, LocalsHold, Valid, Live, lists
  <2>. QED  BY <1>1, <2>1, <2>3, LocalStep
<1>3. ASSUME NEW d \in Dev, Complete(d) PROVE Inv'
  <2>1. UNCHANGED <<lists, current, saved, val, lock, cpu>>
    BY <1>3 DEF Complete, kernel
  <2>2. PICK c \in CPU : TRUE
    BY CpuAssumption
  <2>3. Valid(c)'
    BY <2>1 DEF Inv, LocalsHold, Valid, Live, lists
  <2>. QED  BY <1>1, <2>1, <2>3, LocalStep
<1>4. ASSUME NEW c \in CPU, Schedule(c) PROVE Inv'
  BY <1>1, <1>4, DispatchInv, ScheduleLocal DEF Schedule
<1>5. ASSUME NEW c \in CPU, Call(c) PROVE Inv'
  BY <1>1, <1>5, CallLocal
<1>6. ASSUME NEW c \in CPU, Handle(c), Struck = {} PROVE Inv'
  BY <1>1, <1>6, HandleLocal, CreateInv, BlockInv, PassInv, ClearInv, TermInv, KillOneInv
     DEF Handle
<1>7. ASSUME NEW c \in CPU, Interrupt(c) PROVE Inv'
  BY <1>1, <1>7, InterruptLocal, ServeInterruptInv, PreemptInv, TickInv DEF Interrupt
<1>. QED  BY <1>2, <1>3, <1>4, <1>5, <1>6, <1>7, StaysIntact DEF Next, Runs, Stays

\* The inductive invariant holds of every workload until a process is killed
\* while another CPU has it.
THEOREM NucleusInvariant == Spec => [](intact => Inv)
<1>1. Init => Inv
  BY InitInv
<1>2. Inv /\ [Next]_vars /\ intact' => Inv'
  BY StepInv
<1>3. [Next]_vars /\ intact' => intact
  BY StaysIntact
<1>. QED  BY <1>1, <1>2, <1>3, PTL DEF Spec

\* pcb.c and asl.c link a PCB into at most one list, at most once.
THEOREM EveryPcbInOneList == Spec => []OneList
<1>1. Inv => InOneList
  BY DEF Inv
<1>2. Spec => [](intact => Inv)
  BY NucleusInvariant
<1>. QED  BY <1>1, <1>2, PTL DEF OneList

\* The handlers, interleaved in any way, lose no live process.
THEOREM NoProcessIsLost == Spec => []NobodyLost
<1>1. Inv => InSomePlace
  BY DEF Inv
<1>2. Spec => [](intact => Inv)
  BY NucleusInvariant
<1>. QED  BY <1>1, <1>2, PTL DEF NobodyLost

\* Until a process is killed while another CPU has it, no process is executed
\* by two CPUs, or by one while it is in a queue: nothing else that the
\* handlers do lets that happen.
THEOREM OneExecutorEach == Spec => []OneExecutor
<1>1. Inv => RunByOne
  BY DEF Inv
<1>2. Spec => [](intact => Inv)
  BY NucleusInvariant
<1>. QED  BY <1>1, <1>2, PTL DEF OneExecutor

\* process_count, by which the scheduler decides to halt, is exact.
THEOREM CountIsExact == Spec => []CountMatches
<1>1. Inv => CountIsLive
  BY DEF Inv
<1>2. Spec => [](intact => Inv)
  BY NucleusInvariant
<1>. QED  BY <1>1, <1>2, PTL DEF CountMatches

\* The process tree never links to a PCB that has been freed.
THEOREM TreeStaysLive == Spec => []TreeIsLive
<1>1. Inv => LinksLive
  BY DEF Inv
<1>2. Spec => [](intact => Inv)
  BY NucleusInvariant
<1>. QED  BY <1>1, <1>2, PTL DEF TreeIsLive

\* What the handlers have read of the shared state stays true of it until
\* they use it, or until a process is killed while another CPU has it.
THEOREM LocalsStayValid == Spec => []LocalsAreValid
<1>1. Inv => LocalsHold
  BY DEF Inv
<1>2. Spec => [](intact => Inv)
  BY NucleusInvariant
<1>. QED  BY <1>1, <1>2, PTL DEF LocalsAreValid

\* A CPU that waits, or is about to ask the scheduler, has no process, until
\* a process is killed while another CPU has it.
THEOREM IdleIsEmpty == Spec => []IdleHasNoProcess
<1>1. Inv => BareWhenIdle
  BY DEF Inv, LocalsHold, Valid, BareWhenIdle
<1>2. Spec => [](intact => Inv)
  BY NucleusInvariant
<1>. QED  BY <1>1, <1>2, PTL DEF IdleHasNoProcess
-----------------------------------------------------------------------------
(* The end of the machine *)

\* A CPU that goes on elsewhere has not halted the machine.
LEMMA GoesOn ==
  ASSUME TypeOK, ~Halted, NEW c \in CPU, NEW l, l # "halted"
  PROVE  (Move(c, l) => ~Halted') /\ \A p : Enter(c, l, p) => ~Halted'
<1>1. \A i \in CPU : cpu[i].pc # "halted"
  BY DEF Halted
<1>2. ASSUME NEW m, m = cpu', m[c].pc = l, \A i \in CPU \ {c} : m[i] = cpu[i]
      PROVE  ~Halted'
  BY <1>1, <1>2 DEF Halted
<1>. QED  BY <1>2, MoveFacts

\* Whatever a CPU does next to the scheduler's HALT, the machine runs on.
LEMMA OnlyHaltHalts ==
  ASSUME TypeOK, ~Halted, NEW c \in CPU,
         \/ Dispatch(c) \/ Load(c) \/ Wait(c)
         \/ Call(c) \/ Handle(c) \/ Interrupt(c)
  PROVE  ~Halted'
<1>. USE GoesOn
<1>t. cpu \in [CPU -> Locals] /\ \A i \in CPU : cpu[i].pc # "halted"
  BY DEF TypeOK, Halted
<1>1. CASE Dispatch(c) \/ Load(c) \/ Wait(c)
  BY <1>1 DEF Dispatch, Load, Wait
<1>2. CASE Call(c)
  <2>1. ASSUME NEW l, l # "halted", NEW k, NEW v, NEW x, Request(c, l, k, v, x)
        PROVE  ~Halted'
    BY <1>t, <2>1 DEF Request, Local, Halted
  <2>2. CASE ProgramTrap(c)
    BY <2>2 DEF ProgramTrap
  <2>. QED  BY <1>2, <2>1, <2>2 DEF Call, CallCreate, CallTerm, CallTermPid, CallP,
                                    CallV, CallDoIO, CallClockWait
<1>3. CASE Create(c) \/ CreateFails(c) \/ FirstTest(c) \/ SecondTest(c) \/ SearchFaults(c)
  BY <1>3 DEF Create, CreateFails, FirstTest, SecondTest, SearchFaults, Fault
<1>4. CASE Block(c) \/ Pass(c) \/ ClockWait(c) \/ Save(c) \/ Clear(c) \/ DoIO(c) \/ Command(c)
  BY <1>4 DEF Block, Pass, ClockWait, Save, Clear, DoIO, Command, Fault
<1>5. CASE Term(c) \/ TermPid(c)
  <2>1. ASSUME NEW r, NEW l \in Killing, StartKill(c, r, l) PROVE ~Halted'
    BY <1>t, <2>1 DEF StartKill, Killing, Halted, Locals
  <2>. QED  BY <1>5, <2>1 DEF Term, TermPid, Killing
<1>6. CASE KillOne(c)
  <2>1. PICK p \in PCB : RemovePcb(c, p)
    BY <1>6 DEF KillOne, Subtree
  <2>2. \A i \in CPU : cpu'[i].pc = cpu[i].pc
    BY <1>t, <2>1 DEF RemovePcb, Forgotten, Locals
  <2>. QED  BY <1>t, <2>2 DEF Halted
<1>7. CASE EndKill(c)
  BY <1>7 DEF EndKill
<1>8. CASE TakeInterrupt(c) \/ Preempt(c)
  BY <1>8 DEF TakeInterrupt, Preempt
<1>9. CASE ReadBitmap(c)
  BY <1>t, <1>9 DEF ReadBitmap, Halted, Locals
<1>10. CASE ServeInterrupt(c) \/ Tick(c)
  BY <1>10 DEF ServeInterrupt, Tick, AfterInterrupt
<1>. QED  BY <1>1, <1>2, <1>3, <1>4, <1>5, <1>6, <1>7, <1>8, <1>9, <1>10
          DEF Handle, Interrupt

\* The CPU that halts the machine has found process_count at 0, and that is
\* the number of the processes that are alive.
LEMMA HaltIsTheEnd ==
  ASSUME TypeOK, CountIsLive, NEW c \in CPU, Halt(c) PROVE HaltAtZero'
<1>1. Cardinality(Live) = 0 /\ IsFiniteSet(Live)
  BY LiveIsFinite DEF CountIsLive, Halt
<1>2. Live = {} /\ Live' = Live
  BY <1>1, FS_EmptySet DEF Halt, Live, kernel, lists
<1>. QED  BY <1>2 DEF HaltAtZero

\* The machine halts only when no process is left, whichever CPU it is that
\* finds the ready queue empty.
THEOREM HaltsAtTheEnd == Spec => []HaltsWhenDone
<1>1. Init => HaltAtZero
  BY DEF Init, Forget, Local, HaltAtZero, Halted
<1>2. Inv /\ HaltAtZero /\ [Next]_vars => HaltAtZero'
  <2>. SUFFICES ASSUME Inv, HaltAtZero, [Next]_vars PROVE HaltAtZero'
    OBVIOUS
  <2>. TypeOK /\ CountIsLive
    BY DEF Inv
  <2>1. CASE UNCHANGED vars
    BY <2>1 DEF vars, lists, HaltAtZero, Halted, Live
  <2>2. ASSUME ~Halted, NEW d \in Dev, Complete(d) PROVE HaltAtZero'
    BY <2>2 DEF Complete, kernel, HaltAtZero, Halted
  <2>3. ASSUME ~Halted, NEW c \in CPU,
               Schedule(c) \/ Call(c) \/ Handle(c) \/ Interrupt(c)
        PROVE  HaltAtZero'
    BY <2>3, OnlyHaltHalts, HaltIsTheEnd DEF Schedule, HaltAtZero
  <2>. QED  BY <2>1, <2>2, <2>3 DEF Next, Runs, Stays
<1>3. [Next]_vars /\ intact' => intact
  BY StaysIntact
<1>4. Spec => [](intact => Inv)
  BY NucleusInvariant
<1>. QED  BY <1>1, <1>2, <1>3, <1>4, PTL DEF Spec, HaltsWhenDone
=============================================================================
