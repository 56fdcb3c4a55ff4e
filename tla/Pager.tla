------------------------------- MODULE Pager -------------------------------
(* The pager of phase 3 (vmSupport.c) with the TLB refill handler of phase *)
(* 2 (exceptions.c): swap pool, page tables, and one TLB for each CPU.     *)
(*                                                                         *)
(* Grain.  A U-proc can lose its CPU in user mode at any time, and in a    *)
(* support handler, which runs with interrupts disabled, at a system call  *)
(* that blocks only: a P on the swap pool or a DOIO.  In between, every    *)
(* access to a page table, to a TLB or to a frame that another CPU can see *)
(* is a step of its own.  The flash moves a page at any time between the   *)
(* DOIO and the wake-up of the process.                                    *)
(*                                                                         *)
(* A flash device may fail to read; the failures to write are in Support.  *)
EXTENDS Integers, FiniteSets

CONSTANTS CPU,       \* processors, each with a TLB
          Asid,      \* U-procs
          USERPGTBLSIZE,  \* number of pages of a U-proc
          POOLSIZE,  \* number of frames in the swap pool
          Word,      \* what a page can hold
          Faults,    \* the flash commands that may fail
          NULL

ASSUME PoolAssumption == POOLSIZE \in Nat \ {0}
ASSUME PageAssumption == USERPGTBLSIZE \in Nat \ {0}
ASSUME UprocAssumption == NULL \notin Asid
ASSUME WordAssumption == Word # {}
ASSUME FaultAssumption == Faults \subseteq {"read"}

VARIABLES
  running,           \* the U-proc that each CPU executes
  pc,                \* where each U-proc is
  fault,             \* the page that the pager has to load (its local p)
  victim,            \* the frame that it has picked (its local frame)
  semSwapPoolTable,  \* value of the semaphore
  swapPoolTable,     \* sw_asid and sw_pageNo, or Free when sw_asid is -1
  next,              \* the static variable of pickFrame, modulo POOLSIZE
  pgTbl,             \* sup_privatePgTbl: the frame of a valid entry
  tlb,               \* the TLB of each CPU
  data,              \* the contents of each frame
  flash              \* the contents of each block of each flash device

procs  == <<running, pc, fault, victim>>
pool   == <<semSwapPoolTable, swapPoolTable, next>>
store  == <<data, flash>>
vars   == <<procs, pool, pgTbl, tlb, store>>

Page    == 0 .. USERPGTBLSIZE - 1
Frame   == 0 .. POOLSIZE - 1
Invalid == -1  \* an entry with V off
Absent  == -2  \* no entry in the TLB
Free    == <<NULL, NULL>>

Waiting  == {"waitpager", "waitkill"}       \* in the queue of the semaphore
InFlash  == {"writing", "reading"}          \* in the queue of the flash device
Movers   == {"sync", "read", "install"} \cup InFlash  \* has picked a frame
Inside   == Movers \cup {"search", "failed", "free"}  \* has the swap pool
Ready    == {"user", "fault", "dying", "search", "sync", "read", "install", "failed", "free"}
Location == Ready \cup Waiting \cup InFlash \cup {"dead"}

Owner(f) == swapPoolTable[f][1]  \* x_asid
PageIn(f) == swapPoolTable[f][2]  \* k

Init ==
  /\ running = [c \in CPU |-> NULL]
  /\ pc = [a \in Asid |-> "user"]
  /\ fault = [a \in Asid |-> 0] /\ victim = [a \in Asid |-> 0]
  /\ semSwapPoolTable = 1
  /\ swapPoolTable = [f \in Frame |-> Free]
  /\ next = 0
  /\ pgTbl = [a \in Asid |-> [p \in Page |-> Invalid]]
  /\ tlb = [c \in CPU |-> [a \in Asid |-> [p \in Page |-> Absent]]]
  /\ data \in [Frame -> Word]
  /\ flash \in [Asid -> [Page -> Word]]

-----------------------------------------------------------------------------
(* The nucleus as the U-procs see it.                                      *)

Dispatch(c, a) ==
  /\ running[c] = NULL /\ pc[a] \in Ready
  /\ \A i \in CPU : running[i] # a
  /\ running' = [running EXCEPT ![c] = a]
  /\ UNCHANGED <<pc, fault, victim, pool, pgTbl, tlb, store>>

Preempt(c, a) ==
  /\ running[c] = a /\ pc[a] = "user"
  /\ running' = [running EXCEPT ![c] = NULL]
  /\ UNCHANGED <<pc, fault, victim, pool, pgTbl, tlb, store>>

At(c, a, l)    == running[c] = a /\ pc[a] = l
Goto(a, l)     == pc' = [pc EXCEPT ![a] = l] /\ UNCHANGED running
\* A DOIO takes the CPU away.
DoIO(c, a, l)  == pc' = [pc EXCEPT ![a] = l] /\ running' = [running EXCEPT ![c] = NULL]

\* acquireSwapPoolTable, from "from" to "to" or, when that blocks, to "wait".
Acquire(c, a, wait, to) ==
  IF semSwapPoolTable = 1
    THEN Goto(a, to) /\ semSwapPoolTable' = 0
    ELSE DoIO(c, a, wait) /\ UNCHANGED semSwapPoolTable

\* Where a process goes on that has been given the swap pool.
Granted(q) == IF pc[q] = "waitpager" THEN "search" ELSE "free"

\* Faulty variant: the value is set even when the pool goes to a waiter.
Release_both(a, l) ==
  /\ semSwapPoolTable' = 1
  /\ \/ (\A q \in Asid : pc[q] \notin Waiting) /\ pc' = [pc EXCEPT ![a] = l]
     \/ \E q \in Asid : pc[q] \in Waiting /\ pc' = [pc EXCEPT ![a] = l, ![q] = Granted(q)]

\* releaseSwapPoolTable: the pool goes to one of those who wait for it.
Release(a, l) ==
  /\ \/ /\ \A q \in Asid : pc[q] \notin Waiting
        /\ semSwapPoolTable' = 1
        /\ pc' = [pc EXCEPT ![a] = l]
     \/ \E q \in Asid :
          /\ pc[q] \in Waiting
          /\ pc' = [pc EXCEPT ![a] = l, ![q] = Granted(q)]
          /\ UNCHANGED semSwapPoolTable

-----------------------------------------------------------------------------
(* A U-proc in user mode, or a support handler that reads and writes the   *)
(* message of a U-proc: the address is looked up in the TLB of the CPU.  A *)
(* load changes nothing, TlbAgrees and FramesAgree say what it reads.      *)

Store(c, a, p, w) ==
  /\ At(c, a, "user") /\ tlb[c][a][p] \in Frame
  /\ data' = [data EXCEPT ![tlb[c][a][p]] = w]
  /\ UNCHANGED <<procs, pool, pgTbl, tlb, flash>>

\* uTLB_RefillHandler: TLBWR overwrites a random slot, perhaps one in use.
uTLB_RefillHandler(c, a, p) ==
  /\ At(c, a, "user") /\ tlb[c][a][p] = Absent
  /\ \E b \in Asid, q \in Page :
       tlb' = [tlb EXCEPT ![c][b][q] = Absent, ![c][a][p] = pgTbl[a][p]]
  /\ UNCHANGED <<procs, pool, pgTbl, store>>

\* passUpOrDie(PGFAULTEXCEPT): the entry that the TLB has is not valid.
PassUp(c, a, p) ==
  /\ At(c, a, "user") /\ tlb[c][a][p] = Invalid
  /\ Goto(a, "fault") /\ fault' = [fault EXCEPT ![a] = p]
  /\ UNCHANGED <<victim, pool, pgTbl, tlb, store>>

-----------------------------------------------------------------------------
(* TLBExceptionHandler                                                     *)

Enter(c, a) ==
  /\ At(c, a, "fault")
  /\ Acquire(c, a, "waitpager", "search")
  /\ UNCHANGED <<fault, victim, swapPoolTable, next, pgTbl, tlb, store>>

\* TLBP and TLBWI: only an entry that the TLB has is rewritten.
UpdateTLB(c, a, p, entry) ==
  tlb' = IF tlb[c][a][p] = Absent THEN tlb ELSE [tlb EXCEPT ![c][a][p] = entry]

\* The page is in the pool and valid: only the TLB was out of date.
InPool(a, p) == \E f \in Frame : swapPoolTable[f] = <<a, p>>
Loaded(a, p) == InPool(a, p) /\ pgTbl[a][p] # Invalid

\* Faulty variant: the counter is not brought back into the pool.
PickFrame_overrun(f) ==
  /\ IF Owner(f) = NULL THEN UNCHANGED next ELSE f = next /\ next' = next + 1
  /\ \A g \in Frame : Owner(g) = NULL => Owner(f) = NULL

\* The first free frame, or else the frames in turn.  The code increments an
\* int and takes it modulo POOLSIZE at the end: the same frames until its
\* 2^31st increment overflows, which is not modelled.
PickFrame(f) ==
  \/ /\ Owner(f) = NULL /\ \A g \in Frame : Owner(g) = NULL => f <= g
     /\ UNCHANGED next
  \/ /\ \A g \in Frame : Owner(g) # NULL
     /\ f = next /\ next' = (next + 1) % POOLSIZE

\* Faulty variant: the victim stays valid.
Evict_keepsValid(a) ==
  \E f \in Frame :
    /\ PickFrame(f)
    /\ victim' = [victim EXCEPT ![a] = f]
    /\ Goto(a, IF Owner(f) = NULL THEN "read" ELSE "sync")
    /\ UNCHANGED pgTbl

\* A frame is picked, and the page in it is invalidated in the page table of
\* its owner.
Evict(a) ==
  \E f \in Frame :
    /\ PickFrame(f)
    /\ victim' = [victim EXCEPT ![a] = f]
    /\ IF Owner(f) = NULL
         THEN Goto(a, "read") /\ UNCHANGED pgTbl
         ELSE Goto(a, "sync") /\ pgTbl' = [pgTbl EXCEPT ![Owner(f)][PageIn(f)] = Invalid]

\* The locals die with the call.
Return(a) == fault' = [fault EXCEPT ![a] = 0] /\ victim' = [victim EXCEPT ![a] = 0]

\* The swap pool is searched.  On several CPUs the page may be there, loaded
\* through another CPU, and only the TLB of this one is out of date.
Search(c, a) ==
  /\ At(c, a, "search")
  /\ IF InPool(a, fault[a]) THEN UpdateTLB(c, a, fault[a], pgTbl[a][fault[a]])
                            ELSE UNCHANGED tlb
  /\ IF Loaded(a, fault[a])
       THEN Release(a, "user") /\ Return(a) /\ UNCHANGED <<running, next, pgTbl>>
       ELSE Evict(a) /\ UNCHANGED <<fault, semSwapPoolTable>>
  /\ UNCHANGED <<swapPoolTable, store>>

\* Faulty variants: the TLB is not told; the frame is not written.
StartWrite_noUpdate(c, a) ==
  /\ At(c, a, "sync")
  /\ DoIO(c, a, "writing")
  /\ UNCHANGED <<fault, victim, pool, pgTbl, tlb, store>>

StartWrite_skipped(c, a) ==
  /\ At(c, a, "sync")
  /\ UpdateTLB(c, Owner(victim[a]), PageIn(victim[a]), Invalid)
  /\ Goto(a, "read")
  /\ UNCHANGED <<fault, victim, pool, pgTbl, store>>

\* The TLB of this CPU is told, and the frame is written to the flash device
\* of its owner.
StartWrite(c, a) ==
  /\ At(c, a, "sync")
  /\ UpdateTLB(c, Owner(victim[a]), PageIn(victim[a]), Invalid)
  /\ DoIO(c, a, "writing")
  /\ UNCHANGED <<fault, victim, pool, pgTbl, store>>

StartRead(c, a) ==
  /\ At(c, a, "read")
  /\ DoIO(c, a, "reading")
  /\ UNCHANGED <<fault, victim, pool, pgTbl, tlb, store>>

\* The page that was read becomes valid, in swap pool table, page table and,
\* if it is there, in the TLB of this CPU.
Install(c, a) ==
  LET f == victim[a] IN
  /\ At(c, a, "install")
  /\ swapPoolTable' = [swapPoolTable EXCEPT ![f] = <<a, fault[a]>>]
  /\ pgTbl' = [pgTbl EXCEPT ![a][fault[a]] = f]
  /\ UpdateTLB(c, a, fault[a], f)
  /\ Release(a, "user") /\ Return(a)
  /\ UNCHANGED <<running, next, store>>

\* The flash device: block k of the device of a U-proc is its page k.
WriteDone(a) ==
  LET f == victim[a] IN
  /\ pc[a] = "writing"
  /\ flash' = [flash EXCEPT ![Owner(f)][PageIn(f)] = data[f]]
  /\ Goto(a, "read")
  /\ UNCHANGED <<fault, victim, pool, pgTbl, tlb, data>>

ReadDone(a) ==
  /\ pc[a] = "reading"
  /\ data' = [data EXCEPT ![victim[a]] = flash[a][fault[a]]]
  /\ Goto(a, "install")
  /\ UNCHANGED <<fault, victim, pool, pgTbl, tlb, flash>>

\* A read that fails may have written to the frame.
ReadFails(a) ==
  /\ pc[a] = "reading" /\ "read" \in Faults
  /\ \E w \in Word : data' = [data EXCEPT ![victim[a]] = w]
  /\ Goto(a, "failed")
  /\ UNCHANGED <<fault, victim, pool, pgTbl, tlb, flash>>

\* The error is treated as a program trap of the U-proc.  The swap pool table
\* keeps what it has for the frame.
FlashError(c, a) ==
  /\ At(c, a, "failed")
  /\ Release(a, "dying") /\ Return(a)
  /\ UNCHANGED <<running, swapPoolTable, next, pgTbl, tlb, store>>

-----------------------------------------------------------------------------
(* The end of a U-proc: killUproc, as far as the swap pool goes.           *)

Terminate(c, a) ==
  /\ At(c, a, "user") /\ Goto(a, "dying")
  /\ UNCHANGED <<fault, victim, pool, pgTbl, tlb, store>>

EnterKill(c, a) ==
  /\ At(c, a, "dying")
  /\ Acquire(c, a, "waitkill", "free")
  /\ UNCHANGED <<fault, victim, swapPoolTable, next, pgTbl, tlb, store>>

FreeFrames(a) ==
  swapPoolTable' = [f \in Frame |-> IF Owner(f) = a THEN Free ELSE swapPoolTable[f]]

\* The frames are free, the page table entries stay as they are: the process
\* terminates without touching its pages again.
Kill(c, a) ==
  /\ At(c, a, "free")
  /\ FreeFrames(a)
  /\ Release(a, "dead")
  /\ running' = [running EXCEPT ![c] = NULL]
  /\ UNCHANGED <<fault, victim, next, pgTbl, tlb, store>>

-----------------------------------------------------------------------------
Execute(c, a) ==
  \/ Preempt(c, a) \/ Enter(c, a) \/ Search(c, a) \/ StartWrite(c, a)
  \/ StartRead(c, a) \/ Install(c, a) \/ FlashError(c, a)
  \/ Terminate(c, a) \/ EnterKill(c, a) \/ Kill(c, a)
  \/ \E p \in Page :
       \/ uTLB_RefillHandler(c, a, p) \/ PassUp(c, a, p)
       \/ \E w \in Word : Store(c, a, p, w)

Next ==
  \/ \E c \in CPU, a \in Asid : Dispatch(c, a) \/ Execute(c, a)
  \/ \E a \in Asid : WriteDone(a) \/ ReadDone(a) \/ ReadFails(a)
  \/ (\A a \in Asid : pc[a] = "dead") /\ UNCHANGED vars

Spec == Init /\ [][Next]_vars

-----------------------------------------------------------------------------
(* Properties *)

\* Types of the variables.
TypeOK ==
  /\ running \in [CPU -> Asid \cup {NULL}]
  /\ pc \in [Asid -> Location]
  /\ fault \in [Asid -> Page]
  /\ victim \in [Asid -> Frame]
  /\ semSwapPoolTable \in {0, 1}
  /\ swapPoolTable \in [Frame -> (Asid \X Page) \cup {Free}]
  /\ next \in Frame
  /\ pgTbl \in [Asid -> [Page -> Frame \cup {Invalid}]]
  /\ tlb \in [CPU -> [Asid -> [Page -> Frame \cup {Invalid, Absent}]]]
  /\ data \in [Frame -> Word]
  /\ flash \in [Asid -> [Page -> Word]]

\* The semaphore gives the swap pool to one U-proc at a time, also while that
\* one waits for a flash device, and to nobody only when nobody waits.
PoolIsExclusive ==
  /\ \A a, b \in Asid : pc[a] \in Inside /\ pc[b] \in Inside => a = b
  /\ semSwapPoolTable = 1 <=> \A a \in Asid : pc[a] \notin Inside \cup Waiting

\* Somebody is moving the page that the table has for frame f.
Moving(f) == \E a \in Asid : pc[a] \in Movers /\ victim[a] = f
\* ... and has yet to write it to the flash device.
Unwritten(f) == \E a \in Asid : pc[a] \in {"sync", "writing"} /\ victim[a] = f

\* The swap pool table has a page for frame f that is not valid there: it was
\* evicted for a page that could not be read.
LeftBehind(f, a, p) ==
  pc[a] # "dead" /\ swapPoolTable[f] = <<a, p>> /\ ~Moving(f) /\ pgTbl[a][p] # f
Ending == {"failed", "dying", "waitkill", "free", "dead"}

\* A page table entry of a living U-proc is valid only when the swap pool
\* table has that page for that frame and nobody is evicting it, so no frame
\* holds two valid pages; and, unless a U-proc has come to its end, always
\* then, so no page is in two frames.
FramesAgree ==
  \A f \in Frame, a \in Asid, p \in Page :
    /\ pc[a] # "dead" /\ pgTbl[a][p] = f => swapPoolTable[f] = <<a, p>> /\ ~Moving(f)
    /\ LeftBehind(f, a, p) => \E b \in Asid : pc[b] \in Ending

\* On one CPU a valid entry of the TLB is the one in the page table, except
\* between the two accesses that change both.
TlbAgrees ==
  \A c \in CPU, a \in Asid, p \in Page :
    pc[a] # "dead" /\ tlb[c][a][p] # Absent =>
      \/ tlb[c][a][p] = pgTbl[a][p]
      \/ \E b \in Asid : At(c, b, "sync") /\ swapPoolTable[victim[b]] = <<a, p>>

\* A valid entry in the TLB of the CPU that executes a U-proc leads to a frame
\* with its own page, whoever evicts what on the other CPUs.
AccessesOwnPage ==
  \A c \in CPU, a \in Asid, p \in Page :
    At(c, a, "user") /\ tlb[c][a][p] \in Frame => swapPoolTable[tlb[c][a][p]] = <<a, p>>

\* The frame with the words of a page: the one in its valid entry or, while it
\* is evicted, the one that has yet to be written.
Holds(f, a, p) ==
  pgTbl[a][p] = f \/ (swapPoolTable[f] = <<a, p>> /\ Unwritten(f))
Memory(a, p) ==
  IF \E f \in Frame : Holds(f, a, p)
    THEN data[CHOOSE f \in Frame : Holds(f, a, p)] ELSE flash[a][p]

\* Every U-proc has a memory of its own: wherever its pages are, in frames or
\* in blocks of its flash device, only its own stores change them, or the
\* eviction of a frame in which a page was left behind.
PM == INSTANCE PrivateMemory WITH
  MayFail <- Faults # {},
  mem     <- [a \in {b \in Asid : pc[b] # "dead"} |-> [p \in Page |-> Memory(a, p)]],
  active  <- {a \in Asid : \E c \in CPU : At(c, a, "user")},
  exposed <- {x \in Asid \X Page : \E f \in Frame : LeftBehind(f, x[1], x[2])}
ImplementsPrivateMemory == PM!Spec
=============================================================================
