# MultiPandOS, phases 1 to 3: a TLA+ model

MultiPandOS is a small multiprocessor kernel in C for the uRISCV emulator
(`src/src`). Phase 1 is a pool of process control blocks and the active
semaphore list, phase 2 the nucleus (scheduler, system calls, interrupts, up
to `NCPU` = 8 processors behind one spin lock), phase 3 a support level with
virtual memory for eight user processes (U-procs). This directory models all
three, checks them with TLC, and proves with TLAPS their safety: that the linked
lists of phase 1 implement an abstract process table, the invariants of the
nucleus, of the pager and of the support level, and what P and V and the pager
promise. Paths are relative to `src/src`.

## The system

| part | code | state | operations | in the model |
|---|---|---|---|---|
| intrusive lists | `headers/listx.h` | `next`, `prev` of each cell | add, delete, walk | `Lists` |
| PCB pool, queues, tree | `phase1/pcb.c` | `pcbFree_h`, `p_list`, `p_parent`, `p_child`, `p_sib` | alloc/free, insert/remove/out of a queue or of the tree | `Pcbs` |
| active semaphore list | `phase1/asl.c` | `semd_h`, `semdFree_h`, `s_key`, `s_procq`, `p_semAdd` | `insertBlocked`, `removeBlocked`, `outBlocked`, `outBlockedPid` | `Pcbs` |
| initialisation | `phase2/initial.c` | all globals | `main` | `Init` of `Nucleus` and `Pcbs` |
| scheduler | `phase2/scheduler.c` | `ready_queue`, `current_process[]`, `process_count` | dispatch, wait, halt | `Nucleus` |
| system calls | `phase2/sysHandler.c` | the above, `device_semaphores[]`, the processes' semaphores | ten calls, four of which only read | `Nucleus`, `NucleusHistory` |
| interrupts | `phase2/interrupts.c` | device registers, pending bitmap | device, local timer, interval timer | `Nucleus` |
| exceptions | `phase2/exceptions.c` | `p_supportStruct`, the TLBs | pass up or die, TLB refill | `Nucleus` (die), `Pager` (pass up, refill) |
| initial process, mutexes | `phase3/initProc.c` | `masterSemaphore`, `suppDevSems`, `suppDevSemsAsid`, `semSwapPoolTable`, `asidSemSwapPool` | `p3test`, acquire/release | `Support` |
| U-proc system calls | `phase3/sysSupport.c` | the above | `killUproc`, terminal and printer I/O | `Support`, `Pager` (death) |
| pager | `phase3/vmSupport.c` | swap pool table, page tables, one TLB per CPU, frames, flash blocks | `TLBExceptionHandler`, `flashRW` | `Pager`, `Support` (mutexes, errors) |
| kernel log | `klog.c` | a text ring buffer | | left out |

The parts interact by calls (handlers call the lists) and by shared memory:
every CPU executes the same handlers on the same lists. `global_lock` guards
most accesses, not all. What is hard:

* **the unlocked accesses**: `passeren` and `verhogen` read `*semaddr` twice
  before they take the lock; `blocksys` saves the state of a process that
  other CPUs already see in a queue; `getDevNo` reads the bitmap of pending
  devices before the lock; `syscallHandler` reads `current_process[prid]`;
* **killTree**, which removes processes that may be ready, blocked or current,
  while the rest of the machine goes on between two lock sections;
* **idle CPUs**, which wait with their timer off and are told of nothing;
* **the ASL**, which has one descriptor for each PCB and ignores failures;
* **the pager**, which changes page table, TLB, frame and flash block one after
  the other, with waits in which the owner of the page runs, and reaches the
  TLB of its own CPU only;
* **the death of a U-proc** at any point of phase 3, with up to two devices and
  the swap pool in its hands.

The complete list, at its lines, is under `hazards` in `PROJECT.json`.

## Modules

`Nucleus` is the core. Its variables are the globals of phase 2 and, for each
CPU, a record `cpu[c]` with its place in a handler (`pc`) and the handler's
local variables (`caller`, `sem`, `at`, `victim`). **Grain:** what a handler
does between `ACQUIRE_LOCK` and `RELEASE_LOCK` is one step, enabled while the
lock is free; an access outside the lock that another CPU can observe is a
step of its own; `killTree` holds `lock` for one step per PCB. A handler that
returns to nowhere, dereferences NULL or falls off its end sends its CPU to
`"wild"`; when that happens under the lock, the lock stays taken (`Fault`).

| code | actions |
|---|---|
| `scheduler` | `Dispatch`, `Load`, `Wait`, `Halt` |
| `syscallHandler`: the process asks | `CallCreate` ... `CallClockWait`, `ProgramTrap` |
| `createProcess` | `Create`, `CreateFails` |
| `passeren`, `verhogen` | `FirstTest`, `SecondTest`, `Block` or `Pass` |
| `waitForClock` | `ClockWait` |
| `blocksys` | `Save`, `Clear` |
| `doInputOutput` | `DoIO`, `Command` |
| `terminateProcess`, `killTree`, `removePcb` | `Term`, `TermPid`, `KillOne`, `EndKill`, `SearchFaults` |
| `interruptHandler`, `getDevNo` | `TakeInterrupt`, `ReadBitmap`, `ServeInterrupt`, `Preempt`, `Tick` |
| a device of the machine | `Complete` |

P and V of this nucleus are mirror images (V blocks on a semaphore that is
already 1): one set of actions serves both, and `at` is the value on which the
call blocks. Of a process's saved state (`p_s`) the model keeps whether it is
the one with which the process has to go on (`saved`).

The workload is any sequence of the calls in `Services`. Two rules of
conduct bound it, and `Liberties` lifts them:

* `overcommit`: more CREATEPROCESS than there are PCBs;
* `shareddevice`: two processes use a device at the same time. Phase 3 and the
  print procedure of the phase 2 test guard each device with a semaphore.

**Kills across CPUs.** `killTree` looks at no other CPU: any process may
terminate any other at any time, also one that another CPU executes, or has put
into a queue and not saved yet. Then the PCB is freed under the feet of that
CPU, which goes on with it (`sysHandler.c:107`-`125`; `codice_dubbio.c` holds an
abandoned attempt to handle the case). The model does what the code does, with
no guard against it, and the history variable `intact` records that it has
happened: `Struck` are the CPUs that lose their process to a killTree which
another CPU begins, and `Track`, a part of every step, clears `intact` when there
is one. The properties of the nucleus are claimed while `intact`, with three
consequences. Each says that such a kill is the *only* way to break it, whatever
else the workload and the other CPUs do. On one CPU, and for every workload that
does not terminate what is running elsewhere, they hold without a condition.
And after such a kill nothing is claimed but `TypeOK` and, where it holds,
`DeviceFound`.

`NucleusHistory` adds two history variables and states what the semaphores
promise; `AtomicSemaphore` is that promise as a specification.

`Lists`, `Pcbs` and `ProcTable` do the same for phase 1. `Lists` is `listx.h`
on a heap of cells. `Pcbs` holds `pcb.c`, `asl.c`, `removePcb` and `killTree`
on those lists, and calls them in the combinations in which the nucleus does,
one action per lock section. `ProcTable` is the abstract data type that the
nucleus relies on (a pool, a ready queue, FIFO queues, a tree); it has the
shape in which `Nucleus` keeps its state.

`Pager` is the virtual memory of phase 3: swap pool table, page tables, a TLB
for each CPU, and what frames and flash blocks contain. **Grain:** support
handlers run with interrupts disabled and lose their CPU at a blocking system
call only, so that a handler is cut at its calls and, since other CPUs execute
U-procs meanwhile, at every access to a page table, a TLB or a frame that those
can see; a U-proc in user mode can be preempted between any two accesses.
A read may fail (`Faults`); the frame then holds what the device left there.
`PrivateMemory` is what a U-proc expects of it: a memory that its own stores
change, and nothing else; after a failure, pages that it has exposed may lose
their words, but no others.

| code | actions of `Pager` |
|---|---|
| a U-proc, `uTLB_RefillHandler`, `passUpOrDie` | `Store`, `uTLB_RefillHandler`, `PassUp` |
| `TLBExceptionHandler` up to the swap pool | `Enter` |
| search of the pool, `pickFrame`, invalidation | `Search` |
| `updateTLB` of the victim, `writeFlash` | `StartWrite`, `WriteDone` |
| `readFlash` | `StartRead`, `ReadDone`; `ReadFails`, `FlashError` |
| the new entry, `updateTLB`, return | `Install` |
| `killUproc` | `Terminate`, `EnterKill`, `Kill` |
| the nucleus | `Dispatch`, `Preempt` |

Locals are reset when the call returns. A load has no action: it changes
nothing, and `TlbAgrees` and `FramesAgree` say what it reads. `EXC_MOD` cannot
happen, since every page is writable (`DIRTYON`, `initProc.c:92`). Which waiter
gets the swap pool is left open here, writes succeed, and a U-proc dies in user
mode or of a read that fails; `Support` has the queue, both errors and the
deaths inside system calls.

`Support` is the control of phase 3: where the test process and each U-proc
are, as `<<procedure, step>>`, over the semaphores of `AtomicSemaphore`. Its
grain is a system call of the nucleus or an access to a shared variable
(`suppDevSemsAsid`, `asidSemSwapPool`, `sw_asid`). `acquireDevice` and its three
companions are operators with the calling procedure as a parameter, as they are
called from seven places. A page fault can hit a system call that has a
terminal or a printer, and a flash operation can fail at each use: `Faults`
says which ones may. So the composition is: `Nucleus` with the history implements
`AtomicSemaphore` on one CPU, `Support` is built on it, and `Pager` sits in the
section that `Support` shows to be exclusive.

`MCNucleus`, `MCHistory`, `MCPcbs`, `MCPager` and `MCSupport` give the constants
small values. The proofs are in

* `QueueLemmas`: facts on sequences without duplicates, for phases 1 and 2;
* `ListProofs`: what `listx.h` does to the sequences of cells of its lists; on
  it, `PcbProofs`: phase 1 and `killTree`;
* `NucleusProofs`: where processes and locals are; on it, `HandlerProofs`:
  faults, the lock, saved states and device requests; on that, `HistoryProofs`:
  P and V;
* `PagerProofs` and `SupportProofs`: phase 3.

An operator whose comment begins with "Faulty variant" is used by no
specification: it is the form that a bug would give to the definition after it,
and shows that a property notices.

## Runs

| run | instance | what it asks |
|---|---|---|
| `smp_core` | 2 CPUs, 3 PCBs, 1 device; CREATE, TERM, DOIO | are count and tree exact during a killTree; is every state saved, every device request answered, the lock always released; is there no fault, no deadlock, and no early HALT |
| `smp_structure` | 2 CPUs, 2 PCBs, 1 semaphore, 1 device; every call, `overcommit`, `shareddevice` | do lists, executors and local variables stay consistent, even after a fault |
| `uniprocessor` | 1 CPU, 3 PCBs, 1 semaphore, 2 devices | with one CPU, are P and V atomic (`AtomicCalls` is a refinement) and is the right device served |
| `smp_liveness` | 2 CPUs, 2 PCBs, 1 device, clock; `FairSpec` | does whoever is ready run, whoever waits for device or clock wake, and the machine halt in the end |
| `lists` | 3 PCBs, 3 descriptors, 2 addresses | do the linked lists implement `ProcTable`, through every killTree, and is there always a descriptor left |
| `pager` | 1 CPU, 2 U-procs, 2 pages each, 2 frames, 2 words; flash reads may fail | do swap pool, page tables and TLB agree, has every U-proc a memory of its own, and which pages may a failed read cost |
| `support` | test process, 2 U-procs, 1 kind of device, 2 frames; flash reads may fail | is the pool exclusive, does every death give back what is held and only that, is every fault served, and does the test end, last |

The properties behind these questions:

- `smp_core`: `CountMatches`, `TreeIsLive`, `FreshResume` (state saved),
  `WaiterIsServed`, `WokenByCompletion` (requests answered),
  `LockIsReleased`, `NoFault`, `HaltsWhenDone`;
- `smp_structure`: `TypeOK`, `OneList` and `NobodyLost` (every PCB in exactly
  one place), `OneExecutor`, `IdleHasNoProcess`, `LocalsAreValid`;
- `uniprocessor`: `AtomicCalls`, `CreditConserved` and `NoLostWakeup` (P and V
  neither lose nor invent a unit or a wakeup), and again `FreshResume`,
  `NoFault` and `WokenByCompletion`;
- `smp_liveness`: `ReadyRuns`, `DeviceAnswers`, `ClockWakes`, `HaltsInTheEnd`;
- `lists`: `ListsAreLinked`, `AslIsExact`, `TreeAgrees`, `DescriptorsSuffice`,
  `ImplementsTable`;
- `pager`: `TypeOK`, `PoolIsExclusive`, `FramesAgree`, `TlbAgrees`,
  `ImplementsPrivateMemory` (a refinement);
- `support`: `TypeOK`, `PoolIsExclusive`, `ReleaseNeverWaits` (a V on a mutex
  never blocks: what is released was held), `TestEndsLast`, `FaultsAreServed`
  and `TestEnds` (under fairness).

Five runs show where the code does not do what the repository says:

| run | what happens |
|---|---|
| `early_wakeup` | a process blocks on the clock, another CPU wakes and dispatches it before `blocksys` has saved its state: it goes on with the state of its last time slice |
| `smp_mutex` | two CPUs read 1 in a semaphore before either takes the lock; both P complete |
| `lost_device` | two devices of a line interrupt two CPUs, each serves the lower number that it reads before the lock; the last to read finds none and `getDevNo` returns -1, "it should never go here" |
| `stale_tlb` | the pager on CPU 0 evicts a page of the U-proc that runs on CPU 1, whose TLB keeps the entry: that U-proc goes on storing into the frame, which then holds a page of another one |
| `wrong_holder` | the write of the evicted page fails: the pager kills itself under the asid of the page's owner, and `asidSemSwapPool` names a U-proc that does not have the pool. When that one dies it takes no pool of its own and two processes are inside; one V too many can keep the test process from ending |

`FreshResume`, `WokenByCompletion`, `NoFault` hold in `smp_core` and
`uniprocessor` because these leave out what breaks them: the clock and the
semaphores on two CPUs, two devices of one line. That is the point of the pair:
DOIO saves the state under the lock and writes the command last, and is right on
any number of CPUs; the calls that go through `blocksys` are right on one CPU
only. `pager` and `stale_tlb` are such a pair, too: the build has 8 CPUs
(`const.h:219`), `TlbAgrees` and the refinement hold on one, and on several the
tables still agree (`FramesAgree` is proved for any number), the TLBs do not.
`support` and `wrong_holder` differ by the flash operation that may fail.

Other things that the models show, or that reading for them did, with no run of
their own:

- CREATEPROCESS with no PCB left returns with the lock held (`CreateFails`;
  `sysHandler.c:45`), and every CPU stops;
- a process that is killed while another CPU executes it stays there with a PCB
  that is free, and one that two CPUs have (`early_wakeup`) and that terminates
  stays current on one of them, since `findInCurrents` clears one entry only
  (`sysHandler.c:112`). Without `intact =>`, TLC finds `OneExecutor`,
  `LocalsAreValid` and `IdleHasNoProcess` violated in `smp_structure`, by
  traces of this kind;
- the ASL is sorted by the values of the semaphores at insertion, not by their
  addresses (`asl.c:23`); harmless, it is searched from end to end;
- a U-proc that dies of a failing flash read inside a system call leaves the
  terminal locked, `suppDevSemsAsid` having been overwritten by the flash device
  (`initProc.c:18`); nobody else uses that terminal;
- as long as no write to a flash device fails, `killUproc` never finds a device
  to release (`sysSupport.c:31`; `NoDeviceIsLeft`): every way to a death has
  cleared `suppDevSemsAsid` before;
- after a failed read the swap pool table goes on naming the evicted page for a
  frame which may have been overwritten (`vmSupport.c:73`). The owner loads the
  page again, into another frame; when the first frame is evicted, that valid
  copy is invalidated and the block is overwritten, so that one U-proc's read
  error costs another one's words. `ImplementsPrivateMemory` holds in `pager`
  with the step `Lose` of `PrivateMemory` and fails without it;
- `generalExceptHandler` looks at `a0` only: a trap with 2 to 5 there is served
  as a system call (`sysSupport.c:146`).

**Bounds.** Two CPUs are enough for every race of the code, which are all
between one unlocked access and one lock section of another CPU. Three PCBs
make a tree with a grandchild or with siblings, and a queue with a waiter
behind another next to a process that acts. No counter grows: `credit` is kept
within -1 .. 2 (`Clip`), where an error shows at once, and everything else is
finite. `process_count` is bounded by the PCBs. Two U-procs are the one that
evicts and the one whose page is evicted; with two frames for four pages every
fault but the first two evicts, a U-proc's own page or one of the other, and
`pickFrame` goes round; and a page left behind in one frame by a failed read is
loaded again into the other. `next` is kept modulo `POOLSIZE`, as its only use is.
One line of devices stands for terminals and printers, which differ in the
number of the semaphore. In `lists` a running process, its children and two
waiters on different addresses use all descriptors but the one that the running
process may need.

**Deadlock** is checked in the runs without a finding. `smp_structure` and the
violation runs allow it, since a CPU that faults with the lock held stops
the machine; `lists` has no schedule of its own. `Stays` is the
machine after HALT; `Pager` and `Support` stutter when all have terminated.

**Constraint.** The three runs of `Nucleus` on two CPUs stop at the step that
ends `intact` (`CONSTRAINT WhileIntact`; TLC still checks the invariants in the
state after it). This loses nothing: `intact` never becomes TRUE again and every
property of these runs is either conditional on it or a liveness property that
has `~intact` as an alternative, so that no behaviour beyond that step can break
one; an action that would lead there is still enabled, so that fairness is
judged as without the constraint. It is needed because a PCB that is executed
and free gets into a queue again and again, and the queues grow without bound.

**Symmetry.** PCBs (and descriptors) are interchangeable in every safety run,
and so are U-procs and words in `pager`; the runs with liveness use none.

**Fairness** (`FairSpec`). A CPU executes its instructions (weak fairness of
the scheduler and handler steps of each CPU; the lock is short and the emulator
runs every CPU). A time slice ends: the local timer is loaded with 5 ms at each
dispatch and goes on counting, so that a process which comes and goes through
system calls is interrupted between two of them (strong fairness of
`Preempt`). The interval timer is reloaded at each of its interrupts and some
CPU takes it (strong fairness of `Tick` over all CPUs, not of each); a pending
device interrupt is taken by the CPU to which it is routed, and a device
completes. Nothing is assumed of the workload: a process may never ask for
anything. In `Support` the test process and, in each U-proc, everything but its
own decisions goes on (weak fairness of `P3test` and `Work(a)`): the nucleus
dispatches ready processes in turn and devices complete (`ReadyRuns`,
`DeviceAnswers`), and a process in a semaphore's queue is woken by the V of
another one, which is a step of that one and not assumed. Whether a message
comes to its end (`EndOfMessage`) is not assumed.

## Proofs

`NucleusProofs` proves, for any set of CPUs, PCBs, semaphores and devices and
any `Services` and `Liberties`:

    TypeCorrect        Spec => []TypeOK
    NucleusInvariant   Spec => [](intact => Inv)
    EveryPcbInOneList, NoProcessIsLost, OneExecutorEach,
    CountIsExact, TreeStaysLive, LocalsStayValid, IdleIsEmpty
    HaltsAtTheEnd      Spec => []HaltsWhenDone

`TypeCorrect` has no condition. `Inv` is the conjunction of what the other
properties claim while `intact`. None of them is inductive alone. That a queue takes a process only once (`OneList`) needs that
the process which a handler inserts is in no queue: `OneExecutor`. That in turn
needs that the `caller` which the handler read without the lock is still
current and alive (`LocalsAreValid`), which the steps of the other CPUs leave
alone unless they kill it, which ends `intact`: a step after which `intact` holds
starts no killTree that reaches a process of another CPU (`StaysIntact`). And `killTree`
keeps `TreeIsLive` since what it removes is a leaf of the part of the tree
below `victim`; `LocalsAreValid` says that this part is nobody's current
process. The proof has one lemma per action. Lemmas that several share
describe the two kinds of steps: those that only move a CPU along, and those
that move a process between two queues. `HaltsWhenDone` follows from `Inv` in one
more step: only `Halt` halts the machine, it does so at a `process_count` of 0,
and by `CountMatches` there is no live process then.

The instances of `smp_structure` and `smp_core` satisfy the same formulas. The
assumptions are the named ASSUMEs of `Nucleus`: CPU and device numbers are
naturals, the PCBs are finitely many, addresses are distinct.

`HandlerProofs` says what the handlers leave behind, again for any sets:

    OnlyTheseFaults      a fault happens only where FaultsAt says
    LockComesBack        Spec => [](intact /\ NoneWild => LockAtKill)
    HandlersDoNotFault   Spec => []NoFault            (Careful)
    LockIsNeverLeft      Spec => []LockIsReleased     (Careful)
    ResumedStateIsFresh  Spec => []FreshResume        (SavedInTime)

The first two hold for every workload while `intact`. `FaultsAt` is short:
an allocation with no free PCB, a search by pid, and a second test that finds
another value than the first; at all other places a handler finds what it needs,
by `LocalsAreValid`, and every path that does not fault gives the lock back.
`Careful` is what keeps a workload away from the three: no `overcommit`, no
TERMPROCESS by pid, and P and V on one CPU only. Its invariant `FaultInv` counts
the CPUs that have decided to create a process (`Room`: `process_count` and they
together are at most MAXPROC, so that the allocation finds a PCB by
`CountMatches`) and says, for one CPU, that the value on which the first test has
decided is still there (`Decided`). `SavedInTime` is one CPU, or no PASSEREN,
VERHOGEN or CLOCKWAIT: whoever is in a queue has its state saved or is waited for
by the CPU that still has to save it (`Resumable`), and on one CPU nobody
dispatches meanwhile. `smp_core` and `uniprocessor` satisfy both hypotheses, by
one disjunct each; `early_wakeup` breaks the second, and TLC finds a violation
of `NoFault` as soon as one part of `Careful` is dropped.

About devices it proves, the first two for one CPU or for one device on the line
(`Unshared`), the third for any number of both while a device has one user at a
time (no `shareddevice`):

    WokenOnCompletion   Spec => WokenByCompletion
    DeviceIsFound       Spec => []DeviceFound
    EveryWaiterIsServed Spec => []WaiterIsServed

The invariant `DInv` of the first two says that a CPU which has taken an
interrupt, or has read the device number, is the CPU of a device that is still
pending. Only `ServeInterrupt` ends that, and of one CPU or one device only for
the CPU itself. With two CPUs and two devices both conclusions fail.
`lost_device` shows the second; the first fails on the same instance: both CPUs
read device 0, one of them serves it, its process issues the next command, and
the other CPU wakes it before the command register is written. The third is
true there nevertheless: whoever is woken too early leaves a command that will be
written, and nobody waits (`WInv`: a device has at most one request, in one of
the places queue, `doio` and `cmd`, and who waits in the queue is `Answered`).

`HistoryProofs`, on top of these, proves on one CPU (`Uniprocessor`), for any PCBs, semaphores,
devices and services:

    HistoryInvariant    HSpec => []HistoryInv
    CallsAreAccounted   HSpec => []CreditConserved
    NoWakeupIsLost      HSpec => []NoLostWakeup
    SectionsExclude     HSpec => []MutualExclusion
    CallsAreAtomic      HSpec => AtomicCalls

The values, the waiters and the calls in progress hang together: a V that wakes a
P leaves the value alone and is accounted for by that P, if the waiter is one,
which `NoLostWakeup` says as the value was 0; a P joins the queue at a value of 0,
if what its first test has read is still so (`Agrees`). `HistoryInv` is their
conjunction. `Agrees` is what two CPUs break, and `smp_mutex` is the result. For
the refinement the four steps that touch a semaphore or the set of processes
(`Block`, `Pass`, `Create`, `KillOne`) are shown to be a step of `AtomicSemaphore`
each, and all others to leave its variables alone (`StillStep`); the lemmas about
`Calls` say that inserting, waking and killing commute with the mapping of a
queue of processes to a queue of calls.

`PagerProofs` proves, for any set of CPUs and of U-procs and any number of
pages, frames and words:

    PagerInvariant   Spec => []Inv
    PagerTypes, OneInThePool, TablesAgree
    TlbStaysInStep                  (one CPU)
    PagerImplementsPrivateMemory    (one CPU)  Spec => ImplementsPrivateMemory

`FramesAgree` says that a valid entry and the swap pool table name each other,
and that the table names no other page while all U-procs live (`Whole`), but not
what happens to a page while it moves. `Inv` adds that: the page that is written out is not valid any more
(`VictimIsOut`), the one that is read is not valid yet (`FaultIsOut`), nobody
dead owns a frame (`OwnersLive`), and, on one CPU, whoever is between the page
table and the TLB has the CPU (`SyncRuns`), so that no U-proc stores through the
old entry, and frame and block are the same between the end of a read and the
moment the page becomes valid (`InstallReady`). On several CPUs the last two
fail, and with them `TlbAgrees` and the refinement, as `stale_tlb` shows; the
part about the tables does not need them. The refinement maps the memory of a
U-proc to the frame that holds a page, if there is one, and to its block in the
flash device otherwise (`Memory`). `OneHolder` shows that there is one such
frame at most, and a lemma for each action that all words stay the same, but the
one that a store changes: eviction moves a page from a valid entry to a frame
that has yet to be written, the end of the write to the block, and `Install`
back to a frame with the same words. The exception is the eviction of a frame in
which a page was left behind (`LeftBehind`): that is `Lose`, and such pages are
the `exposed` ones of `PrivateMemory`, which only a failed read can add to
(`ExposedRule`); when no read fails (`Faults = {}`), none is ever lost. The
assumptions are `PoolAssumption`, `PageAssumption` and `UprocAssumption` of
`Pager`; the runs satisfy them.

`SupportProofs` proves, for any finite set of U-procs, any lines and frames, and
reads that may fail, while writes do not (`"write" \notin Faults`):

    SupportTypes        Spec => []TypeOK
    OneInPool           Spec => []PoolIsExclusive
    ReleasesByHolders   Spec => []ReleaseNeverWaits
    TestIsLast          Spec => []TestEndsLast
    NoDeviceIsLeft      killUproc finds no device to release

The argument is about the U-procs that *use* a mutex: from their P to their V,
in the queue or with the mutex (`Uses`). `Mutex` says of each one that only its
users wait, once each, and that one of them at most does not. This is kept by a
P of a process that is no user and by a V of the one that has it
(`MutexAcquired`, `MutexReleased`, which speak of a value, a queue and a set
only), so each step of the support level has to be shown to be of one of these
kinds. That is what the rest of the invariant is for: the locals are what the
step takes them for (`LocalInv`), `asidSemSwapPool` names a U-proc exactly in
the places `Marked`, so that the test of `killUproc` tells right, and
`suppDevSemsAsid[a]` remembers a device only where a use of it is under way or
another U-proc writes back a page of `a` (`SuppInv`). The second cannot be when
`a` looks, since the writer has the pool and the frame still names `a`, and `a` has
freed its frames under the pool: no device is released that is not held. With a
failing write the asid of the pool's holder is another one, and this breaks
(`wrong_holder`). `MasterInv` counts: those that have told the test process are
the awaited ones, the value and the waiting calls of `masterSemaphore` together.
TLC has checked this invariant on the instance of `support`.

`PcbProofs` proves, for tables of any finite size, any set of addresses and any
number of CPUs:

    PcbInvariantHolds           Spec => []PcbInvariant
    ListsAlwaysLinked           Spec => []ListsAreLinked
    AslAlwaysExact              Spec => []AslIsExact
    DescriptorsAlwaysSuffice    Spec => []DescriptorsSuffice
    TreeAlwaysAgrees            Spec => []TreeAgrees
    ListsImplementTable         Spec => ImplementsTable

The assumptions are those of `Pcbs`: the tables are finite, addresses are numbers
and not NULL, and there are as many descriptors as PCBs, both tables having
MAXPROC entries (`OneDescriptorForEachProcess`; `asl.c`, `pcb.c`).

*Lists.* That `next` and `prev` are inverse to each other is not inductive
by itself: `list_del` of a cell is right only where the cell is, and `list_add` only
of a cell that is in no list. `ListProofs` therefore describes the whole heap
(`Shelves`): it consists of one cycle for each sentinel, and of cells that point to
themselves. A walk (`Walk`, a recursive function) visits the cells of such a cycle
in order and comes back, so that `Cells` returns exactly the sequence that
the heap was described by; to add or delete a cell is to insert it into, or to
remove it from, one of these sequences and leaves the others alone (`AddToShelf`,
`DelFromShelf`).

*Tables.* `PcbInvariant` has four parts. `WellFormed`: the heap is of that form,
and each entry hangs in a list by the field that belongs to it (`p_list` in a queue or in
the free list, `p_sib` below a parent, `s_link` in a list of descriptors). `AslOk`:
a descriptor is free or active, is active if and only if somebody waits in it, for a
key that no other one has and that the waiters' `p_semAdd` names. `TreeOk`:
`p_parent` and the lists of children agree, and a free PCB has neither. `OutIs`:
the running processes are those in no queue. The last one is what makes `insertProcQ` and
`insertBlocked` safe, which do not look whether the PCB is in a list already.
Each operator of `pcb.c` and `asl.c` has a lemma that says what it does to the
four parts and to the contents of every queue, and each action
composes these. `insertBlocked` finds a descriptor since an active one has a waiter
that is in no other queue: this is an injection from the active descriptors to the PCBs
other than the one about to wait.

*killTree.* The recursion of the C code is a loop with a stack of calls here
(`KillStep`), run for `2 * Cardinality(PCB)` turns. `KillInv` is its loop
invariant: the calls on the stack are cut off from the tree and not freed yet, what
is freed or on the stack belongs to the family of the root, and everything else
has its parent, its queue and its place in it as before. Each turn puts a PCB on the
stack that still had a parent, or frees one. The weight (PCBs not freed, and those
that have a parent) goes down at each turn and is at most twice the number of
PCBs: these turns are enough, the stack is empty after them, and what has been
freed is closed under children. So it is exactly the family of the root.

*Refinement.* The queues of `ProcTable` are the sequences of `Cells`, and a queue is
empty for an address which has no descriptor (`Waiting`). The family that
`killTree` frees is the set of `Descendants` of the root, and the order of what
remains in every queue is kept (`Without`).

The library's induction theorems take an operator as a parameter, which the
provers do not instantiate. Inductions over the steps of a walk, of `killTree` or of
the initialisation are done by the least counterexample instead (`LeastNumber`).

Only liveness is left to TLC alone, as the prover has no rule for fairness
here: `ReadyRuns`, `DeviceAnswers`, `ClockWakes`, `HaltsInTheEnd`,
`FaultsAreServed` and `TestEnds`. Every safety property that a passing run checks
is a theorem, under the hypotheses named above, which the instance of the run
satisfies.

## Not modelled

Register contents other than "the right state or not", timers and `TPR`, CPU
time (`p_time`), `GETTIME`, `GETSUPPORTPTR`, `GETPROCESSID` (they write the
caller's own registers only), pids (a pid is its PCB: `next_pid` is never
reused in a run; so `createProcess`, which reads the child's pid after it has
released the lock, cannot be seen to return that of another process), more than one interrupt line, the receiver half of a
terminal. In phase 3: characters, status values and addresses of messages, the
contents of the TLB beyond which page is in which frame (a refill may overwrite
any entry), page numbers out of range (`get_page_index` returns them as they
are, and the caller indexes past the page table), and the overflow of the counter
of `pickFrame` after 2^31 evictions: that these two numbers stay within their
arrays is assumed, and `PagerTypes` says nothing of it. Writes that fail in
`Pager`: its properties stand for failing reads only. `klog.c` is a text buffer that nothing reads, `codice_dubbio.c` is not
built, and the test programs are workloads.

`findProcessByPid` reads through NULL for an idle CPU. What address 0 holds is
up to the emulator; `SearchFaults` takes the fault as one outcome and a word
that is nobody's pid as the other.

## Plan

1. `CpuTime`: `getTimeSlice`, `p_time` and the preemption that does not charge
   (`interrupts.c:97`).
2. Both halves of a terminal in the device part of `Nucleus`.
3. Writes that fail in `Pager`: there the asid of the owner dies, not the
   caller's (`wrong_holder`).
4. Theorems: the step simulation of `ProcTable` by `Nucleus`, which would join
   phases 1 and 2 by a proof as well.
