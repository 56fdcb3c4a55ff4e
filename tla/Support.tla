------------------------------ MODULE Support ------------------------------
(* The support level of phase 3: the test process (initProc.c), the system *)
(* calls and the end of the U-procs (sysSupport.c), and the part of the    *)
(* pager that takes mutexes (vmSupport.c), over the semaphores that        *)
(* AtomicSemaphore specifies.  Pager has the pages; here a frame is only   *)
(* the U-proc it belongs to.                                               *)
(*                                                                         *)
(* Grain.  A system call of the nucleus is a step, and so is every access  *)
(* to a variable that other processes read or write.  A DOIO ends in the   *)
(* step that follows it.                                                   *)
EXTENDS Naturals, Sequences, FiniteSets

CONSTANTS Asid,    \* U-procs
          Test,    \* the process that runs p3test
          Line,    \* lines of the devices that U-procs use by system calls
          Flash,   \* the line of the flash devices
          Frame,   \* frames of the swap pool
          Faults,  \* the flash operations that may fail, of "write" and "read"
          NULL

ASSUME NamesAssumption ==
  /\ Test \notin Asid /\ Flash \notin Line
  /\ NULL \notin Asid \cup ((Line \cup {Flash}) \X Asid)
ASSUME FaultsAssumption == Faults \subseteq {"write", "read"}

VARIABLES
  value, queue, live,  \* semaphores and processes, as in AtomicSemaphore
  at,                  \* where each process is: <<procedure, step>>
  dev,                 \* its local deviceIndex
  target,              \* the asid it passes to flashRW or to killUproc
  frame,               \* the frame it has picked
  suppDevSemsAsid,     \* the device that a U-proc is holding, for its end
  asidSemSwapPool,     \* who holds the swap pool, for its end
  sw_asid,             \* whose page is in each frame
  awaited              \* calls of P on masterSemaphore (the i of p3test)

sems   == <<value, queue, live>>
locals == <<dev, target, frame>>
marks  == <<suppDevSemsAsid, asidSemSwapPool>>
vars   == <<sems, at, locals, marks, sw_asid, awaited>>

Proc       == Asid \cup {Test}
Pool       == <<"semSwapPoolTable", NULL>>
Master     == <<"masterSemaphore", NULL>>
Device     == (Line \cup {Flash}) \X Asid  \* suppDevSems
Sem        == Device \cup {Pool, Master}
User       == <<"user", "in">>

S == INSTANCE AtomicSemaphore

Init ==
  /\ value = [s \in Sem |-> IF s = Master THEN 0 ELSE 1]
  /\ queue = [s \in Sem |-> <<>>]
  /\ live = {Test}
  /\ at = [p \in Proc |-> IF p = Test THEN <<"create", "in">> ELSE User]
  /\ dev = [a \in Asid |-> NULL] /\ target = [a \in Asid |-> NULL]
  /\ frame = [a \in Asid |-> NULL]
  /\ suppDevSemsAsid = [a \in Asid |-> NULL]
  /\ asidSemSwapPool = NULL
  /\ sw_asid = [f \in Frame |-> NULL]
  /\ awaited = 0

-----------------------------------------------------------------------------
Waits(p) == \E s \in Sem : \E i \in DOMAIN queue[s] : queue[s][i][1] = p

At(p, proc, step) == p \in live /\ at[p] = <<proc, step>> /\ ~Waits(p)
Goto(p, l)        == at' = [at EXCEPT ![p] = l]

\* PASSEREN and VERHOGEN: p goes on at l, at once or when it is woken.
P(p, s, l) == Goto(p, l) /\ (S!Blocks(p, s, 0) \/ S!Releases(s, 0) \/ S!Passes(s, 0))
V(p, s, l) == Goto(p, l) /\ (S!Blocks(p, s, 1) \/ S!Releases(s, 1) \/ S!Passes(s, 1))

\* The procedures of initProc.c, as called by procedure proc of process a.
AcquireDevice(a, proc, asid, d) ==
  \/ At(a, proc, "P") /\ P(a, d, <<proc, "set">>) /\ UNCHANGED marks
  \/ /\ At(a, proc, "set") /\ Goto(a, <<proc, "in">>)
     /\ suppDevSemsAsid' = [suppDevSemsAsid EXCEPT ![asid] = d]
     /\ UNCHANGED <<sems, asidSemSwapPool>>

\* Faulty variant: what suppDevSemsAsid remembers is not cleared.
ReleaseDevice_remembers(a, proc, asid, d, next) ==
  \/ At(a, proc, "clear") /\ Goto(a, <<proc, "V">>) /\ UNCHANGED <<sems, marks>>
  \/ At(a, proc, "V") /\ V(a, d, next) /\ UNCHANGED marks

ReleaseDevice(a, proc, asid, d, next) ==
  \/ /\ At(a, proc, "clear") /\ Goto(a, <<proc, "V">>)
     /\ suppDevSemsAsid' = [suppDevSemsAsid EXCEPT ![asid] = NULL]
     /\ UNCHANGED <<sems, asidSemSwapPool>>
  \/ At(a, proc, "V") /\ V(a, d, next) /\ UNCHANGED marks

AcquireSwapPoolTable(a, proc, asid) ==
  \/ At(a, proc, "P") /\ P(a, Pool, <<proc, "set">>) /\ UNCHANGED marks
  \/ /\ At(a, proc, "set") /\ Goto(a, <<proc, "in">>)
     /\ asidSemSwapPool' = asid
     /\ UNCHANGED <<sems, suppDevSemsAsid>>

\* Faulty variant: asidSemSwapPool keeps its last holder.
ReleaseSwapPoolTable_remembers(a, proc, next) ==
  \/ At(a, proc, "clear") /\ Goto(a, <<proc, "V">>) /\ UNCHANGED <<sems, marks>>
  \/ At(a, proc, "V") /\ V(a, Pool, next) /\ UNCHANGED marks

ReleaseSwapPoolTable(a, proc, next) ==
  \/ /\ At(a, proc, "clear") /\ Goto(a, <<proc, "V">>)
     /\ asidSemSwapPool' = NULL
     /\ UNCHANGED <<sems, suppDevSemsAsid>>
  \/ At(a, proc, "V") /\ V(a, Pool, next) /\ UNCHANGED marks

-----------------------------------------------------------------------------
(* generalExceptHandler                                                    *)

\* writeDevice and readTerminal: the device of the line that has the number
\* of the U-proc.
CallDevice(a) ==
  /\ At(a, "user", "in") /\ Goto(a, <<"call", "P">>)
  /\ \E l \in Line : dev' = [dev EXCEPT ![a] = <<l, a>>]
  /\ UNCHANGED <<sems, target, frame, marks, sw_asid, awaited>>

\* The message has been sent or received, or the device has failed.
EndOfMessage(a) ==
  /\ At(a, "call", "in") /\ Goto(a, <<"call", "clear">>)
  /\ UNCHANGED <<sems, locals, marks, sw_asid, awaited>>

UseDevice(a) ==
  \/ /\ AcquireDevice(a, "call", a, dev[a]) /\ UNCHANGED <<locals, sw_asid, awaited>>
  \/ /\ ReleaseDevice(a, "call", a, dev[a], User)
     /\ dev' = [dev EXCEPT ![a] = IF at[a] = <<"call", "V">> THEN NULL ELSE @]
     /\ UNCHANGED <<target, frame, sw_asid, awaited>>

\* TERMINATE, a program trap, or a wrong argument of writeDevice.
Terminate(a) ==
  /\ At(a, "user", "in") /\ Goto(a, <<"killUproc", "test">>)
  /\ target' = [target EXCEPT ![a] = a]
  /\ UNCHANGED <<sems, dev, frame, marks, sw_asid, awaited>>

-----------------------------------------------------------------------------
(* TLBExceptionHandler                                                     *)

\* In user mode, or when a system call gets at the message.
PageFault(a) ==
  /\ At(a, "user", "in") \/ At(a, "call", "in")
  /\ Goto(a, <<"pager", "P">>)
  /\ UNCHANGED <<sems, locals, marks, sw_asid, awaited>>

\* Back to the U-proc, or to the system call.
Interrupted(a) == IF dev[a] = NULL THEN User ELSE <<"call", "in">>

UsePool(a) ==
  /\ \/ AcquireSwapPoolTable(a, "pager", a)
     \/ ReleaseSwapPoolTable(a, "pager", Interrupted(a))
  /\ UNCHANGED <<locals, sw_asid, awaited>>

\* Faulty variant: with the page found, the handler returns with the pool.
Search_keeps(a) ==
  /\ At(a, "pager", "in")
  /\ \/ /\ \E f \in Frame : sw_asid[f] = a
        /\ Goto(a, Interrupted(a)) /\ UNCHANGED locals
     \/ \E f \in Frame :
          /\ sw_asid[f] = NULL /\ frame' = [frame EXCEPT ![a] = f]
          /\ Goto(a, <<"pager", "read">>) /\ UNCHANGED <<dev, target>>
  /\ UNCHANGED <<sems, marks, sw_asid, awaited>>

\* The page is found and valid, or a frame is picked: a free one, if there is.
Search(a) ==
  /\ At(a, "pager", "in")
  /\ \/ /\ \E f \in Frame : sw_asid[f] = a
        /\ Goto(a, <<"pager", "clear">>) /\ UNCHANGED locals
     \/ \E f \in Frame :
          /\ (\E g \in Frame : sw_asid[g] = NULL) => sw_asid[f] = NULL
          /\ frame' = [frame EXCEPT ![a] = f]
          /\ target' = [target EXCEPT ![a] = sw_asid[f]]
          /\ Goto(a, IF sw_asid[f] = NULL THEN <<"pager", "read">> ELSE <<"write", "P">>)
          /\ UNCHANGED dev
  /\ UNCHANGED <<sems, marks, sw_asid, awaited>>

\* readFlash takes the device of the U-proc itself.
ReadFlash(a) ==
  /\ At(a, "pager", "read") /\ Goto(a, <<"read", "P">>)
  /\ target' = [target EXCEPT ![a] = a]
  /\ UNCHANGED <<sems, dev, frame, marks, sw_asid, awaited>>

\* The status of the flash device: an error leads to another release.
Transfer(a, rw) ==
  /\ At(a, rw, "in")
  /\ \/ Goto(a, <<rw, "clear">>)
     \/ rw \in Faults /\ Goto(a, <<"failed", "clear">>)
  /\ UNCHANGED <<sems, locals, marks, sw_asid, awaited>>

\* flashRW takes the device under the asid it gets, whoever calls it.
FlashRW(a) ==
  LET d == <<Flash, target[a]>> IN
  \/ /\ \/ \E rw \in {"write", "read"} : AcquireDevice(a, rw, target[a], d)
        \/ ReleaseDevice(a, "write", target[a], d, <<"pager", "read">>)
        \/ ReleaseDevice(a, "read", target[a], d, <<"pager", "install">>)
        \/ ReleaseDevice(a, "failed", target[a], d, <<"error", "clear">>)
     /\ UNCHANGED <<locals, sw_asid, awaited>>
  \/ \E rw \in {"write", "read"} : Transfer(a, rw)

\* On an error the pool is released and the U-proc of the asid is killed.
FlashError(a) ==
  /\ ReleaseSwapPoolTable(a, "error", <<"killUproc", "test">>)
  /\ UNCHANGED <<locals, sw_asid, awaited>>

Install(a) ==
  /\ At(a, "pager", "install") /\ Goto(a, <<"pager", "clear">>)
  /\ sw_asid' = [sw_asid EXCEPT ![frame[a]] = a]
  /\ target' = [target EXCEPT ![a] = NULL] /\ frame' = [frame EXCEPT ![a] = NULL]
  /\ UNCHANGED <<sems, dev, marks, awaited>>

-----------------------------------------------------------------------------
(* killUproc(target): it is always the caller that terminates.             *)

\* A U-proc that dies inside the pager has the pool already.
TestHolder(a) ==
  /\ At(a, "killUproc", "test")
  /\ Goto(a, <<"killUproc", IF asidSemSwapPool = target[a] THEN "in" ELSE "P">>)
  /\ UNCHANGED <<sems, locals, marks, sw_asid, awaited>>

FreeFrames(a) ==
  /\ At(a, "killUproc", "in") /\ Goto(a, <<"killUproc", "clear">>)
  /\ sw_asid' = [f \in Frame |-> IF sw_asid[f] = target[a] THEN NULL ELSE sw_asid[f]]
  /\ UNCHANGED <<sems, locals, marks, awaited>>

\* deviceIndex is read.
HeldDevice(a) ==
  /\ At(a, "killUproc", "device")
  /\ dev' = [dev EXCEPT ![a] = suppDevSemsAsid[target[a]]]
  /\ Goto(a, IF suppDevSemsAsid[target[a]] = NULL THEN <<"killUproc", "signal">>
                                                  ELSE <<"held", "clear">>)
  /\ UNCHANGED <<sems, target, frame, marks, sw_asid, awaited>>

\* Faulty variant: masterSemaphore is not told.
Signal_silent(a) ==
  /\ At(a, "killUproc", "signal") /\ Goto(a, <<"killUproc", "end">>)
  /\ UNCHANGED <<sems, locals, marks, sw_asid, awaited>>

\* The test process is told.
Signal(a) ==
  /\ At(a, "killUproc", "signal") /\ V(a, Master, <<"killUproc", "end">>)
  /\ UNCHANGED <<locals, marks, sw_asid, awaited>>

KillUproc(a) ==
  \/ TestHolder(a) \/ FreeFrames(a) \/ HeldDevice(a) \/ Signal(a)
  \/ /\ \/ AcquireSwapPoolTable(a, "killUproc", target[a])
        \/ ReleaseSwapPoolTable(a, "killUproc", <<"killUproc", "device">>)
        \/ ReleaseDevice(a, "held", target[a], dev[a], <<"killUproc", "signal">>)
     /\ UNCHANGED <<locals, sw_asid, awaited>>
  \/ /\ At(a, "killUproc", "end") /\ S!Terminates(a)
     /\ UNCHANGED <<at, locals, marks, sw_asid, awaited>>

-----------------------------------------------------------------------------
(* p3test                                                                  *)

Unborn == {a \in Asid : a \notin live /\ at[a] = User}

Create ==
  /\ At(Test, "create", "in")
  /\ \E a \in Unborn : S!Starts(a)
  /\ Goto(Test, IF Cardinality(Unborn) = 1 THEN <<"wait", "P">> ELSE <<"create", "in">>)
  /\ UNCHANGED <<locals, marks, sw_asid, awaited>>

\* Faulty variants: a U-proc too few, or too many, is waited for.
Await_short ==
  /\ At(Test, "wait", "P")
  /\ awaited' = awaited + 1
  /\ P(Test, Master, IF awaited' + 1 >= Cardinality(Asid) THEN <<"wait", "end">> ELSE <<"wait", "P">>)
  /\ UNCHANGED <<locals, marks, sw_asid>>

Await_long ==
  /\ At(Test, "wait", "P")
  /\ awaited' = awaited + 1
  /\ P(Test, Master, IF awaited' > Cardinality(Asid) THEN <<"wait", "end">> ELSE <<"wait", "P">>)
  /\ UNCHANGED <<locals, marks, sw_asid>>

\* A P on masterSemaphore for every U-proc.
Await ==
  /\ At(Test, "wait", "P")
  /\ awaited' = awaited + 1
  /\ P(Test, Master, IF awaited' = Cardinality(Asid) THEN <<"wait", "end">> ELSE <<"wait", "P">>)
  /\ UNCHANGED <<locals, marks, sw_asid>>

\* TERMPROCESS takes the children with it that are not dead yet.
End ==
  /\ At(Test, "wait", "end")
  /\ IF live = {Test} THEN S!Terminates(Test)
                      ELSE \E a \in live \ {Test} : S!Terminates(a)
  /\ UNCHANGED <<at, locals, marks, sw_asid, awaited>>

-----------------------------------------------------------------------------
Pager(a) ==
  UsePool(a) \/ Search(a) \/ ReadFlash(a) \/ FlashRW(a) \/ FlashError(a) \/ Install(a)

\* What a U-proc or its devices decide, and what goes on by itself.
Will(a) == CallDevice(a) \/ PageFault(a) \/ Terminate(a) \/ EndOfMessage(a)
Work(a) == UseDevice(a) \/ Pager(a) \/ KillUproc(a)
P3test  == Create \/ Await \/ End

Next ==
  \/ \E a \in Asid : Will(a) \/ Work(a)
  \/ P3test
  \/ live = {} /\ UNCHANGED vars

\* The nucleus serves ready processes in turn, and every DOIO is answered.
Fairness == WF_vars(P3test) /\ \A a \in Asid : WF_vars(Work(a))
Spec     == Init /\ [][Next]_vars /\ Fairness

-----------------------------------------------------------------------------
(* Properties *)

Labels == {User} \cup
  {"call", "pager", "write", "read", "failed", "error", "killUproc", "held"} \X
    {"P", "set", "in", "clear", "V"} \cup
  {"killUproc"} \X {"test", "device", "signal", "end"} \cup
  {"pager"} \X {"read", "install"}

\* Types of the variables.
TypeOK ==
  /\ value \in [Sem -> {0, 1}]
  /\ queue \in [Sem -> Seq(Proc \X {0, 1})]
  /\ live \subseteq Proc
  /\ at[Test] \in {<<"create", "in">>, <<"wait", "P">>, <<"wait", "end">>}
  /\ \A a \in Asid : at[a] \in Labels
  /\ dev \in [Asid -> Device \cup {NULL}]
  /\ target \in [Asid -> Asid \cup {NULL}]
  /\ frame \in [Asid -> Frame \cup {NULL}]
  /\ suppDevSemsAsid \in [Asid -> Device \cup {NULL}]
  /\ asidSemSwapPool \in Asid \cup {NULL}
  /\ sw_asid \in [Frame -> Asid \cup {NULL}]
  /\ awaited \in 0 .. Cardinality(Asid)

InPool == ({"pager"} \X {"set", "in", "clear", "V", "read", "install"})
  \cup ({"write", "read", "failed", "error"} \X {"P", "set", "in", "clear", "V"})
  \cup ({"killUproc"} \X {"set", "in", "clear", "V"})

HasPool(a) == a \in live /\ at[a] \in InPool /\ \A i \in DOMAIN queue[Pool] : queue[Pool][i][1] # a

\* One U-proc at a time is between acquireSwapPoolTable and
\* releaseSwapPoolTable, through page faults, flash errors and deaths, and
\* asidSemSwapPool names no other one: killUproc decides by it.
PoolIsExclusive ==
  \A a \in Asid : HasPool(a) =>
    /\ \A b \in Asid : HasPool(b) => a = b
    /\ value[Pool] = 0
    /\ asidSemSwapPool \in {a, NULL}

\* A V on a mutex never blocks (VERHOGEN does, on a semaphore that has the
\* value 1): what is released, also by killUproc, is held.
ReleaseNeverWaits ==
  \A s \in Sem \ {Master} : \A i \in DOMAIN queue[s] : queue[s][i][2] = 0

\* The test process comes to its end when every U-proc has done all of its
\* own: none dies with a frame or the pool to give back.
TestEndsLast ==
  at[Test] = <<"wait", "end">> /\ ~Waits(Test) =>
    /\ \A a \in Asid : at[a] = <<"killUproc", "end">>
    /\ value[Pool] = 1 /\ \A f \in Frame : sw_asid[f] = NULL

\* A page fault is served, unless the U-proc dies of it: the queue of the swap
\* pool is first come first served, and who has the pool gives it back.
FaultsAreServed ==
  \A a \in Asid : at[a] = <<"pager", "P">> ~>
    at[a] \in {User, <<"call", "in">>, <<"killUproc", "test">>}

\* When every U-proc is about to terminate, so does the test process.
TestEnds ==
  (\A a \in Asid : a \notin Unborn /\ at[a][1] = "killUproc") ~> live = {}
=============================================================================
