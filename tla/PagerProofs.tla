---------------------------- MODULE PagerProofs ----------------------------
(* On one CPU the pager gives every U-proc a memory of its own, for every  *)
(* number of U-procs, pages, frames and words.                             *)
EXTENDS Pager, TLAPS

OneCpu == \A c, d \in CPU : c = d

(* The parts of the inductive invariant that no run checks.                *)

\* Whoever is between the page table and the TLB has the CPU.
SyncRuns == \A a \in Asid : pc[a] = "sync" => \E c \in CPU : running[c] = a

\* The frames of the dead are free.
OwnersLive == \A f \in Frame : Owner(f) # NULL => pc[Owner(f)] # "dead"

\* The page that is written to the flash device is not valid any more, ...
VictimIsOut ==
  \A a \in Asid : pc[a] \in {"sync", "writing"} =>
    /\ Owner(victim[a]) # NULL
    /\ pgTbl[Owner(victim[a])][PageIn(victim[a])] = Invalid

\* ... the one that is read is not valid yet, ...
FaultIsOut == \A a \in Asid : pc[a] \in Movers => pgTbl[a][fault[a]] = Invalid

\* ... and once it is read, frame and block are the same.
InstallReady ==
  \A a \in Asid : pc[a] = "install" => data[victim[a]] = flash[a][fault[a]]

\* No U-proc has come to its end.
Whole == \A b \in Asid : pc[b] \notin Ending

\* The tables agree on any number of CPUs, the TLBs on one only.
Inv == /\ TypeOK /\ PoolIsExclusive /\ FramesAgree
       /\ OwnersLive /\ VictimIsOut /\ FaultIsOut
       /\ OneCpu => TlbAgrees /\ SyncRuns /\ InstallReady

USE PoolAssumption, PageAssumption, UprocAssumption
  DEF Frame, Page, Invalid, Absent, Free

-----------------------------------------------------------------------------
(* What the steps have in common                                           *)

\* acquireSwapPoolTable moves its caller only, and takes a free pool.
LEMMA AcquireFacts ==
  ASSUME TypeOK, PoolIsExclusive, NEW c \in CPU, NEW a \in Asid,
         NEW wait \in Waiting, NEW to \in {"search", "free"},
         pc[a] \in {"fault", "dying"}, running[c] = a, Acquire(c, a, wait, to)
  PROVE  /\ pc' \in [Asid -> Location] /\ semSwapPoolTable' \in {0, 1}
         /\ running' \in [CPU -> Asid \cup {NULL}]
         /\ PoolIsExclusive'
         /\ pc'[a] \in {wait, to} /\ \A b \in Asid \ {a} : pc'[b] = pc[b]
         /\ \A d \in CPU : running'[d] = running[d] \/ (d = c /\ running'[d] = NULL)
<1>. USE DEF TypeOK, Acquire, Goto, DoIO, Waiting
<1>1. CASE semSwapPoolTable = 1
  <2>1. \A b \in Asid : pc[b] \notin Inside \cup Waiting
    BY <1>1 DEF PoolIsExclusive
  <2>2. pc' = [pc EXCEPT ![a] = to] /\ semSwapPoolTable' = 0 /\ running' = running
    BY <1>1
  <2>3. PoolIsExclusive'
    BY <2>1, <2>2 DEF PoolIsExclusive, Inside
  <2>. QED  BY <2>2, <2>3 DEF Location, Ready
<1>2. CASE semSwapPoolTable = 0
  <2>1. /\ pc' = [pc EXCEPT ![a] = wait] /\ semSwapPoolTable' = semSwapPoolTable
        /\ running' = [running EXCEPT ![c] = NULL]
    BY <1>2
  <2>2. PoolIsExclusive'
    BY <2>1, <1>2 DEF PoolIsExclusive, Inside, Movers, InFlash
  <2>. QED  BY <2>1, <2>2 DEF Location
<1>. QED  BY <1>1, <1>2

\* releaseSwapPoolTable moves its caller out, and perhaps a waiter in.
LEMMA ReleaseFacts ==
  ASSUME TypeOK, PoolIsExclusive, NEW a \in Asid, NEW l \in {"user", "dying", "dead"},
         pc[a] \in Inside, Release(a, l)
  PROVE  /\ pc' \in [Asid -> Location] /\ semSwapPoolTable' \in {0, 1}
         /\ PoolIsExclusive'
         /\ pc'[a] = l
         /\ \A b \in Asid : pc'[b] \notin Movers
         /\ \A b \in Asid \ {a} : pc'[b] = "dead" <=> pc[b] = "dead"
         /\ \A b \in Asid \ {a} : pc[b] \in Ending => pc'[b] \in Ending
<1>. USE DEF TypeOK, Release, Granted, Waiting
<1>1. \A b \in Asid \ {a} : pc[b] \notin Inside
  BY DEF PoolIsExclusive
<1>2. l \notin Inside \cup Waiting /\ pc[a] \notin Waiting
  BY DEF Inside, Movers, InFlash
<1>3. CASE /\ \A q \in Asid : pc[q] \notin Waiting
           /\ semSwapPoolTable' = 1 /\ pc' = [pc EXCEPT ![a] = l]
  <2>1. \A b \in Asid : pc'[b] \notin Inside \cup Waiting
    BY <1>1, <1>2, <1>3
  <2>. QED  BY <1>1, <1>3, <2>1 DEF PoolIsExclusive, Location, Ready, Inside
<1>4. CASE \E q \in Asid : /\ pc[q] \in Waiting
                           /\ pc' = [pc EXCEPT ![a] = l, ![q] = Granted(q)]
                           /\ UNCHANGED semSwapPoolTable
  <2>1. PICK q \in Asid : /\ pc[q] \in Waiting
                          /\ pc' = [pc EXCEPT ![a] = l, ![q] = Granted(q)]
                          /\ UNCHANGED semSwapPoolTable
    BY <1>4
  <2>2. q # a /\ Granted(q) \in {"search", "free"} /\ Granted(q) \in Inside
    BY <1>2, <2>1 DEF Inside
  <2>3. /\ pc'[a] = l /\ pc'[q] = Granted(q)
        /\ \A b \in Asid \ {a, q} : pc'[b] = pc[b]
    BY <2>1, <2>2
  <2>4. semSwapPoolTable' # 1
    BY <2>1 DEF PoolIsExclusive
  <2>5. \A b \in Asid : pc'[b] \in Inside <=> b = q
    BY <1>1, <1>2, <2>2, <2>3
  <2>6. PoolIsExclusive'
    BY <2>4, <2>5 DEF PoolIsExclusive
  <2>7. pc' \in [Asid -> Location]
    BY <2>1, <2>2 DEF Location, Ready
  <2>8. \A b \in Asid : pc'[b] \notin Movers
    BY <1>1, <1>2, <2>2, <2>3 DEF Inside, Movers, InFlash
  <2>9. pc[q] # "dead" /\ pc'[q] # "dead" /\ (pc[q] \in Ending => pc'[q] \in Ending)
    BY <2>1, <2>2, <2>3 DEF Ending
  <2>. QED  BY <2>1, <2>3, <2>6, <2>7, <2>8, <2>9
<1>. QED  BY <1>3, <1>4

\* When a U-proc has the pool, it is the only one to move a frame.
LEMMA OneMover ==
  ASSUME PoolIsExclusive, NEW a \in Asid, pc[a] \in Inside
  PROVE  /\ \A b \in Asid \ {a} : pc[b] \notin Inside /\ pc[b] \notin Movers
         /\ pc[a] \in Movers => \A f : Moving(f) <=> f = victim[a]
         /\ pc[a] \notin Movers => \A f : ~Moving(f)
BY DEF PoolIsExclusive, Inside, Moving

\* Most of the invariant is about the one that moves a frame.
LEMMA NoMover ==
  ASSUME \A b \in Asid : pc'[b] \notin Movers
  PROVE  SyncRuns' /\ VictimIsOut' /\ FaultIsOut' /\ InstallReady'
BY DEF SyncRuns, VictimIsOut, FaultIsOut, InstallReady, Movers, InFlash

\* A valid entry leads to a frame that has its page in the table; conversely,
\* as long as no U-proc has come to its end.
LEMMA FramesFacts ==
  ASSUME FramesAgree, NEW f \in Frame, NEW a \in Asid, NEW p \in Page, pc[a] # "dead"
  PROVE  /\ pgTbl[a][p] = f => swapPoolTable[f] = <<a, p>> /\ ~Moving(f)
         /\ Whole /\ swapPoolTable[f] = <<a, p>> /\ ~Moving(f) => pgTbl[a][p] = f
BY DEF FramesAgree, LeftBehind, Whole

\* Who has come to its end does not come back.
LEMMA WholeKept ==
  ASSUME \A b \in Asid : pc[b] \in Ending => pc'[b] \in Ending
  PROVE  Whole' => Whole
BY DEF Whole, Ending

\* Who owns a frame goes on living.
LEMMA OwnersKept ==
  ASSUME TypeOK, OwnersLive, UNCHANGED swapPoolTable,
         \A b \in Asid : pc'[b] = "dead" <=> pc[b] = "dead"
  PROVE  OwnersLive'
BY DEF TypeOK, OwnersLive, Owner

LEMMA FramesRule ==
  ASSUME Whole' => Whole,
         \A f \in Frame, a \in Asid, p \in Page : pc'[a] # "dead" =>
           /\ pgTbl'[a][p] = f => swapPoolTable'[f] = <<a, p>> /\ ~Moving(f)'
           /\ Whole /\ swapPoolTable'[f] = <<a, p>> /\ ~Moving(f)' => pgTbl'[a][p] = f
  PROVE  FramesAgree'
BY DEF FramesAgree, LeftBehind, Whole

\* Only who picks a frame, fills one or frees some disturbs FramesAgree.
LEMMA FramesKept ==
  ASSUME FramesAgree, UNCHANGED <<swapPoolTable, pgTbl>>, Whole' => Whole,
         \A b \in Asid : pc[b] = "dead" => pc'[b] = "dead",
         \A b \in Asid : /\ pc'[b] \in Movers <=> pc[b] \in Movers
                         /\ pc[b] \in Movers => victim'[b] = victim[b]
  PROVE  FramesAgree'
<1>1. \A f : Moving(f)' <=> Moving(f)
  BY DEF Moving
<1>. QED  BY <1>1, FramesFacts, FramesRule

\* Nobody is about to rewrite the TLB when the CPU executes something else.
LEMMA TlbIsClean ==
  ASSUME OneCpu, TlbAgrees, NEW c \in CPU, NEW a \in Asid,
         running[c] = a, pc[a] # "sync"
  PROVE  \A d \in CPU, b \in Asid, p \in Page :
           pc[b] # "dead" /\ tlb[d][b][p] # Absent => tlb[d][b][p] = pgTbl[b][p]
BY DEF OneCpu, TlbAgrees, At

\* A CPU that does not leave "sync" keeps TlbAgrees.
LEMMA TlbKept ==
  ASSUME TlbAgrees, UNCHANGED <<tlb, pgTbl, swapPoolTable>>,
         \A b \in Asid : pc[b] = "dead" => pc'[b] = "dead",
         \A d \in CPU, b \in Asid :
           At(d, b, "sync") => At(d, b, "sync")' /\ victim'[b] = victim[b]
  PROVE  TlbAgrees'
<1>. SUFFICES ASSUME NEW d \in CPU, NEW b \in Asid, NEW p \in Page,
                     pc[b] # "dead", tlb[d][b][p] # Absent
              PROVE  \/ tlb[d][b][p] = pgTbl[b][p]
                     \/ \E x \in Asid : At(d, x, "sync")' /\ swapPoolTable[victim'[x]] = <<b, p>>
  BY DEF TlbAgrees
<1>1. CASE tlb[d][b][p] = pgTbl[b][p]
  BY <1>1
<1>2. CASE \E x \in Asid : At(d, x, "sync") /\ swapPoolTable[victim[x]] = <<b, p>>
  <2>1. PICK x \in Asid : At(d, x, "sync") /\ swapPoolTable[victim[x]] = <<b, p>>
    BY <1>2
  <2>2. At(d, x, "sync")' /\ victim'[x] = victim[x]
    BY <2>1
  <2>. QED  BY <2>1, <2>2
<1>. QED  BY <1>1, <1>2 DEF TlbAgrees

TlbType == [CPU -> [Asid -> [Page -> Frame \cup {Invalid, Absent}]]]

\* updateTLB rewrites one entry of one TLB, or none.
LEMMA UpdateFacts ==
  ASSUME TypeOK, NEW c \in CPU, NEW a \in Asid, NEW p \in Page,
         NEW e \in Frame \cup {Invalid}, UpdateTLB(c, a, p, e)
  PROVE  /\ tlb' \in TlbType
         /\ tlb'[c][a][p] \in {Absent, e}
         /\ \A d \in CPU, b \in Asid, q \in Page :
              d # c \/ b # a \/ q # p => tlb'[d][b][q] = tlb[d][b][q]
<1>1. tlb \in TlbType
  BY DEF TypeOK, TlbType
<1>2. CASE tlb[c][a][p] = Absent
  BY <1>1, <1>2 DEF UpdateTLB
<1>3. CASE tlb[c][a][p] # Absent
  <2>1. tlb' = [tlb EXCEPT ![c][a][p] = e]
    BY <1>3 DEF UpdateTLB
  <2>2. tlb' \in TlbType
    BY <1>1, <2>1 DEF TlbType
  <2>3. tlb'[c][a][p] = e
    BY <1>1, <2>1 DEF TlbType
  <2>4. ASSUME NEW d \in CPU, NEW b \in Asid, NEW q \in Page, d # c \/ b # a \/ q # p
        PROVE  tlb'[d][b][q] = tlb[d][b][q]
    BY <1>1, <2>1, <2>4 DEF TlbType
  <2>. QED  BY <2>2, <2>3, <2>4
<1>. QED  BY <1>2, <1>3

-----------------------------------------------------------------------------
(* The steps outside the swap pool                                         *)

\* The nucleus gives a CPU to a U-proc, or takes it away.
LEMMA DispatchStep ==
  ASSUME Inv, NEW c \in CPU, NEW a \in Asid, Dispatch(c, a) \/ Preempt(c, a)
  PROVE  Inv'
<1>. USE DEF Dispatch, Preempt, pool, store, Inv
<1>1. TypeOK'
  <2>1. running' \in [CPU -> Asid \cup {NULL}]
    BY DEF TypeOK
  <2>. QED  BY <2>1 DEF TypeOK
<1>2. PoolIsExclusive' /\ FramesAgree'
  BY FramesKept DEF PoolIsExclusive, Whole
<1>3. OwnersLive' /\ VictimIsOut' /\ FaultIsOut'
  BY DEF OwnersLive, VictimIsOut, FaultIsOut, Owner, PageIn
<1>4. ASSUME OneCpu PROVE TlbAgrees' /\ SyncRuns' /\ InstallReady'
  <2>1. \A b \in Asid : pc[b] # "sync"
    BY <1>4 DEF TypeOK, SyncRuns, OneCpu
  <2>2. TlbAgrees'
    BY <1>4, <2>1, TlbKept DEF At
  <2>. QED  BY <1>4, <2>1, <2>2 DEF SyncRuns, InstallReady
<1>. QED  BY <1>1, <1>2, <1>3, <1>4

\* A store goes to a frame that nobody moves.
LEMMA StoreStep ==
  ASSUME Inv, NEW c \in CPU, NEW a \in Asid, NEW p \in Page, NEW w \in Word,
         Store(c, a, p, w)
  PROVE  Inv'
<1>. USE DEF Store, procs, pool, store, Inv
<1>1. TypeOK'
  BY DEF TypeOK
<1>2. PoolIsExclusive' /\ FramesAgree'
  BY FramesKept DEF PoolIsExclusive, Whole
<1>3. OwnersLive' /\ VictimIsOut' /\ FaultIsOut'
  BY DEF OwnersLive, VictimIsOut, FaultIsOut, Owner, PageIn
<1>4. ASSUME OneCpu PROVE TlbAgrees' /\ SyncRuns' /\ InstallReady'
  <2>1. TlbAgrees' /\ SyncRuns'
    BY <1>4, TlbKept DEF SyncRuns, At
  <2>2. tlb[c][a][p] = pgTbl[a][p] /\ pc[a] # "dead"
    BY <1>4, TlbIsClean DEF At
  <2>3. ~Moving(tlb[c][a][p])
    BY <2>2, FramesFacts
  <2>4. \A b \in Asid : pc[b] = "install" => data'[victim[b]] = data[victim[b]]
    BY <2>3 DEF Moving, Movers, TypeOK
  <2>. QED  BY <1>4, <2>1, <2>4 DEF InstallReady
<1>. QED  BY <1>1, <1>2, <1>3, <1>4

\* A refill copies an entry of the page table, and may drop another.
LEMMA RefillStep ==
  ASSUME Inv, NEW c \in CPU, NEW a \in Asid, NEW p \in Page,
         uTLB_RefillHandler(c, a, p)
  PROVE  Inv'
<1>1. /\ running[c] = a /\ pc[a] = "user"
      /\ UNCHANGED <<running, pc, fault, victim, semSwapPoolTable, swapPoolTable, next>>
      /\ UNCHANGED <<pgTbl, data, flash>>
  BY DEF uTLB_RefillHandler, At, procs, pool, store
<1>2. PICK b \in Asid, q \in Page :
        tlb' = [tlb EXCEPT ![c][b][q] = Absent, ![c][a][p] = pgTbl[a][p]]
  BY DEF uTLB_RefillHandler
<1>3. tlb \in TlbType /\ pgTbl[a][p] \in Frame \cup {Invalid, Absent}
  BY DEF Inv, TypeOK, TlbType
<1>. DEFINE lost == [tlb EXCEPT ![c][b][q] = Absent]
<1>4. tlb' = [lost EXCEPT ![c][a][p] = pgTbl[a][p]]
  BY <1>2
<1>5. /\ lost \in TlbType
      /\ \A d \in CPU, x \in Asid, r \in Page : lost[d][x][r] \in {tlb[d][x][r], Absent}
  BY <1>3 DEF TlbType
<1>6. /\ tlb' \in TlbType
      /\ \A d \in CPU, x \in Asid, r \in Page : tlb'[d][x][r] \in {lost[d][x][r], pgTbl[x][r]}
  <2>. HIDE DEF lost
  <2>1. tlb' \in TlbType
    BY <1>3, <1>4, <1>5 DEF TlbType
  <2>2. ASSUME NEW d \in CPU, NEW x \in Asid, NEW r \in Page
        PROVE  tlb'[d][x][r] \in {lost[d][x][r], pgTbl[x][r]}
    <3>1. CASE d = c /\ x = a /\ r = p
      BY <1>4, <1>5, <3>1 DEF TlbType
    <3>2. CASE ~(d = c /\ x = a /\ r = p)
      BY <1>4, <1>5, <3>2 DEF TlbType
    <3>. QED  BY <3>1, <3>2
  <2>. QED  BY <2>1, <2>2
<1>. HIDE DEF lost
<1>7. TypeOK'
  BY <1>1, <1>6 DEF Inv, TypeOK, TlbType
<1>8. PoolIsExclusive' /\ FramesAgree'
  BY <1>1, FramesKept DEF Inv, PoolIsExclusive, Whole
<1>9. OwnersLive' /\ VictimIsOut' /\ FaultIsOut'
  BY <1>1 DEF Inv, OwnersLive, VictimIsOut, FaultIsOut, Owner, PageIn
<1>10. ASSUME OneCpu PROVE TlbAgrees' /\ SyncRuns' /\ InstallReady'
  <2>1. ASSUME NEW d \in CPU, NEW x \in Asid, NEW r \in Page,
               pc[x] # "dead", tlb'[d][x][r] # Absent
        PROVE  tlb'[d][x][r] = pgTbl[x][r]
    <3>1. tlb'[d][x][r] \in {tlb[d][x][r], Absent, pgTbl[x][r]}
      BY <1>5, <1>6
    <3>. QED  BY <1>1, <1>10, <2>1, <3>1, TlbIsClean DEF Inv
  <2>2. TlbAgrees'
    BY <1>1, <2>1 DEF TlbAgrees
  <2>. QED  BY <1>1, <1>10, <2>2 DEF Inv, SyncRuns, InstallReady
<1>. QED  BY <1>7, <1>8, <1>9, <1>10 DEF Inv

\* Of the U-procs outside the pool only the labels differ.
LEMMA OutsideStep ==
  ASSUME Inv, NEW c \in CPU, NEW a \in Asid,
         (\E p \in Page : PassUp(c, a, p)) \/ Terminate(c, a)
  PROVE  Inv'
<1>. USE DEF PassUp, Terminate, At, Goto, pool, store, Inv
<1>. PICK l \in {"fault", "dying"} : pc[a] = "user" /\ pc' = [pc EXCEPT ![a] = l]
  OBVIOUS
<1>1. TypeOK'
  <2>1. pc' \in [Asid -> Location]
    BY DEF TypeOK, Location, Ready
  <2>2. fault' \in [Asid -> Page]
    BY DEF TypeOK
  <2>. QED  BY <2>1, <2>2 DEF TypeOK
<1>2. PoolIsExclusive'
  <2>1. \A b \in Asid : /\ pc[b] \in Inside <=> pc'[b] \in Inside
                        /\ pc[b] \in Waiting <=> pc'[b] \in Waiting
    BY DEF TypeOK, Inside, Movers, InFlash, Waiting
  <2>. QED  BY <2>1 DEF PoolIsExclusive
<1>3. FramesAgree'
  BY FramesKept DEF TypeOK, Movers, InFlash, Whole, Ending
<1>4. OwnersLive'
  BY DEF TypeOK, OwnersLive, Owner
<1>5. VictimIsOut'
  BY DEF TypeOK, VictimIsOut, Owner, PageIn
<1>6. FaultIsOut'
  BY DEF TypeOK, FaultIsOut, Movers, InFlash
<1>7. OneCpu => TlbAgrees'
  BY TlbKept DEF TypeOK
<1>8. OneCpu => SyncRuns' /\ InstallReady'
  BY DEF TypeOK, SyncRuns, InstallReady
<1>. QED  BY <1>1, <1>2, <1>3, <1>4, <1>5, <1>6, <1>7, <1>8

\* Whoever asks for the pool gets it or waits.
LEMMA EnterStep ==
  ASSUME Inv, NEW c \in CPU, NEW a \in Asid, Enter(c, a) \/ EnterKill(c, a)
  PROVE  Inv'
<1>. USE DEF Enter, EnterKill, At, store, Inv
<1>1. /\ pc' \in [Asid -> Location] /\ semSwapPoolTable' \in {0, 1}
      /\ running' \in [CPU -> Asid \cup {NULL}] /\ PoolIsExclusive'
      /\ pc'[a] \in Waiting \cup {"search", "free"}
      /\ pc[a] = "dying" => pc'[a] \in Ending
      /\ \A b \in Asid \ {a} : pc'[b] = pc[b]
      /\ \A d \in CPU : running'[d] = running[d] \/ (d = c /\ running'[d] = NULL)
  BY AcquireFacts DEF Waiting, Ending
<1>2. TypeOK'
  BY <1>1 DEF TypeOK
<1>3. \A b \in Asid : /\ pc[b] \in Movers <=> pc'[b] \in Movers
                      /\ pc[b] = "dead" <=> pc'[b] = "dead"
  BY <1>1 DEF Movers, InFlash, Waiting
<1>4. FramesAgree'
  <2>1. Whole' => Whole
    BY <1>1 DEF Whole, Ending
  <2>. QED  BY <1>3, <2>1, FramesKept
<1>5. OwnersLive'
  BY <1>3 DEF TypeOK, OwnersLive, Owner
<1>6. VictimIsOut' /\ FaultIsOut'
  BY <1>1 DEF VictimIsOut, FaultIsOut, Owner, PageIn, Movers, InFlash, Waiting
<1>7. ASSUME OneCpu PROVE TlbAgrees' /\ SyncRuns' /\ InstallReady'
  <2>1. \A b \in Asid : pc[b] # "sync" /\ pc'[b] # "sync"
    BY <1>1, <1>7 DEF TypeOK, SyncRuns, OneCpu, Waiting
  <2>2. TlbAgrees'
    BY <1>3, <1>7, <2>1, TlbKept
  <2>3. InstallReady'
    BY <1>1, <1>7 DEF InstallReady, Waiting
  <2>. QED  BY <2>1, <2>2, <2>3 DEF SyncRuns
<1>. QED  BY <1>1, <1>2, <1>4, <1>5, <1>6, <1>7

-----------------------------------------------------------------------------
(* The steps inside the swap pool                                          *)

\* The page is in the pool: only the TLB changes.
LEMMA FoundStep ==
  ASSUME Inv, NEW c \in CPU, NEW a \in Asid,
         Search(c, a), Loaded(a, fault[a])
  PROVE  Inv'
<1>1. /\ running[c] = a /\ pc[a] = "search" /\ fault[a] \in Page
      /\ pgTbl[a][fault[a]] \in Frame \cup {Invalid}
  BY DEF Search, At, Inv, TypeOK
<1>2. /\ UNCHANGED <<running, swapPoolTable, next, pgTbl, data, flash>>
      /\ Release(a, "user") /\ UpdateTLB(c, a, fault[a], pgTbl[a][fault[a]])
      /\ fault' = [fault EXCEPT ![a] = 0] /\ victim' = [victim EXCEPT ![a] = 0]
  BY DEF Search, Loaded, Return, store
<1>3. /\ pc' \in [Asid -> Location] /\ semSwapPoolTable' \in {0, 1} /\ PoolIsExclusive'
      /\ pc'[a] = "user" /\ \A b \in Asid : pc'[b] \notin Movers
      /\ \A b \in Asid : pc'[b] = "dead" <=> pc[b] = "dead"
      /\ Whole' => Whole
  <2>1. pc[a] \in Inside /\ pc[a] # "dead"
    BY <1>1 DEF Inside
  <2>2. /\ pc' \in [Asid -> Location] /\ semSwapPoolTable' \in {0, 1} /\ PoolIsExclusive'
        /\ pc'[a] = "user" /\ \A b \in Asid : pc'[b] \notin Movers
        /\ \A b \in Asid \ {a} : pc'[b] = "dead" <=> pc[b] = "dead"
        /\ \A b \in Asid \ {a} : pc[b] \in Ending => pc'[b] \in Ending
    BY <1>1, <1>2, <2>1, ReleaseFacts DEF Inv
  <2>3. pc[a] \in Ending => pc'[a] \in Ending
    BY <1>1, <2>2 DEF Ending
  <2>4. \A b \in Asid : pc'[b] = "dead" <=> pc[b] = "dead"
    BY <2>1, <2>2
  <2>. QED  BY <2>2, <2>3, <2>4, WholeKept
<1>4. /\ tlb' \in TlbType
      /\ \A d \in CPU, b \in Asid, q \in Page :
           tlb'[d][b][q] \in {tlb[d][b][q], Absent, pgTbl[b][q]}
  BY <1>1, <1>2, UpdateFacts DEF Inv
<1>5. TypeOK'
  <2>1. fault' \in [Asid -> Page] /\ victim' \in [Asid -> Frame]
    BY <1>2 DEF Inv, TypeOK
  <2>. QED  BY <1>2, <1>3, <1>4, <2>1 DEF Inv, TypeOK, TlbType
<1>6. FramesAgree'
  <2>1. \A b \in Asid : pc[b] \notin Movers
    BY <1>1, OneMover DEF Inv, Inside, Movers, InFlash
  <2>. QED  BY <1>2, <1>3, <2>1, FramesKept DEF Inv
<1>7. OneCpu => TlbAgrees'
  <2>. SUFFICES ASSUME OneCpu PROVE TlbAgrees'
    OBVIOUS
  <2>1. ASSUME NEW d \in CPU, NEW b \in Asid, NEW q \in Page,
               pc[b] # "dead", tlb'[d][b][q] # Absent
        PROVE  tlb'[d][b][q] = pgTbl[b][q]
    BY <1>1, <1>4, <2>1, TlbIsClean DEF Inv
  <2>. QED  BY <1>2, <1>3, <2>1 DEF TlbAgrees
<1>8. OwnersLive'
  BY <1>2, <1>3, OwnersKept DEF Inv
<1>. QED  BY <1>3, <1>5, <1>6, <1>7, <1>8, NoMover DEF Inv

\* The page in the frame that is picked is not valid any more.
LEMMA EvictStep ==
  ASSUME Inv, NEW c \in CPU, NEW a \in Asid,
         Search(c, a), ~Loaded(a, fault[a])
  PROVE  Inv'
<1>1. /\ running[c] = a /\ pc[a] = "search" /\ fault[a] \in Page
      /\ pgTbl[a][fault[a]] \in Frame \cup {Invalid}
      /\ UNCHANGED <<running, fault, semSwapPoolTable, swapPoolTable, data, flash>>
  BY DEF Search, At, Inv, TypeOK, store, Evict, Goto
<1>2. PICK f \in Frame :
        /\ PickFrame(f)
        /\ victim' = [victim EXCEPT ![a] = f]
        /\ IF Owner(f) = NULL
             THEN Goto(a, "read") /\ UNCHANGED pgTbl
             ELSE Goto(a, "sync") /\ pgTbl' = [pgTbl EXCEPT ![Owner(f)][PageIn(f)] = Invalid]
  BY DEF Search, Evict
<1>3. /\ pc' \in [Asid -> Location] /\ pc'[a] \in {"read", "sync"}
      /\ pc'[a] = "sync" <=> Owner(f) # NULL
      /\ \A b \in Asid \ {a} : pc'[b] = pc[b]
  BY <1>2 DEF Goto, Inv, TypeOK, Location, Ready
<1>4. /\ tlb' \in TlbType
      /\ \A d \in CPU, b \in Asid, q \in Page :
           tlb'[d][b][q] \in {tlb[d][b][q], Absent, pgTbl[b][q]}
  <2>1. CASE InPool(a, fault[a])
    BY <1>1, <2>1, UpdateFacts DEF Search, Inv
  <2>2. CASE ~InPool(a, fault[a])
    BY <2>2 DEF Search, Inv, TypeOK, TlbType
  <2>. QED  BY <2>1, <2>2
<1>5. Owner(f) # NULL =>
        /\ Owner(f) \in Asid /\ PageIn(f) \in Page
        /\ swapPoolTable[f] = <<Owner(f), PageIn(f)>>
  BY DEF Inv, TypeOK, Owner, PageIn
<1>6. /\ pgTbl' \in [Asid -> [Page -> Frame \cup {Invalid}]]
      /\ Owner(f) # NULL => pgTbl'[Owner(f)][PageIn(f)] = Invalid
      /\ \A b \in Asid, q \in Page :
           swapPoolTable[f] # <<b, q>> => pgTbl'[b][q] = pgTbl[b][q]
      /\ \A b \in Asid, q \in Page : pgTbl[b][q] = Invalid => pgTbl'[b][q] = Invalid
  <2>1. CASE Owner(f) = NULL
    BY <1>2, <2>1 DEF Inv, TypeOK
  <2>2. CASE Owner(f) # NULL
    <3>1. pgTbl' = [pgTbl EXCEPT ![Owner(f)][PageIn(f)] = Invalid]
      BY <1>2, <2>2
    <3>. QED  BY <1>5, <2>2, <3>1 DEF Inv, TypeOK
  <2>. QED  BY <2>1, <2>2
<1>7. TypeOK'
  <2>1. next' \in Frame
    BY <1>2 DEF PickFrame, Inv, TypeOK
  <2>. QED  BY <1>1, <1>2, <1>3, <1>4, <1>6, <2>1 DEF Inv, TypeOK, TlbType
<1>8. /\ \A b \in Asid \ {a} : pc[b] \notin Inside /\ pc[b] \notin Movers
      /\ \A g : ~Moving(g)
  BY <1>1, OneMover DEF Inv, Inside, Movers, InFlash
<1>9. PoolIsExclusive'
  <2>1. \A b \in Asid : /\ pc'[b] \in Inside <=> pc[b] \in Inside
                        /\ pc'[b] \in Waiting <=> pc[b] \in Waiting
    BY <1>1, <1>3 DEF Inside, Movers, Waiting
  <2>. QED  BY <1>1, <2>1 DEF Inv, PoolIsExclusive
<1>10. \A g : Moving(g)' <=> g = f
  BY <1>2, <1>3, <1>8 DEF Moving, Movers, Inv, TypeOK
<1>11. FramesAgree'
  <2>0. Whole' => Whole
    BY <1>1, <1>3 DEF Whole, Ending
  <2>. SUFFICES ASSUME NEW g \in Frame, NEW b \in Asid, NEW q \in Page, pc'[b] # "dead"
                PROVE  /\ pgTbl'[b][q] = g => swapPoolTable[g] = <<b, q>> /\ g # f
                       /\ Whole /\ swapPoolTable[g] = <<b, q>> /\ g # f => pgTbl'[b][q] = g
    BY <1>1, <1>10, <2>0, FramesRule
  <2>1. /\ pgTbl[b][q] = g => swapPoolTable[g] = <<b, q>>
        /\ Whole /\ swapPoolTable[g] = <<b, q>> => pgTbl[b][q] = g
    BY <1>1, <1>3, <1>8, FramesFacts DEF Inv
  <2>2. Whole /\ swapPoolTable[f] = <<b, q>> => pgTbl[b][q] = f
    BY <1>1, <1>3, <1>8, FramesFacts DEF Inv
  <2>3. CASE swapPoolTable[f] = <<b, q>>
    <3>1. Owner(f) = b /\ PageIn(f) = q
      BY <2>3 DEF Owner, PageIn
    <3>. QED  BY <1>6, <2>1, <2>2, <2>3, <3>1
  <2>4. CASE swapPoolTable[f] # <<b, q>>
    BY <1>6, <2>1, <2>2, <2>4
  <2>. QED  BY <2>3, <2>4
<1>12. OneCpu => TlbAgrees'
  <2>. SUFFICES ASSUME OneCpu PROVE TlbAgrees'
    OBVIOUS
  <2>. SUFFICES ASSUME NEW d \in CPU, NEW b \in Asid, NEW q \in Page,
                       pc'[b] # "dead", tlb'[d][b][q] # Absent
                PROVE  \/ tlb'[d][b][q] = pgTbl'[b][q]
                       \/ \E x \in Asid : At(d, x, "sync")' /\ swapPoolTable'[victim'[x]] = <<b, q>>
    BY DEF TlbAgrees
  <2>1. tlb'[d][b][q] = pgTbl[b][q]
    BY <1>1, <1>3, <1>4, TlbIsClean DEF Inv
  <2>2. CASE swapPoolTable[f] # <<b, q>>
    BY <1>6, <2>1, <2>2
  <2>3. CASE swapPoolTable[f] = <<b, q>>
    <3>1. Owner(f) # NULL
      BY <2>3 DEF Owner
    <3>2. d = c /\ pc'[a] = "sync" /\ running'[c] = a /\ victim'[a] = f
      BY <1>1, <1>2, <1>3, <3>1 DEF OneCpu, Inv, TypeOK
    <3>. QED  BY <1>1, <2>3, <3>2 DEF At
  <2>. QED  BY <2>2, <2>3
<1>13. OneCpu => SyncRuns'
  BY <1>1, <1>3, <1>8 DEF SyncRuns, Movers
<1>14. OwnersLive'
  BY <1>1, <1>3 DEF Inv, TypeOK, OwnersLive, Owner
<1>15. VictimIsOut'
  <2>1. ASSUME NEW b \in Asid, pc'[b] \in {"sync", "writing"}
        PROVE  b = a /\ Owner(f) # NULL /\ victim'[b] = f
    BY <1>2, <1>3, <1>8, <2>1 DEF Inv, TypeOK, Movers, InFlash
  <2>. QED  BY <1>1, <1>6, <2>1 DEF VictimIsOut, Owner, PageIn
<1>16. FaultIsOut'
  <2>1. pgTbl[a][fault[a]] = Invalid
    BY <1>1, FramesFacts DEF Loaded, InPool, Inv
  <2>. QED  BY <1>1, <1>3, <1>6, <1>8, <2>1 DEF FaultIsOut
<1>17. OneCpu => InstallReady'
  BY <1>3, <1>8 DEF InstallReady, Movers
<1>. QED  BY <1>7, <1>9, <1>11, <1>12, <1>13, <1>14, <1>15, <1>16, <1>17 DEF Inv


\* From here on the TLB of the CPU agrees about the victim.
LEMMA StartWriteStep ==
  ASSUME Inv, NEW c \in CPU, NEW a \in Asid, StartWrite(c, a)
  PROVE  Inv'
<1>. DEFINE f == victim[a]
<1>1. /\ running[c] = a /\ pc[a] = "sync" /\ f \in Frame
      /\ UNCHANGED <<fault, victim, semSwapPoolTable, swapPoolTable, next>>
      /\ UNCHANGED <<pgTbl, data, flash>>
      /\ pc' = [pc EXCEPT ![a] = "writing"] /\ running' = [running EXCEPT ![c] = NULL]
      /\ UpdateTLB(c, Owner(f), PageIn(f), Invalid)
  BY DEF StartWrite, At, DoIO, pool, store, Inv, TypeOK
<1>2. /\ Owner(f) \in Asid /\ PageIn(f) \in Page
      /\ swapPoolTable[f] = <<Owner(f), PageIn(f)>>
      /\ pgTbl[Owner(f)][PageIn(f)] = Invalid
  BY <1>1 DEF Inv, TypeOK, VictimIsOut, Owner, PageIn
<1>. HIDE DEF f
<1>3. /\ tlb' \in TlbType
      /\ tlb'[c][Owner(f)][PageIn(f)] \in {Absent, Invalid}
      /\ \A d \in CPU, b \in Asid, q \in Page :
           d # c \/ b # Owner(f) \/ q # PageIn(f) => tlb'[d][b][q] = tlb[d][b][q]
  BY <1>1, <1>2, UpdateFacts DEF Inv
<1>4. /\ pc' \in [Asid -> Location] /\ pc'[a] = "writing"
      /\ \A b \in Asid \ {a} : pc'[b] = pc[b]
  BY <1>1 DEF Inv, TypeOK, Location, InFlash
<1>5. \A b \in Asid : /\ pc[b] \in Movers <=> pc'[b] \in Movers
                      /\ pc[b] \in Inside <=> pc'[b] \in Inside
                      /\ pc[b] \in Waiting <=> pc'[b] \in Waiting
                      /\ pc[b] = "dead" <=> pc'[b] = "dead"
  BY <1>1, <1>4 DEF Movers, Inside, InFlash, Waiting
<1>6. \A b \in Asid \ {a} : pc[b] \notin Movers
  BY <1>1, OneMover DEF Inv, Inside, Movers
<1>7. TypeOK'
  <2>1. running' \in [CPU -> Asid \cup {NULL}]
    BY <1>1 DEF Inv, TypeOK
  <2>. QED  BY <1>1, <1>3, <1>4, <2>1 DEF Inv, TypeOK, TlbType
<1>8. PoolIsExclusive'
  BY <1>1, <1>5 DEF Inv, PoolIsExclusive
<1>9. FramesAgree'
  BY <1>1, <1>4, <1>5, FramesKept DEF Inv, Whole, Ending
<1>10. OneCpu => TlbAgrees'
  <2>. SUFFICES ASSUME OneCpu PROVE TlbAgrees'
    OBVIOUS
  <2>1. ASSUME NEW d \in CPU, NEW b \in Asid, NEW q \in Page,
               pc[b] # "dead", tlb'[d][b][q] # Absent
        PROVE  tlb'[d][b][q] = pgTbl[b][q]
    <3>1. CASE b = Owner(f) /\ q = PageIn(f)
      BY <1>2, <1>3, <2>1, <3>1 DEF OneCpu
    <3>2. CASE ~(b = Owner(f) /\ q = PageIn(f))
      <4>1. swapPoolTable[f] # <<b, q>>
        BY <1>2, <3>2
      <4>2. \A x \in Asid : pc[x] = "sync" => x = a
        BY <1>6 DEF Movers
      <4>3. tlb'[d][b][q] = tlb[d][b][q]
        BY <1>3, <3>2
      <4>. QED  BY <2>1, <4>1, <4>2, <4>3 DEF Inv, TlbAgrees, At, f
    <3>. QED  BY <3>1, <3>2
  <2>. QED  BY <1>1, <1>5, <2>1 DEF TlbAgrees
<1>11. OneCpu => SyncRuns'
  BY <1>4, <1>6 DEF SyncRuns, Movers
<1>12. OwnersLive'
  BY <1>1, <1>5 DEF Inv, TypeOK, OwnersLive, Owner
<1>13. VictimIsOut'
  BY <1>1, <1>4 DEF Inv, VictimIsOut, Owner, PageIn
<1>14. FaultIsOut' /\ (OneCpu => InstallReady')
  BY <1>1, <1>4, <1>5 DEF Inv, FaultIsOut, InstallReady
<1>. QED  BY <1>7, <1>8, <1>9, <1>10, <1>11, <1>12, <1>13, <1>14 DEF Inv

\* The frame is about to be overwritten.
LEMMA StartReadStep ==
  ASSUME Inv, NEW c \in CPU, NEW a \in Asid, StartRead(c, a)
  PROVE  Inv'
<1>1. /\ running[c] = a /\ pc[a] = "read"
      /\ UNCHANGED <<fault, victim, semSwapPoolTable, swapPoolTable, next>>
      /\ UNCHANGED <<pgTbl, tlb, data, flash>>
      /\ pc' = [pc EXCEPT ![a] = "reading"] /\ running' = [running EXCEPT ![c] = NULL]
  BY DEF StartRead, At, DoIO, pool, store
<1>2. /\ pc' \in [Asid -> Location] /\ pc'[a] = "reading"
      /\ \A b \in Asid \ {a} : pc'[b] = pc[b]
  BY <1>1 DEF Inv, TypeOK, Location, InFlash
<1>3. \A b \in Asid : /\ pc[b] \in Movers <=> pc'[b] \in Movers
                      /\ pc[b] \in Inside <=> pc'[b] \in Inside
                      /\ pc[b] \in Waiting <=> pc'[b] \in Waiting
                      /\ pc[b] = "dead" <=> pc'[b] = "dead"
  BY <1>1, <1>2 DEF Movers, Inside, InFlash, Waiting
<1>4. \A b \in Asid : pc[b] # "sync" /\ pc'[b] # "sync"
  BY <1>1, <1>2, OneMover DEF Inv, Inside, Movers
<1>5. TypeOK'
  <2>1. running' \in [CPU -> Asid \cup {NULL}]
    BY <1>1 DEF Inv, TypeOK
  <2>. QED  BY <1>1, <1>2, <2>1 DEF Inv, TypeOK
<1>6. PoolIsExclusive'
  BY <1>1, <1>3 DEF Inv, PoolIsExclusive
<1>7. FramesAgree'
  BY <1>1, <1>2, <1>3, FramesKept DEF Inv, Whole, Ending
<1>8. OneCpu => TlbAgrees'
  BY <1>1, <1>3, <1>4, TlbKept DEF Inv, At
<1>9. OwnersLive'
  BY <1>1, <1>3 DEF Inv, TypeOK, OwnersLive, Owner
<1>10. VictimIsOut' /\ FaultIsOut' /\ (OneCpu => SyncRuns' /\ InstallReady')
  BY <1>1, <1>2, <1>3, <1>4
  DEF Inv, SyncRuns, VictimIsOut, FaultIsOut, InstallReady, Owner, PageIn
<1>. QED  BY <1>5, <1>6, <1>7, <1>8, <1>9, <1>10 DEF Inv

\* The block has the words of the frame.
LEMMA WriteDoneStep ==
  ASSUME Inv, NEW a \in Asid, WriteDone(a)
  PROVE  Inv'
<1>1. /\ pc[a] = "writing"
      /\ UNCHANGED <<running, fault, victim, semSwapPoolTable, swapPoolTable, next>>
      /\ UNCHANGED <<pgTbl, tlb, data>>
      /\ pc' = [pc EXCEPT ![a] = "read"]
      /\ flash' = [flash EXCEPT ![Owner(victim[a])][PageIn(victim[a])] = data[victim[a]]]
  BY DEF WriteDone, Goto, pool
<1>2. /\ pc' \in [Asid -> Location] /\ pc'[a] = "read"
      /\ \A b \in Asid \ {a} : pc'[b] = pc[b]
  BY <1>1 DEF Inv, TypeOK, Location, Ready
<1>3. \A b \in Asid : /\ pc[b] \in Movers <=> pc'[b] \in Movers
                      /\ pc[b] \in Inside <=> pc'[b] \in Inside
                      /\ pc[b] \in Waiting <=> pc'[b] \in Waiting
                      /\ pc[b] = "dead" <=> pc'[b] = "dead"
  BY <1>1, <1>2 DEF Movers, Inside, InFlash, Waiting
<1>4. \A b \in Asid : pc'[b] \notin {"sync", "writing", "install"} /\ pc[b] # "sync"
  BY <1>1, <1>2, OneMover DEF Inv, Inside, Movers, InFlash
<1>5. TypeOK'
  <2>1. flash' \in [Asid -> [Page -> Word]]
    BY <1>1 DEF Inv, TypeOK
  <2>. QED  BY <1>1, <1>2, <2>1 DEF Inv, TypeOK
<1>6. PoolIsExclusive'
  BY <1>1, <1>3 DEF Inv, PoolIsExclusive
<1>7. FramesAgree'
  BY <1>1, <1>2, <1>3, FramesKept DEF Inv, Whole, Ending
<1>8. OneCpu => TlbAgrees'
  BY <1>1, <1>3, <1>4, TlbKept DEF Inv, At
<1>9. OwnersLive'
  BY <1>1, <1>3 DEF Inv, TypeOK, OwnersLive, Owner
<1>10. VictimIsOut' /\ FaultIsOut' /\ (OneCpu => SyncRuns' /\ InstallReady')
  BY <1>1, <1>3, <1>4 DEF Inv, SyncRuns, VictimIsOut, FaultIsOut, InstallReady
<1>. QED  BY <1>5, <1>6, <1>7, <1>8, <1>9, <1>10 DEF Inv

\* The frame has the words of the block.
LEMMA ReadDoneStep ==
  ASSUME Inv, NEW a \in Asid, ReadDone(a)
  PROVE  Inv'
<1>1. /\ pc[a] = "reading"
      /\ UNCHANGED <<running, fault, victim, semSwapPoolTable, swapPoolTable, next>>
      /\ UNCHANGED <<pgTbl, tlb, flash>>
      /\ pc' = [pc EXCEPT ![a] = "install"]
      /\ data' = [data EXCEPT ![victim[a]] = flash[a][fault[a]]]
  BY DEF ReadDone, Goto, pool
<1>2. /\ pc' \in [Asid -> Location] /\ pc'[a] = "install"
      /\ \A b \in Asid \ {a} : pc'[b] = pc[b]
  BY <1>1 DEF Inv, TypeOK, Location, Ready
<1>3. \A b \in Asid : /\ pc[b] \in Movers <=> pc'[b] \in Movers
                      /\ pc[b] \in Inside <=> pc'[b] \in Inside
                      /\ pc[b] \in Waiting <=> pc'[b] \in Waiting
                      /\ pc[b] = "dead" <=> pc'[b] = "dead"
  BY <1>1, <1>2 DEF Movers, Inside, InFlash, Waiting
<1>4. \A b \in Asid : /\ pc'[b] \notin {"sync", "writing"} /\ pc[b] # "sync"
                      /\ pc'[b] = "install" => b = a
  BY <1>1, <1>2, OneMover DEF Inv, Inside, Movers, InFlash
<1>5. TypeOK'
  <2>1. data' \in [Frame -> Word]
    BY <1>1 DEF Inv, TypeOK
  <2>. QED  BY <1>1, <1>2, <2>1 DEF Inv, TypeOK
<1>6. PoolIsExclusive'
  BY <1>1, <1>3 DEF Inv, PoolIsExclusive
<1>7. FramesAgree'
  BY <1>1, <1>2, <1>3, FramesKept DEF Inv, Whole, Ending
<1>8. OneCpu => TlbAgrees'
  BY <1>1, <1>3, <1>4, TlbKept DEF Inv, At
<1>9. OwnersLive'
  BY <1>1, <1>3 DEF Inv, TypeOK, OwnersLive, Owner
<1>10. VictimIsOut' /\ FaultIsOut' /\ (OneCpu => SyncRuns')
  BY <1>1, <1>3, <1>4 DEF Inv, SyncRuns, VictimIsOut, FaultIsOut
<1>11. OneCpu => InstallReady'
  <2>. SUFFICES ASSUME OneCpu PROVE InstallReady'
    OBVIOUS
  <2>1. data'[victim[a]] = flash[a][fault[a]]
    BY <1>1 DEF Inv, TypeOK
  <2>. QED  BY <1>1, <1>4, <2>1 DEF InstallReady
<1>. QED  BY <1>5, <1>6, <1>7, <1>8, <1>9, <1>10, <1>11 DEF Inv

\* The page becomes valid in the frame that was picked for it.
LEMMA InstallStep ==
  ASSUME Inv, NEW c \in CPU, NEW a \in Asid, Install(c, a)
  PROVE  Inv'
<1>. DEFINE f == victim[a]  p == fault[a]
<1>1. /\ running[c] = a /\ pc[a] = "install" /\ f \in Frame /\ p \in Page
      /\ UNCHANGED <<running, next, data, flash>>
      /\ swapPoolTable' = [swapPoolTable EXCEPT ![f] = <<a, p>>]
      /\ pgTbl' = [pgTbl EXCEPT ![a][p] = f]
      /\ UpdateTLB(c, a, p, f) /\ Release(a, "user")
      /\ fault' = [fault EXCEPT ![a] = 0] /\ victim' = [victim EXCEPT ![a] = 0]
  BY DEF Install, At, Return, store, Inv, TypeOK
<1>2. /\ pgTbl[a][p] = Invalid
      /\ \A b \in Asid \ {a} : pc[b] \notin Movers
      /\ \A g : Moving(g) <=> g = f
  BY <1>1, OneMover DEF Inv, FaultIsOut, Inside, Movers
<1>. HIDE DEF f, p
<1>3. /\ pc' \in [Asid -> Location] /\ semSwapPoolTable' \in {0, 1} /\ PoolIsExclusive'
      /\ pc'[a] = "user" /\ \A b \in Asid : pc'[b] \notin Movers
      /\ \A b \in Asid : pc'[b] = "dead" <=> pc[b] = "dead"
      /\ Whole' => Whole
  <2>1. pc[a] \in Inside /\ pc[a] # "dead"
    BY <1>1 DEF Inside, Movers
  <2>2. /\ pc' \in [Asid -> Location] /\ semSwapPoolTable' \in {0, 1} /\ PoolIsExclusive'
        /\ pc'[a] = "user" /\ \A b \in Asid : pc'[b] \notin Movers
        /\ \A b \in Asid \ {a} : pc'[b] = "dead" <=> pc[b] = "dead"
        /\ \A b \in Asid \ {a} : pc[b] \in Ending => pc'[b] \in Ending
    BY <1>1, <2>1, ReleaseFacts DEF Inv
  <2>3. pc[a] \in Ending => pc'[a] \in Ending
    BY <1>1, <2>2 DEF Ending
  <2>4. \A b \in Asid : pc'[b] = "dead" <=> pc[b] = "dead"
    BY <2>1, <2>2
  <2>. QED  BY <2>2, <2>3, <2>4, WholeKept
<1>4. /\ tlb' \in TlbType
      /\ tlb'[c][a][p] \in {Absent, f}
      /\ \A d \in CPU, b \in Asid, q \in Page :
           d # c \/ b # a \/ q # p => tlb'[d][b][q] = tlb[d][b][q]
  BY <1>1, UpdateFacts DEF Inv
<1>5. /\ pgTbl' \in [Asid -> [Page -> Frame \cup {Invalid}]]
      /\ pgTbl'[a][p] = f
      /\ \A b \in Asid, q \in Page : b # a \/ q # p => pgTbl'[b][q] = pgTbl[b][q]
  BY <1>1 DEF Inv, TypeOK
<1>6. /\ swapPoolTable' \in [Frame -> (Asid \X Page) \cup {Free}]
      /\ swapPoolTable'[f] = <<a, p>>
      /\ \A g \in Frame \ {f} : swapPoolTable'[g] = swapPoolTable[g]
  BY <1>1 DEF Inv, TypeOK
<1>7. TypeOK'
  <2>1. fault' \in [Asid -> Page] /\ victim' \in [Asid -> Frame]
    BY <1>1 DEF Inv, TypeOK
  <2>. QED  BY <1>1, <1>3, <1>4, <1>5, <1>6, <2>1 DEF Inv, TypeOK, TlbType
<1>8. FramesAgree'
  <2>. SUFFICES ASSUME NEW g \in Frame, NEW b \in Asid, NEW q \in Page, pc[b] # "dead"
                PROVE  /\ pgTbl'[b][q] = g => swapPoolTable'[g] = <<b, q>>
                       /\ Whole /\ swapPoolTable'[g] = <<b, q>> => pgTbl'[b][q] = g
    BY <1>3, FramesRule DEF Moving
  <2>1. /\ pgTbl[b][q] = g => swapPoolTable[g] = <<b, q>> /\ g # f
        /\ Whole /\ swapPoolTable[g] = <<b, q>> /\ g # f => pgTbl[b][q] = g
    BY <1>2, FramesFacts DEF Inv
  <2>2. CASE b = a /\ q = p
    BY <1>2, <1>5, <1>6, <2>1, <2>2
  <2>3. CASE ~(b = a /\ q = p)
    BY <1>5, <1>6, <2>1, <2>3
  <2>. QED  BY <2>2, <2>3
<1>9. OneCpu => TlbAgrees'
  <2>. SUFFICES ASSUME OneCpu PROVE TlbAgrees'
    OBVIOUS
  <2>1. ASSUME NEW d \in CPU, NEW b \in Asid, NEW q \in Page,
               pc[b] # "dead", tlb'[d][b][q] # Absent
        PROVE  tlb'[d][b][q] = pgTbl'[b][q]
    <3>1. CASE b = a /\ q = p
      BY <1>1, <1>4, <1>5, <2>1, <3>1 DEF OneCpu
    <3>2. CASE ~(b = a /\ q = p)
      <4>1. tlb'[d][b][q] = tlb[d][b][q] /\ pgTbl'[b][q] = pgTbl[b][q]
        BY <1>4, <1>5, <3>2
      <4>2. pc[a] # "sync" /\ running[c] = a
        BY <1>1
      <4>3. tlb[d][b][q] = pgTbl[b][q]
        BY <2>1, <4>1, <4>2, TlbIsClean DEF Inv
      <4>. QED  BY <4>1, <4>3
    <3>. QED  BY <3>1, <3>2
  <2>. QED  BY <1>3, <2>1 DEF TlbAgrees
<1>10. OwnersLive'
  <2>1. ASSUME NEW g \in Frame, Owner(g)' # NULL
        PROVE  pc'[Owner(g)'] # "dead"
    <3>1. CASE g = f
      BY <1>3, <1>6, <3>1 DEF Owner
    <3>2. CASE g # f
      BY <1>3, <1>6, <2>1, <3>2 DEF Owner, Inv, TypeOK, OwnersLive
    <3>. QED  BY <3>1, <3>2
  <2>. QED  BY <2>1 DEF OwnersLive, Owner
<1>. QED  BY <1>3, <1>7, <1>8, <1>9, <1>10, NoMover DEF Inv

\* The frames of the U-proc that dies become free.
LEMMA KillStep ==
  ASSUME Inv, NEW c \in CPU, NEW a \in Asid, Kill(c, a)
  PROVE  Inv'
<1>1. /\ running[c] = a /\ pc[a] = "free" /\ Release(a, "dead") /\ FreeFrames(a)
      /\ running' = [running EXCEPT ![c] = NULL]
      /\ UNCHANGED <<fault, victim, next, pgTbl, tlb, data, flash>>
  BY DEF Kill, At, store
<1>2. /\ \A b \in Asid : pc[b] \notin Movers
      /\ \A g : ~Moving(g)
  BY <1>1, OneMover DEF Inv, Inside, Movers, InFlash
<1>3. /\ pc' \in [Asid -> Location] /\ semSwapPoolTable' \in {0, 1} /\ PoolIsExclusive'
      /\ pc'[a] = "dead" /\ \A b \in Asid : pc'[b] \notin Movers
      /\ \A b \in Asid \ {a} : pc'[b] = "dead" <=> pc[b] = "dead"
  <2>1. pc[a] \in Inside
    BY <1>1 DEF Inside
  <2>. QED  BY <1>1, <2>1, ReleaseFacts DEF Inv
<1>4. /\ swapPoolTable' \in [Frame -> (Asid \X Page) \cup {Free}]
      /\ \A g \in Frame : /\ Owner(g) = a => swapPoolTable'[g] = Free
                          /\ Owner(g) # a => swapPoolTable'[g] = swapPoolTable[g]
  BY <1>1 DEF FreeFrames, Inv, TypeOK
<1>5. TypeOK'
  <2>1. running' \in [CPU -> Asid \cup {NULL}]
    BY <1>1 DEF Inv, TypeOK
  <2>. QED  BY <1>1, <1>3, <1>4, <2>1 DEF Inv, TypeOK
<1>6. FramesAgree'
  <2>. SUFFICES ASSUME NEW g \in Frame, NEW b \in Asid, NEW q \in Page, pc'[b] # "dead"
                PROVE  pgTbl[b][q] = g => swapPoolTable'[g] = <<b, q>>
    BY <1>1, <1>3, FramesRule DEF Moving, Whole, Ending
  <2>1. b # a /\ pc[b] # "dead"
    BY <1>3
  <2>2. pgTbl[b][q] = g => swapPoolTable[g] = <<b, q>>
    BY <1>2, <2>1, FramesFacts DEF Inv
  <2>3. swapPoolTable'[g] = <<b, q>> <=> swapPoolTable[g] = <<b, q>>
    BY <1>4, <2>1 DEF Owner
  <2>. QED  BY <2>2, <2>3
<1>7. OneCpu => TlbAgrees'
  <2>. SUFFICES ASSUME OneCpu PROVE TlbAgrees'
    OBVIOUS
  <2>1. ASSUME NEW d \in CPU, NEW b \in Asid, NEW q \in Page,
               pc'[b] # "dead", tlb[d][b][q] # Absent
        PROVE  tlb[d][b][q] = pgTbl[b][q]
    BY <1>1, <1>3, <2>1, TlbIsClean DEF Inv
  <2>. QED  BY <1>1, <2>1 DEF TlbAgrees
<1>8. OwnersLive'
  <2>1. ASSUME NEW g \in Frame, Owner(g)' # NULL
        PROVE  pc'[Owner(g)'] # "dead"
    <3>1. Owner(g) # a /\ swapPoolTable'[g] = swapPoolTable[g]
      BY <1>4, <2>1 DEF Owner
    <3>. QED  BY <1>3, <2>1, <3>1 DEF Owner, Inv, TypeOK, OwnersLive
  <2>. QED  BY <2>1 DEF OwnersLive, Owner
<1>. QED  BY <1>3, <1>5, <1>6, <1>7, <1>8, NoMover DEF Inv

\* The frame holds no valid page, and the table still has one for it.
LEMMA ReadFailsStep ==
  ASSUME Inv, NEW a \in Asid, ReadFails(a)
  PROVE  Inv'
<1>1. /\ pc[a] = "reading"
      /\ UNCHANGED <<running, fault, victim, semSwapPoolTable, swapPoolTable, next>>
      /\ UNCHANGED <<pgTbl, tlb, flash>>
      /\ pc' = [pc EXCEPT ![a] = "failed"]
      /\ \E w \in Word : data' = [data EXCEPT ![victim[a]] = w]
  BY DEF ReadFails, Goto, pool
<1>2. /\ pc' \in [Asid -> Location] /\ pc'[a] = "failed"
      /\ \A b \in Asid \ {a} : pc'[b] = pc[b]
  BY <1>1 DEF Inv, TypeOK, Location, Ready
<1>3. \A b \in Asid : /\ pc[b] \in Inside <=> pc'[b] \in Inside
                      /\ pc[b] \in Waiting <=> pc'[b] \in Waiting
                      /\ pc[b] = "dead" <=> pc'[b] = "dead"
  BY <1>1, <1>2 DEF Movers, Inside, InFlash, Waiting
<1>4. \A b \in Asid : pc'[b] \notin Movers /\ pc[b] # "sync"
  BY <1>1, <1>2, OneMover DEF Inv, Inside, Movers, InFlash
<1>5. TypeOK'
  <2>1. data' \in [Frame -> Word]
    BY <1>1 DEF Inv, TypeOK
  <2>. QED  BY <1>1, <1>2, <2>1 DEF Inv, TypeOK
<1>6. PoolIsExclusive'
  BY <1>1, <1>3 DEF Inv, PoolIsExclusive
<1>7. FramesAgree'
  <2>1. ~Whole' /\ \A g : ~Moving(g)'
    BY <1>2, <1>4 DEF Whole, Ending, Moving
  <2>2. \A f \in Frame, b \in Asid, p \in Page :
          pc[b] # "dead" /\ pgTbl[b][p] = f => swapPoolTable[f] = <<b, p>>
    BY FramesFacts DEF Inv
  <2>. QED  BY <1>1, <1>3, <2>1, <2>2 DEF FramesAgree, Whole
<1>8. OneCpu => TlbAgrees'
  BY <1>1, <1>3, <1>4, TlbKept DEF Inv, At
<1>9. OwnersLive'
  BY <1>1, <1>3 DEF Inv, TypeOK, OwnersLive, Owner
<1>. QED  BY <1>4, <1>5, <1>6, <1>7, <1>8, <1>9, NoMover DEF Inv

\* Who could not read leaves the pool, and all tables, as they are.
LEMMA FlashErrorStep ==
  ASSUME Inv, NEW c \in CPU, NEW a \in Asid, FlashError(c, a)
  PROVE  Inv'
<1>1. /\ running[c] = a /\ pc[a] = "failed" /\ Release(a, "dying")
      /\ UNCHANGED <<running, swapPoolTable, next, pgTbl, tlb, data, flash>>
      /\ fault' = [fault EXCEPT ![a] = 0] /\ victim' = [victim EXCEPT ![a] = 0]
  BY DEF FlashError, At, Return, store
<1>2. \A b \in Asid : pc[b] \notin Movers
  BY <1>1, OneMover DEF Inv, Inside, Movers, InFlash
<1>3. /\ pc' \in [Asid -> Location] /\ semSwapPoolTable' \in {0, 1} /\ PoolIsExclusive'
      /\ pc'[a] = "dying" /\ \A b \in Asid : pc'[b] \notin Movers
      /\ \A b \in Asid : pc'[b] = "dead" <=> pc[b] = "dead"
      /\ Whole' => Whole
  <2>1. pc[a] \in Inside /\ pc[a] # "dead"
    BY <1>1 DEF Inside
  <2>2. /\ pc' \in [Asid -> Location] /\ semSwapPoolTable' \in {0, 1} /\ PoolIsExclusive'
        /\ pc'[a] = "dying" /\ \A b \in Asid : pc'[b] \notin Movers
        /\ \A b \in Asid \ {a} : pc'[b] = "dead" <=> pc[b] = "dead"
        /\ \A b \in Asid \ {a} : pc[b] \in Ending => pc'[b] \in Ending
    BY <1>1, <2>1, ReleaseFacts DEF Inv
  <2>3. pc[a] \in Ending => pc'[a] \in Ending
    BY <1>1, <2>2 DEF Ending
  <2>4. \A b \in Asid : pc'[b] = "dead" <=> pc[b] = "dead"
    BY <2>1, <2>2
  <2>. QED  BY <2>2, <2>3, <2>4, WholeKept
<1>4. TypeOK'
  <2>1. fault' \in [Asid -> Page] /\ victim' \in [Asid -> Frame]
    BY <1>1 DEF Inv, TypeOK
  <2>. QED  BY <1>1, <1>3, <2>1 DEF Inv, TypeOK
<1>5. FramesAgree'
  BY <1>1, <1>2, <1>3, FramesKept DEF Inv
<1>6. OneCpu => TlbAgrees'
  BY <1>1, <1>2, <1>3, TlbKept DEF Inv, At, Movers
<1>7. OwnersLive'
  BY <1>1, <1>3 DEF Inv, TypeOK, OwnersLive, Owner
<1>. QED  BY <1>3, <1>4, <1>5, <1>6, <1>7, NoMover DEF Inv

-----------------------------------------------------------------------------
(* The theorems                                                            *)

\* At the start all entries are invalid and all frames free.
LEMMA InitInv == Init => Inv
<1>. SUFFICES ASSUME Init PROVE Inv
  OBVIOUS
<1>. USE DEF Init
<1>1. TypeOK
  <2>1. next \in Frame /\ 0 \in Page
    OBVIOUS
  <2>. QED  BY <2>1 DEF TypeOK, Location, Ready
<1>2. \A b \in Asid : /\ pc[b] \notin Inside /\ pc[b] \notin Movers /\ pc[b] \notin Waiting
                      /\ pc[b] = "user"
  BY DEF Inside, Movers, InFlash, Waiting
<1>3. PoolIsExclusive
  BY <1>2 DEF PoolIsExclusive
<1>4. FramesAgree /\ TlbAgrees
  BY DEF FramesAgree, LeftBehind, TlbAgrees
<1>5. OwnersLive /\ SyncRuns /\ VictimIsOut /\ FaultIsOut /\ InstallReady
  BY <1>2 DEF OwnersLive, Owner, SyncRuns, VictimIsOut, FaultIsOut, InstallReady
<1>. QED  BY <1>1, <1>3, <1>4, <1>5 DEF Inv

\* Every step preserves the invariant.
LEMMA NextInv == Inv /\ [Next]_vars => Inv'
<1>. SUFFICES ASSUME Inv, [Next]_vars PROVE Inv'
  OBVIOUS
<1>1. ASSUME NEW c \in CPU, NEW a \in Asid, Dispatch(c, a) \/ Execute(c, a)
      PROVE  Inv'
  BY <1>1, DispatchStep, EnterStep, FoundStep, EvictStep, StartWriteStep, StartReadStep,
     InstallStep, FlashErrorStep, OutsideStep, KillStep, RefillStep, StoreStep DEF Execute
<1>2. ASSUME NEW a \in Asid, WriteDone(a) \/ ReadDone(a) \/ ReadFails(a)
      PROVE  Inv'
  BY <1>2, WriteDoneStep, ReadDoneStep, ReadFailsStep
<1>3. CASE UNCHANGED vars
  <2>1. UNCHANGED <<running, pc, fault, victim, semSwapPoolTable, swapPoolTable, next,
                    pgTbl, tlb, data, flash>>
    BY <1>3 DEF vars, procs, pool, store
  <2>2. TypeOK' /\ PoolIsExclusive' /\ FramesAgree'
    BY <2>1, FramesKept DEF Inv, TypeOK, PoolIsExclusive, Whole
  <2>3. OneCpu => TlbAgrees'
    BY <2>1, TlbKept DEF Inv, At
  <2>4. OwnersLive' /\ VictimIsOut' /\ FaultIsOut'
    BY <2>1 DEF Inv, OwnersLive, VictimIsOut, FaultIsOut, Owner, PageIn
  <2>5. OneCpu => SyncRuns' /\ InstallReady'
    BY <2>1 DEF Inv, SyncRuns, InstallReady
  <2>. QED  BY <2>2, <2>3, <2>4, <2>5 DEF Inv
<1>. QED  BY <1>1, <1>2, <1>3 DEF Next

\* The invariant holds for ever, whatever the number of CPUs.
THEOREM PagerInvariant == Spec => []Inv
BY InitInv, NextInv, PTL DEF Spec

\* The variables keep their types: the pager indexes its arrays within their
\* bounds.
THEOREM PagerTypes == Spec => []TypeOK
<1>1. Inv => TypeOK
  BY DEF Inv
<1>. QED  BY <1>1, PagerInvariant, PTL

\* One U-proc at a time has the swap pool, and none waits for a free one.
THEOREM OneInThePool == Spec => []PoolIsExclusive
<1>1. Inv => PoolIsExclusive
  BY DEF Inv
<1>. QED  BY <1>1, PagerInvariant, PTL

\* Page tables and swap pool table agree, also while U-procs run on other CPUs.
THEOREM TablesAgree == Spec => []FramesAgree
<1>1. Inv => FramesAgree
  BY DEF Inv
<1>. QED  BY <1>1, PagerInvariant, PTL

\* On one CPU the TLB agrees with them, too.
THEOREM TlbStaysInStep == ASSUME OneCpu PROVE Spec => []TlbAgrees
<1>1. Inv => TlbAgrees
  BY DEF Inv
<1>. QED  BY <1>1, PagerInvariant, PTL

-----------------------------------------------------------------------------
(* The refinement                                                          *)

\* The words of a page of a living U-proc are in the one frame that holds it
\* or, when there is none, in its block of the flash device.
MemoryIs ==
  \A a \in Asid, p \in Page : pc[a] # "dead" =>
    /\ \A f \in Frame : Holds(f, a, p) => Memory(a, p) = data[f]
    /\ (\A f \in Frame : ~Holds(f, a, p)) => Memory(a, p) = flash[a][p]

\* No page is in two frames, ...
LEMMA OneHolder ==
  ASSUME Inv, NEW a \in Asid, NEW p \in Page, pc[a] # "dead",
         NEW f \in Frame, NEW g \in Frame, Holds(f, a, p), Holds(g, a, p)
  PROVE  f = g
<1>1. \A h \in Frame : swapPoolTable[h] = <<a, p>> /\ Unwritten(h) => pgTbl[a][p] = Invalid
  BY DEF Unwritten, Inv, VictimIsOut, Owner, PageIn
<1>2. ASSUME Unwritten(f), Unwritten(g) PROVE f = g
  BY <1>2 DEF Unwritten, Inv, PoolIsExclusive, Inside, Movers, InFlash
<1>. QED  BY <1>1, <1>2 DEF Holds

\* ... so that the choice in Memory is determined.
LEMMA MemoryFacts == Inv => MemoryIs
<1>. SUFFICES ASSUME Inv, NEW a \in Asid, NEW p \in Page, pc[a] # "dead"
              PROVE  /\ \A f \in Frame : Holds(f, a, p) => Memory(a, p) = data[f]
                     /\ (\A f \in Frame : ~Holds(f, a, p)) => Memory(a, p) = flash[a][p]
  BY DEF MemoryIs
<1>. DEFINE h == CHOOSE f \in Frame : Holds(f, a, p)
<1>1. ASSUME NEW f \in Frame, Holds(f, a, p) PROVE Memory(a, p) = data[f]
  <2>1. h \in Frame /\ Holds(h, a, p)
    BY <1>1
  <2>2. h = f
    BY <1>1, <2>1, OneHolder
  <2>3. Memory(a, p) = data[h]
    BY <1>1 DEF Memory
  <2>. QED  BY <2>2, <2>3
<1>2. ASSUME \A f \in Frame : ~Holds(f, a, p) PROVE Memory(a, p) = flash[a][p]
  BY <1>2 DEF Memory
<1>. QED  BY <1>1, <1>2

\* Most steps leave the words of a page where they are.
LEMMA MemoryKept ==
  ASSUME MemoryIs, MemoryIs', NEW a \in Asid, NEW p \in Page,
         pc[a] # "dead", pc'[a] # "dead",
         \A f \in Frame : /\ Holds(f, a, p)' <=> Holds(f, a, p)
                          /\ Holds(f, a, p) => data'[f] = data[f],
         (\A f \in Frame : ~Holds(f, a, p)) => flash'[a][p] = flash[a][p]
  PROVE  Memory(a, p)' = Memory(a, p)
<1>1. CASE \E f \in Frame : Holds(f, a, p)
  <2>1. PICK f \in Frame : Holds(f, a, p)
    BY <1>1
  <2>2. Memory(a, p) = data[f]
    BY <2>1 DEF MemoryIs
  <2>3. Memory(a, p)' = data'[f]
    BY <2>1 DEF MemoryIs
  <2>. QED  BY <2>1, <2>2, <2>3
<1>2. CASE \A f \in Frame : ~Holds(f, a, p)
  <2>1. Memory(a, p) = flash[a][p]
    BY <1>2 DEF MemoryIs
  <2>2. Memory(a, p)' = flash'[a][p]
    BY <1>2 DEF MemoryIs
  <2>. QED  BY <1>2, <2>1, <2>2
<1>. QED  BY <1>1, <1>2

\* The three variables of PrivateMemory.
Living  == {b \in Asid : pc[b] # "dead"}
Mem     == [a \in Living |-> [p \in Page |-> Memory(a, p)]]
Active  == {a \in Asid : \E c \in CPU : At(c, a, "user")}
Exposed == {x \in Asid \X Page : \E f \in Frame : LeftBehind(f, x[1], x[2])}

\* What most steps do to the pages of the living: nothing.
WordsKept ==
  \A a \in Asid, p \in Page :
    pc[a] # "dead" /\ pc'[a] # "dead" => Memory(a, p)' = Memory(a, p)
LivingKept == \A b \in Asid : pc'[b] = "dead" <=> pc[b] = "dead"
Kept == WordsKept /\ LivingKept /\ Exposed' \subseteq Exposed

\* In particular those that leave the tables and the contents alone.
LEMMA TablesKept ==
  ASSUME MemoryIs, MemoryIs', UNCHANGED <<swapPoolTable, pgTbl, data, flash>>,
         \A f : Unwritten(f)' <=> Unwritten(f)
  PROVE  WordsKept
<1>1. \A f \in Frame, a \in Asid, p \in Page : Holds(f, a, p)' <=> Holds(f, a, p)
  BY DEF Holds
<1>. QED  BY <1>1, MemoryKept DEF WordsKept

LEMMA MemKept ==
  ASSUME WordsKept, LivingKept
  PROVE  Living' = Living /\ Mem' = Mem
<1>1. Living' = Living
  BY DEF Living, LivingKept
<1>2. \A a \in Living, p \in Page : Memory(a, p)' = Memory(a, p)
  BY <1>1 DEF WordsKept, Living
<1>. QED  BY <1>1, <1>2 DEF Mem

\* A page is exposed when it is left behind in a frame.
LEMMA ExposedRule ==
  ASSUME \A f \in Frame, a \in Asid, p \in Page :
           LeftBehind(f, a, p)' => \E g \in Frame : LeftBehind(g, a, p)
  PROVE  Exposed' \subseteq Exposed
<1>. SUFFICES ASSUME NEW x \in Exposed' PROVE x \in Exposed
  OBVIOUS
<1>1. x \in Asid \X Page /\ \E f \in Frame : LeftBehind(f, x[1], x[2])'
  BY DEF Exposed
<1>. QED  BY <1>1 DEF Exposed

\* That does not change when frames, tables and the living stay as they are.
LEMMA ExposedKept ==
  ASSUME UNCHANGED <<swapPoolTable, pgTbl>>, LivingKept,
         \A f : Moving(f)' <=> Moving(f)
  PROVE  Exposed' \subseteq Exposed
<1>1. \A f \in Frame, a \in Asid, p \in Page : LeftBehind(f, a, p)' => LeftBehind(f, a, p)
  BY DEF LeftBehind, LivingKept
<1>. QED  BY <1>1, ExposedRule

\* Who has the pool and does not write leaves nothing to be written.
LEMMA NothingUnwritten ==
  ASSUME PoolIsExclusive, NEW a \in Asid, pc[a] \in Inside, pc[a] \notin {"sync", "writing"}
  PROVE  \A f : ~Unwritten(f)
BY OneMover DEF Unwritten, Movers, InFlash

\* The steps outside the pool leave all words where they are, ...
LEMMA OutsideKeeps ==
  ASSUME Inv, MemoryIs, MemoryIs', NEW c \in CPU, NEW a \in Asid,
         \/ Dispatch(c, a) \/ Preempt(c, a) \/ Enter(c, a) \/ EnterKill(c, a)
         \/ Terminate(c, a)
         \/ \E p \in Page : uTLB_RefillHandler(c, a, p) \/ PassUp(c, a, p)
  PROVE  Kept
<1>1. /\ UNCHANGED <<victim, swapPoolTable, pgTbl, data, flash>>
      /\ \/ pc' = pc
         \/ /\ pc[a] \in {"user", "fault", "dying"}
            /\ \E l \in {"fault", "dying", "search", "free"} \cup Waiting :
                 pc' = [pc EXCEPT ![a] = l]
  BY DEF Dispatch, Preempt, Enter, EnterKill, Terminate, uTLB_RefillHandler, PassUp,
         Acquire, Goto, DoIO, At, Waiting, procs, pool, store
<1>2. \A b \in Asid : /\ pc'[b] \in {"sync", "writing"} <=> pc[b] \in {"sync", "writing"}
                      /\ pc'[b] \in Movers <=> pc[b] \in Movers
                      /\ pc'[b] = "dead" <=> pc[b] = "dead"
  BY <1>1 DEF Inv, TypeOK, Waiting, Movers, InFlash
<1>3. \A f : /\ Unwritten(f)' <=> Unwritten(f)
             /\ Moving(f)' <=> Moving(f)
  BY <1>1, <1>2 DEF Unwritten, Moving
<1>. QED  BY <1>1, <1>2, <1>3, TablesKept, ExposedKept DEF Kept, LivingKept

\* ... and so does who finds its page, or could not read it.
LEMMA LeaveKeeps ==
  ASSUME Inv, MemoryIs, MemoryIs', NEW c \in CPU, NEW a \in Asid,
         (Search(c, a) /\ Loaded(a, fault[a])) \/ FlashError(c, a)
  PROVE  Kept
<1>. PICK l \in {"user", "dying"} : Release(a, l)
  BY DEF Search, FlashError
<1>1. /\ pc[a] \in {"search", "failed"}
      /\ UNCHANGED <<swapPoolTable, pgTbl, data, flash>>
  BY DEF Search, FlashError, At, store
<1>2. pc[a] \in Inside /\ pc[a] \notin Movers /\ pc[a] # "dead"
  BY <1>1 DEF Inside, Movers, InFlash
<1>3. (\A b \in Asid : pc'[b] \notin Movers) /\ LivingKept
  BY <1>2, ReleaseFacts DEF Inv, LivingKept
<1>4. \A f : ~Moving(f) /\ ~Moving(f)'
  BY <1>2, <1>3, OneMover DEF Inv, Moving
<1>5. \A f : ~Unwritten(f) /\ ~Unwritten(f)'
  BY <1>4 DEF Unwritten, Moving, Movers, InFlash
<1>. QED  BY <1>1, <1>3, <1>4, <1>5, TablesKept, ExposedKept DEF Kept

\* A step that gives one page one other word.
LEMMA OneWord ==
  ASSUME NEW a \in Asid, NEW p \in Page, NEW w \in Word, LivingKept, pc[a] # "dead",
         Memory(a, p)' = w,
         \A b \in Asid, q \in Page :
           pc[b] # "dead" /\ (b # a \/ q # p) => Memory(b, q)' = Memory(b, q)
  PROVE  Mem' = [Mem EXCEPT ![a][p] = w]
<1>1. Living' = Living /\ a \in Living
  BY DEF Living, LivingKept
<1>2. Mem'[a] = [Mem[a] EXCEPT ![p] = w]
  BY <1>1 DEF Mem, Living
<1>3. \A b \in Living : b # a => Mem'[b] = Mem[b]
  BY <1>1 DEF Mem, Living
<1>4. Mem' = [Mem EXCEPT ![a] = [Mem[a] EXCEPT ![p] = w]]
  BY <1>1, <1>2, <1>3 DEF Mem
<1>. QED  BY <1>4

\* The page that is evicted stays where it is, as it has yet to be written.  A
\* page left behind is written, too: over its own words.
LEMMA EvictChanges ==
  ASSUME Inv, MemoryIs, MemoryIs', NEW c \in CPU, NEW a \in Asid,
         Search(c, a), ~Loaded(a, fault[a])
  PROVE  Kept \/ \E o \in Asid, k \in Page, w \in Word : PM!Lose(o, k, w)
<1>1. pc[a] = "search" /\ UNCHANGED <<running, swapPoolTable, data, flash>>
  BY DEF Search, At, store, Evict, Goto
<1>2. PICK f \in Frame :
        /\ victim' = [victim EXCEPT ![a] = f]
        /\ \/ Owner(f) = NULL /\ pc' = [pc EXCEPT ![a] = "read"] /\ pgTbl' = pgTbl
           \/ /\ Owner(f) # NULL /\ pc' = [pc EXCEPT ![a] = "sync"]
              /\ pgTbl' = [pgTbl EXCEPT ![Owner(f)][PageIn(f)] = Invalid]
  BY DEF Search, Evict, Goto
<1>3. /\ \A b \in Asid \ {a} : pc'[b] = pc[b] /\ pc[b] \notin Movers
      /\ \A g : ~Moving(g) /\ ~Unwritten(g)
  BY <1>1, <1>2, OneMover, NothingUnwritten DEF Inv, TypeOK, Inside, Movers, InFlash
<1>4. LivingKept
  BY <1>1, <1>2 DEF LivingKept, Inv, TypeOK
<1>5. \A g : /\ Moving(g)' <=> g = f
             /\ Unwritten(g)' <=> g = f /\ Owner(f) # NULL
  BY <1>1, <1>2, <1>3 DEF Inv, TypeOK, Moving, Unwritten, Movers, InFlash
<1>6. CASE Owner(f) = NULL
  <2>1. \A g : ~Unwritten(g)'
    BY <1>5, <1>6
  <2>2. pgTbl' = pgTbl
    BY <1>2, <1>6
  <2>3. WordsKept
    BY <1>1, <1>3, <2>1, <2>2, TablesKept
  <2>4. \A g \in Frame, b \in Asid, p \in Page : LeftBehind(g, b, p)' => LeftBehind(g, b, p)
    BY <1>1, <1>3, <1>4, <2>2 DEF LeftBehind, LivingKept
  <2>. QED  BY <1>4, <2>3, <2>4, ExposedRule DEF Kept
<1>7. CASE Owner(f) # NULL
  <2>1. PICK o \in Asid, k \in Page :
          /\ swapPoolTable[f] = <<o, k>> /\ pc[o] # "dead"
          /\ pgTbl' = [pgTbl EXCEPT ![o][k] = Invalid]
    <3>1. /\ Owner(f) \in Asid /\ PageIn(f) \in Page
          /\ swapPoolTable[f] = <<Owner(f), PageIn(f)>>
      BY <1>7 DEF Inv, TypeOK, Owner, PageIn
    <3>2. pc[Owner(f)] # "dead"
      BY <1>7 DEF Inv, OwnersLive
    <3>. QED  BY <1>2, <1>7, <3>1, <3>2
  <2>2. /\ pgTbl'[o][k] = Invalid
        /\ \A b \in Asid, q \in Page : b # o \/ q # k => pgTbl'[b][q] = pgTbl[b][q]
    BY <2>1 DEF Inv, TypeOK
  <2>3. Exposed' \subseteq Exposed
    <3>. SUFFICES ASSUME NEW g \in Frame, NEW b \in Asid, NEW q \in Page, LeftBehind(g, b, q)'
                  PROVE  LeftBehind(g, b, q) \/ LeftBehind(f, b, q)
      BY ExposedRule
    <3>1. /\ pc[b] # "dead" /\ swapPoolTable[g] = <<b, q>> /\ g # f /\ pgTbl'[b][q] # g
      BY <1>1, <1>4, <1>5 DEF LeftBehind, LivingKept
    <3>2. CASE b = o /\ q = k
      BY <1>3, <2>1, <3>1, <3>2 DEF LeftBehind
    <3>3. CASE ~(b = o /\ q = k)
      BY <1>3, <2>2, <3>1, <3>3 DEF LeftBehind
    <3>. QED  BY <3>2, <3>3
  <2>4. ASSUME NEW b \in Asid, NEW q \in Page, pc[b] # "dead", b # o \/ q # k
        PROVE  Memory(b, q)' = Memory(b, q)
    <3>1. \A g \in Frame : Holds(g, b, q)' <=> Holds(g, b, q)
      BY <1>1, <1>3, <1>5, <2>1, <2>2, <2>4 DEF Holds
    <3>2. pc'[b] # "dead"
      BY <1>4, <2>4 DEF LivingKept
    <3>. QED  BY <1>1, <2>4, <3>1, <3>2, MemoryKept
  <2>5. Holds(f, o, k)' /\ pc'[o] # "dead"
    BY <1>1, <1>4, <1>5, <1>7, <2>1 DEF Holds, LivingKept
  <2>6. PICK w \in Word : w = data[f] /\ Memory(o, k)' = w
    BY <1>1, <2>1, <2>5 DEF MemoryIs, Inv, TypeOK
  <2>7. CASE pgTbl[o][k] = f
    <3>1. Memory(o, k) = data[f]
      BY <2>1, <2>7 DEF MemoryIs, Holds
    <3>2. WordsKept
      BY <2>4, <2>6, <3>1 DEF WordsKept
    <3>. QED  BY <1>4, <2>3, <3>2 DEF Kept
  <2>8. CASE pgTbl[o][k] # f
    <3>1. LeftBehind(f, o, k)
      BY <1>3, <2>1, <2>8 DEF LeftBehind
    <3>2. <<o, k>> \in Exposed
      BY <2>1, <3>1 DEF Exposed
    <3>3. Mem' = [Mem EXCEPT ![o][k] = w]
      BY <1>4, <2>1, <2>4, <2>6, OneWord
    <3>4. Active' = Active
      <4>1. \A b \in Asid : pc'[b] = "user" <=> pc[b] = "user"
        BY <1>1, <1>2 DEF Inv, TypeOK
      <4>. QED  BY <1>1, <4>1 DEF Active, At
    <3>5. PM!Lose(o, k, w)
      BY <2>3, <3>2, <3>3, <3>4 DEF PM!Lose, Mem, Living, Active, Exposed
    <3>. QED  BY <3>5
  <2>. QED  BY <2>7, <2>8
<1>. QED  BY <1>6, <1>7

\* The start of a transfer leaves all words where they are.
LEMMA StartKeeps ==
  ASSUME Inv, MemoryIs, MemoryIs', NEW c \in CPU, NEW a \in Asid,
         StartWrite(c, a) \/ StartRead(c, a)
  PROVE  Kept
<1>1. /\ UNCHANGED <<victim, swapPoolTable, pgTbl, data, flash>>
      /\ \/ pc[a] = "sync" /\ pc' = [pc EXCEPT ![a] = "writing"]
         \/ pc[a] = "read" /\ pc' = [pc EXCEPT ![a] = "reading"]
  BY DEF StartWrite, StartRead, At, DoIO, pool, store
<1>2. \A b \in Asid : /\ pc'[b] \in {"sync", "writing"} <=> pc[b] \in {"sync", "writing"}
                      /\ pc'[b] \in Movers <=> pc[b] \in Movers
                      /\ pc'[b] = "dead" <=> pc[b] = "dead"
  BY <1>1 DEF Inv, TypeOK, Movers, InFlash
<1>3. \A f : /\ Unwritten(f)' <=> Unwritten(f)
             /\ Moving(f)' <=> Moving(f)
  BY <1>1, <1>2 DEF Unwritten, Moving
<1>. QED  BY <1>1, <1>2, <1>3, TablesKept, ExposedKept DEF Kept, LivingKept

\* The page that was written is in its block now.
LEMMA WriteDoneKeeps ==
  ASSUME Inv, MemoryIs, MemoryIs', NEW a \in Asid, WriteDone(a)
  PROVE  Kept
<1>. DEFINE f == victim[a]  o == Owner(f)  k == PageIn(f)
<1>1. /\ pc[a] = "writing" /\ f \in Frame
      /\ UNCHANGED <<victim, swapPoolTable, pgTbl, data>>
      /\ pc' = [pc EXCEPT ![a] = "read"]
      /\ flash' = [flash EXCEPT ![o][k] = data[f]]
  BY DEF WriteDone, Goto, pool, Inv, TypeOK
<1>2. /\ o \in Asid /\ k \in Page /\ swapPoolTable[f] = <<o, k>> /\ pgTbl[o][k] = Invalid
  BY <1>1 DEF Inv, TypeOK, VictimIsOut, Owner, PageIn
<1>3. /\ \A b \in Asid \ {a} : pc[b] \notin Movers
      /\ \A g : Unwritten(g) <=> g = f
      /\ \A g : ~Unwritten(g)'
      /\ \A b \in Asid : /\ pc'[b] \in Movers <=> pc[b] \in Movers
                         /\ pc'[b] = "dead" <=> pc[b] = "dead"
  BY <1>1, OneMover DEF Inv, TypeOK, Inside, Movers, InFlash, Unwritten
<1>. HIDE DEF f, o, k
<1>4. /\ flash'[o][k] = data[f]
      /\ \A b \in Asid, p \in Page : b # o \/ p # k => flash'[b][p] = flash[b][p]
  BY <1>1, <1>2 DEF Inv, TypeOK
<1>5. ASSUME NEW b \in Asid, NEW p \in Page, pc[b] # "dead", pc'[b] # "dead"
      PROVE  Memory(b, p)' = Memory(b, p)
  <2>1. CASE b = o /\ p = k
    <3>1. Memory(b, p) = data[f]
      BY <1>1, <1>2, <1>3, <1>5, <2>1 DEF MemoryIs, Holds
    <3>2. \A g \in Frame : ~Holds(g, b, p)'
      BY <1>1, <1>2, <1>3, <2>1 DEF Holds
    <3>3. Memory(b, p)' = flash'[b][p]
      BY <1>5, <3>2 DEF MemoryIs
    <3>. QED  BY <1>4, <2>1, <3>1, <3>3
  <2>2. CASE ~(b = o /\ p = k)
    <3>1. \A g \in Frame : Holds(g, b, p)' <=> Holds(g, b, p)
      BY <1>1, <1>2, <1>3, <2>2 DEF Holds
    <3>. QED  BY <1>1, <1>4, <1>5, <2>2, <3>1, MemoryKept
  <2>. QED  BY <2>1, <2>2
<1>6. \A g : Moving(g)' <=> Moving(g)
  BY <1>1, <1>3 DEF Moving
<1>. QED  BY <1>1, <1>3, <1>5, <1>6, ExposedKept DEF Kept, WordsKept, LivingKept

\* The frame that is read into holds no page, whether the read succeeds ...
LEMMA ReadKeeps ==
  ASSUME Inv, MemoryIs, MemoryIs', NEW a \in Asid, ReadDone(a) \/ ReadFails(a)
  PROVE  WordsKept /\ LivingKept
<1>. PICK l \in {"install", "failed"}, w \in Word :
       /\ pc' = [pc EXCEPT ![a] = l]
       /\ data' = [data EXCEPT ![victim[a]] = w]
  <2>1. flash[a][fault[a]] \in Word
    BY DEF Inv, TypeOK
  <2>. QED  BY <2>1 DEF ReadDone, ReadFails, Goto
<1>1. pc[a] = "reading" /\ UNCHANGED <<victim, swapPoolTable, pgTbl, flash>>
  BY DEF ReadDone, ReadFails, pool
<1>2. /\ \A b \in Asid \ {a} : pc[b] \notin Movers
      /\ \A g : Moving(g) <=> g = victim[a]
      /\ \A g : ~Unwritten(g) /\ ~Unwritten(g)'
      /\ LivingKept
  BY <1>1, OneMover DEF Inv, TypeOK, Inside, Movers, InFlash, Unwritten, LivingKept
<1>3. \A b \in Asid, p \in Page, g \in Frame : pc[b] # "dead" =>
        /\ Holds(g, b, p)' <=> Holds(g, b, p)
        /\ Holds(g, b, p) => data'[g] = data[g]
  BY <1>1, <1>2, FramesFacts DEF Holds, Inv, TypeOK
<1>. QED  BY <1>1, <1>2, <1>3, MemoryKept DEF WordsKept

\* ... and exposes nothing, or fails.
LEMMA ReadDoneKeeps ==
  ASSUME Inv, MemoryIs, MemoryIs', NEW a \in Asid, ReadDone(a)
  PROVE  Kept
<1>1. /\ pc[a] = "reading" /\ UNCHANGED <<victim, swapPoolTable, pgTbl>>
      /\ pc' = [pc EXCEPT ![a] = "install"]
  BY DEF ReadDone, Goto, pool
<1>2. \A b \in Asid : pc'[b] \in Movers <=> pc[b] \in Movers
  BY <1>1 DEF Inv, TypeOK, Movers, InFlash
<1>3. \A f : Moving(f)' <=> Moving(f)
  BY <1>1, <1>2 DEF Moving
<1>. QED  BY <1>1, <1>3, ReadKeeps, ExposedKept DEF Kept

LEMMA ReadFailsIsFail ==
  ASSUME Inv, MemoryIs, MemoryIs', NEW a \in Asid, ReadFails(a)
  PROVE  PM!Fail
<1>1. /\ pc[a] = "reading" /\ Faults # {} /\ UNCHANGED running
      /\ pc' = [pc EXCEPT ![a] = "failed"]
  BY DEF ReadFails, Goto
<1>2. WordsKept /\ LivingKept
  BY ReadKeeps
<1>3. Mem' = Mem
  BY <1>2, MemKept
<1>4. Active' = Active
  <2>1. \A b \in Asid : pc'[b] = "user" <=> pc[b] = "user"
    BY <1>1 DEF Inv, TypeOK
  <2>. QED  BY <1>1, <2>1 DEF Active, At
<1>5. Exposed' \subseteq Asid \X Page
  BY DEF Exposed
<1>. QED  BY <1>1, <1>3, <1>4, <1>5 DEF PM!Fail, Mem, Living, Active, Exposed

\* The page that becomes valid is still in its block, too.
LEMMA InstallKeeps ==
  ASSUME OneCpu, Inv, MemoryIs, MemoryIs', NEW c \in CPU, NEW a \in Asid, Install(c, a)
  PROVE  Kept
<1>. DEFINE f == victim[a]  p == fault[a]
<1>1. /\ pc[a] = "install" /\ f \in Frame /\ p \in Page
      /\ UNCHANGED <<data, flash>> /\ Release(a, "user")
      /\ swapPoolTable' = [swapPoolTable EXCEPT ![f] = <<a, p>>]
      /\ pgTbl' = [pgTbl EXCEPT ![a][p] = f]
      /\ pgTbl[a][p] = Invalid /\ data[f] = flash[a][p]
  BY DEF Install, At, store, Inv, TypeOK, FaultIsOut, InstallReady, Movers
<1>2. /\ \A b \in Asid : pc'[b] \notin Movers
      /\ \A b \in Asid : pc'[b] = "dead" <=> pc[b] = "dead"
  <2>1. pc[a] \in Inside /\ pc[a] # "dead"
    BY <1>1 DEF Inside, Movers
  <2>. QED  BY <1>1, <2>1, ReleaseFacts DEF Inv
<1>3. \A g : ~Unwritten(g) /\ ~Unwritten(g)'
  BY <1>1, <1>2, NothingUnwritten DEF Inv, Inside, Unwritten, Movers, InFlash
<1>. HIDE DEF f, p
<1>4. /\ pgTbl'[a][p] = f
      /\ \A b \in Asid, q \in Page : b # a \/ q # p => pgTbl'[b][q] = pgTbl[b][q]
  BY <1>1 DEF Inv, TypeOK
<1>5. ASSUME NEW b \in Asid, NEW q \in Page, pc[b] # "dead", pc'[b] # "dead"
      PROVE  Memory(b, q)' = Memory(b, q)
  <2>1. CASE b = a /\ q = p
    <3>1. Memory(b, q) = flash[a][p]
      BY <1>1, <1>3, <1>5, <2>1 DEF MemoryIs, Holds
    <3>2. Memory(b, q)' = data'[f]
      BY <1>1, <1>4, <1>5, <2>1 DEF MemoryIs, Holds
    <3>. QED  BY <1>1, <3>1, <3>2
  <2>2. CASE ~(b = a /\ q = p)
    <3>1. \A g \in Frame : Holds(g, b, q)' <=> Holds(g, b, q)
      BY <1>3, <1>4, <2>2 DEF Holds
    <3>. QED  BY <1>1, <1>5, <3>1, MemoryKept
  <2>. QED  BY <2>1, <2>2
<1>6. Exposed' \subseteq Exposed
  <2>. SUFFICES ASSUME NEW g \in Frame, NEW b \in Asid, NEW q \in Page, LeftBehind(g, b, q)'
                PROVE  LeftBehind(g, b, q)
    BY ExposedRule
  <2>1. pc[b] # "dead" /\ swapPoolTable'[g] = <<b, q>> /\ pgTbl'[b][q] # g
    BY <1>2 DEF LeftBehind
  <2>2. g # f /\ swapPoolTable[g] = <<b, q>>
    BY <1>1, <1>4, <2>1 DEF Inv, TypeOK
  <2>3. ~Moving(g)
    BY <1>1, <2>2, OneMover DEF f, Inv, Inside, Movers
  <2>4. pgTbl[b][q] # g
    BY <1>1, <1>4, <2>1
  <2>. QED  BY <2>1, <2>2, <2>3, <2>4 DEF LeftBehind
<1>. QED  BY <1>2, <1>5, <1>6 DEF Kept, WordsKept, LivingKept

\* The frames of the others stay as they are.
LEMMA KillKeeps ==
  ASSUME Inv, MemoryIs, MemoryIs', NEW c \in CPU, NEW a \in Asid, Kill(c, a)
  PROVE  /\ WordsKept /\ Exposed' \subseteq Exposed /\ pc[a] # "dead"
         /\ \A b \in Asid : pc'[b] = "dead" <=> pc[b] = "dead" \/ b = a
<1>1. /\ pc[a] = "free" /\ Release(a, "dead") /\ UNCHANGED <<pgTbl, data, flash>>
      /\ FreeFrames(a)
  BY DEF Kill, At, store
<1>2. /\ pc'[a] = "dead" /\ \A b \in Asid : pc'[b] \notin Movers
      /\ \A b \in Asid \ {a} : pc'[b] = "dead" <=> pc[b] = "dead"
  <2>1. pc[a] \in Inside
    BY <1>1 DEF Inside
  <2>. QED  BY <1>1, <2>1, ReleaseFacts DEF Inv
<1>3. \A g : ~Unwritten(g) /\ ~Unwritten(g)'
  BY <1>1, <1>2, NothingUnwritten DEF Inv, Inside, Unwritten, Movers, InFlash
<1>4. \A b \in Asid, p \in Page, g \in Frame : Holds(g, b, p)' <=> Holds(g, b, p)
  BY <1>1, <1>3 DEF Holds
<1>5. Exposed' \subseteq Exposed
  <2>. SUFFICES ASSUME NEW g \in Frame, NEW b \in Asid, NEW q \in Page, LeftBehind(g, b, q)'
                PROVE  LeftBehind(g, b, q)
    BY ExposedRule
  <2>1. b # a /\ pc[b] # "dead" /\ swapPoolTable'[g] = <<b, q>> /\ pgTbl[b][q] # g
    BY <1>1, <1>2 DEF LeftBehind
  <2>2. swapPoolTable[g] = <<b, q>>
    BY <1>1, <2>1 DEF FreeFrames, Owner
  <2>3. ~Moving(g)
    BY <1>1, OneMover DEF Inv, Inside, Movers, InFlash
  <2>. QED  BY <2>1, <2>2, <2>3 DEF LeftBehind
<1>. QED  BY <1>1, <1>2, <1>4, <1>5, MemoryKept DEF WordsKept

\* A store changes one word of one page.
LEMMA StoreChanges ==
  ASSUME OneCpu, Inv, MemoryIs, MemoryIs', NEW c \in CPU, NEW a \in Asid,
         NEW p \in Page, NEW w \in Word, Store(c, a, p, w)
  PROVE  /\ pc[a] = "user" /\ running[c] = a
         /\ UNCHANGED <<running, pc, victim, swapPoolTable, pgTbl>>
         /\ Memory(a, p)' = w
         /\ \A b \in Asid, q \in Page :
              pc[b] # "dead" /\ (b # a \/ q # p) => Memory(b, q)' = Memory(b, q)
<1>. DEFINE f == tlb[c][a][p]
<1>1. /\ pc[a] = "user" /\ running[c] = a /\ f \in Frame
      /\ UNCHANGED <<running, pc, victim, swapPoolTable, pgTbl, flash>>
      /\ data' = [data EXCEPT ![f] = w]
  BY DEF Store, At, procs, pool
<1>2. pgTbl[a][p] = f
  BY <1>1, TlbIsClean DEF Inv
<1>. HIDE DEF f
<1>3. swapPoolTable[f] = <<a, p>> /\ ~Moving(f)
  BY <1>1, <1>2, FramesFacts DEF Inv
<1>4. \A b \in Asid, q \in Page, g \in Frame : Holds(g, b, q)' <=> Holds(g, b, q)
  BY <1>1 DEF Holds, Unwritten
<1>5. Memory(a, p)' = w
  <2>1. Memory(a, p)' = data'[f]
    BY <1>1, <1>2 DEF MemoryIs, Holds
  <2>. QED  BY <1>1, <2>1 DEF Inv, TypeOK
<1>6. ASSUME NEW b \in Asid, NEW q \in Page, pc[b] # "dead", b # a \/ q # p
      PROVE  Memory(b, q)' = Memory(b, q)
  <2>1. ~Holds(f, b, q)
    <3>1. pgTbl[b][q] # f
      BY <1>1, <1>3, <1>6, FramesFacts DEF Inv
    <3>. QED  BY <1>3, <3>1 DEF Holds, Moving, Unwritten, Movers, InFlash
  <2>2. \A g \in Frame : Holds(g, b, q) => data'[g] = data[g]
    BY <1>1, <2>1 DEF Inv, TypeOK
  <2>. QED  BY <1>1, <1>4, <1>6, <2>2, MemoryKept
<1>. QED  BY <1>1, <1>5, <1>6

\* A step that keeps all that is one of the scheduler.
LEMMA KeptIsSchedule == Kept => PM!Schedule
<1>. SUFFICES ASSUME Kept PROVE PM!Schedule
  OBVIOUS
<1>1. Living' = Living /\ Mem' = Mem
  BY MemKept DEF Kept
<1>2. Active' \subseteq Living
  BY <1>1 DEF Active, At, Living
<1>3. DOMAIN Mem = Living
  BY DEF Mem
<1>. QED  BY <1>1, <1>2, <1>3 DEF PM!Schedule, Kept, Mem, Active, Living, Exposed

\* Every step of the pager is one of the abstract memory.
LEMMA StepRefines ==
  OneCpu /\ Inv /\ Inv' /\ MemoryIs /\ MemoryIs' /\ [Next]_vars => [PM!Next]_(PM!vars)
<1>. SUFFICES ASSUME OneCpu, Inv, Inv', MemoryIs, MemoryIs', [Next]_vars
              PROVE  PM!Next
  OBVIOUS
<1>1. ASSUME NEW c \in CPU, NEW a \in Asid, NEW p \in Page, NEW w \in Word,
             Store(c, a, p, w)
      PROVE  PM!Store(a, p, w)
  <2>1. /\ pc[a] = "user" /\ running[c] = a
        /\ UNCHANGED <<running, pc, victim, swapPoolTable, pgTbl>>
        /\ Memory(a, p)' = w
        /\ \A b \in Asid, q \in Page :
             pc[b] # "dead" /\ (b # a \/ q # p) => Memory(b, q)' = Memory(b, q)
    BY <1>1, StoreChanges
  <2>2. a \in Active /\ Active' = Active /\ Exposed' = Exposed
    BY <2>1 DEF Active, At, Exposed, LeftBehind, Moving
  <2>3. Mem' = [Mem EXCEPT ![a][p] = w]
    BY <2>1, OneWord DEF LivingKept
  <2>. QED  BY <2>2, <2>3 DEF PM!Store, Mem, Active, Living, Exposed
<1>2. ASSUME NEW c \in CPU, NEW a \in Asid, Kill(c, a)
      PROVE  PM!End(a)
  <2>1. /\ WordsKept /\ Exposed' \subseteq Exposed /\ pc[a] # "dead"
        /\ \A b \in Asid : pc'[b] = "dead" <=> pc[b] = "dead" \/ b = a
    BY <1>2, KillKeeps
  <2>2. Living' = Living \ {a}
    BY <2>1 DEF Living
  <2>3. Mem' = [b \in DOMAIN Mem \ {a} |-> Mem[b]]
    BY <2>1, <2>2 DEF Mem, Living, WordsKept
  <2>4. Active = {} /\ Active' = {}
    <3>1. running[c] = a /\ pc[a] = "free" /\ running' = [running EXCEPT ![c] = NULL]
      BY <1>2 DEF Kill, At
    <3>2. \A d \in CPU : running[d] = a /\ running'[d] = NULL
      BY <3>1 DEF OneCpu, Inv, TypeOK
    <3>. QED  BY <3>1, <3>2 DEF Active, At
  <2>. QED  BY <2>1, <2>3, <2>4 DEF PM!End, Mem, Active, Living, Exposed
<1>3. ASSUME NEW c \in CPU, NEW a \in Asid, Dispatch(c, a) \/ Execute(c, a)
      PROVE  PM!Next
  <2>1. Kept => PM!Next
    BY KeptIsSchedule DEF PM!Next
  <2>2. CASE Dispatch(c, a)
    BY <2>1, <2>2, OutsideKeeps
  <2>3. CASE Execute(c, a)
    <3>1. CASE \E p \in Page, w \in Word : Store(c, a, p, w)
      BY <1>1, <3>1 DEF PM!Next
    <3>2. CASE Kill(c, a)
      BY <1>2, <3>2 DEF PM!Next
    <3>3. CASE Search(c, a) \/ FlashError(c, a)
      BY <2>1, <3>3, LeaveKeeps, EvictChanges DEF PM!Next
    <3>4. CASE StartWrite(c, a) \/ StartRead(c, a) \/ Install(c, a)
      BY <2>1, <3>4, StartKeeps, InstallKeeps
    <3>5. CASE \/ Preempt(c, a) \/ Enter(c, a) \/ EnterKill(c, a) \/ Terminate(c, a)
               \/ \E p \in Page : uTLB_RefillHandler(c, a, p) \/ PassUp(c, a, p)
      BY <2>1, <3>5, OutsideKeeps
    <3>. QED  BY <2>3, <3>1, <3>2, <3>3, <3>4, <3>5 DEF Execute
  <2>. QED  BY <1>3, <2>2, <2>3
<1>4. ASSUME NEW a \in Asid, WriteDone(a) \/ ReadDone(a) \/ ReadFails(a)
      PROVE  PM!Next
  BY <1>4, WriteDoneKeeps, ReadDoneKeeps, ReadFailsIsFail, KeptIsSchedule DEF PM!Next
<1>5. CASE UNCHANGED vars
  <2>1. UNCHANGED <<victim, swapPoolTable, pgTbl, data, flash, pc>>
    BY <1>5 DEF vars, procs, pool, store
  <2>2. \A f : /\ Unwritten(f)' <=> Unwritten(f)
               /\ Moving(f)' <=> Moving(f)
    BY <2>1 DEF Unwritten, Moving
  <2>3. Kept
    BY <2>1, <2>2, TablesKept, ExposedKept DEF Kept, LivingKept
  <2>. QED  BY <2>3, KeptIsSchedule DEF PM!Next
<1>. QED  BY <1>3, <1>4, <1>5 DEF Next

\* The pages start with what is in their blocks.
LEMMA InitRefines == OneCpu /\ Init /\ MemoryIs => PM!Init
<1>. SUFFICES ASSUME Init, MemoryIs PROVE PM!Init
  OBVIOUS
<1>1. Living = Asid /\ Active = {} /\ Exposed = {}
  BY DEF Init, Living, Active, At, Exposed, LeftBehind
<1>2. ASSUME NEW a \in Asid, NEW p \in Page PROVE Memory(a, p) \in Word
  <2>1. pc[a] # "dead" /\ flash[a][p] \in Word /\ pgTbl[a][p] = Invalid
    BY DEF Init
  <2>2. \A f \in Frame : ~Holds(f, a, p)
    BY <2>1 DEF Init, Holds, Unwritten
  <2>. QED  BY <2>1, <2>2 DEF MemoryIs
<1>3. Mem \in [Asid -> [Page -> Word]]
  BY <1>1, <1>2 DEF Mem
<1>. QED  BY <1>1, <1>3 DEF PM!Init, Mem, Active, Living, Exposed

\* On one CPU every U-proc has a memory of its own, whatever the pager moves
\* where; words are lost only after a flash error, in pages left behind.
THEOREM PagerImplementsPrivateMemory == ASSUME OneCpu PROVE Spec => ImplementsPrivateMemory
<1>1. Init /\ MemoryIs => PM!Init
  BY InitRefines
<1>2. Inv /\ Inv' /\ MemoryIs /\ MemoryIs' /\ [Next]_vars => [PM!Next]_(PM!vars)
  BY StepRefines
<1>. QED  BY <1>1, <1>2, PagerInvariant, MemoryFacts, PTL DEF Spec, ImplementsPrivateMemory, PM!Spec
=============================================================================
