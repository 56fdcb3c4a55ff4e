-------------------------------- MODULE Pcbs --------------------------------
(* pcb.c and asl.c on the linked lists that they are made of, with the     *)
(* calls that the nucleus makes.  Each call runs under global_lock: one    *)
(* action does all the list operations of a handler.                       *)
EXTENDS Lists, SequencesExt

CONSTANTS PCB,   \* the entries of pcbFree_table
          SEMD,  \* the entries of semd_table
          Key,   \* semaphore addresses
          NULL,
          NCPU   \* how many processes run at a time

ASSUME KeysAreAddresses == Key \subseteq Nat /\ NULL \notin Key
ASSUME TablesAreArrays ==
  /\ IsFiniteSet(PCB) /\ PCB # {} /\ NULL \notin PCB
  /\ IsFiniteSet(SEMD) /\ NULL \notin SEMD
\* Both tables have MAXPROC entries.
ASSUME OneDescriptorForEachProcess == Cardinality(PCB) <= Cardinality(SEMD)

VARIABLES mem,     \* links, p_parent, p_semAdd and s_key of the two tables
          val,     \* the integer at each semaphore address
          running  \* the processes in current_process[]

vars == <<mem, val, running>>

p_list(p)  == <<"p_list", p>>
p_child(p) == <<"p_child", p>>
p_sib(p)   == <<"p_sib", p>>
s_link(s)  == <<"s_link", s>>
s_procq(s) == <<"s_procq", s>>
pcbFree_h   == <<"pcbFree_h", NULL>>
semdFree_h  == <<"semdFree_h", NULL>>
semd_h      == <<"semd_h", NULL>>
ready_queue == <<"ready_queue", NULL>>

Cell == {"p_list", "p_child", "p_sib"} \X PCB \cup {"s_link", "s_procq"} \X SEMD
        \cup {pcbFree_h, semdFree_h, semd_h, ready_queue}

\* container_of, for every cell of a list.
Entries(m, head) == LET s == Cells(m.links, head) IN [i \in DOMAIN s |-> s[i][2]]
Members(m, head) == {Entries(m, head)[i] : i \in DOMAIN Entries(m, head)}
First(m, head)   == m.links.next[head][2]
Empty(m, head)   == list_empty(m.links, head)

-----------------------------------------------------------------------------
(* pcb.c *)

freePcb(m, p) == [m EXCEPT !.links = list_add(@, p_list(p), pcbFree_h)]

\* The entry that allocPcb takes is the first of a list that is not empty.
allocPcb(m) ==
  LET p == First(m, pcbFree_h) IN
    [m EXCEPT !.links = INIT_LIST_HEAD(INIT_LIST_HEAD(list_del(@, p_list(p)), p_child(p)), p_sib(p)),
              !.parent[p] = NULL, !.semAdd[p] = NULL]

\* Faulty variant: list_add for list_add_tail.
insertProcQ_first(m, head, p) == [m EXCEPT !.links = list_add(@, p_list(p), head)]

insertProcQ(m, head, p) == [m EXCEPT !.links = list_add_tail(@, p_list(p), head)]
removeProcQ(m, head)    == [m EXCEPT !.links = list_del(@, @.next[head])]

outProcQ(m, head, p) ==
  IF p \in Members(m, head) THEN [m EXCEPT !.links = list_del(@, p_list(p))] ELSE m

insertChild(m, prnt, p) ==
  [m EXCEPT !.parent[p] = prnt, !.links = list_add_tail(@, p_sib(p), p_child(prnt))]

\* Faulty variant: p_parent is not reset.
removeChild_keeps(m, p) == [m EXCEPT !.links = list_del(@, @.next[p_child(p)])]

removeChild(m, p) ==
  [m EXCEPT !.parent[First(m, p_child(p))] = NULL, !.links = list_del(@, @.next[p_child(p)])]

outChild(m, p) ==
  IF m.parent[p] # NULL /\ p \in Members(m, p_child(m.parent[p]))
    THEN [m EXCEPT !.parent[p] = NULL, !.links = list_del(@, p_sib(p))]
    ELSE m

-----------------------------------------------------------------------------
(* asl.c *)

search_key(m, k) ==
  LET found == {s \in Members(m, semd_h) : m.key[s] = k} IN
    IF found = {} THEN NULL ELSE CHOOSE s \in found : TRUE

\* Before the first descriptor whose semaphore has a greater value, or last.
add_to_semd(m, v, s, k) ==
  LET list == Entries(m, semd_h)
      greater == {i \in DOMAIN list : v[m.key[list[i]]] > v[k]}
      next == IF greater = {} THEN semd_h
              ELSE s_link(list[CHOOSE i \in greater : \A j \in greater : i <= j])
  IN  [m EXCEPT !.links = AddBetween(@, s_link(s), @.prev[next], next)]

\* With no descriptor left insertBlocked returns an error, that its callers
\* ignore.
insertBlocked(m, v, k, p) ==
  LET s == search_key(m, k) IN
  IF s # NULL
    THEN [insertProcQ(m, s_procq(s), p) EXCEPT !.semAdd[p] = k]
  ELSE IF Empty(m, semdFree_h)
    THEN m
  ELSE LET new   == First(m, semdFree_h)
           taken == [m EXCEPT !.links = list_del(@, s_link(new))]
           added == [add_to_semd(taken, v, new, k) EXCEPT
                       !.key[new] = k, !.links = INIT_LIST_HEAD(@, s_procq(new))]
       IN  [added EXCEPT !.links = list_add(@, p_list(p), s_procq(new)), !.semAdd[p] = k]

\* Faulty variants: a descriptor stays in the ASL when its queue is empty, or
\* leaves it for nowhere.
Retire_never(m, s) == m
Retire_leaks(m, s) ==
  IF Empty(m, s_procq(s)) THEN [m EXCEPT !.links = list_del(@, s_link(s))] ELSE m

\* A descriptor goes back to the free list with its last process.
Retire(m, s) ==
  IF Empty(m, s_procq(s))
    THEN [m EXCEPT !.links = list_add(list_del(@, s_link(s)), s_link(s), semdFree_h)]
    ELSE m

removeBlocked(m, k) ==
  LET s == search_key(m, k) IN Retire(removeProcQ(m, s_procq(s)), s)

outBlocked(m, p) ==
  LET s == search_key(m, m.semAdd[p]) IN
  IF s # NULL /\ p \in Members(m, s_procq(s))
    THEN Retire([m EXCEPT !.links = list_del(@, p_list(p))], s)
    ELSE m

\* The pid of p, searched in the queues of all the active semaphores.
outBlockedPid(m, p) ==
  LET found == {s \in Members(m, semd_h) : p \in Members(m, s_procq(s))} IN
  IF found = {} THEN m
  ELSE Retire([m EXCEPT !.links = list_del(@, p_list(p)), !.semAdd[p] = NULL],
              CHOOSE s \in found : TRUE)

-----------------------------------------------------------------------------
(* removePcb and killTree of sysHandler.c *)

removePcb(m, p) ==
  freePcb(outProcQ(IF m.semAdd[p] # NULL THEN outBlocked(m, p) ELSE m, ready_queue, p), p)

\* A call of killTree begins with outChild.
Call(m, p, calls) == [mem |-> outChild(m, p), calls |-> <<p>> \o calls]

\* One turn of the loop of the innermost call: that of the first child, or
\* removePcb and the return.
KillStep(s) ==
  LET p == Head(s.calls) IN
  IF s.calls = <<>>
    THEN s
  ELSE IF Empty(s.mem, p_child(p))
    THEN [mem |-> removePcb(s.mem, p), calls |-> Tail(s.calls)]
  ELSE Call(removeChild(s.mem, p), First(s.mem, p_child(p)), s.calls)

\* A PCB is the child of one process and is freed once: so many turns are
\* enough for any tree.
killTree(m, root) ==
  LET run[i \in Nat] == IF i = 0 THEN Call(m, root, <<>>) ELSE KillStep(run[i - 1])
  IN  run[2 * Cardinality(PCB)].mem

-----------------------------------------------------------------------------
\* initPcbs adds each PCB in front of the others, initASL each descriptor
\* behind the others; then main() instantiates the first process.
Alone == [n \in Cell |-> n]
Put(h, c, head, end) ==
  IF end = "front" THEN list_add(h, c, head) ELSE list_add_tail(h, c, head)
AddAll(h, cells, head, end) ==
  LET order == SetToSeq(cells)
      added[i \in 0 .. Cardinality(cells)] ==
        IF i = 0 THEN h ELSE Put(added[i - 1], order[i], head, end)
  IN  added[Cardinality(cells)]

Tables ==
  LET pcbs == AddAll([next |-> Alone, prev |-> Alone], {p_list(p) : p \in PCB}, pcbFree_h, "front")
  IN  [links  |-> AddAll(pcbs, {s_link(s) : s \in SEMD}, semdFree_h, "back"),
       parent |-> [p \in PCB |-> NULL],
       semAdd |-> [p \in PCB |-> NULL],
       key    |-> [s \in SEMD |-> NULL]]

Init ==
  /\ mem = insertProcQ(allocPcb(Tables), ready_queue, First(Tables, pcbFree_h))
  /\ val \in [Key -> {0, 1}]
  /\ running = {}

createProcess(p) ==
  /\ p \in running /\ ~Empty(mem, pcbFree_h)
  /\ LET new == First(mem, pcbFree_h) IN
       mem' = insertChild(insertProcQ(allocPcb(mem), ready_queue, new), p, new)
  /\ UNCHANGED <<val, running>>

Dispatch ==
  /\ ~Empty(mem, ready_queue) /\ Cardinality(running) < NCPU
  /\ running' = running \cup {First(mem, ready_queue)}
  /\ mem' = removeProcQ(mem, ready_queue)
  /\ UNCHANGED val

Preempt(p) ==
  /\ p \in running
  /\ running' = running \ {p}
  /\ mem' = insertProcQ(mem, ready_queue, p)
  /\ UNCHANGED val

Block(p, k) ==
  /\ p \in running
  /\ running' = running \ {p}
  /\ mem' = insertBlocked(mem, val, k, p)
  /\ UNCHANGED val

Wake(k) ==
  /\ search_key(mem, k) # NULL
  /\ mem' = insertProcQ(removeBlocked(mem, k), ready_queue,
                        First(mem, s_procq(search_key(mem, k))))
  /\ UNCHANGED <<val, running>>

\* PASSEREN or VERHOGEN on a semaphore that nobody waits for.
Flip(k) ==
  /\ search_key(mem, k) = NULL
  /\ val' = [val EXCEPT ![k] = 1 - @]
  /\ UNCHANGED <<mem, running>>

\* TERMPROCESS of the caller, or of the pid of another live process, that
\* findProcessByPid takes out of the queue in which it finds it.
Terminate(p) ==
  /\ p \notin Members(mem, pcbFree_h)
  /\ mem' = killTree(IF p \in running \cup Members(mem, ready_queue)
                       THEN mem ELSE outBlockedPid(mem, p), p)
  /\ running' = running \ Members(mem', pcbFree_h)
  /\ UNCHANGED val

Next ==
  \/ \E p \in PCB : \/ createProcess(p) \/ Preempt(p) \/ Terminate(p)
                    \/ \E k \in Key : Block(p, k)
  \/ Dispatch
  \/ \E k \in Key : Wake(k) \/ Flip(k)

Spec == Init /\ [][Next]_vars

-----------------------------------------------------------------------------
\* Every list is closed in both directions, whatever was taken out of it.
ListsAreLinked == Linked(mem.links)

Active == Members(mem, semd_h)

\* The ASL holds one descriptor for each address on which somebody waits, and
\* the others are free: a semaphore whose queue runs empty gives its one back.
AslIsExact ==
  /\ \A s \in Active : ~Empty(mem, s_procq(s))
  /\ \A s, t \in Active : mem.key[s] = mem.key[t] => s = t
  /\ \A s \in Active : \A p \in Members(mem, s_procq(s)) : mem.semAdd[p] = mem.key[s]
  /\ Active \cap Members(mem, semdFree_h) = {} /\ Active \cup Members(mem, semdFree_h) = SEMD

\* insertBlocked cannot fail: its callers go on as if it never did.
DescriptorsSuffice == running # {} => ~Empty(mem, semdFree_h)

\* p_parent and the lists of children say the same.
TreeAgrees ==
  \A p \in PCB \ Members(mem, pcbFree_h) :
    Members(mem, p_child(p)) = {q \in PCB : mem.parent[q] = p}

\* The lists do what the nucleus takes them to do.
Table == INSTANCE ProcTable WITH
  free    <- Members(mem, pcbFree_h),
  ready   <- Entries(mem, ready_queue),
  blocked <- [k \in Key |-> IF search_key(mem, k) = NULL THEN <<>>
                            ELSE Entries(mem, s_procq(search_key(mem, k)))],
  parent  <- mem.parent
ImplementsTable == Table!Spec
=============================================================================
