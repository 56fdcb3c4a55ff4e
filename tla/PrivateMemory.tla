--------------------------- MODULE PrivateMemory ---------------------------
(* What the virtual memory of phase 3 promises: each U-proc has a logical  *)
(* address space of its own, as long as it lives, and the word that a page *)
(* holds changes only when that U-proc, in execution, stores to the page.  *)
(* Where flash devices fail, a failure exposes some pages; those, and only *)
(* those, may lose their words later.                                      *)
CONSTANTS Asid, Page, Word,
          MayFail  \* some flash command may fail

VARIABLES mem,     \* the word in each page of each living U-proc
          active,  \* the U-procs in execution, in user mode
          exposed  \* the pages that a failure has exposed

vars == <<mem, active, exposed>>

Init == mem \in [Asid -> [Page -> Word]] /\ active = {} /\ exposed = {}

Schedule == active' \subseteq DOMAIN mem /\ exposed' \subseteq exposed /\ UNCHANGED mem

Store(a, p, w) ==
  /\ a \in active
  /\ mem' = [mem EXCEPT ![a][p] = w]
  /\ UNCHANGED <<active, exposed>>

End(a) ==
  /\ mem' = [b \in DOMAIN mem \ {a} |-> mem[b]]
  /\ active' = active \ {a}
  /\ exposed' \subseteq exposed

Fail == MayFail /\ exposed' \subseteq Asid \X Page /\ UNCHANGED <<mem, active>>

Lose(a, p, w) ==
  /\ <<a, p>> \in exposed
  /\ mem' = [mem EXCEPT ![a][p] = w]
  /\ exposed' \subseteq exposed
  /\ UNCHANGED active

Next ==
  \/ Schedule \/ Fail
  \/ \E a \in Asid : End(a) \/ \E p \in Page, w \in Word : Store(a, p, w) \/ Lose(a, p, w)

Spec == Init /\ [][Next]_vars
=============================================================================
