------------------------------- MODULE MenuSpec --------------------------------
(***************************************************************************)
(* What the review of menu changes promises, with no accounts, groups,     *)
(* sessions or snapshots: a submitted case is never altered, it is         *)
(* approved by the one who requested it, and it is applied once, at once,  *)
(* to an item that is as the case says, whatever else writes the items.    *)
(***************************************************************************)
CONSTANTS Request, Item, NoItem, Field, NoValues

VARIABLES
  items,          (* the content of each item, or NoValues                 *)
  cases           (* what was submitted by each request, and its phase     *)

specVars == <<items, cases>>

NoCase == [phase |-> "none"]

Patched(c, p) == [f \in Field |-> IF f \in DOMAIN p THEN p[f] ELSE c[f]]

Init ==
  /\ items = [i \in Item |-> items[i]]
  /\ cases = [r \in Request |-> NoCase]

(* The case c, whatever it proposes, brings back what case o replaced.     *)
Reverses(c, o) ==
  /\ o.phase = "applied" /\ o.item = c.item /\ c.item # NoItem
  /\ c.base = Patched(o.base, o.proposed)
  /\ c.proposed = [f \in DOMAIN o.proposed |-> o.base[f]]

(* A case is submitted, or given up as a draft.                            *)
Enter(r) ==
  /\ cases[r] = NoCase
  /\ cases' = [cases EXCEPT ![r] = cases'[r]]
  /\ cases'[r].phase \in {"submitted", "closed"}
  /\ cases'[r].reverses # 0 =>
       \E o \in Request : o = cases'[r].reverses /\ Reverses(cases'[r], cases[o])
  /\ UNCHANGED items

Approve(r) ==
  /\ cases[r].phase = "submitted"
  /\ cases[r].reviewer = cases[r].requester
  /\ cases' = [cases EXCEPT ![r].phase = "approved"]
  /\ UNCHANGED items

Close(r) ==
  /\ cases[r].phase \in {"submitted", "approved"}
  /\ cases' = [cases EXCEPT ![r].phase = "closed"]
  /\ UNCHANGED items

(* The item of the case, or a new one.                                     *)
Apply(r, i) ==
  /\ cases[r].phase = "approved"
  /\ cases[r].item = NoItem => cases[r].base = NoValues
  /\ cases[r].item \in {i, NoItem}
  /\ items[i] = cases[r].base
  /\ items' = [items EXCEPT ![i] = Patched(cases[r].base, cases[r].proposed)]
  /\ cases' = [cases EXCEPT ![r].phase = "applied"]

(* Anybody else's write.                                                   *)
Write(i) ==
  /\ UNCHANGED cases
  /\ items' = [items EXCEPT ![i] = items'[i]]

Next ==
  \/ \E i \in Item : Write(i)
  \/ \E r \in Request : Enter(r) \/ Approve(r) \/ Close(r)
  \/ \E r \in Request, i \in Item : Apply(r, i)

Spec == Init /\ [][Next]_specVars
==============================================================================
