----------------------------- MODULE RegionList -----------------------------
(***************************************************************************)
(* What the tracker promises to a program of one thread whose calls        *)
(* succeed: the list of segments is the set of the program's regions       *)
(* outside the heap whenever the program runs.  During a call the list     *)
(* lags behind by what that call does: what is gone from the regions goes  *)
(* from the list, and then what is new is added.                           *)
(***************************************************************************)
CONSTANT Region   \* the regions the program can have

VARIABLES
  regions,  \* the regions of the program
  list,     \* the regions the library knows of
  busy      \* a call is under way

vars == <<regions, list, busy>>

AtMostOne(S) == \A r, q \in S : r = q

Init ==
  /\ regions \subseteq Region
  /\ list = regions
  /\ busy = FALSE

Begin ==
  /\ ~busy
  /\ busy' = TRUE
  /\ UNCHANGED <<regions, list>>

\* libc and the kernel give a region, take one, or replace one by another.
Change ==
  /\ busy /\ list = regions
  /\ regions' \subseteq Region
  /\ AtMostOne(regions \ regions') /\ AtMostOne(regions' \ regions)
  /\ UNCHANGED <<list, busy>>

\* A reallocation that leaves a region where it is takes it out of the list all
\* the same.
Renew ==
  /\ busy /\ list = regions
  /\ \E r \in list : list' = list \ {r}
  /\ UNCHANGED <<regions, busy>>

Remove ==
  /\ busy /\ list \ regions # {}
  /\ list' = list \cap regions
  /\ UNCHANGED <<regions, busy>>

Add ==
  /\ busy /\ list \subseteq regions /\ list # regions
  /\ list' = regions
  /\ UNCHANGED <<regions, busy>>

\* The call returns once the list is right again.
End ==
  /\ busy /\ list = regions
  /\ busy' = FALSE
  /\ UNCHANGED <<regions, list>>

Next == Begin \/ Change \/ Renew \/ Remove \/ Add \/ End

Safety == Init /\ [][Next]_vars

\* The call goes on: the list does not lag behind for ever.
Spec == Safety /\ WF_vars(Remove) /\ WF_vars(Add)
=============================================================================
