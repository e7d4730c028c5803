----------------------------- MODULE CrashDedup -----------------------------
(***************************************************************************)
(* When a crash is worth a file of its own, as docs/technical_details.txt  *)
(* (section 8) and nothing else says: its trace includes a tuple that no   *)
(* previous crash has, or misses one that all of them have.  After MAX_KEPT*)
(* files no more are kept.                                                 *)
(***************************************************************************)
EXTENDS Naturals

CONSTANTS Bytes, MAX_KEPT

VARIABLES
  earlier,   \* the traces, as sets of bytes, of the crashes of this session
  kept,      \* how many of them have a file
  last       \* the latest crash, and whether it was kept

Init == earlier = {} /\ kept = 0 /\ last = [hits |-> {}, kept |-> FALSE]

IncludesNew(hits) == hits \ UNION earlier # {}
MissesCommon(hits) == {b \in Bytes : \A e \in earlier : b \in e} \ hits # {}

Report ==
  \E hits \in SUBSET Bytes :
    LET keep == kept < MAX_KEPT /\ (IncludesNew(hits) \/ MissesCommon(hits))
    IN /\ earlier' = earlier \cup {hits}
       /\ kept' = IF keep THEN kept + 1 ELSE kept
       /\ last' = [hits |-> hits, kept |-> keep]

(* A fuzzer that was stopped and resumed has forgotten the crashes.        *)
Forget == earlier' = {} /\ kept' = 0 /\ last' = last

Spec == Init /\ [][Report \/ Forget]_<<earlier, kept, last>>
=============================================================================
