------------------------------ MODULE WriteBack ------------------------------
(***************************************************************************)
(* What the coalescer promises its callers: a configuration in RAM that is *)
(* written in its own time, whole, and a restart that falls back to what   *)
(* was written.  Nothing is written that was never current, and a change   *)
(* is written unless the write of it fails: it is then tried again only if *)
(* something else asks for a write.                                        *)
(***************************************************************************)
CONSTANTS Values, Default

VARIABLES
  value, disk,
  failed   \* the last write failed, and nothing was left for later since

vars == <<value, disk, failed>>

Init == value = Default /\ disk = Default /\ failed = FALSE

Change    == value' \in Values /\ failed' = FALSE /\ UNCHANGED disk
WriteNew  == value' \in Values /\ disk' = value' /\ failed' = FALSE
WriteBack == disk' = value /\ failed' = FALSE /\ UNCHANGED value
Fail      == value' \in Values /\ disk' \in {disk, value'} /\ failed' = TRUE
Restart   == value' = disk /\ failed' = FALSE /\ UNCHANGED disk

Next == Change \/ WriteNew \/ WriteBack \/ Fail \/ Restart

(* What differs from flash, and was not tried, gets tried.                 *)
Due == value # disk /\ ~failed /\ WriteBack

Spec == Init /\ [][Next]_vars /\ WF_vars(Due)
=============================================================================
