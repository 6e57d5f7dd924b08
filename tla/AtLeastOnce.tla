---------------------------- MODULE AtLeastOnce ----------------------------
(***************************************************************************)
(* What a sender with guaranteed retry promises its caller: the call       *)
(* returns only when the transfer has been executed successfully on chain. *)
(* It does not promise that the transfer is executed once only, nor that   *)
(* no execution follows the return.                                        *)
(***************************************************************************)
CONSTANT Transfers

VARIABLES executed, \* transfers executed successfully at least once
          returned  \* transfers whose call has returned

vars == <<executed, returned>>

Init == executed = {} /\ returned = {}

Execute(t) == /\ executed' = executed \cup {t}
              /\ UNCHANGED returned

Return(t) == /\ t \in executed
             /\ returned' = returned \cup {t}
             /\ UNCHANGED executed

Next == \E t \in Transfers : Execute(t) \/ Return(t)

Spec == Init /\ [][Next]_vars
=============================================================================
