----------------------------- MODULE Permissions -----------------------------
(***************************************************************************)
(* What the confirmation gate promises of tool calls, whatever tasks and   *)
(* channels lie between a call and the user: each call is settled once, by *)
(* the policy, by a lasting permission for its tool, or by the first thing *)
(* the user said to the question it asked.  A call on a sensitive file     *)
(* runs only on the user's word about this call.  Only a cancellation      *)
(* stands above a yes.                                                     *)
(***************************************************************************)
CONSTANTS Call, Guarded, ToolOf   \* Guarded: calls on sensitive files

VARIABLES
  fate,       \* "new", "asked", what let the call run, or "refused"
  said,       \* the first thing the user said about each call
  grants,     \* tools with a lasting permission
  cancelled   \* a cancellation holds

Init ==
  /\ fate = [c \in Call |-> "new"]
  /\ said = [c \in Call |-> "none"]
  /\ grants = {} /\ cancelled = FALSE

ByPolicy(c) ==
  /\ fate[c] = "new" /\ c \notin Guarded
  /\ fate' = [fate EXCEPT ![c] = "policy"]
  /\ UNCHANGED <<said, grants, cancelled>>

ByGrant(c) ==
  /\ fate[c] = "new" /\ c \notin Guarded
  /\ ToolOf[c] \in grants
  /\ fate' = [fate EXCEPT ![c] = "grant"]
  /\ UNCHANGED <<said, grants, cancelled>>

Ask(c) ==
  /\ fate[c] = "new"
  /\ fate' = [fate EXCEPT ![c] = "asked"]
  /\ UNCHANGED <<said, grants, cancelled>>

(* Only a question that was asked is answered, if perhaps too late.        *)
Say(c, d) ==
  /\ fate[c] \in {"asked", "user", "refused"} /\ said[c] = "none"
  /\ said' = [said EXCEPT ![c] = d]
  /\ UNCHANGED <<fate, grants, cancelled>>

ByUser(c) ==
  /\ fate[c] = "asked" /\ said[c] \in {"once", "always"}
  /\ fate' = [fate EXCEPT ![c] = "user"]
  /\ grants' = IF said[c] = "always" /\ c \notin Guarded
               THEN grants \cup {ToolOf[c]} ELSE grants
  /\ UNCHANGED <<said, cancelled>>

(* Without the user, or on his no. *)
Refuse(c) ==
  /\ fate[c] \in {"new", "asked"} /\ said[c] \in {"none", "deny"}
  /\ fate' = [fate EXCEPT ![c] = "refused"]
  /\ UNCHANGED <<said, grants, cancelled>>

(* A yes that has been given may still be cancelled. *)
Withdraw(c) ==
  /\ fate[c] = "asked" /\ cancelled
  /\ fate' = [fate EXCEPT ![c] = "refused"]
  /\ UNCHANGED <<said, grants, cancelled>>

Cancel == cancelled' \in BOOLEAN /\ UNCHANGED <<fate, said, grants>>

Next ==
  \/ \E c \in Call : \/ ByPolicy(c) \/ ByGrant(c) \/ Ask(c) \/ ByUser(c)
                     \/ Refuse(c) \/ Withdraw(c)
                     \/ \E d \in {"once", "always", "deny"} : Say(c, d)
  \/ Cancel

Spec == Init /\ [][Next]_<<fate, said, grants, cancelled>>
=============================================================================
