---------------------------- MODULE AgentReports ----------------------------
(***************************************************************************)
(* What the notification queue promises of background agents: an agent     *)
(* posts one report, and the conversation that reads the queue gets every  *)
(* report posted so far.  Nobody reads a report a second time.             *)
(***************************************************************************)
CONSTANTS Agent, Conversation

VARIABLES
  posted,    \* agents whose report waits
  readers    \* for each agent, the conversations that got its report

Init == posted = {} /\ readers = [a \in Agent |-> {}]

Post(a) ==
  /\ a \notin posted /\ readers[a] = {}
  /\ posted' = posted \cup {a}
  /\ UNCHANGED readers

ReadAll(c) ==
  /\ readers' = [a \in Agent |-> IF a \in posted THEN {c} ELSE readers[a]]
  /\ posted' = {}

Next ==
  \/ \E a \in Agent : Post(a)
  \/ \E c \in Conversation : ReadAll(c)

Spec == Init /\ [][Next]_<<posted, readers>>
=============================================================================
