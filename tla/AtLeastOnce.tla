---------------------------- MODULE AtLeastOnce ----------------------------
(***************************************************************************)
(* What the broker promises about each message, whatever its consumers,    *)
(* heartbeats, reapers and database connections do: a message is out to    *)
(* one consumer at a time, it is completed only after that consumer        *)
(* handled it successfully, and everything else that happens to it brings  *)
(* it back to the waiting messages or, when its attempts are used up, to   *)
(* the dead ones (the diagram at the head of app/broker/messages.py).      *)
(***************************************************************************)
CONSTANTS
  MsgId,
  Consumer,
  Nobody

VARIABLES
  stage,    \* where each message is
  holder,   \* the consumer it is out to
  proven    \* messages that the consumer they are out to has handled

vars == <<stage, holder, proven>>

Stage == {"absent", "waiting", "out", "completed", "dead"}

Init ==
  /\ stage = [m \in MsgId |-> "absent"]
  /\ holder = [m \in MsgId |-> Nobody]
  /\ proven = {}

All(S, s) == \A m \in S : stage[m] = s

Move(S, s) ==
  stage' = [m \in MsgId |-> IF m \in S THEN s ELSE stage[m]]

Put(S) == All(S, "absent") /\ Move(S, "waiting") /\ UNCHANGED <<holder, proven>>

Take(c, m) ==
  /\ stage[m] = "waiting"
  /\ Move({m}, "out")
  /\ holder' = [holder EXCEPT ![m] = c]
  /\ proven' = proven \ {m}

Prove(m) == stage[m] = "out" /\ proven' = proven \cup {m} /\ UNCHANGED <<stage, holder>>

Complete(m) ==
  /\ stage[m] = "out"
  /\ m \in proven
  /\ Move({m}, "completed")
  /\ UNCHANGED <<holder, proven>>

(* Given back by its holder, or taken from it: handled or not, the message *)
(* has to be handled again, unless it is buried.                           *)
Return(S, spent) ==
  /\ All(S, "out")
  /\ stage' = [m \in MsgId |-> IF m \notin S THEN stage[m]
                               ELSE IF m \in spent THEN "dead" ELSE "waiting"]
  /\ holder' = [m \in MsgId |-> IF m \in S THEN Nobody ELSE holder[m]]
  /\ proven' = proven \ S

Revive(S) == All(S, "dead") /\ Move(S, "waiting") /\ UNCHANGED <<holder, proven>>
Remove(S) == All(S, "dead") /\ Move(S, "absent") /\ UNCHANGED <<holder, proven>>

Clear ==
  /\ stage' = [m \in MsgId |-> "absent"]
  /\ holder' = [m \in MsgId |-> Nobody]
  /\ proven' = {}

Next ==
  \/ \E S \in SUBSET MsgId : Put(S) \/ Revive(S) \/ Remove(S)
  \/ \E m \in MsgId : Prove(m) \/ Complete(m) \/ \E c \in Consumer : Take(c, m)
  \/ \E S \in SUBSET MsgId, spent \in SUBSET MsgId : Return(S, spent)
  \/ Clear

Spec == Init /\ [][Next]_vars
=============================================================================
