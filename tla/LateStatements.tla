--------------------------- MODULE LateStatements ---------------------------
(***************************************************************************)
(* Delivery with a database that executes statements nobody waits for: a   *)
(* consumer that gives up on a claim, ack or nack (the connection is lost, *)
(* the task is cancelled, the process dies) goes on or is gone, and the    *)
(* server may still execute what it was sent, at any later time.  Neither  *)
(* app/db.py nor app/consumer.py sets a timeout that would end it.         *)
(*                                                                         *)
(* A late statement can meet a new lease of the same consumer on the same  *)
(* message, so that LateReplyIsIgnored and DoneOnlyAfterSuccess do not     *)
(* hold here.  This module says what does.                                 *)
(***************************************************************************)
EXTENDS Delivery, FiniteSets

CONSTANT MaxLate   \* bound: statements without a client at one time

VARIABLES
  late,       \* statements their clients have given up on
  handled     \* history: whose handler has ever succeeded for which id

lateVars == <<vars, late, handled>>

Asking == {"claiming", "acking", "nacking"}

LateInit == DeliveryInit /\ late = {} /\ handled = {}

LateTypeOK ==
  /\ DeliveryTypeOK
  /\ late \subseteq Asking \X Consumer \X (MsgId \cup {NoMessage})
  /\ handled \subseteq Consumer \X MsgId

-----------------------------------------------------------------------------

(* What those of the consumers in C that wait for a reply have sent.       *)
Sent(C) == {<<pc[c], c, message[c]>> : c \in {d \in C : pc[d] \in Asking}}

(* They stop waiting, and some of it survives them.                        *)
Survives(C) ==
  \E S \in SUBSET Sent(C) \ {{}} :
     Cardinality(late \cup S) <= MaxLate /\ late' = late \cup S

GiveUp(c) ==
  /\ DatabaseError(c) \/ Kill(c)
  /\ Survives({c})
  /\ UNCHANGED handled

CrashLeaving(w) ==
  /\ Crash(w)
  /\ Survives(ConsumersOf(w))
  /\ UNCHANGED handled

(* The server executes it, by the row as it is now.                        *)
ExecuteLate(s) ==
  LET c == s[2]
      m == s[3]
  IN /\ \/ s[1] = "claiming" /\ \E locked \in Selected(c), n \in MsgId :
                                   Claim(c, QueueOf[c], locked, n)
        \/ s[1] = "acking" /\ Ack(c, m)
        \/ s[1] = "nacking" /\ Nack(c, m)
     /\ late' = late \ {s}
     /\ UNCHANGED <<clientVars, handled>>
     /\ KeepHistory

Drop(s) == late' = late \ {s} /\ UNCHANGED <<vars, handled>>

Credit ==
  handled' = handled \cup
    {<<c, message[c]>> : c \in {d \in Consumer : pc[d] = "handling" /\ pc'[d] = "acking"}}

LateNext ==
  \/ DeliveryNext /\ Credit /\ UNCHANGED late
  \/ \E c \in Consumer : GiveUp(c)
  \/ \E w \in Worker : CrashLeaving(w)
  \/ \E s \in late : ExecuteLate(s) \/ Drop(s)

LateSpec == LateInit /\ [][LateNext]_lateVars

-----------------------------------------------------------------------------
(* Properties.                                                             *)

(* However late an ack is executed, a done message carries the name of a   *)
(* consumer whose handler succeeded for its id, under this lease or an     *)
(* earlier one: nobody's message is completed by another's success.  (An   *)
(* id stands for one message until the operator's reset; see the README.)  *)
DoneByAHandler ==
  \A m \in MsgId : status[m] = "done" => <<locked_by[m], m>> \in handled
=============================================================================
