--------------------------- MODULE NotifierProofs ---------------------------
(***************************************************************************)
(* Proofs about Notifier, for every number of messages, commands and       *)
(* consumers, and every bound of the version.                              *)
(***************************************************************************)
EXTENDS Notifier, TLAPS

-----------------------------------------------------------------------------
(* The inductive invariant.  A loop that has asked under the current       *)
(* version has seen all there was, and what came since is announced: while *)
(* the connection stands, what its query did not bring has a notification  *)
(* in flight.  A loop that asked while the connection was down has an old  *)
(* version, because of the poke that follows LISTEN.                       *)

SeenIsPast == \A l \in Loop : seen[l] <= version

UpToDate(l) == pc[l] \in {"answered", "waiting"} /\ seen[l] = version

MessagesAnnounced ==
  connection = "connected" /\ (\E c \in Consumer : UpToDate(c)) =>
    notified \subseteq passed_over \/ "broker_messages" \in in_flight

CommandsAnnounced ==
  connection = "connected" /\ UpToDate(CommandLoop) =>
    commands \subseteq passed_over \/ "broker_control" \in in_flight

WakeInv == TypeOK /\ SeenIsPast /\ MessagesAnnounced /\ CommandsAnnounced

-----------------------------------------------------------------------------
(* Types.                                                                  *)

LEMMA InitTypes == Init => TypeOK /\ SeenIsPast
BY NotifierAssumption DEF Init, TypeOK, SeenIsPast

LEMMA VersionGrows ==
  ASSUME TypeOK, Poke
  PROVE  version' \in 0..MaxVersion /\ version' = version + 1
BY NotifierAssumption DEF TypeOK, Poke

LEMMA StepKeepsTypes ==
  ASSUME TypeOK, SeenIsPast, [Next]_vars
  PROVE  TypeOK' /\ SeenIsPast'
<1> USE NotifierAssumption DEF TypeOK, SeenIsPast, Loop
<1>1. CASE Database
  <2>1. ASSUME NEW m \in Message, BecomeReady(m)
        PROVE  TypeOK' /\ SeenIsPast'
    BY <2>1 DEF BecomeReady, Notify
  <2>2. ASSUME NEW m \in Message, BecomeDue(m)
        PROVE  TypeOK' /\ SeenIsPast'
    BY <2>2 DEF BecomeDue
  <2>3. ASSUME NEW k \in Command, SendCommand(k)
        PROVE  TypeOK' /\ SeenIsPast'
    BY <2>3 DEF SendCommand, Notify
  <2>4. QED
    BY <1>1, <2>1, <2>2, <2>3 DEF Database
<1>2. CASE Listener
  <2>1. CASE Listen
    BY <2>1 DEF Listen
  <2>2. CASE Connected
    BY <2>2, VersionGrows DEF Connected
  <2>3. CASE Disconnect
    BY <2>3 DEF Disconnect
  <2>4. ASSUME NEW channel \in {"broker_messages", "broker_control"},
               Receive(channel)
        PROVE  TypeOK' /\ SeenIsPast'
    BY <2>4, VersionGrows DEF Receive
  <2>5. QED
    BY <1>2, <2>1, <2>2, <2>3, <2>4 DEF Listener
<1>3. CASE PokeForStop
  BY <1>3, VersionGrows DEF PokeForStop
<1>4. ASSUME NEW l \in Loop, LoopStep(l)
      PROVE  TypeOK' /\ SeenIsPast'
  <2>1. CASE Look(l)
    BY <2>1 DEF Look, Step
  <2>2. CASE Woken(l) \/ PollInterval(l)
    BY <2>2 DEF Woken, PollInterval, Step
  <2>3. QED
    BY <1>4, <2>1, <2>2 DEF LoopStep
<1>5. ASSUME NEW c \in Consumer,
             \/ ClaimNothing(c) \/ Wait(c) \/ ClaimFails(c) \/ GoOn(c)
             \/ \E m \in Message : ClaimMessage(c, m)
      PROVE  TypeOK' /\ SeenIsPast'
  <2>1. CASE ClaimNothing(c)
    BY <2>1 DEF ClaimNothing, Step
  <2>2. CASE Wait(c) \/ ClaimFails(c) \/ GoOn(c)
    BY <2>2 DEF Wait, ClaimFails, GoOn, Step
  <2>3. ASSUME NEW m \in Message, ClaimMessage(c, m)
        PROVE  TypeOK' /\ SeenIsPast'
    BY <2>3 DEF ClaimMessage, Step
  <2>4. QED
    BY <1>5, <2>1, <2>2, <2>3
<1>6. CASE TakeCommands \/ TakeFails
  BY <1>6 DEF TakeCommands, TakeFails, Step
<1>7. CASE UNCHANGED vars
  BY <1>7 DEF vars
<1>8. QED
  BY <1>1, <1>2, <1>3, <1>4, <1>5, <1>6, <1>7 DEF Next

(* Versions, pcs, connections and in-flight notifications keep their       *)
(* types, whatever the number of loops and the bound of the version.       *)
THEOREM NotifierTypeCorrect == Spec => []TypeOK
BY InitTypes, StepKeepsTypes, PTL DEF Spec

-----------------------------------------------------------------------------
(* Announcements.                                                          *)

(* After a poke no loop is up to date.                                     *)
LEMMA PokeOutdates ==
  ASSUME TypeOK, SeenIsPast, Poke, UNCHANGED seen
  PROVE  \A l \in Loop : ~UpToDate(l)'
BY VersionGrows DEF SeenIsPast, TypeOK, UpToDate

LEMMA StepKeepsAnnouncements ==
  ASSUME WakeInv, TypeOK', [Next]_vars
  PROVE  MessagesAnnounced' /\ CommandsAnnounced'
<1> USE NotifierAssumption
<1> USE DEF MessagesAnnounced, CommandsAnnounced, UpToDate
<1>1. CASE Database
  BY <1>1
  DEF WakeInv, TypeOK, Database, BecomeReady, BecomeDue, SendCommand, Notify
<1>2. CASE Listen \/ Disconnect
  BY <1>2 DEF Listen, Disconnect
<1>3. CASE \/ Connected \/ PokeForStop
           \/ \E channel \in {"broker_messages", "broker_control"} : Receive(channel)
  <2>1. Poke /\ UNCHANGED seen
    BY <1>3 DEF Connected, PokeForStop, Receive
  <2>2. QED
    BY <2>1, PokeOutdates DEF WakeInv, Loop
<1>4. ASSUME NEW l \in Loop, LoopStep(l)
      PROVE  MessagesAnnounced' /\ CommandsAnnounced'
  BY <1>4 DEF WakeInv, TypeOK, LoopStep, Look, Woken, PollInterval, Step, Loop
<1>5. ASSUME NEW c \in Consumer, ClaimNothing(c)
      PROVE  MessagesAnnounced' /\ CommandsAnnounced'
  BY <1>5 DEF WakeInv, TypeOK, ClaimNothing, Step, Loop
<1>6. ASSUME NEW c \in Consumer, Wait(c) \/ ClaimFails(c) \/ GoOn(c)
      PROVE  MessagesAnnounced' /\ CommandsAnnounced'
  BY <1>6 DEF WakeInv, TypeOK, Wait, ClaimFails, GoOn, Step, Loop
<1>7. ASSUME NEW c \in Consumer, NEW m \in Message, ClaimMessage(c, m)
      PROVE  MessagesAnnounced' /\ CommandsAnnounced'
  BY <1>7 DEF WakeInv, TypeOK, ClaimMessage, Step, Loop
<1>8. CASE TakeCommands \/ TakeFails
  BY <1>8 DEF WakeInv, TypeOK, TakeCommands, TakeFails, Step, Loop
<1>9. CASE UNCHANGED vars
  BY <1>9 DEF WakeInv, vars
<1>10. QED
  BY <1>1, <1>2, <1>3, <1>4, <1>5, <1>6, <1>7, <1>8, <1>9 DEF Next, Listener

LEMMA WakeInvHolds == Spec => []WakeInv
<1>1. Init => WakeInv
  BY InitTypes DEF WakeInv, Init, MessagesAnnounced, CommandsAnnounced
<1>2. WakeInv /\ [Next]_vars => WakeInv'
  BY StepKeepsTypes, StepKeepsAnnouncements DEF WakeInv
<1>3. QED
  BY <1>1, <1>2, PTL DEF Spec

(* However many consumers look for work at once, and wherever between      *)
(* reading the version and waiting a notification arrives, none sleeps     *)
(* past a message that sent one.                                           *)
THEOREM NoMessageSleptPastHolds == Spec => []NoMessageSleptPast
<1>1. WakeInv => NoMessageSleptPast
  BY DEF WakeInv, MessagesAnnounced, NoMessageSleptPast, UpToDate, Deaf, Quiet
<1>2. QED
  BY <1>1, WakeInvHolds, PTL

(* The command loop never sleeps past a command, whatever became of the    *)
(* connection, except after an attempt that failed.                        *)
THEOREM NoCommandSleptPastHolds == Spec => []NoCommandSleptPast
<1>1. WakeInv => NoCommandSleptPast
  BY DEF WakeInv, CommandsAnnounced, NoCommandSleptPast, UpToDate, Deaf, Quiet
<1>2. QED
  BY <1>1, WakeInvHolds, PTL
=============================================================================
