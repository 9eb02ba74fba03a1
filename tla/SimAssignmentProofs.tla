------------------------- MODULE SimAssignmentProofs -------------------------
(***************************************************************************)
(* Proofs about SimAssignment, for any number of standard processes and at *)
(* most one minimal process: no SIM card is ever shared, and the commands  *)
(* implement the atomic SimTable.  The claim (SoleUser) is what carries    *)
(* the check of SetModemSim over to its write.                             *)
(***************************************************************************)
EXTENDS SimAssignment, UsbInterfaceProofs

(* Every step of the composed system is a step of the open and close       *)
(* protocol or leaves its variables alone.                                 *)
LEMMA StepIsUsbStep == [SimNext]_vars => [UsbNext]_usbVars
<1> SUFFICES ASSUME [SimNext]_vars PROVE [UsbNext]_usbVars
  OBVIOUS
<1>1. ASSUME NEW p \in Proc, Command(p) PROVE UNCHANGED usbVars
  BY <1>1 DEF Command, Dispatch, CheckSim, WriteSim, ReadFirst, ReadSecond,
     ReadSim, SaveConfig
<1>2. ASSUME NEW p \in Std, Protocol(p) \/ Succeed(p) \/ Fail(p) PROVE UsbNext
  BY <1>2 DEF Protocol, Succeed, Fail, UsbNext, StdStep
<1>3. ASSUME NEW p \in Minimal, Open(p) \/ Close(p) PROVE UsbNext
  BY <1>3 DEF Open, Close, UsbNext, MinimalStep
<1>4. ASSUME NEW p \in Proc, Killed(p) PROVE UsbNext
  BY <1>4 DEF Killed, UsbNext
<1>5. CASE RestartBoard
  BY <1>5 DEF RestartBoard, UsbNext
<1>6. CASE UNCHANGED vars
  BY <1>6 DEF vars, usbVars
<1> QED BY <1>1, <1>2, <1>3, <1>4, <1>5, <1>6 DEF SimNext

(* What is proved of the protocol alone holds of the composed system. *)
THEOREM SimUsbInv == SimSpec => []UsbInv
<1>1. SimInit => UsbInv
  BY InitInv DEF SimInit
<1>2. UsbInv /\ [SimNext]_vars => UsbInv'
  BY StepIsUsbStep, UsbInvInductive
<1> QED BY <1>1, <1>2, PTL DEF SimSpec

(* Two processes that can both reach the board are the same process. *)
LEMMA OneUser ==
  ASSUME AtMostOneMinimal, UsbInv, NEW p \in InUse, NEW q \in InUse
  PROVE  p = q
<1>1. UsbInv => SoleUser
  BY UsbInvSoleUser
<1>2. CASE p \in Std \/ q \in Std
  BY <1>1, <1>2 DEF SoleUser
<1>3. CASE p \in Minimal /\ q \in Minimal
  BY <1>3 DEF AtMostOneMinimal
<1> QED BY <1>2, <1>3 DEF UsbInv, UsbTypeOK, InUse, Proc

(* The value of an unsigned char parameter. *)
LEMMA ByteRange == ASSUME NEW n \in Nat PROVE Byte(n) \in 0 .. 255
  BY DEF Byte

LEMMA RequestFields ==
  ASSUME SimTypeOK, NEW p \in Proc
  PROVE  /\ Target(p) \in Modem
         /\ Card(p) \in 0 .. 255
<1>1. req[p].sim \in Nat
  BY RequestAssumption DEF SimTypeOK, NoRequest
<1> QED BY <1>1, ByteRange DEF Target, Card, Modem

LEMMA SimInitInv == SimInit => SimInv
<1> SUFFICES ASSUME SimInit PROVE SimInv
  OBVIOUS
<1>1. UsbInv
  BY InitInv DEF SimInit
<1>2. SimTypeOK
  BY <1>1, SimAssumption DEF SimInit, SimTypeOK, UsbInv, SimStage, NotSeen, Modem
<1>3. CommandsInUse /\ TablesDistinct
  BY DEF SimInit, CommandsInUse, TablesDistinct
<1>4. CheckStillHolds
  BY DEF SimInit, UsbInit, CheckStillHolds
<1> QED BY <1>1, <1>2, <1>3, <1>4 DEF SimInv

(* The commands that write neither the table nor its copy. *)
LEMMA DispatchInv ==
  ASSUME SimInv, UsbInv', NEW p \in Proc, Dispatch(p)
  PROVE  SimInv'
<1> USE DEF SimInv, Dispatch, At, Move, boardVars, usbVars
<1>1. SimTypeOK'
  BY DEF SimTypeOK, SimStage, UsbInv
<1>2. CommandsInUse' /\ TablesDistinct'
  BY DEF SimTypeOK, CommandsInUse, TablesDistinct
<1>3. CheckStillHolds'
  BY DEF SimTypeOK, CheckStillHolds, Target, Card, UsbTypeOK
<1> QED BY <1>1, <1>2, <1>3

LEMMA CheckSimInv ==
  ASSUME SimInv, UsbInv', LimitsAgree, NEW p \in Proc, CheckSim(p)
  PROVE  SimInv'
<1> USE DEF SimInv, CheckSim, At, Move, boardVars, usbVars
<1>1. SimTypeOK'
  BY DEF SimTypeOK, SimStage, UsbInv
<1>2. CommandsInUse' /\ TablesDistinct'
  BY DEF SimTypeOK, CommandsInUse, TablesDistinct
<1>3. CheckStillHolds'
  <2> SUFFICES ASSUME NEW q \in alive, at'[q] = "write"
               PROVE  /\ Target(q) \in Modem /\ Card(q) \in 0 .. BoardSims
                      /\ Card(q) # 0 => sim[Other(Target(q))] # Card(q)
    BY DEF CheckStillHolds, Target, Card
  <2>1. CASE q = p
    <3>1. ModemExists(p) /\ CardExists(p)
          /\ (Card(p) # 0 => sim[Other(Target(p))] # Card(p))
      BY <2>1 DEF SimTypeOK
    <3>2. p \in Std => Card(p) <= BoardSims
      BY <3>1 DEF CardExists
    <3>3. p \in Minimal => Card(p) <= BoardSims
      BY <3>1, ProcAssumption, SimAssumption, RequestFields
         DEF CardExists, LimitsAgree
    <3> QED BY <2>1, <3>1, <3>2, <3>3, RequestFields, SimAssumption DEF Proc
  <2>2. CASE q # p
    <3>1. at'[q] = at[q]
      BY <2>2 DEF SimTypeOK, UsbTypeOK
    <3> QED BY <3>1 DEF CheckStillHolds
  <2> QED BY <2>1, <2>2
<1> QED BY <1>1, <1>2, <1>3

LEMMA ReadSimInv ==
  ASSUME SimInv, UsbInv', NEW p \in Proc, NEW m \in Modem,
         NEW stage \in {"second", "config"}, pc[p] = "use", ReadSim(p, m, stage)
  PROVE  SimInv'
<1> USE DEF SimInv, ReadSim, Move, boardVars, usbVars
<1>1. SimTypeOK'
  <2>1. seen' \in [Proc -> [Modem -> 0 .. 255]]
    <3>1. sim[m] \in 0 .. 255 /\ seen[p] \in [Modem -> 0 .. 255]
      BY DEF SimTypeOK
    <3>2. [seen[p] EXCEPT ![m] = sim[m]] \in [Modem -> 0 .. 255]
      BY <3>1
    <3> QED BY <3>2 DEF SimTypeOK
  <2>2. at' \in [Proc -> SimStage]
    BY DEF SimTypeOK, SimStage
  <2> QED BY <2>1, <2>2 DEF SimTypeOK, UsbInv
<1>2. CommandsInUse' /\ TablesDistinct'
  BY DEF SimTypeOK, CommandsInUse, TablesDistinct
<1>3. CheckStillHolds'
  BY DEF SimTypeOK, CheckStillHolds, Target, Card, UsbTypeOK
<1> QED BY <1>1, <1>2, <1>3

LEMMA SaveConfigInv ==
  ASSUME SimInv, UsbInv', NEW p \in Proc, SaveConfig(p)
  PROVE  SimInv'
<1> USE DEF SimInv, SaveConfig, At, Move, usbVars
<1>1. SimTypeOK'
  BY DEF SimTypeOK, SimStage, UsbInv
<1>2. CommandsInUse' /\ TablesDistinct'
  BY DEF SimTypeOK, CommandsInUse, TablesDistinct
<1>3. CheckStillHolds'
  BY DEF SimTypeOK, CheckStillHolds, Target, Card, UsbTypeOK
<1> QED BY <1>1, <1>2, <1>3

(* The write: the check of the writer still holds, so the new table is     *)
(* distinct; every other process about to write would be a second user.    *)
LEMMA WriteSimInv ==
  ASSUME SimInv, UsbInv', AtMostOneMinimal, NEW p \in Proc, WriteSim(p)
  PROVE  SimInv'
<1> USE DEF SimInv, WriteSim, At, Move, usbVars
<1>1. SimTypeOK'
  <2>1. Target(p) \in Modem /\ Card(p) \in 0 .. 255
    BY RequestFields
  <2>2. sim' \in [Modem -> 0 .. 255]
    BY <2>1 DEF SimTypeOK
  <2>3. at' \in [Proc -> SimStage]
    BY DEF SimTypeOK, SimStage
  <2> QED BY <2>2, <2>3 DEF SimTypeOK, UsbInv
<1>2. CommandsInUse'
  BY DEF SimTypeOK, CommandsInUse
<1>3. TablesDistinct'
  <2>1. CASE UNCHANGED sim
    BY <2>1 DEF TablesDistinct
  <2>2. CASE p \in alive /\ sim' = [sim EXCEPT ![Target(p)] = Card(p)]
    <3>1. /\ Target(p) \in Modem /\ Card(p) \in 0 .. BoardSims
          /\ Card(p) # 0 => sim[Other(Target(p))] # Card(p)
      BY <2>2 DEF CheckStillHolds
    <3>2. Distinct(sim')
      BY <2>2, <3>1 DEF TablesDistinct, Distinct, Modem, Other
    <3> QED BY <2>2, <3>1, <3>2 DEF TablesDistinct
  <2> QED BY <2>1, <2>2
<1>4. CheckStillHolds'
  <2>1. CASE UNCHANGED sim
    BY <2>1 DEF SimTypeOK, CheckStillHolds, Target, Card, UsbTypeOK
  <2>2. CASE p \in alive /\ ~ UNCHANGED sim
    <3>1. \A q \in alive : at[q] = "write" => q = p
      BY <2>2, OneUser DEF CommandsInUse, InUse, UsbTypeOK, SimTypeOK
    <3>2. at'[p] # "write" /\ alive' = alive
      BY DEF SimTypeOK
    <3>3. \A q \in alive : q # p => at'[q] = at[q]
      BY DEF SimTypeOK, UsbTypeOK
    <3>4. \A q \in alive' : at'[q] # "write"
      BY <3>1, <3>2, <3>3
    <3> QED BY <3>4 DEF CheckStillHolds
  <2> QED BY <2>1, <2>2
<1> QED BY <1>1, <1>2, <1>3, <1>4

(* The steps of the protocol: a process that gains a handle is outside     *)
(* every command, and a process that loses its handle is not constrained.  *)
LEMMA ProtocolInv ==
  ASSUME SimInv, UsbInv', NEW p \in Proc, UNCHANGED simVars,
         pc[p] # "use", alive' \subseteq alive \cup {p},
         \E stage \in Stage : GoTo(p, stage)
  PROVE  SimInv'
<1> USE DEF SimInv, simVars, GoTo
<1>1. at[p] = "idle"
  BY DEF CommandsInUse
<1>2. SimTypeOK'
  BY DEF SimTypeOK, UsbInv
<1>3. CommandsInUse' /\ TablesDistinct'
  BY <1>1 DEF SimTypeOK, UsbTypeOK, CommandsInUse, TablesDistinct
<1>4. CheckStillHolds'
  BY <1>1 DEF SimTypeOK, CheckStillHolds, Target, Card
<1> QED BY <1>2, <1>3, <1>4

(* The steps that end a run, or its command part. *)
LEMMA ForgetInv ==
  ASSUME SimInv, UsbInv', NEW p \in Proc, Forget(p), UNCHANGED boardVars,
         alive' \subseteq alive, \E stage \in Stage : GoTo(p, stage)
  PROVE  SimInv'
<1> USE DEF SimInv, Forget, boardVars, GoTo
<1>1. SimTypeOK'
  BY DEF SimTypeOK, SimStage, NotSeen, Modem, UsbInv
<1>2. CommandsInUse' /\ TablesDistinct'
  BY DEF SimTypeOK, UsbTypeOK, CommandsInUse, TablesDistinct
<1>3. CheckStillHolds'
  BY DEF SimTypeOK, CheckStillHolds, Target, Card, UsbTypeOK
<1> QED BY <1>1, <1>2, <1>3

LEMMA RestartInv ==
  ASSUME SimInv, UsbInv', RestartBoard
  PROVE  SimInv'
  BY DEF SimInv, RestartBoard, Reenumerate, toolVars, SimTypeOK, UsbInv,
     CommandsInUse, TablesDistinct, CheckStillHolds

(* SimInv is inductive as long as the hidraw node has one user at most.    *)
LEMMA SimInvInductive ==
  ASSUME AtMostOneMinimal, LimitsAgree, SimInv, [SimNext]_vars
  PROVE  SimInv'
<1>0. UsbInv'
  BY StepIsUsbStep, UsbInvInductive DEF SimInv
<1>1. ASSUME NEW p \in Proc, Command(p) PROVE SimInv'
  <2>1. CASE ReadFirst(p)
    BY <1>0, <2>1, ReadSimInv DEF ReadFirst, At, Modem
  <2>2. CASE ReadSecond(p)
    BY <1>0, <2>2, ReadSimInv DEF ReadSecond, At, Modem
  <2> QED BY <1>0, <1>1, <2>1, <2>2, DispatchInv, CheckSimInv, WriteSimInv,
             SaveConfigInv DEF Command
<1>2. ASSUME NEW p \in Std, Protocol(p) PROVE SimInv'
  BY <1>0, <1>2, ProtocolInv DEF Protocol, OpenPath, Probe, Detach, Claim,
     UndoDetach, CloseRelease, CloseAttach, GoTo, Proc, Stage, Opening, Closing
<1>3. ASSUME NEW p \in Std, Succeed(p) \/ Fail(p) PROVE SimInv'
  BY <1>0, <1>3, ForgetInv DEF Succeed, Fail, ReturnSuccess, ErrorExit, GoTo,
     Proc, Stage, Closing
<1>4. ASSUME NEW p \in Minimal, Open(p) PROVE SimInv'
  BY <1>0, <1>4, ProtocolInv DEF Open, OpenDevice, GoTo, Proc, Stage
<1>5. ASSUME NEW p \in Minimal, Close(p) PROVE SimInv'
  BY <1>0, <1>5, ForgetInv DEF Close, CloseDevice, GoTo, Proc, Stage
<1>6. ASSUME NEW p \in Proc, Killed(p) PROVE SimInv'
  BY <1>0, <1>6, ForgetInv DEF Killed, Kill, GoTo, Stage
<1>7. CASE RestartBoard
  BY <1>0, <1>7, RestartInv
<1>8. CASE UNCHANGED vars
  BY <1>0, <1>8 DEF vars, SimInv, SimTypeOK, UsbInv, CommandsInUse,
     TablesDistinct, CheckStillHolds, Target, Card
<1> QED BY <1>1, <1>2, <1>3, <1>4, <1>5, <1>6, <1>7, <1>8 DEF SimNext

THEOREM SimInvariant ==
  ASSUME AtMostOneMinimal, LimitsAgree
  PROVE  SimSpec => []SimInv
<1>1. SimInv /\ [SimNext]_vars => SimInv'
  BY SimInvInductive
<1> QED BY <1>1, SimInitInv, PTL DEF SimSpec

(* With one user of the hidraw node at most, no SIM card is ever assigned  *)
(* to both modems, on the board or in its configuration data: the check of *)
(* SetModemSim suffices although it is a transfer of its own.              *)
THEOREM SimNoSharedSim ==
  ASSUME AtMostOneMinimal, LimitsAgree
  PROVE  SimSpec => []NoSharedSim
<1>1. SimInv => NoSharedSim
  BY DEF SimInv, TablesDistinct, NoSharedSim
<1> QED BY <1>1, SimInvariant, PTL

(* Type correctness: every report byte and every stage stays in its range. *)
THEOREM SimTypeCorrect ==
  ASSUME AtMostOneMinimal, LimitsAgree
  PROVE  SimSpec => []SimTypeOK
<1>1. SimInv => SimTypeOK
  BY DEF SimInv
<1> QED BY <1>1, SimInvariant, PTL

-----------------------------------------------------------------------------
(* What a run has seen and done.                                           *)

Assigns(p) == req[p].s /\ req[p].modem # 0

(* A run that still has the board: what it has read is what the board      *)
(* holds, and what it has written is still there.                          *)
UpToDate(p) ==
    /\ at[p] = "second" => seen[p][1] = sim[1]
    /\ at[p] \in {"config", "done"} => Distinct(seen[p])
    /\ at[p] \in {"config", "done"} /\ Assigns(p) => sim[Target(p)] = Card(p)
    /\ at[p] = "done" /\ Assigns(p) /\ req[p].save => flash[Target(p)] = Card(p)

RunOf(p) ==
    /\ at[p] \in {"idle", "sim", "write"} => seen[p] = NotSeen
    /\ at[p] = "second" => req[p].modem = 0
    /\ p \in alive => UpToDate(p)

RunsUpToDate == \A p \in Proc : RunOf(p)

(* What one process does leaves the runs of the others up to date: a       *)
(* process that changes the table or its copy is alone with the board.     *)
LEMMA OtherRuns ==
  ASSUME SimInv, AtMostOneMinimal, NEW p \in Proc, NEW q \in Proc, RunOf(q),
         at'[q] = at[q], seen'[q] = seen[q], req'[q] = req[q],
         q \in alive' => q \in alive,
         UNCHANGED boardVars \/ (p \in alive /\ pc[p] = "use" /\ q # p)
  PROVE  RunOf(q)'
<1>1. CASE UNCHANGED boardVars
  BY <1>1 DEF RunOf, UpToDate, Assigns, Target, Card, boardVars
<1>2. CASE p \in alive /\ pc[p] = "use" /\ q # p
  <2>1. q \in alive => at[q] = "idle"
    BY <1>2, OneUser DEF SimInv, CommandsInUse, InUse
  <2> QED BY <2>1 DEF RunOf, UpToDate
<1> QED BY <1>1, <1>2

(* A command keeps the run of its own process up to date. *)
LEMMA OwnRun ==
  ASSUME SimInv, NEW p \in Proc, RunOf(p), Command(p)
  PROVE  RunOf(p)'
<1> USE DEF SimInv, SimTypeOK
<1>1. alive' = alive /\ Target(p) \in Modem
  BY RequestFields DEF Command, Dispatch, CheckSim, WriteSim, ReadFirst, ReadSecond, ReadSim,
     SaveConfig, usbVars
<1>2. CASE Dispatch(p)
  <2>1. PICK r \in Requests : req'[p] = r /\ at'[p] = IF r.s THEN "sim" ELSE "config"
    BY <1>2 DEF Dispatch, Move
  <2>2. seen'[p] = NotSeen /\ Distinct(NotSeen)
    BY <1>2 DEF Dispatch, At, RunOf, NotSeen, Distinct, Modem
  <2> QED BY <2>1, <2>2 DEF RunOf, UpToDate, Assigns
<1>3. CASE CheckSim(p)
  <2>1. seen'[p] = NotSeen /\ at'[p] \in {"write", "failed"}
    BY <1>3 DEF CheckSim, At, Move, RunOf
  <2> QED BY <2>1 DEF RunOf, UpToDate
<1>4. CASE WriteSim(p)
  <2>1. seen'[p] = NotSeen /\ req'[p] = req[p] /\ at'[p] \in {"config", "failed"}
    BY <1>4 DEF WriteSim, At, Move, RunOf
  <2>2. at'[p] = "config" => sim'[Target(p)] = Card(p)
    BY <1>1, <1>4 DEF WriteSim, At, Move
  <2>3. Distinct(NotSeen)
    BY DEF NotSeen, Distinct, Modem
  <2> QED BY <2>1, <2>2, <2>3 DEF RunOf, UpToDate, Target, Card
<1>5. CASE ReadFirst(p)
  <2>1. req'[p] = req[p] /\ req[p].modem = 0 /\ at'[p] \in {"second", "failed"} /\ sim' = sim
    BY <1>5 DEF ReadFirst, ReadSim, At, Move, boardVars
  <2>2. at'[p] = "second" => seen'[p][1] = sim[1]
    BY <1>5 DEF ReadFirst, ReadSim, At, Move, Modem
  <2> QED BY <2>1, <2>2 DEF RunOf, UpToDate
<1>6. CASE ReadSecond(p)
  <2>1. req'[p] = req[p] /\ req[p].modem = 0 /\ at'[p] \in {"config", "failed"}
    BY <1>6 DEF ReadSecond, ReadSim, At, Move, RunOf
  <2>2. at'[p] = "config" /\ p \in alive => Distinct(seen'[p])
    <3> SUFFICES ASSUME at'[p] = "config", p \in alive PROVE Distinct(seen'[p])
      OBVIOUS
    <3>1. seen' = [seen EXCEPT ![p] = [@ EXCEPT ![2] = sim[2]]]
      BY <1>6 DEF ReadSecond, ReadSim, At, Move
    <3>2. seen'[p][1] = sim[1] /\ seen'[p][2] = sim[2]
      BY <1>6, <3>1 DEF ReadSecond, At, RunOf, UpToDate, Modem
    <3> QED BY <3>2 DEF TablesDistinct, Distinct
  <2> QED BY <2>1, <2>2, <1>1 DEF RunOf, UpToDate, Assigns
<1>7. CASE SaveConfig(p)
  <2>1. /\ req'[p] = req[p] /\ seen'[p] = seen[p] /\ sim' = sim
        /\ at[p] = "config" /\ at'[p] \in {"done", "failed"}
    BY <1>7 DEF SaveConfig, At, Move
  <2>2. at'[p] = "done" /\ req[p].save => flash' = sim
    BY <1>7 DEF SaveConfig, At, Move
  <2> QED BY <2>1, <2>2, <1>1 DEF RunOf, UpToDate, Assigns, Target, Card
<1> QED BY <1>2, <1>3, <1>4, <1>5, <1>6, <1>7 DEF Command

LEMMA RunsInductive ==
  ASSUME AtMostOneMinimal, SimInv, RunsUpToDate, [SimNext]_vars
  PROVE  RunsUpToDate'
<1> SUFFICES ASSUME NEW q \in Proc PROVE RunOf(q)'
  BY DEF RunsUpToDate, Proc
<1>0. RunOf(q) /\ SimTypeOK /\ UsbTypeOK
  BY DEF RunsUpToDate, SimInv, SimTypeOK
<1>1. ASSUME NEW p \in Proc, Command(p) PROVE RunOf(q)'
  <2>1. CASE q = p
    BY <1>0, <1>1, <2>1, OwnRun
  <2>2. CASE q # p
    <3>1. at'[q] = at[q] /\ seen'[q] = seen[q] /\ req'[q] = req[q] /\ alive' = alive
      BY <1>0, <1>1, <2>2 DEF Command, Dispatch, CheckSim, WriteSim, ReadFirst, ReadSecond,
         ReadSim, SaveConfig, Move, usbVars, SimTypeOK
    <3>2. UNCHANGED boardVars \/ (p \in alive /\ pc[p] = "use")
      BY <1>1 DEF Command, Dispatch, CheckSim, WriteSim, ReadFirst, ReadSecond, ReadSim,
         SaveConfig, At, boardVars
    <3> QED BY <1>0, <2>2, <3>1, <3>2, OtherRuns
  <2> QED BY <2>1, <2>2
<1>2. ASSUME NEW p \in Proc, UNCHANGED simVars, pc[p] # "use", alive' \subseteq alive \cup {p}
      PROVE  RunOf(q)'
  <2>1. UNCHANGED boardVars /\ at'[q] = at[q] /\ seen'[q] = seen[q] /\ req'[q] = req[q]
    BY <1>2 DEF simVars, boardVars
  <2>2. CASE q \in alive' => q \in alive
    BY <1>0, <2>1, <2>2, OtherRuns
  <2>3. CASE q = p
    <3>1. at'[q] = "idle" /\ seen'[q] = NotSeen
      BY <1>0, <1>2, <2>1, <2>3 DEF SimInv, CommandsInUse, RunOf
    <3> QED BY <3>1 DEF RunOf, UpToDate
  <2> QED BY <1>2, <2>2, <2>3
<1>3. ASSUME NEW p \in Proc, Forget(p), UNCHANGED boardVars, alive' \subseteq alive
      PROVE  RunOf(q)'
  <2>1. CASE q = p
    <3>1. at'[q] = "idle" /\ seen'[q] = NotSeen
      BY <1>0, <1>3, <2>1 DEF Forget, SimTypeOK
    <3> QED BY <3>1 DEF RunOf, UpToDate
  <2>2. CASE q # p
    <3>1. at'[q] = at[q] /\ seen'[q] = seen[q] /\ req'[q] = req[q]
      BY <1>0, <1>3, <2>2 DEF Forget, SimTypeOK
    <3> QED BY <1>0, <1>3, <3>1, OtherRuns
  <2> QED BY <2>1, <2>2
<1>4. ASSUME NEW p \in Std, Protocol(p) PROVE RunOf(q)'
  BY <1>2, <1>4 DEF Protocol, OpenPath, Probe, Detach, Claim, UndoDetach, CloseRelease,
     CloseAttach, Proc
<1>5. ASSUME NEW p \in Std, Succeed(p) \/ Fail(p) PROVE RunOf(q)'
  BY <1>3, <1>5 DEF Succeed, Fail, ReturnSuccess, ErrorExit, Proc
<1>6. ASSUME NEW p \in Minimal, Open(p) PROVE RunOf(q)'
  BY <1>2, <1>6 DEF Open, OpenDevice, Proc
<1>7. ASSUME NEW p \in Minimal, Close(p) PROVE RunOf(q)'
  BY <1>3, <1>7 DEF Close, CloseDevice, Proc
<1>8. ASSUME NEW p \in Proc, Killed(p) PROVE RunOf(q)'
  BY <1>3, <1>8 DEF Killed, Kill
<1>9. CASE RestartBoard
  BY <1>0, <1>9 DEF RestartBoard, Reenumerate, toolVars, RunOf
<1>10. CASE UNCHANGED vars
  BY <1>0, <1>10 DEF vars, RunOf, UpToDate, Assigns, Target, Card
<1> QED BY <1>1, <1>4, <1>5, <1>6, <1>7, <1>8, <1>9, <1>10 DEF SimNext

(* With one user of the hidraw node at most, every run that has the board  *)
(* sees and finds there what it has itself read and written.               *)
THEOREM SimRunsUpToDate ==
  ASSUME AtMostOneMinimal, LimitsAgree
  PROVE  SimSpec => [](SimInv /\ RunsUpToDate)
<1>1. SimInit => RunsUpToDate
  BY DEF SimInit, UsbInit, RunsUpToDate, RunOf, UpToDate
<1>2. SimInv /\ RunsUpToDate /\ [SimNext]_vars => RunsUpToDate'
  BY RunsInductive
<1> QED BY <1>1, <1>2, SimInvariant, PTL DEF SimSpec

(* The two assignments that -s prints never show one card in both modems.  *)
THEOREM SimSnapshotDistinct ==
  ASSUME AtMostOneMinimal, LimitsAgree
  PROVE  SimSpec => []SnapshotDistinct
<1>1. SimInv /\ RunsUpToDate => SnapshotDistinct
  BY DEF SimInv, UsbInv, UsbTypeOK, RunsUpToDate, RunOf, UpToDate, SnapshotDistinct
<1> QED BY <1>1, SimRunsUpToDate, PTL

(* A run that reports success has set, and saved, the card it was asked    *)
(* to: nobody comes between the write, the save and the report.            *)
THEOREM SimSetAndSaved ==
  ASSUME AtMostOneMinimal, LimitsAgree
  PROVE  SimSpec => []SetAndSaved
<1>1. SimInv /\ RunsUpToDate => SetAndSaved
  BY DEF SimInv, UsbInv, UsbTypeOK, RunsUpToDate, RunOf, UpToDate, Assigns, SetAndSaved
<1> QED BY <1>1, SimRunsUpToDate, PTL

LEMMA InitMapsToTable == SimInit => Table!TableInit
  BY DEF SimInit, Table!TableInit, Table!Tables, Table!Distinct, Table!Modem,
     Modem, Distinct

(* A command maps to Assign where it writes a card, to Save where it saves *)
(* the configuration, to Restart where the board restarts, and to a stutter *)
(* everywhere else.                                                        *)
LEMMA StepMapsToTable ==
  ASSUME SimInv, [SimNext]_vars
  PROVE  [Table!TableNext]_(Table!tableVars)
<1> USE DEF Table!TableNext, Table!tableVars
<1>1. ASSUME NEW p \in Proc, WriteSim(p) PROVE [Table!TableNext]_(Table!tableVars)
  <2>1. CASE UNCHANGED sim
    BY <1>1, <2>1 DEF WriteSim
  <2>2. CASE p \in alive /\ sim' = [sim EXCEPT ![Target(p)] = Card(p)]
    <3>1. /\ Target(p) \in Modem /\ Card(p) \in 0 .. BoardSims
          /\ Card(p) # 0 => sim[Other(Target(p))] # Card(p)
      BY <1>1, <2>2 DEF SimInv, CheckStillHolds, WriteSim, At
    <3>2. Table!Assign(Target(p), Card(p))
      BY <1>1, <2>2, <3>1 DEF Table!Assign, Table!Other, Other, WriteSim
    <3> QED BY <3>1, <3>2 DEF Table!Modem, Modem
  <2> QED BY <1>1, <2>1, <2>2 DEF WriteSim
<1>2. ASSUME NEW p \in Proc, SaveConfig(p) PROVE [Table!TableNext]_(Table!tableVars)
  BY <1>2 DEF SaveConfig, Table!Save
<1>3. ASSUME NEW p \in Proc, Command(p), ~WriteSim(p), ~SaveConfig(p)
      PROVE  UNCHANGED boardVars
  BY <1>3 DEF Command, Dispatch, CheckSim, ReadFirst, ReadSecond, ReadSim
<1>4. ASSUME NEW p \in Std, Protocol(p) \/ Succeed(p) \/ Fail(p)
      PROVE  UNCHANGED boardVars
  BY <1>4 DEF Protocol, Succeed, Fail, simVars, boardVars
<1>5. ASSUME NEW p \in Minimal, Open(p) \/ Close(p) PROVE UNCHANGED boardVars
  BY <1>5 DEF Open, Close, simVars, boardVars
<1>6. ASSUME NEW p \in Proc, Killed(p) PROVE UNCHANGED boardVars
  BY <1>6 DEF Killed
<1>7. CASE RestartBoard
  BY <1>7 DEF RestartBoard, Table!Restart
<1>8. CASE UNCHANGED vars
  BY <1>8 DEF vars
<1> QED
  BY <1>1, <1>2, <1>3, <1>4, <1>5, <1>6, <1>7, <1>8 DEF SimNext, boardVars

(* The two-transfer commands of both tools, with crashes, lost replies and *)
(* restarts of the board between any two calls, implement the atomic table. *)
THEOREM SimImplementsTable ==
  ASSUME AtMostOneMinimal, LimitsAgree
  PROVE  SimSpec => ImplementsTable
<1>1. SimInv /\ [SimNext]_vars => [Table!TableNext]_(Table!tableVars)
  BY StepMapsToTable
<1> QED BY <1>1, InitMapsToTable, SimInvariant, PTL
       DEF SimSpec, ImplementsTable, Table!TableSpec

=============================================================================
