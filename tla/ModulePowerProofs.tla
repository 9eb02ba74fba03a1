-------------------------- MODULE ModulePowerProofs --------------------------
(***************************************************************************)
(* Proofs about ModulePower, for any number of processes, any firmware and *)
(* any command lines: the waits of the standard tool protect its calls.    *)
(*                                                                         *)
(* PowerInv says why.  With old firmware the sender of a request in hand   *)
(* still waits for it, and nobody else has the board (SentIsAwaited); a    *)
(* request whose sender has seen it succeed changes nothing any more       *)
(* (SeenIsDone).                                                           *)
(***************************************************************************)
EXTENDS ModulePower, TLAPS

(* A standard process has the board alone, and who is not idle has it. *)
AccessSound ==
    /\ \A p \in users \cap Std : users = {p}
    /\ \A p \in Proc : p \in users <=> at[p] # "idle"
    /\ OldFirmware => users \subseteq Std

(* What is sent has passed the checks of main and SetModulePower. *)
Checked(p, step) ==
    /\ step \in {"send", "offtime", "poll"} =>
           TargetModule(p) \in Module /\ TargetState(p) \in {0, 1}
    /\ step = "time" => req[p].time # -1

TargetsChecked == \A p \in Proc : Checked(p, at[p])

JobsSound ==
    \A m \in Busy : job[m].to \in {"on", "off", "reset"} /\ job[m].left > 0

(* Only old firmware reports a change before it has made it. *)
ReportedSound ==
    \A m \in Module : ~OldFirmware \/ m \notin Busy => reported[m] = power[m]

(* p, which has sent the request in hand for m, sleeps for longer than it  *)
(* takes, or is about to.                                                  *)
Awaits(p, m) ==
    \/ at[p] = "failed"
    \/ at[p] = "offtime" /\ job[m].left <= offTime
    \/ at[p] \in {"poll", "rest"} /\ job[m].left <= sleep[p]

SentIsAwaited ==
    OldFirmware => \A m \in Busy : \A p \in Proc : job[m].by = p => Awaits(p, m)

(* s is what a request for to will make of a module. *)
Leads(to, s) == (to = "on" => s = 1) /\ (to = "off" => s = 0)

(* p still waits for the request to succeed, or the module is reported to  *)
(* be already what the request makes of it.                                *)
Settled(p, m) ==
    \/ at[p] = "failed"
    \/ at[p] \in {"offtime", "poll"} /\ m = TargetModule(p) /\ Leads(job[m].to, TargetState(p))
    \/ Leads(job[m].to, reported[m])

SeenIsDone == \A m \in Busy : \A p \in Proc : job[m].by = p => Settled(p, m)

PowerInv ==
    /\ PowerTypeOK /\ AccessSound /\ TargetsChecked /\ JobsSound
    /\ ReportedSound /\ SentIsAwaited /\ SeenIsDone

-----------------------------------------------------------------------------
(* The firmware of a board does not change. *)
LEMMA SameFirmware ==
  ASSUME fw' = fw
  PROVE  (OldFirmware' <=> OldFirmware) /\ (Workaround' <=> Workaround)
  BY DEF OldFirmware, Workaround

(* The version of old firmware survives the narrowing to a byte. *)
LEMMA OldIsWorkedAround ==
  ASSUME PowerTypeOK, OldFirmware PROVE Workaround
<1> DEFINE v == GetFwVersionAsInt(fw.release)
<1>1. fw.release \in Nat
  BY PowerAssumption DEF PowerTypeOK
<1>2. v \in Nat /\ v <= 202
  <2>1. v \in Nat
    BY <1>1 DEF GetFwVersionAsInt
  <2>2. v < 203
    BY <2>1 DEF OldFirmware
  <2> QED BY <2>1, <2>2
<1>3. Byte(v) = v
  <2> HIDE DEF v
  <2> QED BY <1>2 DEF Byte
<1> QED BY <1>2, <1>3 DEF Workaround, StoredFwVersion

LEMMA DurationPositive ==
  ASSUME PowerTypeOK, NEW to \in {"on", "off", "reset"}
  PROVE  Duration(to) \in Nat /\ Duration(to) > 0
  BY PowerAssumption DEF PowerTypeOK, Duration, OnWait, ResetWait

LEMMA JobRecord ==
  ASSUME PowerTypeOK, NEW m \in Module
  PROVE  /\ job[m] = [to |-> job[m].to, left |-> job[m].left, by |-> job[m].by]
         /\ job[m].left \in Nat
         /\ job[m].by \in Proc \cup {Nobody}
         /\ job[m].to \in {"none", "on", "off", "reset"}
  BY DEF PowerTypeOK

(* With old firmware, who has the board is a standard process. *)
LEMMA OldIsStd ==
  ASSUME PowerInv, OldFirmware, NEW p \in Proc, at[p] # "idle"
  PROVE  p \in Std /\ users = {p} /\ Workaround
  BY OldIsWorkedAround DEF PowerInv, AccessSound

LEMMA PowerInitInv == PowerInit => PowerInv
<1> SUFFICES ASSUME PowerInit PROVE PowerInv
  OBVIOUS
<1> USE DEF PowerInit, AccessInit
<1>1. PowerTypeOK
  BY DEF PowerTypeOK, NoJob, NoRequest, Step
<1>2. Busy = {}
  BY DEF Busy
<1>3. AccessSound /\ TargetsChecked
  BY DEF AccessSound, TargetsChecked, Checked
<1>4. JobsSound /\ ReportedSound /\ SentIsAwaited /\ SeenIsDone
  BY <1>2 DEF JobsSound, ReportedSound, SentIsAwaited, SeenIsDone
<1> QED BY <1>1, <1>3, <1>4 DEF PowerInv

-----------------------------------------------------------------------------
(* Steps of p that leave the requests alone.                               *)
LEMMA QuietStep ==
  ASSUME PowerInv, NEW p \in Proc, at[p] # "idle",
         NEW step \in Step \ {"idle"}, NEW ticks \in Nat, Go(p, step, ticks),
         UNCHANGED <<fw, power, reported, job, req, users>>,
         offTime' \in OffTimes, lost' \in SUBSET Proc,
         OldFirmware /\ Busy # {} => offTime' = offTime,
         Checked(p, step),
         \A m \in Busy : job[m].by = p =>
             (OldFirmware => Awaits(p, m)') /\ Settled(p, m)'
  PROVE  PowerInv'
<1> USE DEF PowerInv
<1>0. /\ at' \in [Proc -> Step] /\ sleep' \in [Proc -> Nat]
      /\ at'[p] = step /\ sleep'[p] = ticks
      /\ \A q \in Proc : q # p => at'[q] = at[q] /\ sleep'[q] = sleep[q]
  BY DEF Go, PowerTypeOK
<1>1. PowerTypeOK'
  BY <1>0 DEF PowerTypeOK
<1>2. AccessSound'
  BY <1>0, SameFirmware DEF AccessSound
<1>3. TargetsChecked'
  <2> SUFFICES ASSUME NEW q \in Proc PROVE Checked(q, at'[q])
    BY DEF TargetsChecked, Checked, TargetModule, TargetState
  <2> QED BY <1>0 DEF TargetsChecked
<1>4. JobsSound' /\ ReportedSound'
  BY SameFirmware DEF JobsSound, ReportedSound, Busy
<1>5. SentIsAwaited'
  <2> SUFFICES ASSUME OldFirmware, NEW m \in Busy, NEW q \in Proc, job[m].by = q
               PROVE  Awaits(q, m)'
    BY SameFirmware DEF SentIsAwaited, Busy
  <2>1. CASE q = p
    BY <2>1
  <2>2. CASE q # p
    BY <2>2, <1>0 DEF SentIsAwaited, Awaits
  <2> QED BY <2>1, <2>2
<1>6. SeenIsDone'
  <2> SUFFICES ASSUME NEW m \in Busy, NEW q \in Proc, job[m].by = q
               PROVE  Settled(q, m)'
    BY DEF SeenIsDone, Busy
  <2>1. CASE q = p
    BY <2>1
  <2>2. CASE q # p
    BY <2>2, <1>0 DEF SeenIsDone, Settled, TargetModule, TargetState
  <2> QED BY <2>1, <2>2
<1> QED BY <1>1, <1>2, <1>3, <1>4, <1>5, <1>6

(* A process that is not waiting has no unsettled request, and with old    *)
(* firmware none at all.                                                   *)
LEMMA NotWaiting ==
  ASSUME PowerInv, NEW p \in Proc, NEW m \in Busy, job[m].by = p,
         \/ at[p] \in {"idle", "power", "send", "time", "reset", "done"}
         \/ at[p] = "rest" /\ sleep[p] = 0
  PROVE  ~OldFirmware /\ Leads(job[m].to, reported[m])
<1>1. m \in Module /\ job[m].left > 0 /\ job[m].left \in Nat
  BY JobRecord DEF PowerInv, JobsSound, Busy
<1>2. ~OldFirmware
  BY <1>1 DEF PowerInv, SentIsAwaited, Awaits
<1> QED BY <1>2 DEF PowerInv, SeenIsDone, Settled

(* After a transfer that fails. *)
LEMMA FailsInv ==
  ASSUME PowerInv, NEW p \in Proc, at[p] # "idle", TransferFails(p),
         UNCHANGED <<boardVars, req, lost, users>>
  PROVE  PowerInv'
<1>1. Go(p, "failed", 0)
  BY DEF TransferFails, Goto
<1>2. at'[p] = "failed"
  BY <1>1 DEF Go, PowerInv, PowerTypeOK
<1>3. \A m \in Busy : Awaits(p, m)' /\ Settled(p, m)'
  BY <1>2 DEF Awaits, Settled
<1>4. offTime' \in OffTimes /\ lost' \in SUBSET Proc /\ offTime' = offTime
      /\ UNCHANGED <<fw, power, reported, job, req, users>>
  BY DEF boardVars, PowerInv, PowerTypeOK
<1>5. "failed" \in Step \ {"idle"} /\ 0 \in Nat /\ Checked(p, "failed")
  BY DEF Step, Checked
<1> QED BY <1>1, <1>3, <1>4, <1>5, QuietStep

(* Steps of p that also leave what it awaits alone: p had nothing in hand  *)
(* that is not settled.                                                    *)
LEMMA PlainStep ==
  ASSUME PowerInv, NEW p \in Proc, at[p] # "idle",
         \/ at[p] \in {"power", "send", "time", "reset", "done"}
         \/ at[p] = "rest" /\ sleep[p] = 0,
         NEW step \in Step \ {"idle"}, NEW ticks \in Nat, Go(p, step, ticks),
         UNCHANGED <<fw, power, reported, job, req, users>>,
         offTime' \in OffTimes, lost' \in SUBSET Proc,
         OldFirmware /\ Busy # {} => offTime' = offTime,
         Checked(p, step)
  PROVE  PowerInv'
<1>1. \A m \in Busy : job[m].by = p =>
          (OldFirmware => Awaits(p, m)') /\ Settled(p, m)'
  BY NotWaiting DEF Settled
<1> QED BY <1>1, QuietStep

LEMMA CheckPowerInv ==
  ASSUME PowerInv, NEW p \in Proc, CheckPower(p) PROVE PowerInv'
<1>1. at[p] = "power" /\ UNCHANGED <<req, boardVars, lost, users>>
  BY DEF CheckPower
<1>2. UNCHANGED <<fw, power, reported, job, req, users>> /\ offTime' \in OffTimes
      /\ lost' \in SUBSET Proc /\ offTime' = offTime
  BY <1>1 DEF boardVars, PowerInv, PowerTypeOK
<1>3. CASE TransferFails(p)
  BY <1>1, <1>3, FailsInv
<1>4. ASSUME NEW step \in {"send", "time", "reset", "done"}, Go(p, step, 0),
             Checked(p, step)
      PROVE  PowerInv'
  <2>1. step \in Step \ {"idle"} /\ 0 \in Nat
    BY DEF Step
  <2> QED BY <1>1, <1>2, <1>4, <2>1, PlainStep
<1>5. AfterPower(req[p]) \in {"time", "reset", "done"} /\ Checked(p, AfterPower(req[p]))
  BY DEF AfterPower, Checked
<1>6. ASSUME TargetModule(p) \in Module /\ TargetState(p) \in {0, 1}
      PROVE  Checked(p, "send")
  BY <1>6 DEF Checked
<1> QED BY <1>3, <1>4, <1>5, <1>6 DEF CheckPower, Goto, TransferFails

LEMMA ReadOffTimeInv ==
  ASSUME PowerInv, NEW p \in Proc, ReadOffTime(p) PROVE PowerInv'
<1>1. at[p] = "offtime" /\ UNCHANGED <<req, boardVars, lost, users>>
  BY DEF ReadOffTime
<1>2. UNCHANGED <<fw, power, reported, job, req, users>> /\ offTime' \in OffTimes
      /\ lost' \in SUBSET Proc /\ offTime' = offTime /\ offTime \in Nat
  BY <1>1, PowerAssumption DEF boardVars, PowerInv, PowerTypeOK
<1>3. CASE TransferFails(p)
  BY <1>1, <1>3, FailsInv
<1>4. CASE Go(p, "poll", offTime)
  <2>1. at'[p] = "poll" /\ sleep'[p] = offTime
    BY <1>4 DEF Go, PowerInv, PowerTypeOK
  <2>2. ASSUME NEW m \in Busy, job[m].by = p
        PROVE  (OldFirmware => Awaits(p, m)') /\ Settled(p, m)'
    <3>1. OldFirmware => Awaits(p, m)'
      BY <1>1, <1>2, <2>1, <2>2 DEF PowerInv, SentIsAwaited, Awaits
    <3>2. Settled(p, m)'
      BY <1>1, <1>2, <2>1, <2>2
         DEF PowerInv, SeenIsDone, Settled, TargetModule, TargetState
    <3> QED BY <3>1, <3>2
  <2>3. Checked(p, "poll")
    BY <1>1 DEF PowerInv, TargetsChecked, Checked
  <2>4. "poll" \in Step \ {"idle"} /\ at[p] # "idle"
    BY <1>1 DEF Step
  <2> QED BY <1>2, <1>4, <2>2, <2>3, <2>4, QuietStep
<1> QED BY <1>3, <1>4 DEF ReadOffTime

(* What is reported of a module is a bit, so that the comparison of the    *)
(* minimal tool succeeds only where that of the standard tool would.       *)
LEMMA AwaitedIsTarget ==
  ASSUME PowerTypeOK, NEW p \in Proc, TargetModule(p) \in Module,
         reported[TargetModule(p)] = AwaitedState(p)
  PROVE  reported[TargetModule(p)] = TargetState(p)
<1>1. reported[TargetModule(p)] \in {0, 1}
  BY DEF PowerTypeOK
<1>2. CASE p \in Std
  BY <1>2 DEF AwaitedState
<1>3. CASE p \notin Std
  <2>1. req[p].state \in {0, 1}
    BY <1>1, <1>3 DEF AwaitedState
  <2>2. Byte(0) = 0 /\ Byte(1) = 1
    BY DEF Byte
  <2> QED BY <1>3, <2>1, <2>2 DEF AwaitedState, TargetState
<1> QED BY <1>2, <1>3

(* Who polls and has slept has, with old firmware, nothing in hand any     *)
(* more.                                                                   *)
LEMMA PolledIsHandled ==
  ASSUME PowerInv, OldFirmware, NEW p \in Proc, at[p] = "poll", sleep[p] = 0,
         NEW m \in Busy
  PROVE  job[m].by # p
<1>1. m \in Module /\ job[m].left > 0 /\ job[m].left \in Nat
  BY JobRecord DEF PowerInv, JobsSound, Busy
<1> QED BY <1>1 DEF PowerInv, SentIsAwaited, Awaits

LEMMA ReadBackInv ==
  ASSUME PowerInv, NEW p \in Proc, ReadBack(p) PROVE PowerInv'
<1>1. at[p] = "poll" /\ sleep[p] = 0 /\ UNCHANGED <<req, boardVars, lost, users>>
  BY DEF ReadBack
<1>2. UNCHANGED <<fw, power, reported, job, req, users>> /\ offTime' \in OffTimes
      /\ lost' \in SUBSET Proc /\ offTime' = offTime
  BY <1>1 DEF boardVars, PowerInv, PowerTypeOK
<1>3. TargetModule(p) \in Module /\ Checked(p, "poll")
  BY <1>1 DEF PowerInv, TargetsChecked, Checked
<1>4. CASE TransferFails(p)
  BY <1>1, <1>4, FailsInv
<1>5. CASE Go(p, "poll", PollWait)
  <2>1. at'[p] = "poll"
    BY <1>5 DEF Go, PowerInv, PowerTypeOK
  <2>2. ASSUME NEW m \in Busy, job[m].by = p
        PROVE  (OldFirmware => Awaits(p, m)') /\ Settled(p, m)'
    <3>1. ~OldFirmware
      BY <1>1, <2>2, PolledIsHandled
    <3>2. Settled(p, m)'
      BY <1>1, <1>2, <2>1, <2>2
         DEF PowerInv, SeenIsDone, Settled, TargetModule, TargetState
    <3> QED BY <3>1, <3>2
  <2>3. "poll" \in Step \ {"idle"} /\ at[p] # "idle" /\ PollWait \in Nat
    BY <1>1 DEF Step, PollWait
  <2> QED BY <1>2, <1>3, <1>5, <2>2, <2>3, QuietStep
<1>6. CASE /\ reported[TargetModule(p)] = AwaitedState(p)
           /\ Goto(p, AfterPower(req[p]))
  <2>1. reported[TargetModule(p)] = TargetState(p)
    BY <1>3, <1>6, AwaitedIsTarget DEF PowerInv
  <2>2. ASSUME NEW m \in Busy, job[m].by = p
        PROVE  (OldFirmware => Awaits(p, m)') /\ Settled(p, m)'
    <3>1. ~OldFirmware
      BY <1>1, <2>2, PolledIsHandled
    <3>2. Leads(job[m].to, reported[m])
      BY <1>1, <2>1, <2>2 DEF PowerInv, SeenIsDone, Settled
    <3> QED BY <1>2, <3>1, <3>2 DEF Settled
  <2>3. AfterPower(req[p]) \in Step \ {"idle", "send", "offtime", "poll"}
    BY DEF AfterPower, Step
  <2>5. Checked(p, AfterPower(req[p]))
    BY DEF AfterPower, Checked
  <2>4. at[p] # "idle" /\ 0 \in Nat
    BY <1>1
  <2> QED BY <1>2, <1>6, <2>2, <2>3, <2>4, <2>5, QuietStep DEF Goto
<1> QED BY <1>4, <1>5, <1>6 DEF ReadBack

LEMMA SetModemOffTimeInv ==
  ASSUME PowerInv, NEW p \in Proc, SetModemOffTime(p) PROVE PowerInv'
<1>1. at[p] = "time" /\ UNCHANGED <<fw, power, reported, job, req, users>>
  BY DEF SetModemOffTime
<1>2. CASE TransferFails(p) /\ UNCHANGED <<offTime, lost>>
  BY <1>1, <1>2, FailsInv DEF boardVars
<1>3. CASE \E step \in {AfterTime(req[p]), "failed"} : Goto(p, step)
  <2>1. PICK step \in {AfterTime(req[p]), "failed"} : Goto(p, step)
    BY <1>3
  <2>2. step \in Step \ {"idle", "send", "offtime", "poll"} /\ Go(p, step, 0)
    BY <2>1 DEF AfterTime, Step, Goto
  <2>3. lost' \in SUBSET Proc
    BY DEF SetModemOffTime, PowerInv, PowerTypeOK
  <2>4. offTime' \in OffTimes
    <3>1. req[p].time # -1
      BY <1>1 DEF PowerInv, TargetsChecked, Checked
    <3>2. req[p].time \in OffTimes
      BY <3>1, PowerAssumption DEF PowerInv, PowerTypeOK, NoRequest
    <3> QED BY <3>2 DEF SetModemOffTime, PowerInv, PowerTypeOK
  <2>5. OldFirmware /\ Busy # {} => offTime' = offTime
    BY DEF SetModemOffTime
  <2>6. Checked(p, step)
    BY <2>2, <1>1 DEF Checked, AfterTime
  <2> QED BY <1>1, <2>2, <2>3, <2>4, <2>5, <2>6, PlainStep
<1> QED BY <1>2, <1>3 DEF SetModemOffTime

LEMMA RestedInv ==
  ASSUME PowerInv, NEW p \in Proc, Rested(p) PROVE PowerInv'
<1>1. at[p] = "rest" /\ sleep[p] = 0 /\ Go(p, "done", 0)
  BY DEF Rested, Goto
<1>2. UNCHANGED <<fw, power, reported, job, req, users>> /\ offTime' \in OffTimes
      /\ lost' \in SUBSET Proc /\ offTime' = offTime
  BY DEF Rested, boardVars, PowerInv, PowerTypeOK
<1>3. "done" \in Step \ {"idle"} /\ 0 \in Nat /\ Checked(p, "done")
  BY DEF Step, Checked
<1> QED BY <1>1, <1>2, <1>3, PlainStep

LEMMA StartInv ==
  ASSUME PowerInv, NEW p \in Proc, Start(p) PROVE PowerInv'
<1> USE DEF PowerInv
<1>1. /\ at[p] = "idle" /\ UNCHANGED <<fw, power, reported, job, offTime, lost>>
      /\ Enter(p) \/ (~OldFirmware /\ EnterShared(p))
  BY DEF Start, boardVars
<1>2. PICK r \in PowerRequests :
          /\ req' = [req EXCEPT ![p] = r]
          /\ Goto(p, IF r.module # 0 THEN "power" ELSE AfterPower(r))
  BY DEF Start
<1> DEFINE step == IF r.module # 0 THEN "power" ELSE AfterPower(r)
<1>3. step \in {"power", "time", "reset", "done"} /\ (step = "time" => r.time # -1)
  BY DEF AfterPower
<1>4. /\ at' = [at EXCEPT ![p] = step] /\ sleep' = [sleep EXCEPT ![p] = 0]
  BY <1>2 DEF Goto, Go
<1> HIDE DEF step
<1>5. /\ at' \in [Proc -> Step] /\ sleep' \in [Proc -> Nat]
      /\ req' \in [Proc -> PowerRequests \cup {NoRequest}]
      /\ at'[p] = step /\ req'[p] = r
      /\ \A q \in Proc : q # p => at'[q] = at[q] /\ sleep'[q] = sleep[q] /\ req'[q] = req[q]
  BY <1>2, <1>3, <1>4 DEF PowerTypeOK, Step
<1>6. users' \subseteq Proc /\ p \in users' /\ users' \ {p} = users \ {p}
  BY <1>1 DEF Enter, EnterShared, PowerTypeOK, Proc
<1>7. PowerTypeOK'
  BY <1>1, <1>5, <1>6 DEF PowerTypeOK
<1>8. AccessSound'
  <2>1. \A q \in users' \cap Std : users' = {q}
    <3>1. CASE Enter(p)
      BY <3>1 DEF Enter
    <3>2. CASE EnterShared(p)
      BY <3>2, PowerAssumption DEF EnterShared
    <3> QED BY <1>1, <3>1, <3>2
  <2>2. \A q \in Proc : q \in users' <=> at'[q] # "idle"
    BY <1>3, <1>5, <1>6 DEF AccessSound
  <2>3. OldFirmware' => users' \subseteq Std
    BY <1>1, SameFirmware DEF Enter
  <2> QED BY <2>1, <2>2, <2>3 DEF AccessSound
<1>9. TargetsChecked'
  <2> SUFFICES ASSUME NEW q \in Proc PROVE Checked(q, at[q])'
    BY DEF TargetsChecked
  <2>1. CASE q = p
    BY <1>3, <1>5, <2>1 DEF Checked
  <2>2. CASE q # p
    BY <1>5, <2>2 DEF TargetsChecked, Checked, TargetModule, TargetState
  <2> QED BY <2>1, <2>2
<1>10. JobsSound' /\ ReportedSound'
  BY <1>1, SameFirmware DEF JobsSound, ReportedSound, Busy
<1>11. SentIsAwaited'
  <2> SUFFICES ASSUME OldFirmware, NEW m \in Busy, NEW q \in Proc, job[m].by = q
               PROVE  Awaits(q, m)'
    BY <1>1, SameFirmware DEF SentIsAwaited, Busy
  <2>1. q # p
    BY <1>1, NotWaiting
  <2> QED BY <1>1, <1>5, <2>1 DEF SentIsAwaited, Awaits
<1>12. SeenIsDone'
  <2> SUFFICES ASSUME NEW m \in Busy, NEW q \in Proc, job[m].by = q
               PROVE  Settled(q, m)'
    BY <1>1 DEF SeenIsDone, Busy
  <2>1. CASE q = p
    BY <1>1, <2>1, NotWaiting DEF Settled
  <2>2. CASE q # p
    BY <1>1, <1>5, <2>2 DEF SeenIsDone, Settled, TargetModule, TargetState
  <2> QED BY <2>1, <2>2
<1> QED BY <1>7, <1>8, <1>9, <1>10, <1>11, <1>12

-----------------------------------------------------------------------------
(* Requests that reach the firmware.  Where p goes next, it waits for what *)
(* it has sent.                                                            *)
LEMMA AcceptInv ==
  ASSUME PowerInv, NEW p \in Proc, at[p] \in {"send", "reset"},
         NEW m \in Module, NEW to \in {"on", "off", "reset"}, Accept(p, m, to),
         NEW step \in Step \ {"idle"}, NEW ticks \in Nat, Go(p, step, ticks),
         UNCHANGED <<fw, power, offTime, req, users>>, Checked(p, step),
         OldFirmware => \/ step = "failed"
                        \/ step = "offtime" /\ Duration(to) <= offTime
                        \/ step \in {"poll", "rest"} /\ Duration(to) <= ticks,
         \/ step = "failed" \/ to = "reset"
         \/ step \in {"offtime", "poll"} /\ m = TargetModule(p) /\ Leads(to, TargetState(p))
  PROVE  PowerInv'
<1> USE DEF PowerInv
<1>1. CASE OldFirmware /\ Busy # {}
  <2>1. lost' \in SUBSET Proc /\ UNCHANGED <<job, reported>> /\ offTime' \in OffTimes
    BY <1>1 DEF Accept, PowerTypeOK
  <2> QED BY <1>1, <2>1, PlainStep
<1>2. CASE ~(OldFirmware /\ Busy # {})
  <2> DEFINE new == [to |-> to, left |-> Duration(to), by |-> p]
  <2>1. job' = [job EXCEPT ![m] = new] /\ lost' = lost
    BY <1>2 DEF Accept
  <2>2. /\ reported' \in [Module -> {0, 1}]
        /\ \A n \in Module : n # m => reported'[n] = reported[n]
        /\ ~OldFirmware => reported' = reported
    BY <1>2 DEF Accept, PowerTypeOK
  <2>3. Duration(to) \in Nat /\ Duration(to) > 0
    BY DurationPositive
  <2>4. new # NoJob /\ new.to = to /\ new.left = Duration(to) /\ new.by = p
    BY DEF NoJob
  <2>5. new \in [to : {"none", "on", "off", "reset"}, left : Nat, by : Proc \cup {Nobody}]
    BY <2>3
  <2> HIDE DEF new
  <2>6. /\ job' \in [Module -> [to : {"none", "on", "off", "reset"}, left : Nat,
                                by : Proc \cup {Nobody}]]
        /\ job'[m] = new /\ \A n \in Module : n # m => job'[n] = job[n]
    BY <2>1, <2>5 DEF PowerTypeOK
  <2>7. Busy' = Busy \cup {m}
    BY <2>4, <2>6 DEF Busy
  <2>8. /\ at' \in [Proc -> Step] /\ sleep' \in [Proc -> Nat]
        /\ at'[p] = step /\ sleep'[p] = ticks
        /\ \A q \in Proc : q # p => at'[q] = at[q] /\ sleep'[q] = sleep[q]
    BY DEF Go, PowerTypeOK
  <2>9. PowerTypeOK'
    BY <2>1, <2>2, <2>6, <2>8 DEF PowerTypeOK
  <2>10. AccessSound'
    BY <2>8, SameFirmware DEF AccessSound
  <2>11. TargetsChecked'
    <3> SUFFICES ASSUME NEW q \in Proc PROVE Checked(q, at'[q])
      BY DEF TargetsChecked, Checked, TargetModule, TargetState
    <3> QED BY <2>8 DEF TargetsChecked
  <2>12. JobsSound'
    <3> SUFFICES ASSUME NEW n \in Busy \cup {m}
                 PROVE  job'[n].to \in {"on", "off", "reset"} /\ job'[n].left > 0
      BY <2>7 DEF JobsSound
    <3>1. CASE n = m
      BY <2>3, <2>4, <2>6, <3>1
    <3>2. CASE n # m
      BY <2>6, <3>2 DEF JobsSound, Busy
    <3> QED BY <3>1, <3>2
  <2>13. ReportedSound'
    BY <2>2, <2>7, SameFirmware DEF ReportedSound
  <2>14. SentIsAwaited'
    <3> SUFFICES ASSUME OldFirmware, NEW n \in Busy \cup {m}, NEW q \in Proc,
                        job'[n].by = q
                 PROVE  Awaits(q, n)'
      BY <2>7, SameFirmware DEF SentIsAwaited
    <3>1. n = m /\ q = p
      BY <1>2, <2>4, <2>6
    <3> QED BY <2>4, <2>6, <2>8, <3>1 DEF Awaits
  <2>15. SeenIsDone'
    <3> SUFFICES ASSUME NEW n \in Busy \cup {m}, NEW q \in Proc, job'[n].by = q
                 PROVE  Settled(q, n)'
      BY <2>7 DEF SeenIsDone
    <3>1. CASE n = m
      <4>1. q = p /\ job'[n].to = to
        BY <2>4, <2>6, <3>1
      <4> QED BY <2>8, <3>1, <4>1 DEF Settled, Leads, TargetModule, TargetState
    <3>2. CASE n # m
      <4>1. n \in Busy /\ n \in Module /\ job'[n] = job[n] /\ reported'[n] = reported[n]
        BY <2>2, <2>6, <3>2 DEF Busy
      <4>2. CASE q = p
        BY <4>1, <4>2, NotWaiting DEF Settled
      <4>3. CASE q # p
        BY <2>8, <4>1, <4>3 DEF SeenIsDone, Settled, TargetModule, TargetState
      <4> QED BY <4>2, <4>3
    <3> QED BY <3>1, <3>2
  <2> QED BY <2>9, <2>10, <2>11, <2>12, <2>13, <2>14, <2>15
<1> QED BY <1>1, <1>2

LEMMA SendPowerInv ==
  ASSUME PowerInv, NEW p \in Proc, SendPower(p) PROVE PowerInv'
<1> DEFINE to == IF TargetState(p) = 1 THEN "on" ELSE "off"
<1>1. at[p] = "send" /\ UNCHANGED <<fw, power, offTime, req, users>>
  BY DEF SendPower
<1>2. TargetModule(p) \in Module /\ TargetState(p) \in {0, 1}
  BY <1>1 DEF PowerInv, TargetsChecked, Checked
<1>3. to \in {"on", "off", "reset"} /\ Leads(to, TargetState(p))
      /\ (TargetState(p) = 1 => to = "on") /\ (TargetState(p) = 0 => to = "off")
  BY <1>2 DEF Leads
<1>4. Duration("on") = OnWait /\ Duration("off") = offTime /\ offTime \in Nat
      /\ OnWait \in Nat /\ 0 \in Nat
  BY PowerAssumption DEF Duration, OnWait, PowerInv, PowerTypeOK
<1>5. OldFirmware => p \in Std /\ Workaround
  BY <1>1, OldIsStd
<1>6. Checked(p, "poll") /\ Checked(p, "offtime") /\ Checked(p, "failed")
  BY <1>2 DEF Checked
<1>7. {"poll", "offtime", "failed"} \subseteq Step \ {"idle"}
  BY DEF Step
<1>8. CASE TransferFails(p) /\ UNCHANGED <<job, reported, lost>>
  BY <1>1, <1>8, FailsInv DEF boardVars
<1> HIDE DEF to
<1>9. CASE Accept(p, TargetModule(p), to) /\ TransferFails(p)
  <2>1. Go(p, "failed", 0)
    BY <1>9 DEF TransferFails, Goto
  <2> QED BY <1>1, <1>2, <1>3, <1>4, <1>6, <1>7, <1>9, <2>1, AcceptInv
<1>10. CASE Accept(p, TargetModule(p), to) /\ TargetState(p) = 1 /\ Go(p, "poll", OnWait)
  <2>1. Duration(to) <= OnWait
    BY <1>3, <1>4, <1>10
  <2> QED BY <1>1, <1>2, <1>3, <1>4, <1>6, <1>7, <1>10, <2>1, AcceptInv
<1>11. CASE Accept(p, TargetModule(p), to) /\ TargetState(p) = 0 /\ Goto(p, "offtime")
  <2>1. Go(p, "offtime", 0) /\ Duration(to) <= offTime
    BY <1>3, <1>4, <1>11 DEF Goto
  <2> QED BY <1>1, <1>2, <1>3, <1>4, <1>6, <1>7, <1>11, <2>1, AcceptInv
<1>12. CASE /\ Accept(p, TargetModule(p), to) /\ ~(p \in Std /\ Workaround)
            /\ Goto(p, "poll")
  <2>1. Go(p, "poll", 0) /\ ~OldFirmware
    BY <1>5, <1>12 DEF Goto
  <2> QED BY <1>1, <1>2, <1>3, <1>4, <1>6, <1>7, <1>12, <2>1, AcceptInv
<1> QED BY <1>8, <1>9, <1>10, <1>11, <1>12 DEF SendPower, to

LEMMA ResetModemInv ==
  ASSUME PowerInv, NEW p \in Proc, ResetModem(p) PROVE PowerInv'
<1> DEFINE m == Byte(req[p].modem)
<1>1. at[p] = "reset" /\ UNCHANGED <<fw, power, offTime, req, users>>
  BY DEF ResetModem
<1>2. Duration("reset") = ResetWait /\ ResetWait \in Nat /\ 0 \in Nat
  BY DEF Duration, ResetWait
<1>3. OldFirmware => p \in Std /\ Workaround
  BY <1>1, OldIsStd
<1>4. Checked(p, "rest") /\ Checked(p, "done") /\ Checked(p, "failed")
  BY DEF Checked
<1>5. {"rest", "done", "failed"} \subseteq Step \ {"idle"}
  BY DEF Step
<1>6. CASE TransferFails(p) /\ UNCHANGED <<job, reported, lost>>
  BY <1>1, <1>6, FailsInv DEF boardVars
<1> HIDE DEF m
<1>7. CASE m \in {1, 2} /\ Accept(p, m, "reset") /\ TransferFails(p)
  <2>1. Go(p, "failed", 0) /\ m \in Module
    BY <1>7 DEF TransferFails, Goto, Module
  <2> QED BY <1>1, <1>2, <1>4, <1>5, <1>7, <2>1, AcceptInv
<1>8. CASE m \in {1, 2} /\ Accept(p, m, "reset") /\ Go(p, "rest", ResetWait)
  <2>1. m \in Module /\ Duration("reset") <= ResetWait
    BY <1>2, <1>8 DEF Module
  <2> QED BY <1>1, <1>2, <1>4, <1>5, <1>8, <2>1, AcceptInv
<1>9. CASE /\ m \in {1, 2} /\ Accept(p, m, "reset") /\ ~(p \in Std /\ Workaround)
           /\ Goto(p, "done")
  <2>1. Go(p, "done", 0) /\ m \in Module /\ ~OldFirmware
    BY <1>3, <1>9 DEF Goto, Module
  <2> QED BY <1>1, <1>2, <1>4, <1>5, <1>9, <2>1, AcceptInv
<1> QED BY <1>6, <1>7, <1>8, <1>9 DEF ResetModem, m

-----------------------------------------------------------------------------
(* Processes that end or are cut off.  A request is disowned unless its    *)
(* sender has seen it succeed.                                             *)
LEMMA ForgetInv ==
  ASSUME PowerInv, NEW S, Forget(S), users' = users \ S,
         UNCHANGED <<fw, power, reported, offTime>>,
         Disown(S) \/ (job' = job /\ \A q \in S \cap Proc : at[q] = "done")
  PROVE  PowerInv'
<1> USE DEF PowerInv
<1>1. /\ at' \in [Proc -> Step] /\ sleep' \in [Proc -> Nat]
      /\ req' \in [Proc -> PowerRequests \cup {NoRequest}]
  BY DEF Forget, PowerTypeOK, Step
<1>2. /\ \A q \in Proc : q \in S => at'[q] = "idle"
      /\ \A q \in Proc : q \notin S =>
            at'[q] = at[q] /\ sleep'[q] = sleep[q] /\ req'[q] = req[q]
  BY DEF Forget
<1>3. /\ job' \in [Module -> [to : {"none", "on", "off", "reset"}, left : Nat,
                              by : Proc \cup {Nobody}]]
      /\ \A m \in Module : job'[m].to = job[m].to /\ job'[m].left = job[m].left
                           /\ (job'[m].by = job[m].by \/ job'[m].by = Nobody)
                           /\ \/ \A q \in S \cap Proc : at[q] = "done"
                              \/ job'[m].by \notin S \/ job'[m].by = Nobody
  <2>1. CASE job' = job /\ \A q \in S \cap Proc : at[q] = "done"
    BY <2>1 DEF PowerTypeOK
  <2>2. CASE Disown(S)
    <3> SUFFICES ASSUME NEW m \in Module
                 PROVE  /\ job'[m] \in [to : {"none", "on", "off", "reset"}, left : Nat,
                                        by : Proc \cup {Nobody}]
                        /\ job'[m].to = job[m].to /\ job'[m].left = job[m].left
                        /\ job'[m].by = job[m].by \/ job'[m].by = Nobody
                        /\ job'[m].by \notin S \/ job'[m].by = Nobody
      BY <2>2 DEF Disown
    <3>1. job[m] \in [to : {"none", "on", "off", "reset"}, left : Nat,
                      by : Proc \cup {Nobody}]
      BY DEF PowerTypeOK
    <3>2. CASE job[m].by \in S
      <4>1. job'[m] = [job[m] EXCEPT !.by = Nobody]
        BY <2>2, <3>2 DEF Disown
      <4> QED BY <3>1, <4>1
    <3>3. CASE job[m].by \notin S
      <4>1. job'[m] = job[m]
        BY <2>2, <3>3 DEF Disown
      <4> QED BY <3>1, <3>3, <4>1
    <3> QED BY <3>2, <3>3
  <2> QED BY <2>1, <2>2
<1>4. Busy' \subseteq Busy /\ \A m \in Busy' : m \in Module
  <2> SUFFICES ASSUME NEW m \in Module, job[m] = NoJob PROVE job'[m] = NoJob
    BY DEF Busy
  <2>1. job[m].by = Nobody /\ job'[m] = [to |-> job'[m].to, left |-> job'[m].left, by |-> job'[m].by]
    BY <1>3 DEF NoJob
  <2> QED BY <1>3, <2>1 DEF NoJob
<1>5. PowerTypeOK'
  BY <1>1, <1>3 DEF PowerTypeOK, Forget
<1>6. AccessSound'
  <2>1. \A q \in users' \cap Std : users' = {q}
    BY DEF AccessSound
  <2>2. \A q \in Proc : q \in users' <=> at'[q] # "idle"
    BY <1>2 DEF AccessSound
  <2>3. OldFirmware' => users' \subseteq Std
    BY SameFirmware DEF AccessSound
  <2> QED BY <2>1, <2>2, <2>3 DEF AccessSound
<1>7. TargetsChecked'
  BY <1>2 DEF TargetsChecked, Checked, TargetModule, TargetState
<1>8. JobsSound'
  BY <1>3, <1>4 DEF JobsSound
<1>9. ReportedSound'
  <2>1. Busy' = Busy
    <3> SUFFICES ASSUME NEW m \in Module, job'[m] = NoJob, job[m] # NoJob PROVE FALSE
      BY <1>4 DEF Busy
    <3>1. job[m].to = "none"
      BY <1>3 DEF NoJob
    <3> QED BY <3>1 DEF JobsSound, Busy
  <2> QED BY <2>1, SameFirmware DEF ReportedSound
<1>10. ASSUME NEW m \in Busy', NEW q \in Proc, job'[m].by = q
       PROVE  /\ m \in Busy /\ m \in Module /\ job[m].by = q
              /\ q \notin S \/ at[q] = "done"
  <2>1. m \in Busy /\ m \in Module /\ job'[m].by # Nobody
    BY <1>4, <1>10, PowerAssumption
  <2>2. job[m].by = q
    BY <1>3, <1>10, <2>1
  <2> QED BY <1>3, <1>10, <2>1, <2>2
<1>11. SentIsAwaited'
  <2> SUFFICES ASSUME OldFirmware, NEW m \in Busy', NEW q \in Proc, job'[m].by = q
               PROVE  Awaits(q, m)'
    BY SameFirmware DEF SentIsAwaited
  <2>1. m \in Busy /\ job[m].by = q /\ (q \notin S \/ at[q] = "done") /\ m \in Module
    BY <1>10
  <2>2. q \notin S
    BY <2>1, NotWaiting
  <2>3. Awaits(q, m)
    BY <2>1 DEF SentIsAwaited
  <2> QED BY <1>2, <1>3, <2>1, <2>2, <2>3 DEF Awaits
<1>12. SeenIsDone'
  <2> SUFFICES ASSUME NEW m \in Busy', NEW q \in Proc, job'[m].by = q
               PROVE  Settled(q, m)'
    BY DEF SeenIsDone
  <2>1. m \in Busy /\ job[m].by = q /\ (q \notin S \/ at[q] = "done") /\ m \in Module
        /\ job'[m].to = job[m].to
    BY <1>3, <1>10
  <2>2. CASE q \in S
    BY <2>1, <2>2, NotWaiting DEF Settled
  <2>3. CASE q \notin S
    BY <1>2, <2>1, <2>3 DEF SeenIsDone, Settled, TargetModule, TargetState
  <2> QED BY <2>2, <2>3
<1> QED BY <1>5, <1>6, <1>7, <1>8, <1>9, <1>11, <1>12

LEMMA EndInv ==
  ASSUME PowerInv,
         \/ \E p \in Proc : Exit(p) \/ Kill(p)
         \/ DetachUnderMinimal
  PROVE  PowerInv'
<1>1. ASSUME NEW p \in Proc, Exit(p) PROVE PowerInv'
  <2>1. users' = users \ {p} /\ Forget({p}) /\ UNCHANGED <<fw, power, reported, offTime>>
    BY <1>1 DEF Exit, Leave
  <2>2. Disown({p}) \/ (job' = job /\ \A q \in {p} \cap Proc : at[q] = "done")
    BY <1>1 DEF Exit
  <2> QED BY <2>1, <2>2, ForgetInv
<1>2. ASSUME NEW p \in Proc, Kill(p) PROVE PowerInv'
  <2>1. /\ users' = users \ {p} /\ Forget({p}) /\ Disown({p})
        /\ UNCHANGED <<fw, power, reported, offTime>>
    BY <1>2 DEF Kill, Leave
  <2> QED BY <2>1, ForgetInv
<1>3. CASE DetachUnderMinimal
  <2>1. /\ users' = users \ users /\ Forget(users) /\ Disown(users)
        /\ UNCHANGED <<fw, power, reported, offTime>>
    BY <1>3 DEF DetachUnderMinimal, CutOff
  <2> QED BY <2>1, ForgetInv
<1> QED BY <1>1, <1>2, <1>3

LEMMA RestartBoardInv ==
  ASSUME PowerInv, RestartBoard PROVE PowerInv'
<1> USE DEF PowerInv
<1>1. /\ users' = {} /\ UNCHANGED <<fw, offTime>>
      /\ power' = [m \in Module |-> 1] /\ reported' = [m \in Module |-> 1]
      /\ job' = [m \in Module |-> NoJob] /\ Forget(users)
  BY DEF RestartBoard, CutOff
<1>2. \A q \in Proc : at'[q] = "idle"
  BY <1>1 DEF Forget, AccessSound
<1>3. Busy' = {}
  BY <1>1 DEF Busy
<1>4. PowerTypeOK'
  BY <1>1 DEF PowerTypeOK, Forget, NoJob, Step
<1>5. AccessSound' /\ TargetsChecked'
  BY <1>1, <1>2 DEF AccessSound, TargetsChecked, Checked
<1>6. JobsSound' /\ ReportedSound' /\ SentIsAwaited' /\ SeenIsDone'
  BY <1>1, <1>3 DEF JobsSound, ReportedSound, SentIsAwaited, SeenIsDone
<1> QED BY <1>4, <1>5, <1>6

-----------------------------------------------------------------------------
(* The firmware at work. *)
LEMMA CompleteInv ==
  ASSUME PowerInv, NEW m \in Module, Complete(m) PROVE PowerInv'
<1> USE DEF PowerInv
<1>1. /\ m \in Busy /\ job' = [job EXCEPT ![m] = NoJob]
      /\ UNCHANGED <<fw, offTime, req, at, sleep, lost, users>>
      /\ reported' = [reported EXCEPT ![m] = power'[m]]
  BY DEF Complete, toolVars
<1>2. power' \in [Module -> {0, 1}] /\ \A n \in Module : n # m => power'[n] = power[n]
  <2>1. job[m].to \in {"on", "off", "reset"}
    BY <1>1 DEF JobsSound
  <2> QED BY <2>1 DEF Complete, PowerTypeOK
<1>3. job'[m] = NoJob /\ \A n \in Module : n # m => job'[n] = job[n]
  BY <1>1 DEF PowerTypeOK
<1>4. reported'[m] = power'[m] /\ \A n \in Module : n # m => reported'[n] = reported[n]
  BY <1>1 DEF PowerTypeOK
<1>5. Busy' = Busy \ {m}
  BY <1>3 DEF Busy
<1>6. PowerTypeOK'
  BY <1>1, <1>2 DEF PowerTypeOK, NoJob
<1>7. AccessSound' /\ TargetsChecked'
  BY <1>1, SameFirmware DEF AccessSound, TargetsChecked, Checked, TargetModule, TargetState
<1>8. JobsSound'
  BY <1>3, <1>5 DEF JobsSound, Busy
<1>9. ReportedSound'
  BY <1>1, <1>2, <1>4, <1>5, SameFirmware DEF ReportedSound
<1>10. SentIsAwaited'
  BY <1>1, <1>3, <1>5, SameFirmware DEF SentIsAwaited, Awaits, Busy
<1>11. SeenIsDone'
  <2> SUFFICES ASSUME NEW n \in Busy, n # m, NEW q \in Proc, job[n].by = q
               PROVE  Settled(q, n)'
    BY <1>3, <1>5 DEF SeenIsDone, Busy
  <2>1. n \in Module
    BY DEF Busy
  <2> QED BY <1>1, <1>3, <1>4, <2>1
          DEF SeenIsDone, Settled, TargetModule, TargetState
<1> QED BY <1>6, <1>7, <1>8, <1>9, <1>10, <1>11

LEMMA TickInv ==
  ASSUME PowerInv, Tick PROVE PowerInv'
<1> USE DEF PowerInv
<1>1. UNCHANGED <<fw, power, reported, offTime, req, at, lost, users>>
  BY DEF Tick
<1>2. sleep' \in [Proc -> Nat]
      /\ \A q \in Proc : sleep[q] > 0 => sleep'[q] = sleep[q] - 1
  BY DEF Tick, PowerTypeOK
<1>3. ASSUME NEW m \in Busy
      PROVE  /\ job'[m].to = job[m].to /\ job'[m].by = job[m].by
             /\ job'[m].left = job[m].left - 1 /\ job'[m].left > 0
             /\ job'[m] \in [to : {"none", "on", "off", "reset"}, left : Nat,
                             by : Proc \cup {Nobody}]
             /\ job[m].left \in Nat
  <2>1. m \in Module /\ job[m].left > 1
    BY DEF Tick, Busy
  <2>2. job'[m] = [job[m] EXCEPT !.left = @ - 1]
    BY <2>1 DEF Tick
  <2>3. job[m] \in [to : {"none", "on", "off", "reset"}, left : Nat,
                    by : Proc \cup {Nobody}]
    BY <2>1 DEF PowerTypeOK
  <2> QED BY <2>1, <2>2, <2>3
<1>4. \A m \in Module \ Busy : job'[m] = job[m]
  BY DEF Tick
<1>5. Busy' = Busy
  <2>1. \A m \in Busy : job'[m] # NoJob
    BY <1>3 DEF NoJob
  <2> QED BY <1>4, <2>1 DEF Busy
<1>6. PowerTypeOK'
  <2>1. job' \in [Module -> [to : {"none", "on", "off", "reset"}, left : Nat,
                             by : Proc \cup {Nobody}]]
    <3> SUFFICES ASSUME NEW m \in Module
                 PROVE  job'[m] \in [to : {"none", "on", "off", "reset"}, left : Nat,
                                     by : Proc \cup {Nobody}]
      BY DEF Tick
    <3>1. CASE m \in Busy
      BY <1>3, <3>1
    <3>2. CASE m \notin Busy
      BY <1>4, <3>2 DEF PowerTypeOK
    <3> QED BY <3>1, <3>2
  <2> QED BY <1>1, <1>2, <2>1 DEF PowerTypeOK
<1>7. AccessSound' /\ TargetsChecked'
  BY <1>1, SameFirmware DEF AccessSound, TargetsChecked, Checked, TargetModule, TargetState
<1>8. JobsSound'
  BY <1>3, <1>5 DEF JobsSound
<1>9. ReportedSound'
  BY <1>1, <1>5, SameFirmware DEF ReportedSound
<1>10. SentIsAwaited'
  <2> SUFFICES ASSUME OldFirmware, NEW m \in Busy, NEW q \in Proc, job[m].by = q
               PROVE  Awaits(q, m)'
    BY <1>1, <1>3, <1>5, SameFirmware DEF SentIsAwaited
  <2>1. Awaits(q, m) /\ job[m].left > 1
    BY DEF SentIsAwaited, Tick
  <2>2. job'[m].left = job[m].left - 1 /\ job[m].left \in Nat
    BY <1>3
  <2>3. offTime \in Nat /\ sleep[q] \in Nat
    BY PowerAssumption DEF PowerTypeOK
  <2>4. job[m].left <= sleep[q] => sleep'[q] = sleep[q] - 1
    BY <1>2, <2>1, <2>2, <2>3
  <2> QED BY <1>1, <2>1, <2>2, <2>3, <2>4 DEF Awaits
<1>11. SeenIsDone'
  <2> SUFFICES ASSUME NEW m \in Busy, NEW q \in Proc, job[m].by = q
               PROVE  Settled(q, m)'
    BY <1>3, <1>5 DEF SeenIsDone
  <2> QED BY <1>1, <1>3 DEF SeenIsDone, Settled, TargetModule, TargetState
<1> QED BY <1>6, <1>7, <1>8, <1>9, <1>10, <1>11

LEMMA StutterInv ==
  ASSUME PowerInv, UNCHANGED vars PROVE PowerInv'
<1>1. UNCHANGED <<users, fw, power, reported, job, offTime, req, at, sleep, lost>>
  BY DEF vars, powerVars
<1>2. Busy' = Busy
  BY <1>1 DEF Busy
<1> QED BY <1>1, <1>2, SameFirmware
        DEF PowerInv, PowerTypeOK, AccessSound, TargetsChecked, Checked, JobsSound,
            ReportedSound, SentIsAwaited, Awaits, SeenIsDone, Settled,
            TargetModule, TargetState

LEMMA PowerInvInductive == PowerInv /\ [PowerNext]_vars => PowerInv'
<1> SUFFICES ASSUME PowerInv, [PowerNext]_vars PROVE PowerInv'
  OBVIOUS
<1>1. ASSUME NEW p \in Proc, Command(p) PROVE PowerInv'
  BY <1>1, CheckPowerInv, SendPowerInv, ReadOffTimeInv, ReadBackInv,
     SetModemOffTimeInv, ResetModemInv, RestedInv DEF Command
<1>2. ASSUME NEW p \in Proc, Start(p) PROVE PowerInv'
  BY <1>2, StartInv
<1>3. CASE (\E p \in Proc : Exit(p) \/ Kill(p)) \/ DetachUnderMinimal
  BY <1>3, EndInv
<1>4. CASE Tick \/ RestartBoard \/ UNCHANGED vars
  BY <1>4, TickInv, RestartBoardInv, StutterInv
<1>5. CASE \E m \in Module : Complete(m)
  BY <1>5, CompleteInv
<1> QED BY <1>1, <1>2, <1>3, <1>4, <1>5 DEF PowerNext

(* PowerInv holds in every state, for every set of processes, every        *)
(* firmware and every command line.                                        *)
THEOREM PowerInvariant == PowerSpec => []PowerInv
<1>1. PowerInit => PowerInv
  BY PowerInitInv
<1>2. PowerInv /\ [PowerNext]_vars => PowerInv'
  BY PowerInvInductive
<1> QED BY <1>1, <1>2, PTL DEF PowerSpec

(* Every variable keeps its type. *)
THEOREM PowerTypes == PowerSpec => []PowerTypeOK
<1>1. PowerInv => PowerTypeOK
  BY DEF PowerInv
<1> QED BY <1>1, PowerInvariant, PTL

-----------------------------------------------------------------------------
(* Old firmware handles one request at a time, so that who is about to     *)
(* send finds it busy only with what nobody waits for any more.            *)
LEMMA BusyIsOrphaned ==
  ASSUME PowerInv, OldFirmware, NEW p \in Proc,
         \/ at[p] \in {"power", "send", "time", "reset", "done"}
         \/ at[p] = "poll" /\ sleep[p] = 0,
         NEW m \in Busy
  PROVE  m \in Orphaned
<1>1. m \in Module /\ job[m].by \in Proc \cup {Nobody}
  BY DEF PowerInv, PowerTypeOK, Busy
<1>2. CASE job[m].by = Nobody
  BY <1>2 DEF Orphaned
<1>3. ASSUME NEW q \in Proc, job[m].by = q PROVE m \in Orphaned
  <2>1. q # p
    BY <1>3, NotWaiting, PolledIsHandled
  <2>2. users = {p}
    BY OldIsStd
  <2>3. at[q] = "idle"
    BY <2>1, <2>2 DEF PowerInv, AccessSound
  <2> QED BY <1>3, <2>3, NotWaiting
<1> QED BY <1>1, <1>2, <1>3

LEMMA StepDiscardsAfterOrphan ==
  PowerInv /\ [PowerNext]_vars => [lost' \subseteq lost \/ Orphaned # {}]_vars
<1> SUFFICES ASSUME PowerInv, PowerNext, ~(lost' \subseteq lost) PROVE Orphaned # {}
  BY DEF vars
<1>1. PICK p \in Proc : SendPower(p) \/ SetModemOffTime(p) \/ ResetModem(p)
  BY DEF PowerNext, Start, Command, CheckPower, ReadOffTime, ReadBack, Rested, Exit,
         Kill, Complete, Tick, DetachUnderMinimal, RestartBoard, Forget
<1>2. OldFirmware /\ Busy # {}
  BY <1>1 DEF SendPower, SetModemOffTime, ResetModem, Accept
<1>3. at[p] \in {"send", "time", "reset"}
  BY <1>1 DEF SendPower, SetModemOffTime, ResetModem
<1> QED BY <1>2, <1>3, BusyIsOrphaned

(* The waits of the standard tool protect every call it makes: a call is   *)
(* discarded only while an orphan is in hand.                              *)
THEOREM OnlyOrphansDiscard == PowerSpec => DiscardedOnlyAfterOrphan
<1>1. PowerInv /\ [PowerNext]_vars => [lost' \subseteq lost \/ Orphaned # {}]_vars
  BY StepDiscardsAfterOrphan
<1> QED BY <1>1, PowerInvariant, PTL DEF PowerSpec, DiscardedOnlyAfterOrphan

(* SetModulePower returns success from its first read or from its loop.    *)
LEMMA ReturnStep ==
  ASSUME PowerInv, [PowerNext]_vars, NEW p \in Std, PowerReturns(p)
  PROVE  /\ at[p] = "power" \/ (at[p] = "poll" /\ sleep[p] = 0)
         /\ TargetModule(p) \in Module /\ TargetState(p) \in {0, 1}
         /\ reported[TargetModule(p)] = TargetState(p)
         /\ UNCHANGED boardVars
<1>0. p \in Proc /\ at[p] \in {"power", "poll"} /\ at'[p] \in {"time", "reset", "done"}
      /\ at'[p] # at[p]
  BY DEF PowerReturns, Proc
<1>1. PowerNext
  BY <1>0 DEF vars, powerVars
<1>2. CheckPower(p) \/ ReadBack(p)
  <2>1. PICK q \in Proc : Start(q) \/ Command(q)
    BY <1>0, <1>1 DEF PowerNext, Exit, Kill, Complete, Tick, DetachUnderMinimal,
                      RestartBoard, Forget, toolVars
  <2>2. \A r \in Proc \ {q} : at'[r] = at[r]
    BY <2>1 DEF Start, Command, CheckPower, SendPower, ReadOffTime, ReadBack,
                SetModemOffTime, ResetModem, Rested, TransferFails, Goto, Go,
                PowerInv, PowerTypeOK
  <2>3. q = p
    BY <1>0, <2>2
  <2> QED BY <1>0, <2>1, <2>3
          DEF Start, Command, SendPower, ReadOffTime, SetModemOffTime, ResetModem, Rested
<1>3. CASE CheckPower(p)
  <2>1. TargetModule(p) \in Module /\ TargetState(p) \in {0, 1}
        /\ reported[TargetModule(p)] = TargetState(p) /\ UNCHANGED boardVars
        /\ at[p] = "power"
    BY <1>0, <1>3, PowerAssumption
       DEF CheckPower, TransferFails, Goto, Go, PowerInv, PowerTypeOK
  <2> QED BY <2>1
<1>4. CASE ReadBack(p)
  <2>1. at[p] = "poll" /\ sleep[p] = 0 /\ UNCHANGED boardVars
    BY <1>4 DEF ReadBack
  <2>2. TargetModule(p) \in Module /\ TargetState(p) \in {0, 1}
    BY <1>0, <2>1 DEF PowerInv, TargetsChecked, Checked
  <2>3. reported[TargetModule(p)] = AwaitedState(p)
    BY <1>0, <1>4 DEF ReadBack, TransferFails, Goto, Go, PowerInv, PowerTypeOK
  <2> QED BY <2>1, <2>2, <2>3 DEF AwaitedState
<1> QED BY <1>2, <1>3, <1>4

LEMMA ReturnIsApplied ==
  ASSUME PowerInv, [PowerNext]_vars, NEW p \in Std, PowerReturns(p), Orphaned = {}
  PROVE  /\ power[TargetModule(p)] = TargetState(p)
         /\ job[TargetModule(p)].to # IF TargetState(p) = 1 THEN "off" ELSE "on"
<1> DEFINE m == TargetModule(p)
<1>1. /\ at[p] = "power" \/ (at[p] = "poll" /\ sleep[p] = 0)
      /\ m \in Module /\ TargetState(p) \in {0, 1}
      /\ reported[m] = TargetState(p) /\ p \in Proc
  BY ReturnStep DEF Proc
<1>2. m \notin Busy => job[m].to = "none"
  BY <1>1 DEF Busy, NoJob
<1>3. CASE m \notin Busy
  BY <1>1, <1>2, <1>3 DEF PowerInv, ReportedSound
<1>4. CASE m \in Busy
  <2>1. ~OldFirmware
    BY <1>1, <1>4, BusyIsOrphaned
  <2>2. power[m] = reported[m]
    BY <1>1, <2>1 DEF PowerInv, ReportedSound
  <2>3. PICK q \in Proc : job[m].by = q /\ at[q] # "failed"
    BY <1>1, <1>4 DEF Orphaned, PowerInv, PowerTypeOK
  <2>4. Settled(q, m)
    BY <1>4, <2>3 DEF PowerInv, SeenIsDone
  <2>5. users = {p}
    BY <1>1 DEF PowerInv, AccessSound
  <2>6. q # p => at[q] = "idle"
    BY <2>5 DEF PowerInv, AccessSound
  <2>7. Leads(job[m].to, TargetState(p))
    BY <1>1, <2>3, <2>4, <2>6 DEF Settled
  <2> QED BY <1>1, <2>2, <2>7 DEF Leads
<1> QED BY <1>3, <1>4

(* When SetModulePower of the standard tool returns success, the module is *)
(* supplied as requested and nothing in hand will change that, unless an   *)
(* orphan is in hand.                                                      *)
THEOREM SuccessIsReal == PowerSpec => DoneMeansApplied
<1>1. PowerInv /\ [PowerNext]_vars =>
        [\A p \in Std : PowerReturns(p) /\ Orphaned = {} =>
          /\ power[TargetModule(p)] = TargetState(p)
          /\ job[TargetModule(p)].to # IF TargetState(p) = 1 THEN "off" ELSE "on"]_vars
  BY ReturnIsApplied
<1> QED BY <1>1, PowerInvariant, PTL DEF PowerSpec, DoneMeansApplied

-----------------------------------------------------------------------------
(* Which firmware gets the workarounds.                                    *)

(* Who is in one of the two waits has found the stored version low.        *)
WaitsByStoredVersion == \A p \in Std : at[p] \in {"offtime", "rest"} => Workaround

LEMMA WaitsByStoredVersionInductive ==
  ASSUME PowerTypeOK, WaitsByStoredVersion, [PowerNext]_vars
  PROVE  WaitsByStoredVersion'
<1>1. fw' = fw
  BY DEF PowerNext, vars, powerVars, Start, Command, CheckPower, SendPower, ReadOffTime,
         ReadBack, SetModemOffTime, ResetModem, Rested, Exit, Kill, Complete, Tick,
         DetachUnderMinimal, RestartBoard, boardVars, Forget, Disown
<1> SUFFICES ASSUME NEW p \in Std, at'[p] \in {"offtime", "rest"}, ~Workaround
             PROVE  FALSE
  BY <1>1, SameFirmware DEF WaitsByStoredVersion
<1>2. p \in Proc /\ at[p] \notin {"offtime", "rest"} /\ at' # at
  BY DEF Proc, WaitsByStoredVersion
<1>3. ASSUME NEW q \in Proc, NEW step, NEW ticks, Go(q, step, ticks)
      PROVE  q = p /\ step = at'[p]
  BY <1>2, <1>3 DEF Go, PowerTypeOK
<1>4. ASSUME NEW S, Forget(S) PROVE FALSE
  BY <1>2, <1>4 DEF Forget, PowerTypeOK
<1>5. PICK q \in Proc : Start(q) \/ Command(q)
  BY <1>2, <1>4 DEF PowerNext, vars, powerVars, Exit, Kill, Complete, Tick, DetachUnderMinimal,
         RestartBoard, toolVars
<1>6. CASE Start(q)
  BY <1>3, <1>6 DEF Start, Goto, AfterPower
<1>7. CASE CheckPower(q) \/ ReadOffTime(q) \/ ReadBack(q) \/ SetModemOffTime(q) \/ Rested(q)
  BY <1>3, <1>7 DEF CheckPower, ReadOffTime, ReadBack, SetModemOffTime, Rested, Goto,
         TransferFails, AfterPower, AfterTime
<1>8. CASE SendPower(q) \/ ResetModem(q)
  BY <1>3, <1>8 DEF SendPower, ResetModem, Goto, TransferFails
<1> QED BY <1>5, <1>6, <1>7, <1>8 DEF Command

(* Only firmware whose version does not fit in the unsigned char           *)
(* g_fw_version can get a workaround that was made for an older one.       *)
THEOREM NewFirmwareNotWaitedFor == PowerSpec => []WaitsOnlyForOld
<1>1. PowerInit => WaitsByStoredVersion
  BY DEF PowerInit, WaitsByStoredVersion, Proc
<1>2. PowerTypeOK /\ WaitsByStoredVersion /\ [PowerNext]_vars => WaitsByStoredVersion'
  BY WaitsByStoredVersionInductive
<1>3. PowerTypeOK /\ WaitsByStoredVersion => WaitsOnlyForOld
  <2> DEFINE v == GetFwVersionAsInt(fw.release)
  <2> SUFFICES ASSUME PowerTypeOK, Workaround PROVE v <= 202 \/ v > 255
    BY DEF WaitsByStoredVersion, WaitsOnlyForOld
  <2>1. fw.release \in Nat
    BY PowerAssumption DEF PowerTypeOK
  <2>2. v \in Nat
    BY <2>1 DEF GetFwVersionAsInt
  <2>3. Byte(v) <= 202
    BY DEF Workaround, StoredFwVersion
  <2> HIDE DEF v
  <2> QED BY <2>2, <2>3 DEF Byte
<1> QED BY <1>1, <1>2, <1>3, PowerTypes, PTL DEF PowerSpec

=============================================================================
