----------------------------- MODULE ModulePower -----------------------------
(***************************************************************************)
(* The commands --power, --off-time and --reset against the firmware, in   *)
(* time.  Firmware up to 2.02 (F229: up to 1.01) discards calls while it   *)
(* handles one and reports a module as off at once; the standard tool      *)
(* makes up for it by waiting while it holds the board.  Newer firmware    *)
(* reports a change when it is applied, and both tools poll for it.        *)
(*                                                                         *)
(* A request stays with the firmware for a bounded time; Tick is one       *)
(* second.  A process may be delayed for any time, be killed or see a      *)
(* transfer fail at any point, and the board may restart.                  *)
(***************************************************************************)
EXTENDS BoardAccess, Conversions

CONSTANTS
    Nobody,        \* the sender of no request
    Firmwares,      \* [board, release] of the boards explored
    OffTimes,       \* values of the modem off time, in ticks
    PowerRequests   \* the command lines explored

Module == 1 .. 3

(* A command line: -p with a module and a state, or with module 0; -f with *)
(* a time, or -1; -r with a modem, or 0.                                   *)
ASSUME PowerAssumption ==
    /\ Std \cap Minimal = {} /\ Nobody \notin Proc
    /\ Firmwares \subseteq [board : {"F229", "ME10", "G239"}, release : Nat]
    /\ OffTimes \subseteq Nat \ {0}
    /\ PowerRequests \subseteq
         [module : Nat, state : Nat, time : OffTimes \cup {-1}, modem : Nat]

(* The waits of the tool, in ticks, and the time the firmware takes at     *)
(* most to switch a module on and to reset a modem.                        *)
OnWait    == 1
PollWait  == 1
ResetWait == 1

VARIABLES
    fw,         \* the firmware of the board
    power,      \* whether each module is supplied
    reported,   \* what the module power report says of each module
    job,        \* the request the firmware is handling for each module
    offTime,    \* the modem off time of the board
    req,        \* the command line of each process
    at,         \* where each process is in main and the functions it calls
    sleep,      \* ticks until the usleep of a process may return
    lost        \* history: processes whose request the firmware discarded

boardVars == <<fw, power, reported, job, offTime>>
toolVars  == <<req, at, sleep>>
powerVars == <<fw, power, reported, job, offTime, req, at, sleep, lost>>
vars      == <<users, powerVars>>

NoJob     == [to |-> "none", left |-> 0, by |-> Nobody]
NoRequest == [module |-> 0, state |-> 0, time |-> -1, modem |-> 0]

Step == {"idle", "power", "send", "offtime", "poll", "time", "reset", "rest", "done", "failed"}

PowerTypeOK ==
    /\ users \subseteq Proc
    /\ fw \in Firmwares
    /\ power \in [Module -> {0, 1}]
    /\ reported \in [Module -> {0, 1}]
    /\ job \in [Module -> [to : {"none", "on", "off", "reset"}, left : Nat,
                           by : Proc \cup {Nobody}]]
    /\ offTime \in OffTimes
    /\ req \in [Proc -> PowerRequests \cup {NoRequest}]
    /\ at \in [Proc -> Step]
    /\ sleep \in [Proc -> Nat]
    /\ lost \in SUBSET Proc

PowerInit ==
    /\ AccessInit
    /\ fw \in Firmwares
    /\ power = [m \in Module |-> 1]
    /\ reported = power
    /\ job = [m \in Module |-> NoJob]
    /\ offTime \in OffTimes
    /\ req = [p \in Proc |-> NoRequest]
    /\ at = [p \in Proc |-> "idle"]
    /\ sleep = [p \in Proc |-> 0]
    /\ lost = {}

-----------------------------------------------------------------------------
(* The firmware.                                                           *)

OldFirmware ==
    GetFwVersionAsInt(fw.release) < IF fw.board = "F229" THEN 102 ELSE 203

Busy == {m \in Module : job[m] # NoJob}

(* How long a request may take. *)
Duration(to) ==
    CASE to = "on" -> OnWait [] to = "off" -> offTime [] to = "reset" -> ResetWait

(* A feature report of p asking for a change reaches the firmware. *)
Accept(p, m, to) ==
    IF OldFirmware /\ Busy # {}
    THEN /\ lost' = lost \cup {p}
         /\ UNCHANGED <<job, reported>>
    ELSE /\ job' = [job EXCEPT ![m] = [to |-> to, left |-> Duration(to), by |-> p]]
         /\ reported' = IF OldFirmware /\ to # "reset"
                        THEN [reported EXCEPT ![m] = IF to = "on" THEN 1 ELSE 0]
                        ELSE reported
         /\ UNCHANGED lost

(* The firmware completes a request, at the latest when its time is up. *)
Complete(m) ==
    /\ m \in Busy
    /\ job' = [job EXCEPT ![m] = NoJob]
    /\ power' = CASE job[m].to = "on"    -> [power EXCEPT ![m] = 1]
                  [] job[m].to = "off"   -> [power EXCEPT ![m] = 0]
                  [] job[m].to = "reset" -> power
    /\ reported' = [reported EXCEPT ![m] = power'[m]]
    /\ UNCHANGED <<fw, offTime, toolVars, lost, users>>

Waiting == Busy # {} \/ \E p \in Proc : sleep[p] > 0

(* Time passes for the requests in hand and for the sleeping processes; a  *)
(* request in its last tick is completed before that tick is over.         *)
Tick ==
    /\ Waiting
    /\ \A m \in Busy : job[m].left > 1
    /\ job' = [m \in Module |-> IF m \in Busy THEN [job[m] EXCEPT !.left = @ - 1] ELSE job[m]]
    /\ sleep' = [p \in Proc |-> IF sleep[p] > 0 THEN sleep[p] - 1 ELSE 0]
    /\ UNCHANGED <<fw, power, reported, offTime, req, at, lost, users>>

-----------------------------------------------------------------------------
(* The tools.                                                              *)

(* p goes on to the next step, after sleeping for some ticks. *)
Go(p, step, ticks) ==
    /\ at' = [at EXCEPT ![p] = step]
    /\ sleep' = [sleep EXCEPT ![p] = ticks]

Goto(p, step) == Go(p, step, 0)

TargetModule(p) == Byte(req[p].module)
TargetState(p)  == Byte(req[p].state)

(* 13Y063.c: g_fw_version <= 202. *)
Workaround == StoredFwVersion(fw.release) <= 202

(* main looks at -p, then -f, then -r, in this order. *)
AfterPower(r) == IF r.time # -1 THEN "time" ELSE IF r.modem # 0 THEN "reset" ELSE "done"
AfterTime(r)  == IF r.modem # 0 THEN "reset" ELSE "done"

(* A run begins when its process has opened the board.  The minimal tool   *)
(* is not made for old firmware.                                           *)
Start(p) ==
    /\ at[p] = "idle"
    /\ Enter(p) \/ (~OldFirmware /\ EnterShared(p))
    /\ \E r \in PowerRequests :
         /\ req' = [req EXCEPT ![p] = r]
         /\ Goto(p, IF r.module # 0 THEN "power" ELSE AfterPower(r))
    /\ UNCHANGED <<boardVars, lost>>

(* A transfer of p that fails: it may have reached the firmware or not.    *)
TransferFails(p) == Goto(p, "failed")

(* SetModulePower: the range checks and, in the standard tool, the read    *)
(* that finds nothing to do.                                               *)
CheckPower(p) ==
    /\ at[p] = "power"
    /\ \/ /\ TargetModule(p) \in Module /\ TargetState(p) \in {0, 1}
          /\ \/ p \in Minimal /\ Goto(p, "send")
             \/ /\ p \in Std
                /\ Goto(p, IF reported[TargetModule(p)] = TargetState(p)
                           THEN AfterPower(req[p]) ELSE "send")
             \/ p \in Std /\ TransferFails(p)
       \/ /\ ~(TargetModule(p) \in Module /\ TargetState(p) \in {0, 1})
          /\ Goto(p, "failed")
    /\ UNCHANGED <<req, boardVars, lost, users>>

(* Mutant: with old firmware the tool reads back without waiting. *)
SendPowerNoWait(p) ==
    /\ at[p] = "send"
    /\ \/ /\ Accept(p, TargetModule(p), IF TargetState(p) = 1 THEN "on" ELSE "off")
          /\ Goto(p, "poll")
       \/ /\ TransferFails(p)
          /\ UNCHANGED <<job, reported, lost>>
    /\ UNCHANGED <<fw, power, offTime, req, users>>

(* The request, and where the tool goes from there: with old firmware it   *)
(* sleeps a second after power-on, and reads the off time after power-off. *)
SendPower(p) ==
    /\ at[p] = "send"
    /\ \/ /\ Accept(p, TargetModule(p), IF TargetState(p) = 1 THEN "on" ELSE "off")
          /\ \/ TransferFails(p)
             \/ p \in Std /\ Workaround /\ TargetState(p) = 1 /\ Go(p, "poll", OnWait)
             \/ p \in Std /\ Workaround /\ TargetState(p) = 0 /\ Goto(p, "offtime")
             \/ ~(p \in Std /\ Workaround) /\ Goto(p, "poll")
       \/ /\ TransferFails(p)
          /\ UNCHANGED <<job, reported, lost>>
    /\ UNCHANGED <<fw, power, offTime, req, users>>

(* Old firmware: read the off time and sleep for as long. *)
ReadOffTime(p) ==
    /\ at[p] = "offtime"
    /\ \/ Go(p, "poll", offTime)
       \/ TransferFails(p)
    /\ UNCHANGED <<req, boardVars, lost, users>>

(* The loop that reads the state back, with a second between two reads.    *)
(* The minimal tool compares with the int argument, not with the byte sent. *)
(* Mutant (RawState): the standard tool does so too.                       *)
RawState(p) == req[p].state

AwaitedState(p) == IF p \in Std THEN TargetState(p) ELSE req[p].state

ReadBack(p) ==
    /\ at[p] = "poll"
    /\ sleep[p] = 0
    /\ \/ /\ IF reported[TargetModule(p)] = AwaitedState(p)
             THEN Goto(p, AfterPower(req[p]))
             ELSE Go(p, "poll", PollWait)
       \/ TransferFails(p)
    /\ UNCHANGED <<req, boardVars, lost, users>>

(* SetModemOffTime. *)
SetModemOffTime(p) ==
    /\ at[p] = "time"
    /\ \/ /\ IF OldFirmware /\ Busy # {}
             THEN lost' = lost \cup {p} /\ UNCHANGED offTime
             ELSE offTime' = req[p].time /\ UNCHANGED lost
          /\ \E step \in {AfterTime(req[p]), "failed"} : Goto(p, step)
       \/ TransferFails(p) /\ UNCHANGED <<offTime, lost>>
    /\ UNCHANGED <<fw, power, reported, job, req, users>>

(* Mutant: ResetModem does not sleep. *)
ResetModemNoWait(p) ==
    /\ at[p] = "reset"
    /\ \/ /\ fw.board # "F229" /\ Byte(req[p].modem) \in {1, 2}
          /\ Accept(p, Byte(req[p].modem), "reset")
          /\ Goto(p, "done")
       \/ /\ TransferFails(p)
          /\ UNCHANGED <<job, reported, lost>>
    /\ UNCHANGED <<fw, power, offTime, req, users>>

(* ResetModem, which with old firmware sleeps before it reports success. *)
ResetModem(p) ==
    /\ at[p] = "reset"
    /\ \/ /\ fw.board # "F229" /\ Byte(req[p].modem) \in {1, 2}
          /\ Accept(p, Byte(req[p].modem), "reset")
          /\ \/ TransferFails(p)
             \/ p \in Std /\ Workaround /\ Go(p, "rest", ResetWait)
             \/ ~(p \in Std /\ Workaround) /\ Goto(p, "done")
       \/ /\ TransferFails(p)
          /\ UNCHANGED <<job, reported, lost>>
    /\ UNCHANGED <<fw, power, offTime, req, users>>

Rested(p) ==
    /\ at[p] = "rest"
    /\ sleep[p] = 0
    /\ Goto(p, "done")
    /\ UNCHANGED <<req, boardVars, lost, users>>

-----------------------------------------------------------------------------
(* How runs end.                                                           *)

Command(p) ==
    \/ CheckPower(p) \/ SendPower(p) \/ ReadOffTime(p) \/ ReadBack(p)
    \/ SetModemOffTime(p) \/ ResetModem(p) \/ Rested(p)

(* The processes of S are gone or cut off: nothing they do can reach the   *)
(* board any more, and nobody waits for the requests they have sent.       *)
Forget(S) ==
    /\ req' = [p \in Proc |-> IF p \in S THEN NoRequest ELSE req[p]]
    /\ at' = [p \in Proc |-> IF p \in S THEN "idle" ELSE at[p]]
    /\ sleep' = [p \in Proc |-> IF p \in S THEN 0 ELSE sleep[p]]
    /\ lost' = lost \ S

Disown(S) ==
    job' = [m \in Module |-> IF job[m].by \in S THEN [job[m] EXCEPT !.by = Nobody] ELSE job[m]]

Exit(p) ==
    /\ at[p] \in {"done", "failed"}
    /\ Leave(p) /\ Forget({p})
    /\ IF at[p] = "failed" THEN Disown({p}) ELSE UNCHANGED job
    /\ UNCHANGED <<fw, power, reported, offTime>>

Kill(p) ==
    /\ at[p] \notin {"idle", "done", "failed"}
    /\ Leave(p) /\ Forget({p}) /\ Disown({p})
    /\ UNCHANGED <<fw, power, reported, offTime>>

(* A standard process that is about to open detaches the hid driver: the   *)
(* minimal processes lose the board.                                       *)
DetachUnderMinimal ==
    /\ users \cap Std = {} /\ users # {}
    /\ CutOff /\ Forget(users) /\ Disown(users)
    /\ UNCHANGED <<fw, power, reported, offTime>>

(* The firmware restarts: its requests are gone, the modules are supplied. *)
RestartBoard ==
    /\ CutOff /\ Forget(users)
    /\ power' = [m \in Module |-> 1]
    /\ reported' = power'
    /\ job' = [m \in Module |-> NoJob]
    /\ UNCHANGED <<fw, offTime>>

PowerNext ==
    \/ \E p \in Proc : Start(p) \/ Command(p) \/ Exit(p) \/ Kill(p)
    \/ \E m \in Module : Complete(m)
    \/ Tick
    \/ DetachUnderMinimal
    \/ RestartBoard

(* No number of runs takes place in no time: a clock that is always waited *)
(* for goes on.  Fairness of Tick would not say so, as one request after   *)
(* the other may be in its last tick.                                      *)
TimePasses == []<>(~Waiting) \/ []<><<Tick>>_vars

(* Started processes are scheduled, time passes and the firmware completes *)
(* what it has accepted.  Kills, failing transfers and restarts never have *)
(* to happen.                                                              *)
PowerSpec ==
    /\ PowerInit
    /\ [][PowerNext]_vars
    /\ TimePasses
    /\ \A m \in Module : WF_vars(Complete(m))
    /\ \A p \in Proc : WF_vars(Command(p))

-----------------------------------------------------------------------------
(* Properties.                                                             *)

(* A request in hand whose sender was cut short: it was killed, cut off    *)
(* from the board, or has given up after a transfer it saw fail.           *)
Orphaned ==
    {m \in Busy : job[m].by = Nobody \/ at[job[m].by] = "failed"}

(* "The old FW discards any calls before the current one is handled": the  *)
(* waits of the standard tool make sure that a call is discarded only      *)
(* while the firmware still handles the call of a run that was cut short.  *)
DiscardedOnlyAfterOrphan == [][lost' \subseteq lost \/ Orphaned # {}]_vars

(* When SetModulePower of the standard tool returns success, the module is *)
(* really in the requested state and not only reported so, and no request  *)
(* in hand will change that, unless an orphan of another run is in hand.   *)
PowerReturns(p) == at[p] \in {"power", "poll"} /\ at'[p] \in {"time", "reset", "done"}

DoneMeansApplied ==
    [][\A p \in Std : PowerReturns(p) /\ Orphaned = {} =>
          /\ power[TargetModule(p)] = TargetState(p)
          /\ job[TargetModule(p)].to # IF TargetState(p) = 1 THEN "off" ELSE "on"]_vars

(* Another run is about to ask for what undoes the request that p waits    *)
(* for: the opposite state of its module, or a reset in place of it.       *)
Contended(p) ==
    /\ at[p] = "poll"
    /\ \E q \in Proc \ {p} :
         \/ /\ at[q] = "send" /\ TargetModule(q) = TargetModule(p)
            /\ TargetState(q) # TargetState(p)
         \/ at[q] = "reset" /\ Byte(req[q].modem) = TargetModule(p)

(* The loop that waits for the state to change ends, unless the request    *)
(* was discarded by old firmware.  The minimal tool has two more ways to   *)
(* wait for ever: a second minimal process switches the module back before *)
(* the first has read its state, and a state that its comparison can never *)
(* see, as 256.  A run of the standard tool, which has the board alone and *)
(* compares with the byte it sent, has neither.                            *)
WaitEnds ==
    \A p \in Proc :
        at[p] = "send" ~> \/ at[p] \in {"idle", "done", "failed"}
                          \/ p \in lost
                          \/ p \in Minimal /\ (Contended(p) \/ req[p].state # TargetState(p))

(* "Block until modem is powered on/off successfully.  This takes at       *)
(* maximum the set modems_off_time."                                       *)
BlockEnds ==
    \A p \in Std : at[p] = "send" ~> at[p] \in {"idle", "done", "failed"}

(* "Workarounds for known issues in FW versions <= 2.02": no run on newer  *)
(* firmware waits for the off time or after a reset, unless its version    *)
(* does not fit in g_fw_version, which is an unsigned char.                *)
WaitsOnlyForOld ==
    LET v == GetFwVersionAsInt(fw.release) IN
    \A p \in Std : at[p] \in {"offtime", "rest"} => v <= 202 \/ v > 255

=============================================================================
