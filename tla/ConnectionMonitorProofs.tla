----------------------- MODULE ConnectionMonitorProofs -----------------------
(***************************************************************************)
(* The safety of the connection monitor for every number of streams, every *)
(* schedule and every hint.                                                *)
(***************************************************************************)
EXTENDS ConnectionMonitor, TLAPS

(* Where the recovery coroutine stands decides the phase: the edges of an  *)
(* episode are announced at fixed points of its sequence.                  *)
LoopDecidesPhase ==
  ~disposed =>
    /\ loop \in {"idle", "returning"} <=> phase = "healthy"
    /\ loop \in {"waiting", "woken", "verifying"} <=> phase \in {"degraded", "lost"}

(* It decides what the current stream's socket may be doing, too: recovery *)
(* is idle over an open stream, and each step of a relaunch leaves the     *)
(* stream as the next step finds it.                                       *)
LoopDecidesSocket ==
  ~disposed =>
    /\ loop \in {"idle", "opened", "returning"} => sockets[stream] = "open"
    /\ loop = "opening" => sockets[stream] = "connecting"
    /\ loop = "closing" => sockets[stream] \in {"closing", "gone"}

(* The generator's schedule and rung keep the count of refusals in a row.  *)
LedgerOfRefusals ==
  /\ loop = "idle" => refusals = 0
  /\ wait.schedule = "refusal" <=> refusals > 0
  /\ refusals > 0 => wait.rung = refusals /\ wait.delay >= Rung("refusal", refusals)

(* The inductive invariant of the episode, which needs the promise jobs of *)
(* a turn to drain before the next socket event; the schedules' (below),   *)
(* and the ones the other properties are themselves, do not.               *)
Coordination ==
  /\ TypeOK
  /\ AnnouncedIsCurrent
  /\ LoopDecidesPhase
  /\ LoopDecidesSocket

-----------------------------------------------------------------------------
(* The schedules. *)

(* Every ladder is a sequence of delays no longer than the slowest one. *)
LEMMA LadderBounded ==
  ASSUME NEW s \in Schedule
  PROVE  /\ Ladder(s) \in Seq(Nat)
         /\ \A i \in 1..Len(Ladder(s)) : Ladder(s)[i] <= RefusalSteady
         /\ SteadyOf(s) \in Nat /\ SteadyOf(s) <= RefusalSteady
<1>1. CASE s = "known"
  BY <1>1, ScheduleAssumption DEF Ladder, Ladders, SteadyOf
<1>2. CASE s = "unknown"
  BY <1>2, ScheduleAssumption DEF Ladder, Ladders, SteadyOf
<1>3. CASE s = "refusal"
  BY <1>3, ScheduleAssumption DEF Ladder, Ladders, SteadyOf
<1> QED  BY <1>1, <1>2, <1>3 DEF Schedule, Track

(* Every rung, on the ladder or past its end, is a delay within the bound. *)
LEMMA RungBounded ==
  ASSUME NEW s \in Schedule, NEW r \in Nat \ {0}
  PROVE  Rung(s, r) \in Nat /\ Rung(s, r) <= RefusalSteady
<1>1. CASE r <= Len(Ladder(s))
  <2>1. Ladder(s) \in Seq(Nat) /\ r \in 1..Len(Ladder(s))
    BY <1>1, LadderBounded
  <2> QED  BY <1>1, <2>1, LadderBounded DEF Rung
<1>2. CASE ~(r <= Len(Ladder(s)))
  BY <1>2, LadderBounded DEF Rung
<1> QED  BY <1>1, <1>2

(* A rung advances to a rung, and saturates one past its ladder. *)
LEMMA NextRungType ==
  ASSUME NEW s \in Schedule, NEW r \in Nat
  PROVE  NextRung(s, r) \in 1..(Len(Ladder(s)) + 1)
<1>1. Len(Ladder(s)) \in Nat
  BY LadderBounded
<1> QED  BY <1>1 DEF NextRung, Smaller

(* A hint is a delay within the bound. *)
LEMMA HintBounded ==
  ASSUME NEW h \in Nat
  PROVE  Hint(h) \in Nat /\ Hint(h) <= RefusalSteady
BY ScheduleAssumption DEF Hint, Smaller

(* The wait a pull chooses is never shorter than its rung and never longer *)
(* than the slowest delay.                                                 *)
LEMMA WaitBounded ==
  ASSUME NEW s \in Schedule, NEW r \in Nat \ {0}, NEW h \in Nat
  PROVE  /\ WaitOf(s, r, h) \in Wait
         /\ WaitOf(s, r, h).delay <= RefusalSteady
         /\ WaitOf(s, r, h).delay >= Rung(s, r)
<1>1. /\ Rung(s, r) \in Nat /\ Rung(s, r) <= RefusalSteady
      /\ Hint(h) \in Nat /\ Hint(h) <= RefusalSteady
  BY RungBounded, HintBounded
<1>2. /\ Larger(Rung(s, r), Hint(h)) \in Nat
      /\ Larger(Rung(s, r), Hint(h)) <= RefusalSteady
      /\ Larger(Rung(s, r), Hint(h)) >= Rung(s, r)
  BY <1>1, ScheduleAssumption DEF Larger
<1> QED  BY <1>2 DEF WaitOf, Wait

(* What a pull of the generator yields. *)
LEMMA PullYields ==
  ASSUME NEW f, NEW h \in Nat, NEW net \in Track, NEW last \in Wait,
         PullFrom(f, h, net, last)
  PROVE  /\ network' \in Track /\ wait' \in Wait
         /\ wait'.delay <= RefusalSteady
         /\ wait'.schedule = "refusal" <=> f \in Refusal
         /\ f \in Refusal =>
              /\ wait'.rung = IF last.schedule = "refusal"
                              THEN NextRung("refusal", last.rung) ELSE 1
              /\ wait'.delay >= Rung("refusal", wait'.rung)
         /\ f \notin Refusal /\ last.schedule = "refusal" =>
              wait'.schedule = "unknown" /\ wait'.rung = 1
<1> DEFINE track  == IF f \notin Refusal /\ last.schedule = "refusal" THEN "unknown" ELSE net
           chosen == IF f \in Refusal THEN "refusal" ELSE track
           rung   == IF chosen = last.schedule THEN NextRung(chosen, last.rung) ELSE 1
<1>1. network' = track /\ wait' = WaitOf(chosen, rung, h)
  BY DEF PullFrom
<1>2. track \in Track /\ chosen \in Schedule
  BY DEF Track, Schedule
<1>3. last.rung \in Nat
  BY DEF Wait
<1>4. rung \in Nat \ {0}
  <2>1. CASE chosen = last.schedule
    <3>1. NextRung(chosen, last.rung) \in 1..(Len(Ladder(chosen)) + 1)
      BY <1>2, <1>3, NextRungType
    <3>2. Len(Ladder(chosen)) \in Nat
      BY <1>2, LadderBounded
    <3> QED  BY <2>1, <3>1, <3>2
  <2>2. CASE chosen # last.schedule
    BY <2>2
  <2> QED  BY <2>1, <2>2
<1>5. /\ wait' \in Wait /\ wait'.delay <= RefusalSteady /\ wait'.delay >= Rung(chosen, rung)
      /\ wait'.schedule = chosen /\ wait'.rung = rung
  <2> HIDE DEF track, chosen, rung
  <2> QED  BY <1>1, <1>2, <1>4, WaitBounded DEF WaitOf
<1>6. chosen = "refusal" <=> f \in Refusal
  BY <1>2 DEF Track
<1> QED  BY <1>1, <1>2, <1>5, <1>6 DEF Track

-----------------------------------------------------------------------------
(* Type correctness. *)

(* The derived state is a phase or the throttled reading of one. *)
LEMMA DeriveType ==
  ASSUME NEW t \in BOOLEAN, NEW p \in Phase
  PROVE  Derive(t, p) \in Phase \cup {"throttled"}
BY DEF Derive

(* The typing of the coroutine's variables, apart. *)
LoopType ==
  /\ loop \in Loop
  /\ network \in Track
  /\ wait \in Wait
  /\ refusals \in 0..(Len(RefusalLadder) + 1)

FaultType ==
  /\ phase \in Phase
  /\ announcedLoss \in LossClass \cup {None}
  /\ episodeTrack \in Track
  /\ lastFault \in Fault \cup {None}
  /\ reported \in Phase \cup {"throttled"}

(* Ending a recovery leaves a well-typed idle coroutine. *)
LEMMA EndRecoveryType ==
  ASSUME EndRecovery
  PROVE  LoopType'
<1>1. Len(RefusalLadder) \in Nat
  BY ScheduleAssumption DEF Ladders
<1> QED  BY <1>1 DEF EndRecovery, LoopType, NoWait, Wait, Loop, Track, Schedule

(* Opening one does too. *)
LEMMA RecoverType ==
  ASSUME TypeOK, NEW track \in Track, Recover("stream", track)
  PROVE  LoopType'
<1>1. CASE loop = "idle"
  <2>1. NoWait \in Wait
    BY DEF NoWait, Wait
  <2>2. PullFrom("stream", 0, track, NoWait) /\ loop' = "waiting" /\ refusals' = refusals
    BY <1>1 DEF Recover
  <2>3. network' \in Track /\ wait' \in Wait
    BY <2>1, <2>2, PullYields
  <2> QED  BY <2>2, <2>3 DEF LoopType, TypeOK, Loop
<1>2. CASE loop # "idle"
  BY <1>2 DEF Recover, loopVars, LoopType, TypeOK
<1> QED  BY <1>1, <1>2

(* A fault of the stream keeps the types. *)
LEMMA StreamFaultType ==
  ASSUME TypeOK, OnStreamFault
  PROVE  LoopType' /\ FaultType' /\ anticipated' \in BOOLEAN /\ emitted' = {}
<1>1. FaultType' /\ anticipated' \in BOOLEAN /\ emitted' = {}
  BY DeriveType DEF OnStreamFault, TypeOK, FaultType, EnterPhase, Recompute, Quiet, Phase,
     Track, Fault, ConsumeRecoveryTrack
<1>2. episodeTrack' \in Track
  BY <1>1 DEF FaultType
<1>3. LoopType'
  BY <1>2, RecoverType DEF OnStreamFault
<1> QED  BY <1>1, <1>3

(* So does a failed attempt. *)
LEMMA AttemptFailsType ==
  ASSUME TypeOK, NEW c \in LossClass, NEW h \in Nat, AttemptFails(c, h)
  PROVE  /\ LoopType' /\ FaultType'
         /\ emitted' \subseteq {"controllerLost"}
<1>1. CASE disposed
  <2>1. EndRecovery /\ emitted' = {} /\ UNCHANGED faultVars
    BY <1>1 DEF AttemptFails, Quiet
  <2> QED  BY <2>1, EndRecoveryType DEF FaultType, faultVars, TypeOK
<1>2. CASE ~disposed
  <2>1. /\ EnterLost(c) /\ loop' = "waiting" /\ PullFrom(c, h, network, wait)
        /\ refusals' = IF c \in Refusal THEN NextRung("refusal", refusals) ELSE 0
    BY <1>2 DEF AttemptFails
  <2>2. FaultType' /\ emitted' \subseteq {"controllerLost"}
    BY <2>1, DeriveType DEF EnterLost, FaultType, TypeOK, Recompute, Phase, Fault
  <2>3. network' \in Track /\ wait' \in Wait
    BY <2>1, PullYields DEF TypeOK
  <2>4. refusals' \in 0..(Len(RefusalLadder) + 1)
    <3>1. Len(RefusalLadder) \in Nat /\ refusals \in Nat
      BY ScheduleAssumption DEF Ladders, TypeOK
    <3>2. NextRung("refusal", refusals) \in 1..(Len(RefusalLadder) + 1)
      BY <3>1, NextRungType DEF Schedule, Ladder
    <3> QED  BY <2>1, <3>1, <3>2
  <2> QED  BY <2>1, <2>2, <2>3, <2>4 DEF LoopType, Loop
<1> QED  BY <1>1, <1>2

(* The types hold initially. *)
LEMMA TypeInit ==
  ASSUME Init
  PROVE  TypeOK
<1>1. Len(RefusalLadder) \in Nat
  BY ScheduleAssumption DEF Ladders
<1>2. reported \in Phase \cup {"throttled"}
  BY DeriveType DEF Init, Phase
<1>3. sockets \in [Streams -> {"gone", "connecting", "open", "dead", "closing"}]
  BY DEF Init
<1>4. wait \in Wait
  BY DEF Init, NoWait, Wait
<1>5. refusals \in 0..(Len(RefusalLadder) + 1)
  BY <1>1 DEF Init
<1>6. /\ loop \in Loop /\ network \in Track /\ episodeTrack \in Track /\ phase \in Phase
      /\ controller \in LossClass \cup {"up"}
  BY DEF Init, Loop, Track, Phase
<1> QED  BY <1>2, <1>3, <1>4, <1>5, <1>6 DEF Init, TypeOK

(* Every step keeps them: one step of the proof per action. *)
LEMMA TypeStep ==
  ASSUME TypeOK, [Next]_vars
  PROVE  TypeOK'
<1> USE DEF faultVars, loopVars, streamVars, bootVars, Quiet
<1>1. CASE StreamDies
  BY <1>1, StreamFaultType DEF StreamDies, TypeOK, LoopType, FaultType
<1>2. CASE FrameUndecodable
  BY <1>2, StreamFaultType DEF FrameUndecodable, TypeOK, LoopType, FaultType
<1>3. CASE WaitElapses
  BY <1>3 DEF WaitElapses, TypeOK, Loop
<1>4. CASE WaitAborted
  BY <1>4, EndRecoveryType DEF WaitAborted, TypeOK, LoopType, Loop
<1>5. CASE VerifySucceeds
  BY <1>5, DeriveType DEF VerifySucceeds, EnterPhase, Recompute, TypeOK, Loop, Phase
<1>6. CASE RequestFails
  <2>1. PICK h \in HintsOf(controller) : AttemptFails(controller, h)
    BY <1>6 DEF RequestFails
  <2>2. h \in Nat
    BY <2>1, HintAssumption DEF HintsOf
  <2>3. CASE controller \in LossClass
    BY <1>6, <2>1, <2>2, <2>3, AttemptFailsType DEF RequestFails, TypeOK, LoopType, FaultType
  <2>4. CASE disposed
    <3>1. EndRecovery /\ emitted' = {} /\ UNCHANGED faultVars
      BY <2>1, <2>4 DEF AttemptFails
    <3> QED  BY <1>6, <3>1, EndRecoveryType DEF RequestFails, TypeOK, LoopType
  <2> QED  BY <1>6, <2>3, <2>4 DEF RequestFails, TypeOK
<1>7. CASE BootstrapSucceeds
  <2>1. sockets' \in [Streams -> {"gone", "connecting", "open", "dead", "closing"}]
    BY <1>7 DEF BootstrapSucceeds, TypeOK, Teardown
  <2> QED  BY <1>7, <2>1 DEF BootstrapSucceeds, TypeOK, Loop
<1>8. CASE RelaunchBuilds
  BY <1>8, EndRecoveryType DEF RelaunchBuilds, BuildStream, TypeOK, LoopType, Loop
<1>9. CASE OpenAborted
  BY <1>9, EndRecoveryType DEF OpenAborted, TypeOK, LoopType
<1>10. CASE OnRecovered
  <2>1. CASE disposed
    BY <1>10, <2>1 DEF OnRecovered, TypeOK, Loop
  <2>2. CASE ~disposed
    <3>1. reported' \in Phase \cup {"throttled"}
      BY <1>10, <2>2, DeriveType DEF OnRecovered, EnterPhase, Recompute, TypeOK, Phase
    <3> QED  BY <1>10, <2>2, <3>1 DEF OnRecovered, EnterPhase, TypeOK, Loop, Phase, Track
  <2> QED  BY <2>1, <2>2
<1>11. CASE RecoverReturns
  BY <1>11, EndRecoveryType DEF RecoverReturns, TypeOK, LoopType
<1>12. CASE StreamOpens
  BY <1>12 DEF StreamOpens, TypeOK, Loop
<1>13. CASE StreamNeverOpens
  <2>1. PICK c \in LossClass : AttemptFails(c, 0)
    BY <1>13 DEF StreamNeverOpens
  <2>2. sockets' \in [Streams -> {"gone", "connecting", "open", "dead", "closing"}]
    BY <1>13 DEF StreamNeverOpens, TypeOK
  <2> QED  BY <1>13, <2>1, <2>2, AttemptFailsType DEF StreamNeverOpens, TypeOK, LoopType, FaultType
<1>14. ASSUME NEW s \in Streams, StreamReleased(s)
       PROVE  TypeOK'
  BY <1>14 DEF StreamReleased, TypeOK
<1>15. CASE ExpectReboot
  BY <1>15 DEF ExpectReboot, TypeOK
<1>16. CASE AnticipationExpires
  BY <1>16 DEF AnticipationExpires, TypeOK
<1>17. CASE StoreRefreshes
  BY <1>17 DEF StoreRefreshes, TypeOK
<1>18. CASE WatchReboots
  BY <1>18 DEF WatchReboots, TypeOK, Loop
<1>19. CASE OnThrottle
  BY <1>19, DeriveType DEF OnThrottle, Recompute, TypeOK
<1>20. CASE Dispose
  <2>1. sockets' \in [Streams -> {"gone", "connecting", "open", "dead", "closing"}]
    BY <1>20 DEF Dispose, TypeOK, Teardown
  <2> QED  BY <1>20, <2>1 DEF Dispose, TypeOK, Loop
<1>21. CASE ControllerTurns
  BY <1>21 DEF ControllerTurns, TypeOK
<1>22. CASE UNCHANGED vars
  BY <1>22 DEF vars, TypeOK
<1> QED
  BY <1>1, <1>2, <1>3, <1>4, <1>5, <1>6, <1>7, <1>8, <1>9, <1>10, <1>11, <1>12,
     <1>13, <1>14, <1>15, <1>16, <1>17, <1>18, <1>19, <1>20, <1>21, <1>22
  DEF Next, RecoveryStep

(* The monitor's variables keep their types, whatever the schedules, the   *)
(* hints, the boot times and the number of streams.                        *)
THEOREM TypeCorrect == Spec => []TypeOK
<1>1. Init => TypeOK
  BY TypeInit
<1>2. TypeOK /\ [Next]_vars => TypeOK'
  BY TypeStep
<1> QED  BY <1>1, <1>2, PTL DEF Spec

-----------------------------------------------------------------------------
(* What the monitor tells its consumers. *)

(* Every step keeps the announced state current: whatever moves the phase  *)
(* or the verdict recomputes it.                                           *)
LEMMA AnnouncedStep ==
  ASSUME AnnouncedIsCurrent, [Next]_vars
  PROVE  AnnouncedIsCurrent'
<1> USE DEF faultVars, loopVars, streamVars, bootVars, Quiet
<1>1. CASE StreamDies
  BY <1>1 DEF StreamDies, OnStreamFault, EnterPhase, Recompute, AnnouncedIsCurrent
<1>2. CASE FrameUndecodable
  BY <1>2 DEF FrameUndecodable, OnStreamFault, EnterPhase, Recompute, AnnouncedIsCurrent
<1>3. CASE WaitElapses
  BY <1>3 DEF WaitElapses, AnnouncedIsCurrent
<1>4. CASE WaitAborted
  BY <1>4 DEF WaitAborted, AnnouncedIsCurrent
<1>5. CASE VerifySucceeds
  BY <1>5 DEF VerifySucceeds, EnterPhase, Recompute, AnnouncedIsCurrent
<1>6. CASE RequestFails
  BY <1>6 DEF RequestFails, AttemptFails, EnterLost, Recompute, AnnouncedIsCurrent
<1>7. CASE BootstrapSucceeds
  BY <1>7 DEF BootstrapSucceeds, AnnouncedIsCurrent
<1>8. CASE RelaunchBuilds
  BY <1>8 DEF RelaunchBuilds, AnnouncedIsCurrent
<1>9. CASE OpenAborted
  BY <1>9 DEF OpenAborted, AnnouncedIsCurrent
<1>10. CASE OnRecovered
  BY <1>10 DEF OnRecovered, EnterPhase, Recompute, AnnouncedIsCurrent
<1>11. CASE RecoverReturns
  BY <1>11 DEF RecoverReturns, AnnouncedIsCurrent
<1>12. CASE StreamOpens
  BY <1>12 DEF StreamOpens, AnnouncedIsCurrent
<1>13. CASE StreamNeverOpens
  BY <1>13 DEF StreamNeverOpens, AttemptFails, EnterLost, Recompute, AnnouncedIsCurrent
<1>14. ASSUME NEW s \in Streams, StreamReleased(s)
       PROVE  AnnouncedIsCurrent'
  BY <1>14 DEF StreamReleased, AnnouncedIsCurrent
<1>15. CASE ExpectReboot
  BY <1>15 DEF ExpectReboot, AnnouncedIsCurrent
<1>16. CASE AnticipationExpires
  BY <1>16 DEF AnticipationExpires, AnnouncedIsCurrent
<1>17. CASE StoreRefreshes
  BY <1>17 DEF StoreRefreshes, AnnouncedIsCurrent
<1>18. CASE WatchReboots
  BY <1>18 DEF WatchReboots, AnnouncedIsCurrent
<1>19. CASE OnThrottle
  BY <1>19 DEF OnThrottle, Recompute, AnnouncedIsCurrent
<1>20. CASE Dispose
  BY <1>20 DEF Dispose, AnnouncedIsCurrent
<1>21. CASE ControllerTurns
  BY <1>21 DEF ControllerTurns, AnnouncedIsCurrent
<1>22. CASE UNCHANGED vars
  BY <1>22 DEF vars, AnnouncedIsCurrent
<1> QED
  BY <1>1, <1>2, <1>3, <1>4, <1>5, <1>6, <1>7, <1>8, <1>9, <1>10, <1>11, <1>12,
     <1>13, <1>14, <1>15, <1>16, <1>17, <1>18, <1>19, <1>20, <1>21, <1>22
  DEF Next, RecoveryStep

(* No order of phase changes and breaker verdicts hides a stateChanged     *)
(* edge: what was announced last is what state reads.                      *)
THEOREM AnnouncedAlwaysCurrent == Spec => []AnnouncedIsCurrent
<1>1. Init => AnnouncedIsCurrent
  BY DEF Init, AnnouncedIsCurrent
<1>2. AnnouncedIsCurrent /\ [Next]_vars => AnnouncedIsCurrent'
  BY AnnouncedStep
<1> QED  BY <1>1, <1>2, PTL DEF Spec

(* Every step keeps a steady connection clean: only onRecovered returns to *)
(* healthy, and it clears the episode first.                               *)
LEMMA SteadyStep ==
  ASSUME SteadyCarriesNothing, [Next]_vars
  PROVE  SteadyCarriesNothing'
<1> USE DEF faultVars, loopVars, streamVars, bootVars, Quiet
<1>1. CASE StreamDies
  BY <1>1 DEF StreamDies, OnStreamFault, EnterPhase, SteadyCarriesNothing
<1>2. CASE FrameUndecodable
  BY <1>2 DEF FrameUndecodable, OnStreamFault, EnterPhase, SteadyCarriesNothing
<1>3. CASE WaitElapses
  BY <1>3 DEF WaitElapses, SteadyCarriesNothing
<1>4. CASE WaitAborted
  BY <1>4 DEF WaitAborted, SteadyCarriesNothing
<1>5. CASE VerifySucceeds
  BY <1>5 DEF VerifySucceeds, EnterPhase, SteadyCarriesNothing
<1>6. CASE RequestFails
  BY <1>6 DEF RequestFails, AttemptFails, EnterLost, SteadyCarriesNothing
<1>7. CASE BootstrapSucceeds
  BY <1>7 DEF BootstrapSucceeds, SteadyCarriesNothing
<1>8. CASE RelaunchBuilds
  BY <1>8 DEF RelaunchBuilds, SteadyCarriesNothing
<1>9. CASE OpenAborted
  BY <1>9 DEF OpenAborted, SteadyCarriesNothing
<1>10. CASE OnRecovered
  BY <1>10 DEF OnRecovered, SteadyCarriesNothing
<1>11. CASE RecoverReturns
  BY <1>11 DEF RecoverReturns, SteadyCarriesNothing
<1>12. CASE StreamOpens
  BY <1>12 DEF StreamOpens, SteadyCarriesNothing
<1>13. CASE StreamNeverOpens
  BY <1>13 DEF StreamNeverOpens, AttemptFails, EnterLost, SteadyCarriesNothing
<1>14. ASSUME NEW s \in Streams, StreamReleased(s)
       PROVE  SteadyCarriesNothing'
  BY <1>14 DEF StreamReleased, SteadyCarriesNothing
<1>15. CASE ExpectReboot
  BY <1>15 DEF ExpectReboot, SteadyCarriesNothing
<1>16. CASE AnticipationExpires
  BY <1>16 DEF AnticipationExpires, SteadyCarriesNothing
<1>17. CASE StoreRefreshes
  BY <1>17 DEF StoreRefreshes, SteadyCarriesNothing
<1>18. CASE WatchReboots
  BY <1>18 DEF WatchReboots, SteadyCarriesNothing
<1>19. CASE OnThrottle
  BY <1>19 DEF OnThrottle, SteadyCarriesNothing
<1>20. CASE Dispose
  BY <1>20 DEF Dispose, SteadyCarriesNothing
<1>21. CASE ControllerTurns
  BY <1>21 DEF ControllerTurns, SteadyCarriesNothing
<1>22. CASE UNCHANGED vars
  BY <1>22 DEF vars, SteadyCarriesNothing
<1> QED
  BY <1>1, <1>2, <1>3, <1>4, <1>5, <1>6, <1>7, <1>8, <1>9, <1>10, <1>11, <1>12,
     <1>13, <1>14, <1>15, <1>16, <1>17, <1>18, <1>19, <1>20, <1>21, <1>22
  DEF Next, RecoveryStep

(* A connection with no outage in progress carries no fault, no announced  *)
(* loss and no reboot track of an earlier one.                             *)
THEOREM SteadyIsClean == Spec => []SteadyCarriesNothing
<1>1. Init => SteadyCarriesNothing
  BY DEF Init, SteadyCarriesNothing
<1>2. SteadyCarriesNothing /\ [Next]_vars => SteadyCarriesNothing'
  BY SteadyStep
<1> QED  BY <1>1, <1>2, PTL DEF Spec

-----------------------------------------------------------------------------
(* The relaunch. *)

(* Every step keeps every stream but the current one released: a relaunch  *)
(* builds only once its teardown has settled.                              *)
LEMMA OrphanStep ==
  ASSUME TypeOK, NoStreamOrphaned, [Next]_vars
  PROVE  NoStreamOrphaned'
<1> USE DEF faultVars, loopVars, streamVars, bootVars, Quiet, TypeOK
<1>1. CASE StreamDies
  BY <1>1 DEF StreamDies, NoStreamOrphaned
<1>2. CASE FrameUndecodable
  BY <1>2 DEF FrameUndecodable, NoStreamOrphaned
<1>3. CASE WaitElapses
  BY <1>3 DEF WaitElapses, NoStreamOrphaned
<1>4. CASE WaitAborted
  BY <1>4 DEF WaitAborted, NoStreamOrphaned
<1>5. CASE VerifySucceeds
  BY <1>5 DEF VerifySucceeds, NoStreamOrphaned
<1>6. CASE RequestFails
  BY <1>6 DEF RequestFails, NoStreamOrphaned
<1>7. CASE BootstrapSucceeds
  BY <1>7 DEF BootstrapSucceeds, NoStreamOrphaned
<1>8. CASE RelaunchBuilds
  <2>1. CASE UNCHANGED streamVars
    BY <2>1 DEF NoStreamOrphaned
  <2>2. CASE BuildStream
    BY <1>8, <2>2 DEF RelaunchBuilds, BuildStream, NoStreamOrphaned
  <2> QED  BY <1>8, <2>1, <2>2 DEF RelaunchBuilds
<1>9. CASE OpenAborted
  BY <1>9 DEF OpenAborted, NoStreamOrphaned
<1>10. CASE OnRecovered
  BY <1>10 DEF OnRecovered, NoStreamOrphaned
<1>11. CASE RecoverReturns
  BY <1>11 DEF RecoverReturns, NoStreamOrphaned
<1>12. CASE StreamOpens
  BY <1>12 DEF StreamOpens, NoStreamOrphaned
<1>13. CASE StreamNeverOpens
  BY <1>13 DEF StreamNeverOpens, NoStreamOrphaned
<1>14. ASSUME NEW s \in Streams, StreamReleased(s)
       PROVE  NoStreamOrphaned'
  BY <1>14 DEF StreamReleased, NoStreamOrphaned
<1>15. CASE ExpectReboot
  BY <1>15 DEF ExpectReboot, NoStreamOrphaned
<1>16. CASE AnticipationExpires
  BY <1>16 DEF AnticipationExpires, NoStreamOrphaned
<1>17. CASE StoreRefreshes
  BY <1>17 DEF StoreRefreshes, NoStreamOrphaned
<1>18. CASE WatchReboots
  BY <1>18 DEF WatchReboots, NoStreamOrphaned
<1>19. CASE OnThrottle
  BY <1>19 DEF OnThrottle, NoStreamOrphaned
<1>20. CASE Dispose
  BY <1>20 DEF Dispose, NoStreamOrphaned
<1>21. CASE ControllerTurns
  BY <1>21 DEF ControllerTurns, NoStreamOrphaned
<1>22. CASE UNCHANGED vars
  BY <1>22 DEF vars, NoStreamOrphaned
<1> QED
  BY <1>1, <1>2, <1>3, <1>4, <1>5, <1>6, <1>7, <1>8, <1>9, <1>10, <1>11, <1>12,
     <1>13, <1>14, <1>15, <1>16, <1>17, <1>18, <1>19, <1>20, <1>21, <1>22
  DEF Next, RecoveryStep

(* However faults, relaunches and a disposal interleave, no relaunch       *)
(* leaves a socket behind that no owner will close.                        *)
THEOREM StreamsNeverOrphaned == Spec => []NoStreamOrphaned
<1>1. Init => TypeOK /\ NoStreamOrphaned
  BY TypeInit DEF Init, NoStreamOrphaned
<1>2. TypeOK /\ NoStreamOrphaned /\ [Next]_vars => TypeOK' /\ NoStreamOrphaned'
  BY TypeStep, OrphanStep
<1> QED  BY <1>1, <1>2, PTL DEF Spec

-----------------------------------------------------------------------------
(* The recovery schedule. *)

(* The ledger and the bound on the wait, with the types they rest on. *)
Scheduling ==
  /\ TypeOK
  /\ NeverParkedPastSlowest
  /\ LedgerOfRefusals

(* A recovery that ends discards its schedule and its count. *)
LEMMA EndRecoverySchedules ==
  ASSUME EndRecovery
  PROVE  NeverParkedPastSlowest' /\ LedgerOfRefusals'
BY ScheduleAssumption DEF EndRecovery, NoWait, NeverParkedPastSlowest, LedgerOfRefusals

(* The wait a fault of the stream opens an episode with is a network one. *)
LEMMA StreamFaultSchedules ==
  ASSUME Scheduling, OnStreamFault
  PROVE  NeverParkedPastSlowest' /\ LedgerOfRefusals'
<1>1. CASE loop = "idle"
  <2>1. /\ PullFrom("stream", 0, episodeTrack', NoWait)
        /\ loop' = "waiting" /\ refusals' = refusals /\ refusals = 0
    BY <1>1 DEF OnStreamFault, Recover, Scheduling, LedgerOfRefusals
  <2>2. episodeTrack' \in Track /\ NoWait \in Wait
    BY StreamFaultType DEF Scheduling, FaultType, NoWait, Wait
  <2>3. wait'.delay <= RefusalSteady /\ wait'.schedule # "refusal"
    BY <2>1, <2>2, PullYields DEF Refusal
  <2> QED  BY <2>1, <2>3 DEF NeverParkedPastSlowest, LedgerOfRefusals
<1>2. CASE loop # "idle"
  BY <1>2 DEF OnStreamFault, Recover, loopVars, Scheduling, NeverParkedPastSlowest,
     LedgerOfRefusals
<1> QED  BY <1>1, <1>2

(* A failed attempt answers its own fault: a refusal counts and takes its  *)
(* rung, any other fault leaves the refusal schedule.                      *)
LEMMA AttemptFailsSchedules ==
  ASSUME Scheduling, NEW c \in LossClass, NEW h \in Nat, AttemptFails(c, h)
  PROVE  NeverParkedPastSlowest' /\ LedgerOfRefusals'
<1>1. CASE disposed
  BY <1>1, EndRecoverySchedules DEF AttemptFails
<1>2. CASE ~disposed
  <2>1. /\ loop' = "waiting" /\ PullFrom(c, h, network, wait)
        /\ refusals' = IF c \in Refusal THEN NextRung("refusal", refusals) ELSE 0
    BY <1>2 DEF AttemptFails
  <2>2. network \in Track /\ wait \in Wait /\ refusals \in Nat
    BY ScheduleAssumption DEF Scheduling, TypeOK, Ladders
  <2>3. NeverParkedPastSlowest'
    BY <2>1, <2>2, PullYields DEF NeverParkedPastSlowest
  <2>4. CASE c \in Refusal
    <3>1. wait'.schedule = "refusal" /\ wait'.delay >= Rung("refusal", wait'.rung)
      BY <2>1, <2>2, <2>4, PullYields
    <3>2. wait'.rung = NextRung("refusal", refusals) /\ NextRung("refusal", refusals) > 0
      <4>1. Len(RefusalLadder) \in Nat
        BY ScheduleAssumption DEF Ladders
      <4>2. /\ refusals = 0 => NextRung("refusal", refusals) = 1
            /\ NextRung("refusal", refusals) > 0
        BY <2>2, <4>1 DEF NextRung, Smaller, Ladder
      <4>3. wait'.rung = IF wait.schedule = "refusal" THEN NextRung("refusal", wait.rung) ELSE 1
        BY <2>1, <2>2, <2>4, PullYields
      <4> QED  BY <2>2, <4>2, <4>3 DEF Scheduling, LedgerOfRefusals
    <3>3. refusals' = wait'.rung /\ refusals' > 0
      BY <2>1, <2>4, <3>2
    <3> QED  BY <2>1, <2>3, <3>1, <3>3 DEF LedgerOfRefusals
  <2>5. CASE c \notin Refusal
    BY <2>1, <2>2, <2>3, <2>5, PullYields DEF LedgerOfRefusals
  <2> QED  BY <2>3, <2>4, <2>5
<1> QED  BY <1>1, <1>2

(* Every step keeps the schedule: only a fault, an attempt that fails and  *)
(* the end of a recovery touch it.                                         *)
LEMMA SchedulingStep ==
  ASSUME Scheduling, [Next]_vars
  PROVE  Scheduling'
<1> USE DEF faultVars, loopVars
<1>0. TypeOK'
  BY TypeStep DEF Scheduling
<1> SUFFICES NeverParkedPastSlowest' /\ LedgerOfRefusals'
  BY <1>0 DEF Scheduling
<1>1. CASE StreamDies
  BY <1>1, StreamFaultSchedules DEF StreamDies
<1>2. CASE FrameUndecodable
  BY <1>2, StreamFaultSchedules DEF FrameUndecodable
<1>3. CASE WaitElapses
  BY <1>3 DEF WaitElapses, Scheduling, NeverParkedPastSlowest, LedgerOfRefusals
<1>4. CASE WaitAborted
  BY <1>4, EndRecoverySchedules DEF WaitAborted, Scheduling, NeverParkedPastSlowest, LedgerOfRefusals
<1>5. CASE VerifySucceeds
  BY <1>5 DEF VerifySucceeds, Scheduling, NeverParkedPastSlowest, LedgerOfRefusals
<1>6. CASE RequestFails
  <2>1. PICK h \in HintsOf(controller) : AttemptFails(controller, h)
    BY <1>6 DEF RequestFails
  <2>2. h \in Nat
    BY <2>1, HintAssumption DEF HintsOf
  <2>3. CASE controller \in LossClass
    BY <2>1, <2>2, <2>3, AttemptFailsSchedules
  <2>4. CASE disposed
    BY <2>1, <2>4, EndRecoverySchedules DEF AttemptFails
  <2> QED  BY <1>6, <2>3, <2>4 DEF RequestFails, Scheduling, TypeOK
<1>7. CASE BootstrapSucceeds
  BY <1>7 DEF BootstrapSucceeds, Scheduling, NeverParkedPastSlowest, LedgerOfRefusals
<1>8. CASE RelaunchBuilds
  BY <1>8, EndRecoverySchedules DEF RelaunchBuilds, Scheduling, NeverParkedPastSlowest, LedgerOfRefusals
<1>9. CASE OpenAborted
  BY <1>9, EndRecoverySchedules DEF OpenAborted
<1>10. CASE OnRecovered
  BY <1>10 DEF OnRecovered, Scheduling, NeverParkedPastSlowest, LedgerOfRefusals
<1>11. CASE RecoverReturns
  BY <1>11, EndRecoverySchedules DEF RecoverReturns
<1>12. CASE StreamOpens
  BY <1>12 DEF StreamOpens, Scheduling, NeverParkedPastSlowest, LedgerOfRefusals
<1>13. CASE StreamNeverOpens
  BY <1>13, AttemptFailsSchedules DEF StreamNeverOpens
<1>14. ASSUME NEW s \in Streams, StreamReleased(s)
       PROVE  NeverParkedPastSlowest' /\ LedgerOfRefusals'
  BY <1>14 DEF StreamReleased, Scheduling, NeverParkedPastSlowest, LedgerOfRefusals
<1>15. CASE ExpectReboot
  BY <1>15 DEF ExpectReboot, Scheduling, NeverParkedPastSlowest, LedgerOfRefusals
<1>16. CASE AnticipationExpires
  BY <1>16 DEF AnticipationExpires, Scheduling, NeverParkedPastSlowest, LedgerOfRefusals
<1>17. CASE StoreRefreshes
  BY <1>17 DEF StoreRefreshes, Scheduling, NeverParkedPastSlowest, LedgerOfRefusals
<1>18. CASE WatchReboots
  BY <1>18 DEF WatchReboots, Scheduling, NeverParkedPastSlowest, LedgerOfRefusals
<1>19. CASE OnThrottle
  BY <1>19 DEF OnThrottle, Scheduling, NeverParkedPastSlowest, LedgerOfRefusals
<1>20. CASE Dispose
  BY <1>20 DEF Dispose, Scheduling, NeverParkedPastSlowest, LedgerOfRefusals
<1>21. CASE ControllerTurns
  BY <1>21 DEF ControllerTurns, Scheduling, NeverParkedPastSlowest, LedgerOfRefusals
<1>22. CASE UNCHANGED vars
  BY <1>22 DEF vars, Scheduling, NeverParkedPastSlowest, LedgerOfRefusals
<1> QED
  BY <1>1, <1>2, <1>3, <1>4, <1>5, <1>6, <1>7, <1>8, <1>9, <1>10, <1>11, <1>12,
     <1>13, <1>14, <1>15, <1>16, <1>17, <1>18, <1>19, <1>20, <1>21, <1>22
  DEF Next, RecoveryStep

(* Every step that parks recovery after a refusal gave way to a network    *)
(* fault parks it on the prompt track's first rung.                        *)
LEMMA ClearedRefusalStep ==
  ASSUME Scheduling, [Next]_vars,
         refusals > 0, loop # "waiting", loop' = "waiting", lastFault' \notin Refusal
  PROVE  wait'.schedule = "unknown" /\ wait'.rung = 1
<1>1. loop # "idle" /\ wait.schedule = "refusal" /\ wait \in Wait /\ network \in Track
  BY DEF Scheduling, LedgerOfRefusals, TypeOK
<1>2. ASSUME NEW c \in LossClass, NEW h \in Nat, AttemptFails(c, h)
      PROVE  wait'.schedule = "unknown" /\ wait'.rung = 1
  <2>1. lastFault' = c /\ PullFrom(c, h, network, wait)
    BY <1>2 DEF AttemptFails, EndRecovery, EnterLost
  <2> QED  BY <1>1, <2>1, PullYields
<1>3. CASE RequestFails
  <2>1. PICK h \in HintsOf(controller) : AttemptFails(controller, h)
    BY <1>3 DEF RequestFails
  <2>2. h \in Nat
    BY <2>1, HintAssumption DEF HintsOf
  <2>3. ~disposed
    BY <2>1 DEF AttemptFails, EndRecovery
  <2> QED  BY <1>2, <1>3, <2>1, <2>2, <2>3 DEF RequestFails, Scheduling, TypeOK
<1>4. CASE StreamNeverOpens
  BY <1>2, <1>4 DEF StreamNeverOpens
<1>5. CASE ~RequestFails /\ ~StreamNeverOpens
  BY <1>1, <1>5 DEF Next, RecoveryStep, StreamDies, FrameUndecodable, OnStreamFault, Recover,
     WaitElapses, WaitAborted, EndRecovery, VerifySucceeds, BootstrapSucceeds, RelaunchBuilds,
     OpenAborted, OnRecovered, RecoverReturns, StreamOpens, StreamReleased, ExpectReboot,
     AnticipationExpires, StoreRefreshes, WatchReboots, OnThrottle, Dispose, ControllerTurns,
     vars, loopVars
<1> QED  BY <1>3, <1>4, <1>5

LEMMA SchedulingAlways == Spec => []Scheduling
<1>1. Init => Scheduling
  <2> SUFFICES ASSUME Init
               PROVE  Scheduling
    OBVIOUS
  <2>1. wait.schedule = "none" /\ wait.delay = 0 /\ refusals = 0
    BY DEF Init, NoWait
  <2> QED
    BY <2>1, TypeInit, ScheduleAssumption
    DEF Scheduling, NeverParkedPastSlowest, LedgerOfRefusals
<1>2. Scheduling /\ [Next]_vars => Scheduling'
  BY SchedulingStep
<1> QED  BY <1>1, <1>2, PTL DEF Spec

(* Refusals in a row back recovery off at least as far as their own        *)
(* schedule says, whatever faults and hints came between.                  *)
THEOREM RefusalsAlwaysBackOff == Spec => []RefusalsBackOff
<1>1. Scheduling => RefusalsBackOff
  BY DEF Scheduling, LedgerOfRefusals, RefusalsBackOff
<1> QED  BY <1>1, SchedulingAlways, PTL

(* Nothing a controller asks for parks recovery past its slowest rung. *)
THEOREM NeverParkedLong == Spec => []NeverParkedPastSlowest
<1>1. Scheduling => NeverParkedPastSlowest
  BY DEF Scheduling
<1> QED  BY <1>1, SchedulingAlways, PTL

(* A refusal that clears into a network fault is probed for at once. *)
THEOREM ClearedRefusalPrompt == Spec => ClearedRefusalProbesPromptly
<1>1. Scheduling /\ [Next]_vars =>
        [(refusals > 0 /\ loop # "waiting" /\ loop' = "waiting" /\ lastFault' \notin Refusal)
          => wait'.schedule = "unknown" /\ wait'.rung = 1]_vars
  BY ClearedRefusalStep
<1> QED  BY <1>1, SchedulingAlways, PTL DEF Spec, ClearedRefusalProbesPromptly

(* Recovery's wait stays between the refusal schedule's rung and its        *)
(* slowest, and is the prompt track's once the refusals clear.              *)
THEOREM WaitsAlwaysMeasured == Spec => WaitsAreMeasured
BY RefusalsAlwaysBackOff, NeverParkedLong, ClearedRefusalPrompt, PTL DEF WaitsAreMeasured

-----------------------------------------------------------------------------
(* Coordination of faults, recovery and disposal, on an event loop that    *)
(* drains a turn's promise jobs before it delivers the next socket event.  *)

(* Every step keeps phase, coroutine and socket in step with each other. *)
LEMMA CoordinationStep ==
  ASSUME TurnsDrain, Coordination, [Next]_vars
  PROVE  Coordination'
<1> USE DEF faultVars, loopVars, streamVars, bootVars, Loop, Phase, TypeOK
<1>0. TypeOK' /\ AnnouncedIsCurrent'
  BY TypeStep, AnnouncedStep DEF Coordination
<1> SUFFICES LoopDecidesPhase' /\ LoopDecidesSocket'
  BY <1>0 DEF Coordination
<1>1. CASE StreamDies
  BY <1>1 DEF StreamDies, NewTurn, Bridged, OnStreamFault, Recover, EnterPhase, Coordination,
     LoopDecidesPhase, LoopDecidesSocket
<1>2. CASE FrameUndecodable
  BY <1>2 DEF FrameUndecodable, NewTurn, Bridged, OnStreamFault, Recover, EnterPhase, Coordination,
     LoopDecidesPhase, LoopDecidesSocket
<1>3. CASE WaitElapses
  BY <1>3 DEF WaitElapses, Coordination, LoopDecidesPhase, LoopDecidesSocket
<1>4. CASE WaitAborted
  BY <1>4 DEF WaitAborted, Coordination, LoopDecidesPhase, LoopDecidesSocket
<1>5. CASE VerifySucceeds
  BY <1>5 DEF VerifySucceeds, EnterPhase, Coordination, LoopDecidesPhase, LoopDecidesSocket
<1>6. CASE RequestFails
  BY <1>6 DEF RequestFails, AttemptFails, EnterLost, Coordination, LoopDecidesPhase, LoopDecidesSocket
<1>7. CASE BootstrapSucceeds
  BY <1>7 DEF BootstrapSucceeds, Teardown, Coordination, LoopDecidesPhase, LoopDecidesSocket
<1>8. CASE RelaunchBuilds
  BY <1>8 DEF RelaunchBuilds, BuildStream, Coordination, LoopDecidesPhase, LoopDecidesSocket
<1>9. CASE OpenAborted
  BY <1>9 DEF OpenAborted, Coordination, LoopDecidesPhase, LoopDecidesSocket
<1>10. CASE OnRecovered
  BY <1>10 DEF OnRecovered, EnterPhase, Coordination, LoopDecidesPhase, LoopDecidesSocket
<1>11. CASE RecoverReturns
  BY <1>11 DEF RecoverReturns, EndRecovery, Coordination, LoopDecidesPhase, LoopDecidesSocket
<1>12. CASE StreamOpens
  BY <1>12 DEF StreamOpens, Coordination, LoopDecidesPhase, LoopDecidesSocket
<1>13. CASE StreamNeverOpens
  BY <1>13 DEF StreamNeverOpens, AttemptFails, EnterLost, Coordination, LoopDecidesPhase, LoopDecidesSocket
<1>14. ASSUME NEW s \in Streams, StreamReleased(s)
       PROVE  LoopDecidesPhase' /\ LoopDecidesSocket'
  BY <1>14 DEF StreamReleased, Coordination, LoopDecidesPhase, LoopDecidesSocket
<1>15. CASE ExpectReboot
  BY <1>15 DEF ExpectReboot, Coordination, LoopDecidesPhase, LoopDecidesSocket
<1>16. CASE AnticipationExpires
  BY <1>16 DEF AnticipationExpires, Coordination, LoopDecidesPhase, LoopDecidesSocket
<1>17. CASE StoreRefreshes
  BY <1>17 DEF StoreRefreshes, Coordination, LoopDecidesPhase, LoopDecidesSocket
<1>18. CASE WatchReboots
  BY <1>18 DEF WatchReboots, Coordination, LoopDecidesPhase, LoopDecidesSocket
<1>19. CASE OnThrottle
  BY <1>19 DEF OnThrottle, Coordination, LoopDecidesPhase, LoopDecidesSocket
<1>20. CASE Dispose
  BY <1>20 DEF Dispose, Coordination, LoopDecidesPhase, LoopDecidesSocket
<1>21. CASE ControllerTurns
  BY <1>21 DEF ControllerTurns, Coordination, LoopDecidesPhase, LoopDecidesSocket
<1>22. CASE UNCHANGED vars
  BY <1>22 DEF vars, Coordination, LoopDecidesPhase, LoopDecidesSocket
<1> QED
  BY <1>1, <1>2, <1>3, <1>4, <1>5, <1>6, <1>7, <1>8, <1>9, <1>10, <1>11, <1>12,
     <1>13, <1>14, <1>15, <1>16, <1>17, <1>18, <1>19, <1>20, <1>21, <1>22
  DEF Next, RecoveryStep

LEMMA CoordinationAlways ==
  ASSUME TurnsDrain
  PROVE  Spec => []Coordination
<1>1. Init => Coordination
  BY TypeInit
  DEF Init, Coordination, AnnouncedIsCurrent, LoopDecidesPhase, LoopDecidesSocket
<1>2. Coordination /\ [Next]_vars => Coordination'
  BY CoordinationStep
<1> QED  BY <1>1, <1>2, PTL DEF Spec

(* No outage is left to itself, and no recovery outlives its outage. *)
THEOREM OutagesAreRecovered ==
  ASSUME TurnsDrain
  PROVE  Spec => []OutageIsBeingRecovered
<1>1. Coordination => OutageIsBeingRecovered
  BY DEF Coordination, LoopDecidesPhase, OutageIsBeingRecovered
<1> QED  BY <1>1, CoordinationAlways, PTL

(* A monitor that reads healthy has an open events stream behind it: no    *)
(* fault that lands while a recovery runs is lost when that recovery ends. *)
THEOREM HealthyAlwaysServed ==
  ASSUME TurnsDrain
  PROVE  Spec => []HealthyIsServed
<1>1. Coordination => HealthyIsServed
  BY DEF Coordination, LoopDecidesPhase, LoopDecidesSocket, HealthyIsServed
<1> QED  BY <1>1, CoordinationAlways, PTL

-----------------------------------------------------------------------------
(* The refinement of ConnectionView. *)

(* A step that leaves the announced state, the loss and the track alone    *)
(* and announces nothing is silent.                                        *)
LEMMA SilentStep ==
  ASSUME disposed' \in BOOLEAN, disposed => disposed', emitted' = {},
         UNCHANGED <<reported, announcedLoss, episodeTrack>>
  PROVE  View!ViewNext
BY DEF View!ViewNext, View!Silent

(* A fault of the stream opens an outage, or is silent in one. *)
LEMMA StreamFaultView ==
  ASSUME Coordination, OnStreamFault, ~disposed, UNCHANGED <<disposed, throttled>>
  PROVE  View!ViewNext
<1>1. CASE phase = "healthy"
  <2>1. reported \in View!Steady
    BY <1>1 DEF Coordination, AnnouncedIsCurrent, Derive, View!Steady
  <2>2. /\ reported' = "degraded" /\ emitted' = {} /\ announcedLoss' = announcedLoss
        /\ (episodeTrack = "known")' \in BOOLEAN
    BY <1>1 DEF OnStreamFault, EnterPhase, Recompute, Derive, Quiet
  <2>3. View!OpenOutage
    BY <2>1, <2>2 DEF View!OpenOutage
  <2> QED  BY <2>3 DEF View!ViewNext
<1>2. CASE phase # "healthy"
  <2>1. emitted' = {} /\ UNCHANGED <<reported, announcedLoss, episodeTrack>>
    BY <1>2 DEF OnStreamFault, Quiet
  <2>2. disposed' \in BOOLEAN /\ (disposed => disposed')
    BY DEF Coordination, TypeOK
  <2> QED  BY <2>1, <2>2, SilentStep
<1> QED  BY <1>1, <1>2

(* A failed attempt announces its loss once per class, or is silent once   *)
(* the monitor is disposed.                                                *)
LEMMA AttemptFailsView ==
  ASSUME Coordination, NEW c, NEW h, AttemptFails(c, h),
         UNCHANGED <<disposed, throttled>>,
         ~disposed => c \in LossClass /\ phase # "healthy"
  PROVE  View!ViewNext
<1>1. CASE disposed
  <2>1. emitted' = {} /\ UNCHANGED <<reported, announcedLoss, episodeTrack>>
    BY <1>1 DEF AttemptFails, Quiet, faultVars
  <2>2. disposed' \in BOOLEAN /\ (disposed => disposed')
    BY DEF Coordination, TypeOK
  <2> QED  BY <2>1, <2>2, SilentStep
<1>2. CASE ~disposed
  <2>1. EnterLost(c)
    BY <1>2 DEF AttemptFails
  <2>2. reported \in View!Outage
    BY <1>2 DEF Coordination, AnnouncedIsCurrent, Derive, View!Outage, TypeOK, Phase
  <2>3. /\ reported' = "lost" /\ announcedLoss' = c /\ episodeTrack' = episodeTrack
        /\ emitted' = IF c = announcedLoss THEN {} ELSE {"controllerLost"}
    BY <2>1 DEF EnterLost, Recompute, Derive
  <2>4. View!Lose(c)
    BY <1>2, <2>2, <2>3 DEF View!Lose
  <2> QED  BY <1>2, <2>4 DEF View!ViewNext
<1> QED  BY <1>1, <1>2

(* Every step of the monitor is a step of the view. *)
LEMMA ViewStep ==
  ASSUME TurnsDrain, Coordination, [Next]_vars
  PROVE  View!ViewNext \/ UNCHANGED View!viewVars
<1> USE DEF faultVars, loopVars, streamVars, bootVars, Quiet
<1>0. disposed \in BOOLEAN /\ phase \in Phase
  BY DEF Coordination, TypeOK
<1>1. CASE StreamDies
  BY <1>1, StreamFaultView DEF StreamDies, Bridged
<1>2. CASE FrameUndecodable
  BY <1>2, StreamFaultView DEF FrameUndecodable, Bridged
<1>3. CASE WaitElapses
  BY <1>3, <1>0, SilentStep DEF WaitElapses
<1>4. CASE WaitAborted
  BY <1>4, <1>0, SilentStep DEF WaitAborted
<1>5. CASE VerifySucceeds
  <2>1. ~disposed /\ reported \in {"degraded", "lost"}
    BY <1>5 DEF VerifySucceeds, Coordination, LoopDecidesPhase, AnnouncedIsCurrent, Derive
  <2>2. reported' = "reconnecting"
    BY <1>5 DEF VerifySucceeds, EnterPhase, Recompute, Derive
  <2>3. View!Reconnect
    BY <1>5, <2>1, <2>2 DEF VerifySucceeds, View!Reconnect
  <2> QED  BY <2>3 DEF View!ViewNext
<1>6. CASE RequestFails
  <2>1. PICK h \in HintsOf(controller) : AttemptFails(controller, h)
    BY <1>6 DEF RequestFails
  <2>2. ~disposed => controller \in LossClass /\ phase # "healthy"
    BY <1>6 DEF RequestFails, Coordination, TypeOK, LoopDecidesPhase
  <2> QED  BY <1>6, <2>1, <2>2, AttemptFailsView DEF RequestFails
<1>7. CASE BootstrapSucceeds
  BY <1>7, <1>0, SilentStep DEF BootstrapSucceeds
<1>8. CASE RelaunchBuilds
  BY <1>8, <1>0, SilentStep DEF RelaunchBuilds
<1>9. CASE OpenAborted
  BY <1>9, <1>0, SilentStep DEF OpenAborted
<1>10. CASE OnRecovered
  <2>1. CASE disposed
    BY <1>10, <1>0, <2>1, SilentStep DEF OnRecovered
  <2>2. CASE ~disposed
    <3>1. reported = "reconnecting"
      BY <1>10, <1>0, <2>2 DEF OnRecovered, Coordination, LoopDecidesPhase, AnnouncedIsCurrent,
         Derive, Phase
    <3>2. /\ reported' \in View!Steady /\ announcedLoss' = None
          /\ (episodeTrack = "known")' = FALSE /\ disposed' = disposed
          /\ emitted' = IF announcedLoss = None THEN {} ELSE {"controllerRecovered"}
      BY <1>10, <2>2 DEF OnRecovered, EnterPhase, Recompute, Derive, View!Steady
    <3>3. View!Recover
      BY <2>2, <3>1, <3>2 DEF View!Recover
    <3> QED  BY <3>3 DEF View!ViewNext
  <2> QED  BY <2>1, <2>2
<1>11. CASE RecoverReturns
  BY <1>11, <1>0, SilentStep DEF RecoverReturns
<1>12. CASE StreamOpens
  BY <1>12, <1>0, SilentStep DEF StreamOpens
<1>13. CASE StreamNeverOpens
  <2>1. PICK c \in LossClass : AttemptFails(c, 0)
    BY <1>13 DEF StreamNeverOpens
  <2>2. ~disposed => phase # "healthy"
    BY <1>13 DEF StreamNeverOpens, Coordination, LoopDecidesPhase
  <2> QED  BY <1>13, <2>1, <2>2, AttemptFailsView DEF StreamNeverOpens
<1>14. ASSUME NEW s \in Streams, StreamReleased(s)
       PROVE  View!ViewNext \/ UNCHANGED View!viewVars
  BY <1>14, <1>0, SilentStep DEF StreamReleased
<1>15. CASE ExpectReboot
  BY <1>15, <1>0, SilentStep DEF ExpectReboot
<1>16. CASE AnticipationExpires
  BY <1>16, <1>0, SilentStep DEF AnticipationExpires
<1>17. CASE StoreRefreshes
  BY <1>17, <1>0, SilentStep DEF StoreRefreshes
<1>18. CASE WatchReboots
  <2>1. CASE Rebooted
    <3>1. View!AnnounceReboot
      BY <1>18, <2>1 DEF WatchReboots, View!AnnounceReboot
    <3> QED  BY <3>1 DEF View!ViewNext
  <2>2. CASE ~Rebooted
    BY <1>18, <1>0, <2>2, SilentStep DEF WatchReboots
  <2> QED  BY <2>1, <2>2
<1>19. CASE OnThrottle
  <2>1. CASE disposed \/ phase # "healthy"
    <3>1. reported' = reported
      BY <1>19, <2>1 DEF OnThrottle, Recompute, Derive, Coordination, AnnouncedIsCurrent
    <3> QED  BY <1>19, <1>0, <3>1, SilentStep DEF OnThrottle
  <2>2. CASE ~disposed /\ phase = "healthy"
    <3>1. reported \in View!Steady /\ reported' \in View!Steady
      BY <1>19, <2>2 DEF OnThrottle, Recompute, Derive, Coordination, AnnouncedIsCurrent,
         View!Steady
    <3>2. View!Throttle
      BY <1>19, <2>2, <3>1 DEF OnThrottle, View!Throttle
    <3> QED  BY <3>2 DEF View!ViewNext
  <2> QED  BY <2>1, <2>2
<1>20. CASE Dispose
  BY <1>20, SilentStep DEF Dispose
<1>21. CASE ControllerTurns
  BY <1>21, <1>0, SilentStep DEF ControllerTurns
<1>22. CASE UNCHANGED vars
  BY <1>22 DEF vars, View!viewVars
<1> QED
  BY <1>1, <1>2, <1>3, <1>4, <1>5, <1>6, <1>7, <1>8, <1>9, <1>10, <1>11, <1>12,
     <1>13, <1>14, <1>15, <1>16, <1>17, <1>18, <1>19, <1>20, <1>21, <1>22
  DEF Next, RecoveryStep

(* The detailed monitor implements what its consumers are promised. *)
THEOREM MonitorImplementsView ==
  ASSUME TurnsDrain
  PROVE  Spec => ImplementsView
<1>1. Init => View!ViewInit
  <2> SUFFICES ASSUME Init
               PROVE  View!ViewInit
    OBVIOUS
  <2>1. reported \in View!Steady /\ (episodeTrack = "known") = FALSE
    BY DEF Init, Derive, View!Steady
  <2> QED  BY <2>1 DEF Init, View!ViewInit
<1>2. Coordination /\ [Next]_vars => [View!ViewNext]_(View!viewVars)
  BY ViewStep
<1> QED  BY <1>1, <1>2, CoordinationAlways, PTL DEF Spec, ImplementsView, View!ViewSpec
=============================================================================
