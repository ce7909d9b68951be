-------------------------- MODULE ConnectionMonitor --------------------------
(***************************************************************************)
(* The connection-state coordinator of src/client/connection.ts: the       *)
(* recovery phase machine, the replaceable events stream it owns, the      *)
(* recovery schedules, reboot anticipation and detection, and disposal.    *)
(* The module begins where ProtectClient.connect() returns: the initial    *)
(* stream is open.  An action is the code one event loop turn runs, up to  *)
(* the await it parks on.                                                  *)
(***************************************************************************)
EXTENDS Integers, Sequences

CONSTANTS
  Streams,         (* identities of the EventStream objects the factory builds   *)
  KnownLadder,     (* PROTECT_RECOVERY_BACKOFF_KNOWN_MS                          *)
  UnknownLadder,   (* PROTECT_RECOVERY_BACKOFF_UNKNOWN_MS                        *)
  NetworkSteady,   (* PROTECT_RECOVERY_STEADY_INTERVAL_MS                        *)
  RefusalLadder,   (* PROTECT_RECOVERY_REFUSAL_SCHEDULE_MS.backoff               *)
  RefusalSteady,   (* PROTECT_RECOVERY_REFUSAL_SCHEDULE_MS.steady                *)
  Hints,           (* the waits a Retry-After may ask for, 0 when it asks none   *)
  BootTimes,       (* the values nvr.upSince may report                          *)
  RebootThreshold, (* PROTECT_REBOOT_DETECTION_THRESHOLD                         *)
  TurnsDrain,      (* whether the promise jobs of one turn drain before the next
                      socket event is delivered, which is what the event loop
                      guarantees unless a socket fires two events in one turn    *)
  None             (* no fault, no announced loss                                *)

Ladders == {KnownLadder, UnknownLadder, RefusalLadder}

ASSUME StreamsAssumption == Streams # {}
ASSUME ScheduleAssumption ==
  /\ \A l \in Ladders : l \in Seq(Nat) /\ \A i \in 1..Len(l) : l[i] <= RefusalSteady
  /\ NetworkSteady \in Nat /\ RefusalSteady \in Nat
  /\ NetworkSteady <= RefusalSteady
ASSUME HintAssumption == Hints \subseteq Nat /\ 0 \in Hints
ASSUME RebootAssumption == BootTimes \subseteq Int /\ RebootThreshold \in Nat
ASSUME TurnsAssumption == TurnsDrain \in BOOLEAN

(* lossClassOf: what clears a loss. *)
LossClass == {"mustFix", "rateLimited", "refused", "selfHealing"}
Refusal == {"rateLimited", "refused"}
Fault == LossClass \cup {"stream"}

ASSUME NoneAssumption == None \notin Fault

Phase == {"healthy", "degraded", "reconnecting", "lost"}
Track == {"known", "unknown"}
Schedule == Track \cup {"refusal"}

(* Where the recovery coroutine (#recover and #attemptRecovery) is parked; *)
(* "idle" is #recovering = false.  "woken", "opened" and "returning" are   *)
(* the promise jobs between an event and the code that answers it.         *)
Loop == {"idle", "waiting", "woken", "verifying", "bootstrapping", "closing",
         "opening", "opened", "returning"}

VARIABLES
  controller,    (* "up", or the class of the failure its answers have          *)
  throttled,     (* the transport breaker's verdict, isThrottled                *)
  phase,         (* #phase                                                      *)
  announcedLoss, (* #announcedLoss                                              *)
  episodeTrack,  (* #episodeTrack                                               *)
  lastFault,     (* #lastFault, by its class                                    *)
  reported,      (* #reportedState                                              *)
  anticipated,   (* whether #rebootAnticipatedAt is set and inside its window   *)
  loop,          (* the recovery coroutine                                      *)
  network,       (* #recoveryDelays' network: the track its network waits walk  *)
  wait,          (* the wait it yielded last: its schedule, rung and delay      *)
  refusals,      (* history: the attempts in a row that ended in a refusal      *)
  stream,        (* ManagedEventStream.#stream                                  *)
  sockets,       (* what each stream's socket is doing                          *)
  upSince,       (* the store's nvr.upSince                                     *)
  lastUpSince,   (* #lastUpSince                                                *)
  disposed,      (* #controller.signal.aborted, and the stream owner's #disposed *)
  emitted        (* the lifecycle events the last step announced                *)

faultVars == <<phase, announcedLoss, episodeTrack, lastFault, reported>>
loopVars == <<loop, network, wait, refusals>>
streamVars == <<stream, sockets>>
bootVars == <<upSince, lastUpSince>>
vars == <<controller, throttled, faultVars, anticipated, loopVars, streamVars,
          bootVars, disposed, emitted>>

Quiet == emitted' = {}

-----------------------------------------------------------------------------
(* The derived state and its announcement. *)

Derive(isThrottled, ph) == IF isThrottled /\ ph = "healthy" THEN "throttled" ELSE ph

(* #recompute once the phase or the verdict moved: the cache of the        *)
(* announced state follows the derived one.                                *)
Recompute(isThrottled, ph) == reported' = Derive(isThrottled, ph)

EnterPhase(p) == phase' = p /\ Recompute(throttled, p)

(* Mutant: every failed attempt announces the loss again. *)
EnterLostRepeats(c) ==
  /\ lastFault' = c
  /\ phase' = "lost"
  /\ announcedLoss' = c
  /\ Recompute(throttled, "lost")
  /\ emitted' = {"controllerLost"}
  /\ UNCHANGED episodeTrack

(* #enterLost for a fault of class c. *)
EnterLost(c) ==
  /\ lastFault' = c
  /\ phase' = "lost"
  /\ announcedLoss' = c
  /\ Recompute(throttled, "lost")
  /\ emitted' = IF c = announcedLoss THEN {} ELSE {"controllerLost"}
  /\ UNCHANGED episodeTrack

-----------------------------------------------------------------------------
(* The recovery schedules. *)

Ladder(s) == CASE s = "known" -> KnownLadder
               [] s = "unknown" -> UnknownLadder
               [] s = "refusal" -> RefusalLadder

SteadyOf(s) == IF s = "refusal" THEN RefusalSteady ELSE NetworkSteady

(* chosen.backoff[rung] ?? chosen.steady, rungs counted from 1. *)
Rung(s, r) == IF r <= Len(Ladder(s)) THEN Ladder(s)[r] ELSE SteadyOf(s)

Larger(a, b) == IF a > b THEN a ELSE b
Smaller(a, b) == IF a < b THEN a ELSE b

(* A rung past the ladder reads the steady floor, so rungs saturate there. *)
NextRung(s, r) == Smaller(r + 1, Len(Ladder(s)) + 1)

(* recoveryHint: only an answer that carries headers can ask for time. *)
HintsOf(c) == IF c \in {"rateLimited", "selfHealing"} THEN Hints ELSE {0}
HintUncapped(h) == h  (* mutant: the cap is dropped *)
Hint(h) == Smaller(h, RefusalSteady)

(* The wait a pull chooses; and two mutants of the pull: a hinted refusal  *)
(* restarts its ladder, and a cleared refusal resumes the episode's track. *)
WaitOf(chosen, rung, h) ==
  [schedule |-> chosen, rung |-> rung, delay |-> Larger(Rung(chosen, rung), Hint(h))]

PullHintRestarts(f, h, net, last) ==
  LET chosen == IF f \in Refusal THEN "refusal" ELSE net
      rung   == IF chosen = last.schedule /\ h = 0 THEN NextRung(chosen, last.rung) ELSE 1
  IN  network' = net /\ wait' = WaitOf(chosen, rung, h)

PullResumesTrack(f, h, net, last) ==
  LET chosen == IF f \in Refusal THEN "refusal" ELSE net
      rung   == IF chosen = last.schedule THEN NextRung(chosen, last.rung) ELSE 1
  IN  network' = net /\ wait' = WaitOf(chosen, rung, h)

(* One pull of #recoveryDelays: the fault f on record and the hint h of its *)
(* answer choose the next wait; last is the wait yielded before it.        *)
PullFrom(f, h, net, last) ==
  LET refused == f \in Refusal
      track   == IF ~refused /\ last.schedule = "refusal" THEN "unknown" ELSE net
      chosen  == IF refused THEN "refusal" ELSE track
      rung    == IF chosen = last.schedule THEN NextRung(chosen, last.rung) ELSE 1
  IN  /\ network' = track
      /\ wait' = WaitOf(chosen, rung, h)

NoWait == [schedule |-> "none", rung |-> 0, delay |-> 0]

(* #recover: nothing while a recovery runs, else the episode's first pull. *)
Recover(f, track) ==
  IF loop # "idle" THEN UNCHANGED loopVars
  ELSE /\ loop' = "waiting"
       /\ PullFrom(f, 0, track, NoWait)
       /\ UNCHANGED refusals

(* The coroutine ends: #recovering is cleared and the generator discarded. *)
EndRecovery ==
  /\ loop' = "idle"
  /\ network' = "unknown"
  /\ wait' = NoWait
  /\ refusals' = 0

-----------------------------------------------------------------------------
(* Faults of the events stream. *)

(* Whether the bridges of the current stream are attached: its teardown    *)
(* detaches them first.                                                    *)
Bridged == ~disposed /\ loop # "closing"

(* A socket event is a turn of its own, unless turns do not drain. *)
NewTurn == TurnsDrain => loop \notin {"woken", "opened", "returning"}

(* #consumeRecoveryTrack *)
ConsumeRecoveryTrack == IF anticipated THEN "known" ELSE "unknown"

(* #onStreamFault *)
OnStreamFault ==
  /\ lastFault' = "stream"
  /\ IF phase = "healthy"
     THEN /\ episodeTrack' = ConsumeRecoveryTrack
          /\ anticipated' = FALSE
          /\ EnterPhase("degraded")
     ELSE UNCHANGED <<phase, episodeTrack, anticipated, reported>>
  /\ Recover("stream", episodeTrack')
  /\ Quiet
  /\ UNCHANGED announcedLoss

(* An open stream reports an unsolicited termination: a stall, a socket    *)
(* error, or a close by the peer.                                          *)
StreamDies ==
  /\ Bridged /\ NewTurn
  /\ sockets[stream] = "open"
  /\ sockets' = [sockets EXCEPT ![stream] = "dead"]
  /\ OnStreamFault
  /\ UNCHANGED <<controller, throttled, stream, bootVars, disposed>>

(* A frame that cannot be decoded is reported on the same rail and leaves  *)
(* the socket open.                                                        *)
FrameUndecodable ==
  /\ Bridged /\ NewTurn
  /\ sockets[stream] = "open"
  /\ OnStreamFault
  /\ UNCHANGED <<controller, throttled, streamVars, bootVars, disposed>>

-----------------------------------------------------------------------------
(* The recovery coroutine. *)

(* The scheduled delay elapses and the probe is dispatched. *)
WaitElapses ==
  /\ loop = "waiting" /\ ~disposed
  /\ loop' = "verifying"
  /\ Quiet
  /\ UNCHANGED <<controller, throttled, faultVars, anticipated, network, wait,
                 refusals, streamVars, bootVars, disposed>>

(* Mutant: any aborted wait ends recovery, a wake like a disposal. *)
WakeEndsRecovery ==
  /\ loop = "woken"
  /\ EndRecovery
  /\ Quiet
  /\ UNCHANGED <<controller, throttled, faultVars, anticipated, streamVars,
                 bootVars, disposed>>

(* The wait was aborted: a disposal ends recovery, a wake probes now. *)
WaitAborted ==
  /\ loop = "woken"
  /\ IF disposed THEN EndRecovery ELSE loop' = "verifying" /\ UNCHANGED <<network, wait, refusals>>
  /\ Quiet
  /\ UNCHANGED <<controller, throttled, faultVars, anticipated, streamVars,
                 bootVars, disposed>>

(* Mutant: a fault that a person must fix ends recovery. *)
AttemptGivesUp(c, h) ==
  IF disposed
  THEN EndRecovery /\ Quiet /\ UNCHANGED faultVars
  ELSE /\ EnterLost(c)
       /\ IF c = "mustFix" THEN EndRecovery
          ELSE /\ loop' = "waiting"
               /\ PullFrom(c, h, network, wait)
               /\ refusals' = IF c \in Refusal THEN NextRung("refusal", refusals) ELSE 0

(* The attempt's catch, then the loop's next pull: any step of an attempt  *)
(* that fails concludes the connection lost, unless a disposal ended it.   *)
AttemptFails(c, h) ==
  IF disposed
  THEN /\ EndRecovery
       /\ Quiet
       /\ UNCHANGED faultVars
  ELSE /\ EnterLost(c)
       /\ loop' = "waiting"
       /\ PullFrom(c, h, network, wait)
       /\ refusals' = IF c \in Refusal THEN NextRung("refusal", refusals) ELSE 0

(* The probe is answered: the controller serves it. *)
VerifySucceeds ==
  /\ loop = "verifying" /\ ~disposed
  /\ controller = "up"
  /\ EnterPhase("reconnecting")
  /\ loop' = "bootstrapping"
  /\ Quiet
  /\ UNCHANGED <<controller, throttled, announcedLoss, episodeTrack, lastFault,
                 anticipated, network, wait, refusals, streamVars, bootVars,
                 disposed>>

(* The probe, or the bootstrap fetch, fails as the controller answers it,  *)
(* or is aborted by the disposal's signal.                                 *)
RequestFails ==
  /\ loop \in {"verifying", "bootstrapping"}
  /\ disposed \/ controller # "up"
  /\ \E h \in HintsOf(controller) : AttemptFails(controller, h)
  /\ UNCHANGED <<controller, throttled, anticipated, streamVars, bootVars, disposed>>

(* ManagedEventStream.#teardown: the bridges come off, then the stream is  *)
(* disposed and its release awaited.                                       *)
Teardown(status) == IF status = "gone" THEN "gone" ELSE "closing"

(* The bootstrap fetch dispatches its snapshot, and the relaunch begins by *)
(* tearing the current stream down.                                        *)
BootstrapSucceeds ==
  /\ loop = "bootstrapping" /\ ~disposed
  /\ controller = "up"
  /\ upSince' \in BootTimes
  /\ loop' = "closing"
  /\ sockets' = [sockets EXCEPT ![stream] = Teardown(@)]
  /\ Quiet
  /\ UNCHANGED <<controller, throttled, faultVars, anticipated, network, wait,
                 refusals, stream, lastUpSince, disposed>>

(* A disposed stream's connection is released. *)
StreamReleased(s) ==
  /\ sockets[s] = "closing"
  /\ sockets' = [sockets EXCEPT ![s] = "gone"]
  /\ Quiet
  /\ UNCHANGED <<controller, throttled, faultVars, anticipated, loopVars, stream,
                 bootVars, disposed>>

(* A fresh stream is built and begins to connect; and three mutants of the *)
(* relaunch: it does not await the teardown, does not read #disposed after *)
(* it, or does not await opened.                                           *)
BuildStream ==
  \E s \in Streams :
    /\ sockets[s] = "gone"
    /\ stream' = s
    /\ sockets' = [sockets EXCEPT ![s] = "connecting"]

RelaunchRest ==
  /\ Quiet
  /\ UNCHANGED <<controller, throttled, faultVars, anticipated, network, wait,
                 refusals, bootVars, disposed>>

RelaunchBeforeTeardown ==
  /\ loop = "closing" /\ ~disposed
  /\ BuildStream /\ loop' = "opening" /\ RelaunchRest

RelaunchAfterDisposal ==
  /\ loop = "closing" /\ sockets[stream] = "gone"
  /\ BuildStream /\ loop' = "opening" /\ RelaunchRest

RelaunchUnopened ==
  /\ loop = "closing" /\ sockets[stream] = "gone" /\ ~disposed
  /\ BuildStream /\ loop' = "opened" /\ RelaunchRest

(* relaunch after its teardown: a disposed owner builds nothing, and the   *)
(* attempt ends; otherwise the fresh stream begins to connect.             *)
RelaunchBuilds ==
  /\ loop = "closing" /\ sockets[stream] = "gone"
  /\ IF disposed
     THEN EndRecovery /\ UNCHANGED streamVars
     ELSE /\ BuildStream
          /\ loop' = "opening"
          /\ UNCHANGED <<network, wait, refusals>>
  /\ Quiet
  /\ UNCHANGED <<controller, throttled, faultVars, anticipated, bootVars, disposed>>

(* The fresh stream opens, which resolves opened; the code awaiting it     *)
(* runs as promise jobs after.                                             *)
StreamOpens ==
  /\ loop = "opening" /\ sockets[stream] = "connecting"
  /\ controller = "up"
  /\ sockets' = [sockets EXCEPT ![stream] = "open"]
  /\ loop' = "opened"
  /\ Quiet
  /\ UNCHANGED <<controller, throttled, faultVars, anticipated, network, wait,
                 refusals, stream, bootVars, disposed>>

(* The fresh stream fails before it opens: only opened rejects.  A socket's *)
(* failure carries no answer, so it is no refusal and asks for no time.    *)
StreamNeverOpens ==
  /\ loop = "opening" /\ sockets[stream] = "connecting"
  /\ sockets' = [sockets EXCEPT ![stream] = "dead"]
  /\ \E c \in LossClass \ Refusal : AttemptFails(c, 0)
  /\ UNCHANGED <<controller, throttled, anticipated, stream, bootVars, disposed>>

(* A disposal closed the stream the relaunch awaits, so opened rejects. *)
OpenAborted ==
  /\ loop = "opening" /\ disposed /\ sockets[stream] \in {"closing", "gone"}
  /\ EndRecovery
  /\ Quiet
  /\ UNCHANGED <<controller, throttled, faultVars, anticipated, streamVars,
                 bootVars, disposed>>

(* #attemptRecovery past the relaunch: #onRecovered, unless disposed. *)
OnRecovered ==
  /\ loop = "opened"
  /\ loop' = "returning"
  /\ IF disposed
     THEN Quiet /\ UNCHANGED faultVars
     ELSE /\ announcedLoss' = None
          /\ episodeTrack' = "unknown"
          /\ lastFault' = None
          /\ EnterPhase("healthy")
          /\ emitted' = IF announcedLoss = None THEN {} ELSE {"controllerRecovered"}
  /\ UNCHANGED <<controller, throttled, anticipated, network, wait, refusals,
                 streamVars, bootVars, disposed>>

(* #recover's return and its finally. *)
RecoverReturns ==
  /\ loop = "returning"
  /\ EndRecovery
  /\ Quiet
  /\ UNCHANGED <<controller, throttled, faultVars, anticipated, streamVars,
                 bootVars, disposed>>

-----------------------------------------------------------------------------
(* Reboots. *)

(* expectReboot, called once the controller accepted a reboot. *)
ExpectReboot ==
  /\ ~disposed
  /\ anticipated' = TRUE
  /\ Quiet
  /\ UNCHANGED <<controller, throttled, faultVars, loopVars, streamVars, bootVars,
                 disposed>>

(* The anticipation window passes. *)
AnticipationExpires ==
  /\ anticipated
  /\ anticipated' = FALSE
  /\ Quiet
  /\ UNCHANGED <<controller, throttled, faultVars, loopVars, streamVars, bootVars,
                 disposed>>

(* The store's periodic refresh dispatches a bootstrap. *)
StoreRefreshes ==
  /\ ~disposed /\ controller = "up"
  /\ upSince' \in BootTimes
  /\ Quiet
  /\ UNCHANGED <<controller, throttled, faultVars, anticipated, loopVars,
                 streamVars, lastUpSince, disposed>>

Apart(a, b) == IF a > b THEN a - b ELSE b - a
Rebooted == Apart(upSince, lastUpSince) >= RebootThreshold

(* #watchReboots: the observed boot time is always recorded; a move beyond *)
(* the noise floor wakes a parked recovery and announces the reboot.  A    *)
(* closed observer drains what it has queued, so a move observed before a  *)
(* disposal is announced after it.                                         *)
WatchReboots ==
  /\ upSince # lastUpSince
  /\ lastUpSince' = upSince
  /\ IF Rebooted
     THEN /\ loop' = IF loop = "waiting" THEN "woken" ELSE loop
          /\ emitted' = {"controllerRebooted"}
     ELSE Quiet /\ UNCHANGED loop
  /\ UNCHANGED <<controller, throttled, faultVars, anticipated, network, wait,
                 refusals, streamVars, upSince, disposed>>

-----------------------------------------------------------------------------
(* The breaker's verdict, disposal, and the controller. *)

(* Mutant: the rails fire before the verdict moves. *)
OnThrottleEarly ==
  /\ throttled' = ~throttled
  /\ IF disposed THEN UNCHANGED reported ELSE Recompute(throttled, phase)
  /\ Quiet
  /\ UNCHANGED <<controller, phase, announcedLoss, episodeTrack, lastFault,
                 anticipated, loopVars, streamVars, bootVars, disposed>>

(* #onThrottle: the verdict moved and its rail fired; a disposed monitor   *)
(* no longer listens.                                                      *)
OnThrottle ==
  /\ throttled' = ~throttled
  /\ IF disposed THEN UNCHANGED reported ELSE Recompute(~throttled, phase)
  /\ Quiet
  /\ UNCHANGED <<controller, phase, announcedLoss, episodeTrack, lastFault,
                 anticipated, loopVars, streamVars, bootVars, disposed>>

(* asyncDispose: the lifetime signal aborts a parked wait, and the stream  *)
(* owner is disposed.                                                      *)
Dispose ==
  /\ ~disposed
  /\ disposed' = TRUE
  /\ loop' = IF loop = "waiting" THEN "woken" ELSE loop
  /\ sockets' = [sockets EXCEPT ![stream] = Teardown(@)]
  /\ Quiet
  /\ UNCHANGED <<controller, throttled, faultVars, anticipated, network, wait,
                 refusals, stream, bootVars>>

(* The controller comes back, goes away, or begins or stops refusing. *)
ControllerTurns ==
  /\ controller' \in (LossClass \cup {"up"}) \ {controller}
  /\ Quiet
  /\ UNCHANGED <<throttled, faultVars, anticipated, loopVars, streamVars, bootVars,
                 disposed>>

-----------------------------------------------------------------------------
Init ==
  /\ controller = "up"
  /\ throttled \in BOOLEAN
  /\ phase = "healthy"
  /\ announcedLoss = None
  /\ episodeTrack = "unknown"
  /\ lastFault = None
  /\ reported = Derive(throttled, phase)
  /\ anticipated = FALSE
  /\ loop = "idle"
  /\ network = "unknown"
  /\ wait = NoWait
  /\ refusals = 0
  /\ stream \in Streams
  /\ sockets = [s \in Streams |-> IF s = stream THEN "open" ELSE "gone"]
  /\ upSince \in BootTimes
  /\ lastUpSince = upSince
  /\ disposed = FALSE
  /\ emitted = {}

(* The steps of the recovery coroutine and of what it awaits. *)
RecoveryStep ==
  \/ WaitElapses \/ WaitAborted
  \/ VerifySucceeds \/ RequestFails \/ BootstrapSucceeds
  \/ RelaunchBuilds \/ OpenAborted
  \/ OnRecovered \/ RecoverReturns

Next ==
  \/ StreamDies \/ FrameUndecodable
  \/ RecoveryStep
  \/ StreamOpens \/ StreamNeverOpens
  \/ \E s \in Streams : StreamReleased(s)
  \/ ExpectReboot \/ AnticipationExpires \/ StoreRefreshes \/ WatchReboots
  \/ OnThrottle \/ Dispose \/ ControllerTurns

(* Timers fire, requests settle (each carries a deadline), promise jobs    *)
(* run, a disposed stream's release settles, and a fresh stream whose      *)
(* controller stays up opens.                                              *)
Fairness ==
  /\ WF_vars(RecoveryStep)
  /\ SF_vars(StreamOpens)
  /\ WF_vars(StreamOpens \/ StreamNeverOpens)
  /\ \A s \in Streams : WF_vars(StreamReleased(s))

Spec == Init /\ [][Next]_vars
FairSpec == Spec /\ Fairness

-----------------------------------------------------------------------------
(* The type invariant. *)
Wait == [schedule : Schedule \cup {"none"}, rung : Nat, delay : Nat]

TypeOK ==
  /\ controller \in LossClass \cup {"up"}
  /\ throttled \in BOOLEAN
  /\ phase \in Phase
  /\ announcedLoss \in LossClass \cup {None}
  /\ episodeTrack \in Track
  /\ lastFault \in Fault \cup {None}
  /\ reported \in Phase \cup {"throttled"}
  /\ anticipated \in BOOLEAN
  /\ loop \in Loop
  /\ network \in Track
  /\ wait \in Wait
  /\ refusals \in 0..(Len(RefusalLadder) + 1)
  /\ stream \in Streams
  /\ sockets \in [Streams -> {"gone", "connecting", "open", "dead", "closing"}]
  /\ upSince \in BootTimes /\ lastUpSince \in BootTimes
  /\ disposed \in BOOLEAN
  /\ emitted \subseteq {"controllerLost", "controllerRebooted", "controllerRecovered"}

(* No outage is left to itself and no recovery outlives its outage: until  *)
(* disposal, the recovery coroutine runs exactly while the phase is not    *)
(* healthy (its return after onRecovered apart).                           *)
OutageIsBeingRecovered ==
  ~disposed => (phase # "healthy" <=> loop \notin {"idle", "returning"})

(* A monitor that reads healthy has an open events stream behind it: no    *)
(* fault that lands while a recovery runs is lost when that recovery ends. *)
HealthyIsServed == ~disposed /\ phase = "healthy" => sockets[stream] = "open"

(* The cache that suppresses repeated stateChanged edges never hides one:  *)
(* what was announced last is what state reads now, whatever order phase   *)
(* changes and breaker verdicts arrived in.                                *)
AnnouncedIsCurrent == ~disposed => reported = Derive(throttled, phase)

(* A connection with no outage in progress carries nothing of an earlier   *)
(* one: no fault, no loss, no reboot track.                                *)
SteadyCarriesNothing ==
  ~disposed /\ phase = "healthy" =>
    lastFault = None /\ announcedLoss = None /\ episodeTrack = "unknown"

(* A relaunch or a disposal never orphans a socket: every stream but the   *)
(* current one is fully released.                                          *)
NoStreamOrphaned == \A s \in Streams : sockets[s] # "gone" => s = stream

(* After k refusals in a row the next probe waits at least the refusal     *)
(* schedule's k-th rung, whatever faults interleaved and whatever rung a   *)
(* network schedule stood on before.                                       *)
RefusalsBackOff ==
  loop = "waiting" /\ refusals > 0 => wait.delay >= Rung("refusal", refusals)

(* No answer's Retry-After and no schedule parks recovery past the refusal *)
(* schedule's steady interval.                                             *)
NeverParkedPastSlowest == wait.delay <= RefusalSteady

(* A refusal that gives way to a network fault restarts the prompt track   *)
(* at its first rung, even in an episode that opened as a known reboot.    *)
ClearedRefusalProbesPromptly ==
  [][ (refusals > 0 /\ loop # "waiting" /\ loop' = "waiting" /\ lastFault' \notin Refusal)
      => wait'.schedule = "unknown" /\ wait'.rung = 1 ]_vars

(* Waits are neither too short nor too long: a refusing controller is never  *)
(* probed faster than its schedule, no answer parks recovery past its        *)
(* slowest rung, and a controller that stopped refusing is not made to wait  *)
(* as one that still does.                                                 *)
WaitsAreMeasured ==
  /\ [](RefusalsBackOff /\ NeverParkedPastSlowest)
  /\ ClearedRefusalProbesPromptly

(* The detailed monitor implements what its consumers are promised. *)
View == INSTANCE ConnectionView WITH
          state <- reported, loss <- announcedLoss,
          rebooting <- (episodeTrack = "known"), over <- disposed
ImplementsView == View!ViewSpec

(* A controller that stays up is reconnected, and one that does not is       *)
(* probed again and again until disposal.                                    *)
RecoversOnceServed ==
  <>[](controller = "up" /\ ~disposed) => []<>(phase = "healthy")
KeepsProbing == []<>(disposed \/ phase = "healthy" \/ loop = "verifying")

(* Recovery never gives up, whatever a probe failed with and however often a *)
(* wake aborted its wait: it goes on probing, and ends in a reconnection of  *)
(* a controller that stays up.                                               *)
RecoveryNeverGivesUp == RecoversOnceServed /\ KeepsProbing

(* Disposal ends the recovery and releases every socket, whichever step of *)
(* a recovery it landed in.                                                *)
DisposalReleasesAll ==
  disposed ~> (loop = "idle" /\ \A s \in Streams : sockets[s] = "gone")
=============================================================================
