------------------------- MODULE LivestreamRecovery -------------------------
(***************************************************************************)
(* The managed session of src/client/livestream-pool.ts: one shared stream *)
(* over replaceable underlying sessions, its recovery episodes, its media  *)
(* watchdog, the init it caches and the markers it fans out.  It begins    *)
(* where the pool creates it, with no subscriber yet, and ends with its    *)
(* teardown: a later subscriber is given a fresh one.  An action is the    *)
(* code one event loop turn runs up to the await it parks on; the promise  *)
(* jobs a turn leaves run before the next socket event or timer (NewTurn). *)
(***************************************************************************)
EXTENDS Integers, Sequences, FiniteSets

CONSTANTS
  Subscribers,      (* the subscriptions that may join the stream              *)
  Formats,          (* the streams an init can describe (codec and description) *)
  Urgencies,        (* what an urgency closure may return, Never among them    *)
  Never,            (* Infinity                                                *)
  EstablishCurve,   (* PROTECT_LIVESTREAM_ESTABLISH_BACKOFF_MS                 *)
  EstablishDeadline, (* PROTECT_LIVESTREAM_ESTABLISH_DEADLINE_MS               *)
  RecoveryCurve,    (* PROTECT_LIVESTREAM_RECOVERY_BACKOFF_MS                  *)
  DefaultTolerance, (* PROTECT_LIVESTREAM_DEFAULT_TOLERANCE_MS                 *)
  AwaitMargin,      (* PROTECT_LIVESTREAM_AWAIT_MARGIN_MS                      *)
  AwaitMin,         (* PROTECT_LIVESTREAM_AWAIT_MIN_MS                         *)
  AwaitMax,         (* PROTECT_LIVESTREAM_AWAIT_MAX_MS                         *)
  StallDefault,     (* PROTECT_LIVESTREAM_STALL_DEFAULT_MS                     *)
  StallFloor,       (* PROTECT_LIVESTREAM_STALL_FLOOR_MS                       *)
  StallPoll,        (* PROTECT_LIVESTREAM_STALL_POLL_MS                        *)
  CustomPolicy,     (* whether an injected policy may also wait or give up     *)
  UrgencyThrows,    (* whether an urgency closure may throw                    *)
  MediaFirst,       (* whether a session may emit media ahead of its init      *)
  None              (* no init, no error, no outcome                           *)

ASSUME CurvesAssumption ==
  /\ EstablishCurve \in Seq(Nat) /\ EstablishCurve # <<>>
  /\ RecoveryCurve \in Seq(Nat) /\ RecoveryCurve # <<>>
ASSUME TimesAssumption ==
  /\ {EstablishDeadline, DefaultTolerance, AwaitMargin, AwaitMin, AwaitMax,
      StallDefault, StallFloor, StallPoll, Never} \subseteq Nat
  /\ AwaitMin <= AwaitMax /\ AwaitMax < Never
  /\ StallDefault < Never /\ StallFloor < Never
ASSUME UrgenciesAssumption ==
  IsFiniteSet(Urgencies) /\ Urgencies \subseteq 0..Never /\ Never \in Urgencies
ASSUME FormatsAssumption ==
  None \notin Formats \cup {"elapsed", "recovered", "reassess", "aborted", "unavailable", "init", "media", "resync"}
ASSUME FlagsAssumption == {CustomPolicy, UrgencyThrows, MediaFirst} \subseteq BOOLEAN

VARIABLES
  state,       (* #state                                                       *)
  phase,       (* #phase                                                       *)
  attempts,    (* #attempts, which saturates where both curves do              *)
  elapsed,     (* the windows an establishing episode has waited out           *)
  loop,        (* #runEpisode: where it is, and the window it awaits           *)
  session,     (* the current underlying session: none, open or closed         *)
  sends,       (* history: the last init the current session sent              *)
  install,     (* #install                                                     *)
  cache,       (* #initSegmentCache                                            *)
  told,        (* history: the last init given to the subscribers              *)
  fanned,      (* history: whether media was ever fanned out, and by which
                  session: "none", "before" (an earlier one) or "current"      *)
  out,         (* what the last step fanned out                                *)
  subscribers, (* #subscribers                                                 *)
  urgency,     (* what each subscriber's closure returns now                   *)
  watching,    (* whether the watchdog loop runs                               *)
  silence,     (* the time since #lastMediaAt, in whole polls                  *)
  established, (* the establishment latch: pending, yes or no                  *)
  lastError    (* #lastError: the terminal the subscribers throw               *)

episodeVars == <<phase, attempts, elapsed>>
installVars == <<session, sends, install, fanned>>
initVars == <<cache, told>>
consumerVars == <<subscribers, urgency>>
endVars == <<established, lastError>>
vars == <<state, episodeVars, loop, installVars, initVars, out, consumerVars,
          watching, silence, endVars>>

Larger(a, b) == IF a > b THEN a ELSE b
Smaller(a, b) == IF a < b THEN a ELSE b
Least(S) == CHOOSE x \in S : \A y \in S : x <= y
Greatest(S) == CHOOSE x \in S : \A y \in S : x >= y

(* A subscription without an urgency closure; no number a closure returns. *)
Undeclared == None

NewTurn == loop.at # "settled"
Fan(what) == out' = what

-----------------------------------------------------------------------------
(* What the subscribers' urgencies come to. *)

(* The least of the subscribers' contributions, Never when there is none;  *)
(* undeclared is what a subscriber without a closure contributes.          *)
Aggregate(undeclared) ==
  Least({Never} \cup {IF urgency[s] = Undeclared THEN undeclared ELSE urgency[s]
                        : s \in subscribers})

(* #aggregateTolerance *)
Tolerance == Aggregate(Never)

(* #detectionThresholdMs *)
DetectionThreshold ==
  LET least == Aggregate(StallDefault)
  IN  IF least = Never THEN Never ELSE Larger(least, StallFloor)

(* Whether reading the closures can throw. *)
ReadingThrows == UrgencyThrows /\ \E s \in subscribers : urgency[s] # Undeclared

-----------------------------------------------------------------------------
(* The recovery policy. *)

Stage(curve) == curve[Smaller(attempts + 1, Len(curve))]

(* The ceiling the most urgent subscriber's headroom puts on a window. *)
Ceiling ==
  LET headroom == IF Tolerance = Never THEN DefaultTolerance
                  ELSE Larger(Tolerance - AwaitMargin, 0)
  IN  Larger(Smaller(headroom, AwaitMax), AwaitMin)

Reconnect(awaited) == [kind |-> "reconnect", window |-> awaited]
GiveUp == [kind |-> "giveUp", window |-> 0]
Wait(awaited) == [kind |-> "wait", window |-> awaited]

(* defaultLivestreamRecoveryPolicy *)
DefaultDecision ==
  IF phase = "establishing"
  THEN IF elapsed >= EstablishDeadline THEN GiveUp ELSE Reconnect(Stage(EstablishCurve))
  ELSE Reconnect(Smaller(Larger(Stage(RecoveryCurve), AwaitMin), Ceiling))

(* The decisions a consultation may come to; a policy or a closure that    *)
(* throws is a give-up.                                                    *)
Decisions ==
  {DefaultDecision}
    \cup (IF CustomPolicy THEN {Wait(AwaitMin), GiveUp} ELSE {})
    \cup (IF ReadingThrows THEN {GiveUp} ELSE {})

-----------------------------------------------------------------------------
(* The recovery loop. *)

NoEpisode == [at |-> "none", kind |-> None, window |-> 0, outcome |-> None]
Parked(d) == [at |-> "parked", kind |-> d.kind, window |-> d.window, outcome |-> None]

(* #settle: the window a loop is parked on is settled once. *)
Settled(outcome) ==
  IF loop.at = "parked" THEN [loop EXCEPT !.at = "settled", !.outcome = outcome] ELSE loop

StateOf(p) == IF p = "establishing" THEN "connecting" ELSE "recovering"

(* Mutant: the marker is armed over any earlier session. *)
InstallMarksAnyPrior ==
  /\ session' = "open" /\ sends' = None
  /\ install' = [first |-> TRUE, media |-> TRUE, disc |-> session # "none"]
  /\ fanned' = IF fanned = "none" THEN "none" ELSE "before"
  /\ watching' = FALSE

(* Mutant: only the first install arms the media latch. *)
InstallArmsOnce ==
  /\ session' = "open" /\ sends' = None
  /\ install' = [first |-> TRUE, media |-> fanned = "none", disc |-> phase' = "recovering"]
  /\ fanned' = IF fanned = "none" THEN "none" ELSE "before"
  /\ watching' = FALSE

(* #installSession *)
InstallSession ==
  /\ session' = "open" /\ sends' = None
  /\ install' = [first |-> TRUE, media |-> TRUE, disc |-> phase' = "recovering"]
  /\ fanned' = IF fanned = "none" THEN "none" ELSE "before"
  /\ watching' = FALSE

CloseOf(s) == IF s = "none" THEN "none" ELSE "closed"

(* Mutant: a teardown leaves the establishment latch pending. *)
TeardownLeavesLatch(error) ==
  /\ state' = "closed"
  /\ watching' = FALSE
  /\ session' = CloseOf(session)
  /\ lastError' = error
  /\ UNCHANGED <<established, sends, install, fanned>>

(* #teardown: the lifetime signal ends the loop and closes the session.    *)
Teardown(error) ==
  /\ state' = "closed"
  /\ watching' = FALSE
  /\ session' = CloseOf(session)
  /\ established' = IF established = "pending" THEN "no" ELSE established
  /\ lastError' = error
  /\ UNCHANGED <<sends, install, fanned>>

(* One pass of the loop, up to the window it parks on: the policy reads    *)
(* the context as it has just been left.  A wait leaves the socket and the *)
(* watchdog's loop as it finds them: left and watched.                     *)
Consult(left, watched) ==
  \E d \in Decisions' :
    \/ /\ d.kind = "giveUp"
       /\ loop' = NoEpisode
       /\ Teardown("unavailable")
    \/ /\ d.kind = "reconnect"
       /\ loop' = Parked(d)
       /\ state' = StateOf(phase')
       /\ InstallSession
       /\ UNCHANGED endVars
    \/ /\ d.kind = "wait"
       /\ loop' = Parked(d)
       /\ state' = StateOf(phase')
       /\ session' = left
       /\ watching' = watched
       /\ UNCHANGED <<sends, install, fanned, endVars>>

(* Mutant: the regime is left as it was. *)
RunEpisodeKeepsPhase(p, left, watched) ==
  /\ UNCHANGED phase
  /\ attempts' = 0
  /\ elapsed' = 0
  /\ Consult(left, watched)

(* #runEpisode *)
RunEpisode(p, left, watched) ==
  /\ phase' = p
  /\ attempts' = 0
  /\ elapsed' = 0
  /\ Consult(left, watched)

(* Attempts past both curves read their last window. *)
MaxAttempts == Larger(Len(EstablishCurve), Len(RecoveryCurve))

(* Mutant: a reassess ends the episode as a recovery does. *)
ResumeEndsOnReassess ==
  /\ loop.at = "settled"
  /\ UNCHANGED <<initVars, consumerVars, silence>>
  /\ IF state = "closed" \/ loop.outcome \in {"recovered", "aborted", "reassess"}
     THEN /\ loop' = NoEpisode
          /\ UNCHANGED <<state, episodeVars, installVars, watching, endVars>>
     ELSE /\ attempts' = Smaller(attempts + 1, MaxAttempts)
          /\ UNCHANGED <<phase, elapsed>>
          /\ Consult(session, watching)
  /\ Fan(None)

(* The loop past its window: a recovery or a teardown ends it, a reconnect *)
(* whose window elapsed counts a failed attempt, and the policy is asked.  *)
Resume ==
  /\ loop.at = "settled"
  /\ UNCHANGED <<initVars, consumerVars, silence>>
  /\ IF state = "closed" \/ loop.outcome \in {"recovered", "aborted"}
     THEN /\ loop' = NoEpisode
          /\ UNCHANGED <<state, episodeVars, installVars, watching, endVars>>
     ELSE /\ attempts' = IF loop.kind = "reconnect" /\ loop.outcome = "elapsed"
                         THEN Smaller(attempts + 1, MaxAttempts) ELSE attempts
          /\ UNCHANGED <<phase, elapsed>>
          /\ Consult(session, watching)
  /\ Fan(None)

(* Mutant: the establishment's clock restarts with every attempt. *)
WindowElapsesRestarts ==
  /\ loop.at = "parked"
  /\ loop' = Settled("elapsed")
  /\ elapsed' = IF phase = "establishing" THEN loop.window ELSE elapsed
  /\ Fan(None)
  /\ UNCHANGED <<state, phase, attempts, installVars, initVars, consumerVars,
                 watching, silence, endVars>>

(* The window's timer.  Only establishment reads how long it has lasted.   *)
WindowElapses ==
  /\ loop.at = "parked"
  /\ loop' = Settled("elapsed")
  /\ elapsed' = IF phase = "establishing"
                THEN Smaller(elapsed + loop.window, EstablishDeadline) ELSE elapsed
  /\ Fan(None)
  /\ UNCHANGED <<state, phase, attempts, installVars, initVars, consumerVars,
                 watching, silence, endVars>>

-----------------------------------------------------------------------------
(* The segments and the close of the underlying session. *)

(* Mutant: a changed format on a reconnect is suppressed like the same one. *)
SuppressAnyInit(f) ==
  /\ install' = [install EXCEPT !.first = FALSE]
  /\ sends' = f
  /\ IF cache = None THEN cache' = f /\ told' = f /\ Fan("init")
     ELSE UNCHANGED initVars /\ Fan(None)
  /\ UNCHANGED <<state, loop, session, fanned, watching, endVars>>

(* #handleFirstSegment for an init of format f: the codec gate. *)
HandleFirstInit(f) ==
  IF cache \notin {None, f}
  THEN /\ Teardown("codecChange")
       /\ loop' = Settled("aborted")
       /\ UNCHANGED initVars
       /\ Fan(None)
  ELSE /\ install' = [install EXCEPT !.first = FALSE]
       /\ sends' = f
       /\ cache' = f
       /\ IF cache = None THEN told' = f /\ Fan("init") ELSE UNCHANGED told /\ Fan(None)
       /\ UNCHANGED <<state, loop, session, fanned, watching, endVars>>

(* Mutant: any segment stamps the clock the watchdog reads. *)
InitStampsSilence(f) ==
  /\ session = "open" /\ NewTurn
  /\ silence' = 0
  /\ IF install.first THEN HandleFirstInit(f)
     ELSE /\ sends' = f
          /\ cache' = f
          /\ told' = f
          /\ Fan("init")
          /\ UNCHANGED <<state, loop, session, install, fanned, watching, endVars>>
  /\ UNCHANGED <<episodeVars, consumerVars>>

(* #onSegment for an init: the first of an install passes the codec gate,  *)
(* a later one is cached and fanned out as it is.                          *)
InitArrives(f) ==
  /\ session = "open" /\ NewTurn
  /\ IF install.first THEN HandleFirstInit(f)
     ELSE /\ sends' = f
          /\ cache' = f
          /\ told' = f
          /\ Fan("init")
          /\ UNCHANGED <<state, loop, session, install, fanned, watching, endVars>>
  /\ UNCHANGED <<episodeVars, consumerVars, silence>>

(* #fanOut of a media segment, under the latches lat: the first one after  *)
(* a reconnect carries the discontinuity marker.                           *)
FanMedia(lat) ==
  /\ silence' = 0
  /\ fanned' = "current"
  /\ install' = [lat EXCEPT !.disc = FALSE]
  /\ Fan(IF lat.disc THEN "resync" ELSE "media")

(* #onRecovered and the arming of the watchdog. *)
OnRecovered ==
  /\ state' = "live"
  /\ attempts' = 0
  /\ established' = IF state = "connecting" /\ established = "pending" THEN "yes"
                    ELSE established
  /\ watching' = TRUE

(* #handleRecoveryMedia: a media segment that lost the window is dropped.  *)
HandleRecoveryMedia(lat) ==
  IF loop.at # "parked"
  THEN /\ install' = lat
       /\ Fan(None)
       /\ UNCHANGED <<state, attempts, established, watching, loop, silence, fanned>>
  ELSE /\ loop' = Settled("recovered")
       /\ OnRecovered
       /\ FanMedia([lat EXCEPT !.media = FALSE])

(* #onSegment for a media segment. *)
MediaArrives ==
  /\ session = "open" /\ NewTurn
  /\ sends # None \/ MediaFirst
  /\ IF install.media THEN HandleRecoveryMedia([install EXCEPT !.first = FALSE])
     ELSE /\ FanMedia(install)
          /\ UNCHANGED <<state, attempts, established, watching, loop>>
  /\ UNCHANGED <<phase, elapsed, session, sends, initVars, consumerVars, lastError>>

(* #onSessionClosed: a close while a window is awaited is left to the      *)
(* window, a close while live begins a recovery.                           *)
OnSessionClosed(watched) ==
  IF state = "live" /\ loop.at # "parked"
  THEN RunEpisode("recovering", "closed", watched)
  ELSE /\ session' = "closed"
       /\ watching' = watched
       /\ UNCHANGED <<state, episodeVars, loop, sends, install, fanned, endVars>>

(* The underlying session stalls, fails or is closed by its peer. *)
SessionDies ==
  /\ session = "open" /\ NewTurn
  /\ UNCHANGED <<initVars, consumerVars, silence>>
  /\ OnSessionClosed(watching)
  /\ Fan(None)

-----------------------------------------------------------------------------
(* The media watchdog. *)

(* Silences past the longest finite threshold are told apart by nothing.   *)
MaxSilence == Greatest({StallDefault, StallFloor} \cup (Urgencies \ {Never}))

(* One pass of #runWatchdog.  The loop ends when it finds the stream torn  *)
(* down or a window awaited, when it closes a silent session, and when     *)
(* reading the threshold throws.                                           *)
WatchdogPass ==
  /\ watching /\ NewTurn
  /\ UNCHANGED <<initVars, consumerVars>>
  /\ IF state = "closed" \/ loop.at = "parked"
     THEN /\ watching' = FALSE
          /\ UNCHANGED <<state, episodeVars, loop, installVars, silence, endVars>>
     ELSE /\ silence' = Smaller(silence + StallPoll, MaxSilence)
          /\ \/ /\ ReadingThrows
                /\ watching' = FALSE
                /\ UNCHANGED <<state, episodeVars, loop, installVars, endVars>>
             \/ /\ silence' < DetectionThreshold
                /\ UNCHANGED <<state, episodeVars, loop, installVars, watching, endVars>>
             \/ /\ silence' >= DetectionThreshold
                /\ OnSessionClosed(FALSE)
  /\ Fan(None)

-----------------------------------------------------------------------------
(* The consumers. *)

(* Mutant: a joiner does not re-decide the window in flight. *)
AttachUnheard(s) ==
  /\ state # "closed" /\ s \notin subscribers
  /\ subscribers' = subscribers \cup {s}
  /\ \E u \in Urgencies \cup {Undeclared} : urgency' = [urgency EXCEPT ![s] = u]
  /\ IF subscribers = {}
     THEN RunEpisode("establishing", session, watching)
     ELSE UNCHANGED <<state, episodeVars, installVars, watching, endVars, loop>>
  /\ Fan(None)
  /\ UNCHANGED <<initVars, silence>>

(* attach: the first subscriber begins the establishment, a later one is   *)
(* replayed the cached init and re-decides a recovery's window.            *)
Attach(s) ==
  /\ state # "closed" /\ s \notin subscribers
  /\ subscribers' = subscribers \cup {s}
  /\ \E u \in Urgencies \cup {Undeclared} : urgency' = [urgency EXCEPT ![s] = u]
  /\ IF subscribers = {}
     THEN RunEpisode("establishing", session, watching)
     ELSE /\ loop' = IF phase = "recovering" THEN Settled("reassess") ELSE loop
          /\ UNCHANGED <<state, episodeVars, installVars, watching, endVars>>
  /\ Fan(None)
  /\ UNCHANGED <<initVars, silence>>

(* detach: the last subscriber to leave tears the stream down. *)
Detach(s) ==
  /\ state # "closed" /\ s \in subscribers
  /\ subscribers' = subscribers \ {s}
  /\ urgency' = [urgency EXCEPT ![s] = Undeclared]
  /\ IF subscribers' = {}
     THEN Teardown(None) /\ loop' = Settled("aborted")
     ELSE UNCHANGED <<state, loop, installVars, watching, endVars>>
  /\ Fan(None)
  /\ UNCHANGED <<episodeVars, initVars, silence>>

(* close: the pool is disposed. *)
PoolDisposed ==
  /\ state # "closed" /\ subscribers # {}
  /\ Teardown(None)
  /\ loop' = Settled("aborted")
  /\ Fan(None)
  /\ UNCHANGED <<episodeVars, initVars, consumerVars, silence>>

(* A subscriber's closure comes to return something else. *)
UrgencyMoves(s) ==
  /\ s \in subscribers /\ urgency[s] # Undeclared /\ state # "closed"
  /\ \E u \in Urgencies : urgency' = [urgency EXCEPT ![s] = u]
  /\ Fan(None)
  /\ UNCHANGED <<state, episodeVars, loop, installVars, initVars, subscribers,
                 watching, silence, endVars>>

(* reassess by a subscriber: nothing but in a recovery's window. *)
Reassess ==
  /\ subscribers # {} /\ phase = "recovering" /\ loop.at = "parked"
  /\ loop' = Settled("reassess")
  /\ Fan(None)
  /\ UNCHANGED <<state, episodeVars, installVars, initVars, consumerVars, watching,
                 silence, endVars>>

-----------------------------------------------------------------------------
Init ==
  /\ state = "connecting" /\ phase = "establishing"
  /\ attempts = 0 /\ elapsed = 0
  /\ loop = NoEpisode
  /\ session = "none" /\ sends = None
  /\ install = [first |-> FALSE, media |-> FALSE, disc |-> FALSE]
  /\ cache = None /\ told = None
  /\ fanned = "none" /\ out = None
  /\ subscribers = {}
  /\ urgency = [s \in Subscribers |-> Undeclared]
  /\ watching = FALSE /\ silence = 0
  /\ established = "pending" /\ lastError = None

Next ==
  \/ Resume \/ WindowElapses
  \/ \E f \in Formats : InitArrives(f)
  \/ MediaArrives \/ SessionDies \/ WatchdogPass
  \/ \E s \in Subscribers : Attach(s) \/ Detach(s) \/ UrgencyMoves(s)
  \/ Reassess \/ PoolDisposed

(* Promise jobs run, timers fire and the watchdog polls.  A camera that    *)
(* serves sends an init of the stream it sent before and then media, and   *)
(* is not for ever beaten by a window, a close or a consumer's reassess.   *)
Fairness ==
  /\ WF_vars(Resume) /\ WF_vars(WindowElapses) /\ WF_vars(WatchdogPass)

CameraServes ==
  /\ \A f \in Formats : SF_vars(install.first /\ cache \in {None, f} /\ InitArrives(f))
  /\ SF_vars(install.media /\ MediaArrives)

Spec == Init /\ [][Next]_vars
FairSpec == Spec /\ Fairness

-----------------------------------------------------------------------------
(* A stream that is connecting or recovering for somebody has an episode   *)
(* that will decide what becomes of it: no close, reassess, late window or *)
(* detach leaves it with nobody awaiting anything.                         *)
NeverWedged ==
  state \in {"connecting", "recovering"} /\ subscribers # {} =>
    loop.at # "none" /\ loop.outcome \notin {"recovered", "aborted"}

(* A torn down stream does nothing more: its session is closed, its        *)
(* watchdog has ended, nobody waits for its establishment, and no window   *)
(* is awaited.                                                             *)
TornDownIsQuiet ==
  state = "closed" =>
    /\ session # "open" /\ ~watching
    /\ established # "pending" /\ loop.at # "parked"

(* The first media of a session that replaced one which had delivered      *)
(* media carries the discontinuity marker, and no other media does,        *)
(* however many sessions failed in between.                                *)
DiscontinuityExactlyOnce ==
  [][ out' \in {"media", "resync"} => (out' = "resync" <=> fanned = "before") ]_vars

(* Media is fanned out only behind the init of its own format: whatever    *)
(* sessions replaced each other, a consumer (and a late joiner, who is     *)
(* replayed the cache) was last told the format it is now sent.            *)
FormatAnnounced ==
  [][ out' \in {"media", "resync"} => told = sends /\ cache = told ]_vars

(* What a consumer reads is what it was told: every splice is marked, and    *)
(* every format announced.                                                   *)
MediaAsAnnounced == DiscontinuityExactlyOnce /\ FormatAnnounced

(* The watchdog is always on while the stream is live. *)
WatchdogAlwaysOn == state = "live" => watching

(* No window outlasts what the most urgent subscriber can bear, one who    *)
(* joins while it is awaited included, but for the floor.                  *)
WindowWithinHeadroom ==
  [][ /\ loop'.at = "parked" /\ phase' = "recovering"
      /\ loop.at # "parked" \/ ~(subscribers' \subseteq subscribers)
      => loop'.window <= Ceiling' ]_vars

(* A stream that proved itself once is retried until its subscribers       *)
(* leave: the default policy ends a recovery only for a changed format.    *)
ProvenStreamNeverGivesUp ==
  established = "yes" => lastError # "unavailable"

(* A stream that reads live for ever receives media for ever, unless every *)
(* subscriber opted out of the watch: a session whose bytes still flow but *)
(* whose media stopped is noticed, whatever the urgencies come to be.      *)
SilenceIsNoticed ==
  <>[](state = "live" /\ DetectionThreshold < Never) => []<>(out \in {"media", "resync"})

(* A stream that stalled returns to a camera that serves the same stream.  *)
StalledStreamReturns ==
  CameraServes => (state = "recovering" ~> state \in {"live", "closed"})

(* An establishment ends: with media, with the error of the deadline, or   *)
(* with its subscribers gone, whatever the camera does.                    *)
EstablishmentConcludes ==
  (state = "connecting" /\ subscribers # {}) ~> (state \in {"live", "closed"})
=============================================================================
