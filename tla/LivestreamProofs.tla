-------------------------- MODULE LivestreamProofs --------------------------
(***************************************************************************)
(* Proofs about LivestreamRecovery: that a stream is never wedged, that a  *)
(* torn down one is quiet, that what consumers read is what they were      *)
(* told, and that a proven stream is not given up, for every set of        *)
(* subscribers, urgencies and formats, every curve and every bound.        *)
(***************************************************************************)
EXTENDS LivestreamRecovery, SequenceTheorems, WellFoundedInduction, TLAPS

Trying == {"connecting", "recovering"}

(* The loop is a record, parked on a window nothing has settled, or settled  *)
(* as what became of the stream.                                             *)
LoopFits ==
  /\ loop = [at |-> loop.at, kind |-> loop.kind, window |-> loop.window, outcome |-> loop.outcome]
  /\ loop.at \in {"none", "parked", "settled"}
  /\ loop.at # "settled" => loop.outcome = None
  /\ loop.outcome = "recovered" => state \in {"live", "closed"}
  /\ loop.outcome = "aborted" => state = "closed"
  /\ state = "live" => loop.at = "none" \/ loop.outcome = "recovered"
  /\ state \in Trying => (subscribers # {} <=> loop.at # "none")

(* The state is the regime's, and says whether the stream ever was live.     *)
RegimeFits ==
  /\ state \in Trying \cup {"live", "closed"}
  /\ state = "connecting" => phase = "establishing" /\ established = "pending"
  /\ state = "recovering" => phase = "recovering"
  /\ state \in {"live", "recovering"} => established = "yes" /\ subscribers # {}
  /\ state # "closed" => lastError = None

(* The latches of the session in force: the marker is armed exactly while    *)
(* the media fanned out before it was an earlier session's.                  *)
InstallFits ==
  /\ install = [first |-> install.first, media |-> install.media, disc |-> install.disc]
  /\ install.media \in BOOLEAN /\ install.disc \in BOOLEAN
  /\ fanned \in {"none", "before", "current"}
  /\ state # "closed" => (fanned = "none" <=> state = "connecting")
  /\ session = "open" => (install.media <=> state \in Trying)
  /\ session = "open" /\ install.media => (install.disc <=> fanned = "before") /\ fanned # "current"
  /\ session = "open" /\ ~install.media => ~install.disc /\ fanned = "current"

(* What the subscribers were told is what is cached, and what the session in *)
(* force sends if it has said what it sends.                                 *)
ToldFits == cache = told /\ sends \in {None, told}

IInv == LoopFits /\ RegimeFits /\ InstallFits /\ TornDownIsQuiet

-----------------------------------------------------------------------------
LEMMA InitEstablishes == Init => IInv /\ ToldFits
  BY FormatsAssumption DEF Init, IInv, LoopFits, RegimeFits, InstallFits, ToldFits, TornDownIsQuiet, NoEpisode, Trying

(* Settling a window leaves the loop a record, and unparked. *)
LEMMA SettledFits ==
  ASSUME LoopFits, NEW outcome
  PROVE  /\ Settled(outcome) = [at |-> Settled(outcome).at, kind |-> Settled(outcome).kind,
                                window |-> Settled(outcome).window, outcome |-> Settled(outcome).outcome]
         /\ Settled(outcome).at \in {"none", "settled"}
         /\ loop.at = "parked" => Settled(outcome).at = "settled" /\ Settled(outcome).outcome = outcome
         /\ loop.at # "parked" => Settled(outcome) = loop
  BY DEF LoopFits, Settled

(* What a consultation of the policy leaves, of a stream whose regime is p.  *)
LEMMA ConsultFits ==
  ASSUME IInv, state # "closed", NEW left, NEW watched, Consult(left, watched),
         left \in {session, "closed"}, session # "open" \/ left = "closed" \/ state \in Trying,
         phase' \in {"establishing", "recovering"}, phase' = "establishing" <=> state = "connecting",
         subscribers' # {}
  PROVE  IInv'
  <1>1. PICK d \in Decisions' :
          \/ /\ d.kind = "giveUp" /\ loop' = NoEpisode /\ Teardown("unavailable")
          \/ /\ d.kind = "reconnect" /\ loop' = Parked(d) /\ state' = StateOf(phase')
             /\ InstallSession /\ UNCHANGED endVars
          \/ /\ d.kind = "wait" /\ loop' = Parked(d) /\ state' = StateOf(phase') /\ session' = left
             /\ watching' = watched /\ UNCHANGED <<sends, install, fanned, endVars>>
    BY DEF Consult
  <1>2. CASE d.kind = "giveUp" /\ loop' = NoEpisode /\ Teardown("unavailable")
    BY <1>2, FormatsAssumption
    DEF IInv, LoopFits, RegimeFits, InstallFits, TornDownIsQuiet, NoEpisode, Teardown, CloseOf, Trying
  <1>3. state' = StateOf(phase') => state' \in Trying /\ (state' = "connecting" <=> state = "connecting")
                                    /\ (state' = "recovering" => phase' = "recovering")
    BY DEF StateOf, Trying
  <1>4. CASE /\ d.kind = "reconnect" /\ loop' = Parked(d) /\ state' = StateOf(phase')
             /\ InstallSession /\ UNCHANGED endVars
    BY <1>3, <1>4, FormatsAssumption
    DEF IInv, LoopFits, RegimeFits, InstallFits, TornDownIsQuiet, Parked, InstallSession, endVars, Trying
  <1>5. CASE /\ d.kind = "wait" /\ loop' = Parked(d) /\ state' = StateOf(phase') /\ session' = left
             /\ watching' = watched /\ UNCHANGED <<sends, install, fanned, endVars>>
    BY <1>3, <1>5, FormatsAssumption
    DEF IInv, LoopFits, RegimeFits, InstallFits, TornDownIsQuiet, Parked, endVars, Trying
  <1> QED BY <1>1, <1>2, <1>4, <1>5

-----------------------------------------------------------------------------
(* Each action of the stream keeps the invariant. *)
LEMMA ResumeFits == IInv /\ Resume => IInv'
  <1> SUFFICES ASSUME IInv, Resume PROVE IInv'
    OBVIOUS
  <1>1. CASE state = "closed" \/ loop.outcome \in {"recovered", "aborted"}
    BY <1>1, FormatsAssumption
    DEF Resume, IInv, LoopFits, RegimeFits, InstallFits, TornDownIsQuiet, NoEpisode, Trying, consumerVars,
        episodeVars, installVars, endVars
  <1>2. CASE ~(state = "closed" \/ loop.outcome \in {"recovered", "aborted"})
    <2>1. Consult(session, watching) /\ phase' = phase /\ subscribers' = subscribers /\ loop.at = "settled"
      BY <1>2 DEF Resume, consumerVars
    <2>2. state \in Trying
      BY <1>2, <2>1, FormatsAssumption DEF IInv, LoopFits, RegimeFits, Trying
    <2>3. subscribers # {}
      BY <2>1, <2>2 DEF IInv, LoopFits, RegimeFits, Trying
    <2> QED BY <1>2, <2>1, <2>2, <2>3, ConsultFits DEF IInv, RegimeFits, Trying
  <1> QED BY <1>1, <1>2

LEMMA ClosedFits ==
  ASSUME IInv, state # "closed", NEW watched, OnSessionClosed(watched), UNCHANGED consumerVars
  PROVE  IInv'
  <1>1. CASE state = "live" /\ loop.at # "parked"
    <2>1. Consult("closed", watched) /\ phase' = "recovering" /\ subscribers' = subscribers
      BY <1>1 DEF OnSessionClosed, RunEpisode, consumerVars
    <2> QED BY <1>1, <2>1, ConsultFits DEF IInv, RegimeFits
  <1>2. CASE ~(state = "live" /\ loop.at # "parked")
    BY <1>2 DEF OnSessionClosed, IInv, LoopFits, RegimeFits, InstallFits, TornDownIsQuiet, Trying, consumerVars,
                episodeVars, endVars
  <1> QED BY <1>1, <1>2

LEMMA InitArrivesFits == ASSUME NEW f \in Formats, IInv, InitArrives(f) PROVE IInv'
  <1>1. state # "closed" /\ UNCHANGED <<phase, subscribers>>
    BY DEF InitArrives, IInv, TornDownIsQuiet, episodeVars, consumerVars
  <1>2. CASE install.first /\ cache \notin {None, f}
    <2>1. Teardown("codecChange") /\ loop' = Settled("aborted")
      BY <1>2 DEF InitArrives, HandleFirstInit
    <2> QED BY <1>1, <2>1, SettledFits, FormatsAssumption
            DEF IInv, LoopFits, RegimeFits, InstallFits, TornDownIsQuiet, Teardown, CloseOf, Trying
  <1>3. CASE ~(install.first /\ cache \notin {None, f})
    <2>1. /\ UNCHANGED <<state, loop, session, fanned, watching, endVars>>
          /\ install' = install \/ install' = [install EXCEPT !.first = FALSE]
      BY <1>3 DEF InitArrives, HandleFirstInit
    <2> QED BY <1>1, <2>1 DEF IInv, LoopFits, RegimeFits, InstallFits, TornDownIsQuiet, endVars, Trying
  <1> QED BY <1>2, <1>3

LEMMA MediaArrivesFits == IInv /\ MediaArrives => IInv'
  <1> SUFFICES ASSUME IInv, MediaArrives PROVE IInv'
    OBVIOUS
  <1>1. /\ session = "open" /\ state # "closed" /\ NewTurn
        /\ UNCHANGED <<phase, session, subscribers, lastError>>
    BY DEF MediaArrives, IInv, TornDownIsQuiet, consumerVars
  <1>2. CASE install.media /\ loop.at # "parked"
    <2>1. install' = [install EXCEPT !.first = FALSE] /\ UNCHANGED <<state, established, watching, loop, fanned>>
      BY <1>2 DEF MediaArrives, HandleRecoveryMedia
    <2> QED BY <1>1, <2>1 DEF IInv, LoopFits, RegimeFits, InstallFits, TornDownIsQuiet, Trying
  <1>3. CASE install.media /\ loop.at = "parked"
    <2>1. /\ loop' = Settled("recovered") /\ state' = "live"
          /\ established' = IF state = "connecting" /\ established = "pending" THEN "yes" ELSE established
          /\ fanned' = "current"
          /\ install' = [[[install EXCEPT !.first = FALSE] EXCEPT !.media = FALSE] EXCEPT !.disc = FALSE]
      BY <1>3 DEF MediaArrives, HandleRecoveryMedia, OnRecovered, FanMedia
    <2>2. install' = [first |-> FALSE, media |-> FALSE, disc |-> FALSE]
      BY <2>1 DEF IInv, InstallFits
    <2>3. state \in Trying /\ subscribers # {}
      BY <1>1, <1>3 DEF IInv, LoopFits, RegimeFits, InstallFits, Trying
    <2>4. LoopFits'
      BY <1>1, <1>3, <2>1, SettledFits, FormatsAssumption DEF IInv, LoopFits, Trying
    <2>5. RegimeFits'
      BY <1>1, <2>1, <2>3 DEF IInv, RegimeFits, Trying
    <2>6. InstallFits'
      BY <1>1, <2>1, <2>2 DEF InstallFits, Trying
    <2>7. TornDownIsQuiet'
      BY <2>1 DEF TornDownIsQuiet
    <2> QED BY <2>4, <2>5, <2>6, <2>7 DEF IInv
  <1>4. CASE ~install.media
    <2>1. /\ UNCHANGED <<state, established, watching, loop>> /\ fanned' = "current"
          /\ install' = [install EXCEPT !.disc = FALSE]
      BY <1>4 DEF MediaArrives, FanMedia
    <2> QED BY <1>1, <1>4, <2>1 DEF IInv, LoopFits, RegimeFits, InstallFits, TornDownIsQuiet, Trying
  <1> QED BY <1>2, <1>3, <1>4

LEMMA WatchdogPassFits == IInv /\ WatchdogPass => IInv'
  <1> SUFFICES ASSUME IInv, WatchdogPass PROVE IInv'
    OBVIOUS
  <1>1. state # "closed" /\ UNCHANGED consumerVars
    BY DEF WatchdogPass, IInv, TornDownIsQuiet
  <1>2. CASE OnSessionClosed(FALSE)
    BY <1>1, <1>2, ClosedFits
  <1>3. CASE ~OnSessionClosed(FALSE)
    <2>1. UNCHANGED <<state, episodeVars, loop, installVars, endVars>> /\ watching' \in {FALSE, watching}
      BY <1>3 DEF WatchdogPass
    <2> QED BY <1>1, <2>1 DEF IInv, LoopFits, RegimeFits, InstallFits, TornDownIsQuiet, Trying, consumerVars,
                              episodeVars, installVars, endVars
  <1> QED BY <1>2, <1>3

LEMMA AttachFits == ASSUME NEW s \in Subscribers, IInv, Attach(s) PROVE IInv'
  <1>1. state # "closed" /\ subscribers' # {}
    BY DEF Attach
  <1>2. CASE subscribers = {}
    <2>1. Consult(session, watching) /\ phase' = "establishing"
      BY <1>2 DEF Attach, RunEpisode
    <2>2. state = "connecting"
      BY <1>1, <1>2 DEF IInv, RegimeFits, Trying
    <2> QED BY <1>1, <2>1, <2>2, ConsultFits DEF Trying
  <1>3. CASE subscribers # {}
    <2>1. /\ UNCHANGED <<state, episodeVars, installVars, watching, endVars>>
          /\ loop' = loop \/ loop' = Settled("reassess")
      BY <1>3 DEF Attach
    <2> QED BY <1>1, <1>3, <2>1, SettledFits, FormatsAssumption
            DEF IInv, LoopFits, RegimeFits, InstallFits, TornDownIsQuiet, Trying, episodeVars, installVars, endVars
  <1> QED BY <1>2, <1>3

(* What ends with a teardown, or leaves the session and the state alone. *)
LEMMA EndsFits ==
  ASSUME IInv, Teardown(None), loop' = Settled("aborted"), UNCHANGED phase
  PROVE  IInv'
  BY SettledFits, FormatsAssumption
  DEF IInv, LoopFits, RegimeFits, InstallFits, TornDownIsQuiet, Teardown, CloseOf, Trying

LEMMA SettlesFits ==
  ASSUME IInv, loop.at = "parked", NEW outcome \in {"elapsed", "reassess"}, loop' = Settled(outcome),
         UNCHANGED <<state, phase, installVars, subscribers, watching, endVars>>
  PROVE  IInv'
  BY SettledFits, FormatsAssumption
  DEF IInv, LoopFits, RegimeFits, InstallFits, TornDownIsQuiet, Trying, installVars, endVars

LEMMA DetachFits == ASSUME NEW s \in Subscribers, IInv, Detach(s) PROVE IInv'
  <1>1. CASE subscribers' = {}
    BY <1>1, EndsFits DEF Detach, episodeVars
  <1>2. CASE subscribers' # {}
    BY <1>2 DEF Detach, IInv, LoopFits, RegimeFits, InstallFits, TornDownIsQuiet, Trying, installVars, endVars, episodeVars
  <1> QED BY <1>1, <1>2

LEMMA NextFits == IInv /\ [Next]_vars => IInv'
  <1> SUFFICES ASSUME IInv, [Next]_vars PROVE IInv'
    OBVIOUS
  <1>1. CASE Resume
    BY <1>1, ResumeFits
  <1>2. CASE WindowElapses
    BY <1>2, SettlesFits DEF WindowElapses, consumerVars
  <1>3. CASE \E f \in Formats : InitArrives(f)
    BY <1>3, InitArrivesFits
  <1>4. CASE MediaArrives
    BY <1>4, MediaArrivesFits
  <1>5. CASE SessionDies
    BY <1>5, ClosedFits DEF SessionDies, IInv, TornDownIsQuiet
  <1>6. CASE WatchdogPass
    BY <1>6, WatchdogPassFits
  <1>7. CASE \E s \in Subscribers : Attach(s)
    BY <1>7, AttachFits
  <1>8. CASE \E s \in Subscribers : Detach(s)
    BY <1>8, DetachFits
  <1>9. CASE \E s \in Subscribers : UrgencyMoves(s)
    BY <1>9 DEF UrgencyMoves, IInv, LoopFits, RegimeFits, InstallFits, TornDownIsQuiet, Trying, episodeVars,
                installVars, endVars
  <1>10. CASE Reassess
    BY <1>10, SettlesFits DEF Reassess, consumerVars, episodeVars
  <1>11. CASE PoolDisposed
    BY <1>11, EndsFits DEF PoolDisposed, episodeVars
  <1>12. CASE UNCHANGED vars
    BY <1>12 DEF vars, IInv, LoopFits, RegimeFits, InstallFits, TornDownIsQuiet, Trying, episodeVars, installVars,
                 consumerVars, endVars
  <1> QED BY <1>1, <1>2, <1>3, <1>4, <1>5, <1>6, <1>7, <1>8, <1>9, <1>10, <1>11, <1>12 DEF Next

THEOREM StreamInvariant == Spec => []IInv
  BY InitEstablishes, NextFits, PTL DEF Spec

-----------------------------------------------------------------------------
(* A stream somebody waits for has an episode that decides what becomes of   *)
(* it, whatever closes, segments, windows, joins and leaves came before.     *)
THEOREM StreamNeverWedged == Spec => []NeverWedged
  <1>1. IInv => NeverWedged
    BY DEF IInv, LoopFits, NeverWedged, Trying
  <1> QED BY <1>1, StreamInvariant, PTL

(* A torn down stream holds no session and no watchdog, and leaves nobody    *)
(* waiting for its establishment.                                            *)
THEOREM TeardownIsFinal == Spec => []TornDownIsQuiet
  <1>1. IInv => TornDownIsQuiet
    BY DEF IInv
  <1> QED BY <1>1, StreamInvariant, PTL

-----------------------------------------------------------------------------
(* What consumers read. *)

(* Media is fanned out by the arrival of a media segment and nothing else.   *)
LEMMA OnlyMediaFansMedia ==
  ASSUME IInv, Next, out' \in {"media", "resync"}
  PROVE  MediaArrives
  <1>1. None \notin {"media", "resync"}
    BY FormatsAssumption
  <1>2. ASSUME NEW f \in Formats, InitArrives(f) PROVE FALSE
    BY <1>1, <1>2 DEF InitArrives, HandleFirstInit, Fan
  <1>3. ASSUME NEW s \in Subscribers, Attach(s) \/ Detach(s) \/ UrgencyMoves(s) PROVE FALSE
    BY <1>1, <1>3 DEF Attach, Detach, UrgencyMoves, Fan
  <1>4. ~Resume /\ ~WindowElapses /\ ~SessionDies /\ ~WatchdogPass /\ ~Reassess /\ ~PoolDisposed
    BY <1>1 DEF Resume, WindowElapses, SessionDies, WatchdogPass, Reassess, PoolDisposed, Fan
  <1> QED BY <1>2, <1>3, <1>4 DEF Next

(* The marker is armed exactly over an earlier session's media. *)
LEMMA MediaIsMarked ==
  ASSUME IInv, MediaArrives, out' \in {"media", "resync"}
  PROVE  out' = "resync" <=> fanned = "before"
  <1>1. session = "open" /\ (install.media => loop.at = "parked")
    BY FormatsAssumption DEF MediaArrives, HandleRecoveryMedia, Fan
  <1>2. CASE install.media
    <2>1. out' = IF install.disc THEN "resync" ELSE "media"
      BY <1>1, <1>2 DEF MediaArrives, HandleRecoveryMedia, FanMedia, Fan, IInv, InstallFits
    <2> QED BY <1>1, <1>2, <2>1 DEF IInv, InstallFits
  <1>3. CASE ~install.media
    <2>1. out' = IF install.disc THEN "resync" ELSE "media"
      BY <1>3 DEF MediaArrives, FanMedia, Fan
    <2> QED BY <1>1, <1>3, <2>1 DEF IInv, InstallFits
  <1> QED BY <1>2, <1>3

(* A consultation leaves the session's init alone or begins a session that   *)
(* has sent none.                                                            *)
LEMMA ConsultTells ==
  ASSUME NEW left, NEW watched, Consult(left, watched)
  PROVE  sends' \in {None, sends}
  BY DEF Consult, Teardown, InstallSession

LEMMA ToldKept == ToldFits /\ [Next]_vars => ToldFits'
  <1> SUFFICES ASSUME ToldFits, [Next]_vars PROVE ToldFits'
    OBVIOUS
  <1>1. ASSUME NEW f \in Formats, InitArrives(f) PROVE ToldFits'
    <2>1. CASE install.first
      BY <1>1, <2>1, FormatsAssumption DEF InitArrives, HandleFirstInit, Teardown, ToldFits, initVars
    <2>2. CASE ~install.first
      BY <1>1, <2>2 DEF InitArrives, ToldFits
    <2> QED BY <2>1, <2>2
  <1>2. CASE ~(\E f \in Formats : InitArrives(f)) /\ Next
    <2>1. UNCHANGED initVars
      BY <1>2 DEF Next, Resume, WindowElapses, MediaArrives, SessionDies, WatchdogPass, Attach, Detach,
                  UrgencyMoves, Reassess, PoolDisposed
    <2>2. ASSUME NEW watched, OnSessionClosed(watched) PROVE sends' \in {None, sends}
      BY <2>2, ConsultTells DEF OnSessionClosed, RunEpisode
    <2>3. ASSUME NEW s \in Subscribers, Attach(s) \/ Detach(s) \/ UrgencyMoves(s) PROVE sends' \in {None, sends}
      BY <2>3, ConsultTells DEF Attach, Detach, UrgencyMoves, RunEpisode, Teardown, installVars
    <2>4. Resume => sends' \in {None, sends}
      BY ConsultTells DEF Resume, installVars
    <2>5. WatchdogPass \/ SessionDies => sends' \in {None, sends}
      BY <2>2 DEF WatchdogPass, SessionDies, installVars
    <2>6. WindowElapses \/ MediaArrives \/ Reassess \/ PoolDisposed => sends' = sends
      BY DEF WindowElapses, MediaArrives, Reassess, PoolDisposed, Teardown, installVars
    <2> QED BY <1>2, <2>1, <2>3, <2>4, <2>5, <2>6 DEF Next, ToldFits, initVars
  <1>3. CASE UNCHANGED vars
    BY <1>3 DEF vars, ToldFits, initVars, installVars
  <1> QED BY <1>1, <1>2, <1>3

(* Every splice a consumer reads is marked and every format announced, as    *)
(* long as a session sends its init ahead of its media.                      *)
THEOREM StreamReadsAsAnnounced == ASSUME ~MediaFirst PROVE Spec => MediaAsAnnounced
  <1>1. IInv /\ [Next]_vars => [out' \in {"media", "resync"} => (out' = "resync" <=> fanned = "before")]_vars
    <2> SUFFICES ASSUME IInv, Next, out' \in {"media", "resync"} PROVE out' = "resync" <=> fanned = "before"
      OBVIOUS
    <2> QED BY OnlyMediaFansMedia, MediaIsMarked
  <1>2. IInv /\ ToldFits /\ [Next]_vars =>
          [out' \in {"media", "resync"} => told = sends /\ cache = told]_vars
    <2> SUFFICES ASSUME IInv, ToldFits, Next, out' \in {"media", "resync"} PROVE told = sends /\ cache = told
      OBVIOUS
    <2>1. MediaArrives
      BY OnlyMediaFansMedia
    <2> QED BY <2>1 DEF MediaArrives, ToldFits
  <1> QED BY <1>1, <1>2, InitEstablishes, ToldKept, StreamInvariant, PTL
          DEF Spec, MediaAsAnnounced, DiscontinuityExactlyOnce, FormatAnnounced

-----------------------------------------------------------------------------
(* What ends a stream that proved itself. *)

(* The default policy gives up on an establishment and on nothing else. *)
LEMMA DefaultGivesUpUnproven ==
  ASSUME CustomPolicy = FALSE, UrgencyThrows = FALSE, NEW left, NEW watched, Consult(left, watched)
  PROVE  \/ lastError' = lastError /\ established' = established
         \/ phase' = "establishing" /\ Teardown("unavailable")
  <1>1. Decisions' = {DefaultDecision'}
    BY DEF Decisions, ReadingThrows
  <1>2. DefaultDecision'.kind = "giveUp" => phase' = "establishing"
    BY DEF DefaultDecision, GiveUp, Reconnect
  <1> QED BY <1>1, <1>2 DEF Consult, endVars

LEMMA ProvenKept ==
  ASSUME CustomPolicy = FALSE, UrgencyThrows = FALSE
  PROVE  IInv /\ ProvenStreamNeverGivesUp /\ [Next]_vars => ProvenStreamNeverGivesUp'
  <1> SUFFICES ASSUME IInv, ProvenStreamNeverGivesUp, [Next]_vars PROVE ProvenStreamNeverGivesUp'
    OBVIOUS
  <1>1. ASSUME NEW left, NEW watched, Consult(left, watched),
               phase' = "establishing" => state = "connecting"
        PROVE  ProvenStreamNeverGivesUp'
    BY <1>1, DefaultGivesUpUnproven DEF IInv, RegimeFits, ProvenStreamNeverGivesUp, Teardown
  <1>2. ASSUME NEW watched, OnSessionClosed(watched) PROVE ProvenStreamNeverGivesUp'
    BY <1>1, <1>2 DEF OnSessionClosed, RunEpisode, endVars, ProvenStreamNeverGivesUp
  <1>3. CASE Resume
    BY <1>1, <1>3, FormatsAssumption DEF Resume, endVars, ProvenStreamNeverGivesUp, IInv, RegimeFits, LoopFits, Trying
  <1>4. CASE SessionDies \/ WatchdogPass
    BY <1>2, <1>4 DEF SessionDies, WatchdogPass, endVars, ProvenStreamNeverGivesUp
  <1>5. ASSUME NEW s \in Subscribers, Attach(s) PROVE ProvenStreamNeverGivesUp'
    BY <1>1, <1>5 DEF Attach, RunEpisode, endVars, ProvenStreamNeverGivesUp, IInv, RegimeFits, LoopFits, Trying
  <1>6. ASSUME NEW f \in Formats, InitArrives(f) PROVE ProvenStreamNeverGivesUp'
    BY <1>6 DEF InitArrives, HandleFirstInit, Teardown, endVars, ProvenStreamNeverGivesUp
  <1>7. ASSUME NEW s \in Subscribers, Detach(s) \/ UrgencyMoves(s) PROVE ProvenStreamNeverGivesUp'
    BY <1>7, FormatsAssumption DEF Detach, UrgencyMoves, Teardown, endVars, ProvenStreamNeverGivesUp
  <1>8. CASE MediaArrives
    BY <1>8, FormatsAssumption
    DEF MediaArrives, HandleRecoveryMedia, OnRecovered, IInv, RegimeFits, TornDownIsQuiet, ProvenStreamNeverGivesUp
  <1>9. CASE WindowElapses \/ Reassess \/ PoolDisposed
    BY <1>9, FormatsAssumption DEF WindowElapses, Reassess, PoolDisposed, Teardown, endVars, ProvenStreamNeverGivesUp
  <1>10. CASE UNCHANGED vars
    BY <1>10 DEF vars, endVars, ProvenStreamNeverGivesUp
  <1> QED BY <1>3, <1>4, <1>5, <1>6, <1>7, <1>8, <1>9, <1>10 DEF Next

(* Under the default policy and closures that do not throw, a stream that    *)
(* delivered media once is never given up as unavailable.                    *)
THEOREM ProvenStreamRetried ==
  ASSUME CustomPolicy = FALSE, UrgencyThrows = FALSE
  PROVE  Spec => []ProvenStreamNeverGivesUp
  <1>1. Init => ProvenStreamNeverGivesUp
    BY FormatsAssumption DEF Init, ProvenStreamNeverGivesUp
  <1> QED BY <1>1, ProvenKept, StreamInvariant, PTL DEF Spec

-----------------------------------------------------------------------------
(* What the subscribers' headroom comes to. *)

(* A set of naturals with a member has a least one. *)
LEMMA LeastOfNaturals ==
  ASSUME NEW S \in SUBSET Nat, S # {}
  PROVE  Least(S) \in S
  <1> DEFINE R == {p \in Nat \X Nat : p[1] < p[2]}
  <1>1. PICK n \in S : \A m \in S : <<m, n>> \notin R
    <2>1. IsWellFoundedOn(R, Nat) BY NatLessThanWellFounded DEF OpToRel
    <2> HIDE DEF R
    <2> QED BY <2>1, WFMin
  <1>2. ASSUME NEW m \in S PROVE n <= m
    <2>1. m \in Nat /\ n \in Nat /\ <<m, n>> \notin R BY <1>1
    <2>2. ~(m < n) BY <2>1
    <2> QED BY <2>1, <2>2
  <1> QED BY <1>2 DEF Least

(* The closures the subscribers hold, and the count of failed attempts.      *)
ConsultedFits ==
  /\ attempts \in Nat /\ subscribers \subseteq Subscribers
  /\ urgency \in [Subscribers -> Urgencies \cup {Undeclared}]

LEMMA CurvesRead ==
  ASSUME NEW curve \in Seq(Nat), curve # <<>>, NEW n \in Nat
  PROVE  curve[Smaller(n + 1, Len(curve))] \in Nat
  <1>1. Len(curve) \in Nat \ {0} BY EmptySeq, LenProperties
  <1>2. Smaller(n + 1, Len(curve)) \in 1..Len(curve) BY <1>1 DEF Smaller
  <1> QED BY <1>2, ElementOfSeq

(* The policy reads a recovery's window off its curve, and keeps it between  *)
(* the floor and the ceiling.                                                *)
WindowsFit ==
  /\ Ceiling \in Nat /\ AwaitMin <= Ceiling
  /\ phase = "recovering" => DefaultDecision.window <= Ceiling

LEMMA CeilingFits == ConsultedFits => WindowsFit
  <1> SUFFICES ASSUME ConsultedFits PROVE WindowsFit OBVIOUS
  <1> DEFINE borne == {Never} \cup {IF urgency[s] = Undeclared THEN Never ELSE urgency[s] : s \in subscribers}
  <1>1. \A s \in subscribers : urgency[s] \in Urgencies \cup {Undeclared} BY DEF ConsultedFits
  <1>2. Never \in Nat /\ Urgencies \subseteq Nat BY TimesAssumption, UrgenciesAssumption
  <1>3. borne \in SUBSET Nat /\ borne # {} BY <1>1, <1>2
  <1>4. Tolerance = Least(borne) BY DEF Tolerance, Aggregate
  <1> HIDE DEF borne
  <1>5. Tolerance \in Nat BY <1>3, <1>4, LeastOfNaturals
  <1>6. Ceiling \in Nat /\ AwaitMin <= Ceiling BY <1>5, TimesAssumption DEF Ceiling, Larger, Smaller
  <1>7. Stage(RecoveryCurve) \in Nat BY CurvesRead, CurvesAssumption DEF Stage, ConsultedFits
  <1>8. Smaller(Larger(Stage(RecoveryCurve), AwaitMin), Ceiling) <= Ceiling
    <2>1. PICK m \in Nat, n \in Nat : m = Stage(RecoveryCurve) /\ n = Ceiling BY <1>6, <1>7
    <2>2. Smaller(Larger(m, AwaitMin), n) <= n BY TimesAssumption DEF Smaller, Larger
    <2> QED BY <2>1, <2>2
  <1>9. phase = "recovering" => DefaultDecision.window <= Ceiling BY <1>8 DEF DefaultDecision, Reconnect
  <1> QED BY <1>6, <1>9 DEF WindowsFit

LEMMA ConsultedKept == ConsultedFits /\ [Next]_vars => ConsultedFits'
  <1> SUFFICES ASSUME ConsultedFits, [Next]_vars PROVE ConsultedFits' OBVIOUS
  <1>1. ASSUME UNCHANGED consumerVars, attempts' \in Nat PROVE ConsultedFits'
    BY <1>1 DEF ConsultedFits, consumerVars
  <1>2. CASE Resume
    <2>1. Len(EstablishCurve) \in Nat /\ Len(RecoveryCurve) \in Nat BY CurvesAssumption, LenProperties
    <2>2. Smaller(attempts + 1, MaxAttempts) \in Nat
      <3>1. MaxAttempts \in Nat BY <2>1 DEF MaxAttempts, Larger
      <3> QED BY <3>1 DEF Smaller, ConsultedFits
    <2> QED BY <1>1, <1>2, <2>2 DEF Resume, ConsultedFits, episodeVars
  <1>3. ASSUME NEW watched, OnSessionClosed(watched) PROVE attempts' \in Nat
    BY <1>3 DEF OnSessionClosed, RunEpisode, episodeVars, ConsultedFits
  <1>4. CASE SessionDies \/ WatchdogPass BY <1>1, <1>3, <1>4 DEF SessionDies, WatchdogPass, episodeVars, ConsultedFits
  <1>5. CASE MediaArrives
    BY <1>1, <1>5 DEF MediaArrives, HandleRecoveryMedia, OnRecovered, ConsultedFits
  <1>6. ASSUME NEW s \in Subscribers, Attach(s) PROVE ConsultedFits'
    BY <1>6 DEF Attach, RunEpisode, episodeVars, ConsultedFits
  <1>7. ASSUME NEW s \in Subscribers, Detach(s) \/ UrgencyMoves(s) PROVE ConsultedFits'
    BY <1>7 DEF Detach, UrgencyMoves, episodeVars, ConsultedFits
  <1>8. CASE WindowElapses \/ (\E f \in Formats : InitArrives(f)) \/ Reassess \/ PoolDisposed
    BY <1>1, <1>8 DEF WindowElapses, InitArrives, Reassess, PoolDisposed, episodeVars, ConsultedFits
  <1>9. CASE UNCHANGED vars BY <1>1, <1>9 DEF vars, episodeVars, ConsultedFits
  <1> QED BY <1>2, <1>4, <1>5, <1>6, <1>7, <1>8, <1>9 DEF Next

(* Every window a consultation parks on fits, as the subscribers are then.   *)
LEMMA ConsultedWindow ==
  ASSUME WindowsFit', NEW left, NEW watched, Consult(left, watched), loop'.at = "parked", phase' = "recovering"
  PROVE  loop'.window <= Ceiling'
  <1>1. PICK d \in Decisions' : loop' \in {NoEpisode, Parked(d)} /\ (d.kind = "giveUp" => loop' = NoEpisode)
    BY DEF Consult
  <1>2. loop' = Parked(d) /\ d.kind # "giveUp" BY <1>1 DEF NoEpisode, Parked
  <1>3. d \in {DefaultDecision', Wait(AwaitMin), GiveUp} BY DEF Decisions
  <1>4. d.window <= Ceiling' BY <1>2, <1>3 DEF WindowsFit, Wait, GiveUp
  <1> QED BY <1>2, <1>4 DEF Parked

(* No window of a recovery outlasts the headroom of its most urgent          *)
(* subscriber: one who joins while it is awaited re-decides it.              *)
THEOREM WindowsSpareTheUrgent == Spec => WindowWithinHeadroom
  <1> DEFINE A == /\ loop'.at = "parked" /\ phase' = "recovering"
                  /\ loop.at # "parked" \/ ~(subscribers' \subseteq subscribers)
                  => loop'.window <= Ceiling'
  <1>1. Init => ConsultedFits BY DEF Init, ConsultedFits
  <1>2. ConsultedFits' => WindowsFit' BY CeilingFits, PTL
  <1>3. IInv /\ ConsultedFits' /\ [Next]_vars => [A]_vars
    <2> SUFFICES ASSUME IInv, WindowsFit', Next, loop'.at = "parked", phase' = "recovering",
                        loop.at # "parked" \/ ~(subscribers' \subseteq subscribers)
                 PROVE  loop'.window <= Ceiling'
      BY <1>2
    <2>1. ASSUME NEW outcome, loop' = Settled(outcome) PROVE FALSE BY <2>1, SettledFits DEF IInv
    <2>2. ASSUME loop' = loop, subscribers' = subscribers PROVE FALSE BY <2>2
    <2>3. ASSUME NEW left, NEW watched, Consult(left, watched) PROVE loop'.window <= Ceiling'
      BY <2>3, ConsultedWindow
    <2>4. CASE Resume BY <2>3, <2>4 DEF Resume, NoEpisode
    <2>5. ASSUME NEW watched, OnSessionClosed(watched), UNCHANGED consumerVars PROVE loop'.window <= Ceiling'
      BY <2>2, <2>3, <2>5 DEF OnSessionClosed, RunEpisode, consumerVars
    <2>6. CASE SessionDies \/ WatchdogPass BY <2>2, <2>5, <2>6 DEF SessionDies, WatchdogPass, consumerVars
    <2>7. CASE MediaArrives
      BY <2>1, <2>2, <2>7 DEF MediaArrives, HandleRecoveryMedia, consumerVars
    <2>8. ASSUME NEW s \in Subscribers, Attach(s) PROVE loop'.window <= Ceiling'
      <3>1. subscribers # {} BY <2>8 DEF Attach, RunEpisode
      <3>2. phase = "recovering" /\ loop' = Settled("reassess") BY <2>8, <3>1 DEF Attach, episodeVars
      <3> QED BY <2>1, <3>2
    <2>9. ASSUME NEW s \in Subscribers, Detach(s) PROVE FALSE
      <3>1. loop' = Settled("aborted") \/ loop' = loop BY <2>9 DEF Detach
      <3>2. subscribers' \subseteq subscribers BY <2>9 DEF Detach
      <3> QED BY <2>1, <3>1, <3>2
    <2>10. ASSUME NEW s \in Subscribers, UrgencyMoves(s) PROVE FALSE BY <2>2, <2>10 DEF UrgencyMoves
    <2>11. CASE WindowElapses \/ (\E f \in Formats : InitArrives(f)) \/ Reassess \/ PoolDisposed
      BY <2>1, <2>2, <2>11 DEF WindowElapses, InitArrives, HandleFirstInit, Reassess, PoolDisposed, consumerVars
    <2> QED BY <2>4, <2>6, <2>7, <2>8, <2>9, <2>10, <2>11 DEF Next
  <1> QED BY <1>1, <1>3, InitEstablishes, ConsultedKept, StreamInvariant, PTL DEF Spec, WindowWithinHeadroom
=============================================================================
