--------------------------- MODULE TalkbackSends ----------------------------
(***************************************************************************)
(* TalkbackSession.send: drains of audio sources over one socket.  A drain *)
(* races its source's next chunk against the session's end and its own     *)
(* signal, so that neither waits for a source that does not move.          *)
(*                                                                         *)
(* A source is external.  Its pull settles in a later job than the one     *)
(* that asked, as a generator's or a Readable's does, and its cleanup      *)
(* waits behind a pull that is parked.                                     *)
(***************************************************************************)
EXTENDS OwnedSocket

CONSTANT Drains

VARIABLE
  drains  (* per drain: at, where it is: idle, racing, cleaning, over; signal, *)
          (* its own; won, what its race settled with; parked, whether a pull  *)
          (* is outstanding; outcome, what its caller is told                  *)

NoDrain == [at |-> "idle", signal |-> "absent", won |-> Nothing, parked |-> FALSE, outcome |-> Nothing]

DrainsInit == drains = [d \in Drains |-> NoDrain]

Sets(d, drain) == drains' = [drains EXCEPT ![d] = drain]

Over(drain, outcome) == [drain EXCEPT !.at = "over", !.outcome = outcome]

(* One pass of the loop: a pull, raced against two promises that may be     *)
(* rejected already, the session's fault first.                             *)
Pulls(drain) ==
  [drain EXCEPT !.at = "racing", !.parked = TRUE,
                !.won = IF released THEN "fault" ELSE IF drain.signal = "aborted" THEN "abort" ELSE Nothing]

(* send(): only a live session takes audio.  The handle the caller holds is  *)
(* that of a session which opened.                                           *)
Send(d, s) ==
  LET drain == [NoDrain EXCEPT !.signal = s]
      refusal == IF told.recorded # Nothing THEN told.recorded.class ELSE "notConnected"
  IN  /\ kind = "talkback" /\ live /\ drains[d].at = "idle"
      /\ Sets(d, IF released THEN Over(drain, refusal)
                 ELSE IF s = "aborted" THEN Over(drain, "sendAborted") ELSE Pulls(drain))
      /\ UNCHANGED socketVars

(* The parked pull settles: a chunk, the source's end, or its own error.     *)
SourceSettles(d, w) ==
  /\ drains[d].parked
  /\ Sets(d, [drains[d] EXCEPT !.parked = FALSE, !.won = IF @ = Nothing THEN w ELSE @])
  /\ UNCHANGED socketVars

(* The drain's own signal; its listener is off once the loop is left.        *)
SendAborts(d) ==
  /\ drains[d].signal = "quiet" /\ drains[d].at # "idle"
  /\ Sets(d, [drains[d] EXCEPT !.signal = "aborted",
                               !.won = IF @ = Nothing /\ drains[d].at = "racing" THEN "abort" ELSE @])
  /\ UNCHANGED socketVars

(* #onClose rejects the fault promise with the stored failure, or with that  *)
(* of a plain close; every race still undecided is lost to it.               *)
FaultRejected ==
  drains' = IF released' /\ ~released
            THEN [d \in Drains |-> IF drains[d].at = "racing" /\ drains[d].won = Nothing
                                   THEN [drains[d] EXCEPT !.won = "fault"] ELSE drains[d]]
            ELSE drains

FaultClass == IF told.recorded # Nothing THEN told.recorded.class ELSE "closed"

Interrupted(drain) ==
  Over(drain, CASE drain.won = "fault" -> FaultClass [] drain.won = "abort" -> "sendAborted"
                [] drain.won = "threw" -> "sourceThrew")

(* Mutant: every exit waits for the source's cleanup. *)
ContinuesAwaitingCleanup(d) ==
  LET drain == drains[d]
      Awaits(outcome) == [drain EXCEPT !.at = "cleaning", !.outcome = outcome]
  IN  /\ drain.at = "racing" /\ drain.won # Nothing
      /\ CASE drain.won = "chunk" -> Sets(d, Pulls(drain)) \/ Sets(d, Awaits("ceiling"))
           [] drain.won = "done" -> Sets(d, Awaits("done"))
           [] OTHER -> Sets(d, Awaits(Interrupted(drain).outcome))
      /\ UNCHANGED socketVars

(* The continuation of the race.  A chunk is sent, and over the ceiling the  *)
(* drain ends; that end and the source's own wait for the source's cleanup,  *)
(* every other end only requests it.                                         *)
Continues(d) ==
  LET drain == drains[d]
      Awaits(outcome) == [drain EXCEPT !.at = "cleaning", !.outcome = outcome]
  IN  /\ drain.at = "racing" /\ drain.won # Nothing
      /\ CASE drain.won = "chunk" -> Sets(d, Pulls(drain)) \/ Sets(d, Awaits("ceiling"))
           [] drain.won = "done" -> Sets(d, Awaits("done"))
           [] OTHER -> Sets(d, Interrupted(drain))
      /\ UNCHANGED socketVars

(* The awaited cleanup: iterator.return(), behind any parked pull. *)
CleanupSettles(d) ==
  /\ drains[d].at = "cleaning" /\ ~drains[d].parked
  /\ Sets(d, Over(drains[d], drains[d].outcome))
  /\ UNCHANGED socketVars

DrainStep ==
  \E d \in Drains :
    \/ \E s \in {"absent", "quiet", "aborted"} : Send(d, s)
    \/ \E w \in {"chunk", "done", "threw"} : SourceSettles(d, w)
    \/ SendAborts(d) \/ Continues(d) \/ CleanupSettles(d)

(* The library's own jobs run, and a source asked to clean up does. *)
DrainFairness ==
  \A d \in Drains : WF_<<socketVars, drains>>(Continues(d)) /\ WF_<<socketVars, drains>>(CleanupSettles(d))

-----------------------------------------------------------------------------
(* A drain whose session ends or whose own signal aborts is over, whether or *)
(* not its source ever moves again: a microphone gone silent keeps no caller *)
(* waiting on a dead socket.  One that its session's end interrupted says    *)
(* what ended it: a cancel as a cancel, a failure as that failure, a plain   *)
(* close as a close.                                                         *)
DrainEnds ==
  \A d \in Drains :
    (drains[d].at # "idle" /\ (released \/ drains[d].signal = "aborted"))
      ~> (drains[d].at = "over" /\ (drains[d].won = "fault" => drains[d].outcome = ended.error.class))
=============================================================================
