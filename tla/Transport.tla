----------------------------- MODULE Transport -----------------------------
(***************************************************************************)
(* src/transport/http.ts: the sends in flight and the consecutive-failure  *)
(* breaker they book on.  The 401 hook belongs to AuthSession, whose       *)
(* module composes this one and holds the next-state relation of both.     *)
(* An answer is one whose retries the pool has already run out.            *)
(***************************************************************************)
EXTENDS Integers, FiniteSets

CONSTANTS
  Requests,   (* sends of the library's own consumers                          *)
  Handshakes, (* the handshakes of AuthSession, each with one send at a time   *)
  Limit,      (* PROTECT_API_ERROR_LIMIT                                       *)
  OwnsPool,   (* whether the transport built its pool: a reset spares another's *)
  None        (* no credentials, no session, no outcome, no rail               *)

ASSUME LimitAssumption == Limit \in Nat \ {0}
ASSUME PoolAssumption == OwnsPool \in BOOLEAN
ASSUME NoRailAssumption == None \notin {"entered", "exited"}

VARIABLES
  failures, (* #consecutiveFailures, which saturates at Limit                   *)
  throttle, (* #throttledSince: closed, cooling, or elapsed (half-open)         *)
  rail,     (* the rail the last step fired                                     *)
  call,     (* each send in flight                                              *)
  released  (* whether the pool in place is destroyed: disposed of, not rebuilt *)

transportVars == <<failures, throttle, rail, call, released>>

Calls == Requests \cup Handshakes

(* What an answer's status tells the code apart: a 2xx, a 401, another      *)
(* refusal, a retried 4xx, a 429 or retried 5xx, another 5xx, a redirect.   *)
Status == {"ok", "unauthorized", "denied", "notReady", "busy", "broken", "moved"}

(* controllerServing and isTransientStatus *)
ControllerServing(s) == s \notin {"busy", "broken"}
IsTransientStatus(s) == s \in {"notReady", "busy"}

-----------------------------------------------------------------------------
(* A send in flight waits for its answer or, past a 401, for the relogin.  *)
(* retry is allowAuthRetry, cancelled the caller's signal, doomed a pool   *)
(* destroyed under it: one is sent on the pool its step leaves in place.   *)
Idle == [at |-> "idle", probe |-> FALSE, retry |-> FALSE, cancelled |-> FALSE, doomed |-> FALSE]

Dispatched(probe, retry) == [Idle EXCEPT !.at = "sent", !.probe = probe, !.retry = retry, !.doomed = released']

(* The gate of send: a cooling breaker refuses all but probes. *)
Refused(probe, th) == ~probe /\ th = "cooling"

(* reset: every send in flight on an owned pool is destroyed with it. *)
Reset(calls) ==
  [c \in Calls |-> [calls[c] EXCEPT !.doomed = @ \/ (OwnsPool /\ calls[c].at = "sent")]]

Throttled == throttle # "closed"

Smaller(a, b) == IF a < b THEN a ELSE b

(* Mutant: the threshold is passed, not reached. *)
TripsLate(ok) == ~ok /\ ~Throttled /\ failures >= Limit

(* The failure that reaches the threshold trips a closed breaker. *)
Trips(ok) == ~ok /\ ~Throttled /\ failures + 1 >= Limit

(* Mutant: a failed half-open probe announces the throttle again. *)
BookRearmsLoudly(ok) ==
  /\ failures' = IF ok THEN 0 ELSE Smaller(failures + 1, Limit)
  /\ throttle' = IF ok THEN "closed" ELSE IF Throttled \/ Trips(ok) THEN "cooling" ELSE throttle
  /\ rail' = IF ok THEN (IF Throttled THEN "exited" ELSE None)
             ELSE IF Throttled \/ Trips(ok) THEN "entered" ELSE None
  /\ released' = (released /\ ~Trips(ok))

(* #book: an answer closes an open breaker; a failure counts, trips a       *)
(* closed one at the threshold and re-arms an open one silently.  A trip    *)
(* rebuilds the pool, a disposed transport's too.                           *)
Book(ok) ==
  /\ failures' = IF ok THEN 0 ELSE Smaller(failures + 1, Limit)
  /\ throttle' = IF ok THEN "closed" ELSE IF Throttled \/ Trips(ok) THEN "cooling" ELSE throttle
  /\ rail' = IF ok /\ Throttled THEN "exited" ELSE IF Trips(ok) THEN "entered" ELSE None
  /\ released' = (released /\ ~Trips(ok))

NoVerdict == rail' = None /\ UNCHANGED <<failures, throttle>>
BookNothing == NoVerdict /\ UNCHANGED released

(* The other sends once an outcome is booked: a trip resets the pool. *)
Survivors(ok, calls) == IF Trips(ok) THEN Reset(calls) ELSE calls

(* An attempt that is over, with the outcome it books. *)
SettleBooking(c, ok) ==
  /\ Book(ok)
  /\ call' = Survivors(ok, [call EXCEPT ![c] = Idle])

SettleQuietly(c) ==
  /\ BookNothing
  /\ call' = [call EXCEPT ![c] = Idle]

-----------------------------------------------------------------------------
(* A consumer's request.  One the gate refuses changes nothing. *)
Send(r, probe) ==
  /\ call[r].at = "idle"
  /\ ~Refused(probe, throttle)
  /\ BookNothing
  /\ call' = [call EXCEPT ![r] = Dispatched(probe, TRUE)]

(* It is answered with anything but a 401 it may relogin for. *)
Answered(r, s) ==
  /\ call[r].at = "sent" /\ ~call[r].doomed
  /\ s = "unauthorized" => ~call[r].retry
  /\ SettleBooking(r, ControllerServing(s))

(* It fails: no connection, no answer in time, or its pool was destroyed. *)
Fails(r) ==
  /\ call[r].at = "sent"
  /\ SettleBooking(r, FALSE)

(* Its caller cancels it: in flight it settles at once and books nothing;   *)
(* awaiting the relogin it goes on until the relogin is over.               *)
Cancel(r) ==
  \/ /\ call[r].at = "sent"
     /\ SettleQuietly(r)
  \/ /\ call[r].at = "relogin" /\ ~call[r].cancelled
     /\ call' = [call EXCEPT ![r].cancelled = TRUE]
     /\ BookNothing

(* The relogin of its 401 is over.  It is sent once more, past the gate,    *)
(* handed its 401, or thrown the relogin's failure.                         *)
Resumes(r, outcome) ==
  /\ call[r].at = "relogin"
  /\ \/ /\ outcome = "yes" /\ ~call[r].cancelled
        /\ BookNothing
        /\ call' = [call EXCEPT ![r] = Dispatched(call[r].probe, FALSE)]
     \/ /\ outcome = "yes" /\ call[r].cancelled
        /\ SettleQuietly(r)
     \/ /\ outcome = "no"
        /\ SettleBooking(r, ControllerServing("unauthorized"))
     \/ /\ outcome = "threw"
        /\ SettleQuietly(r)

(* The cooldown passes. *)
CooldownElapses ==
  /\ throttle = "cooling"
  /\ throttle' = "elapsed"
  /\ rail' = None
  /\ UNCHANGED <<failures, call, released>>

(* A consumer resets the pool: an owned one is rebuilt. *)
ConsumerResets ==
  /\ released' = FALSE
  /\ call' = Reset(call)
  /\ NoVerdict

(* asyncDispose: the owned pool in place is destroyed.  Nothing remembers   *)
(* that it was: a reset of the disposed transport builds another, which     *)
(* only another disposal destroys.                                          *)
Release ==
  /\ OwnsPool /\ ~released
  /\ released' = TRUE
  /\ call' = Reset(call)
  /\ NoVerdict

TransportInit ==
  /\ failures = 0 /\ throttle = "closed" /\ rail = None
  /\ call = [c \in Calls |-> Idle]
  /\ released = FALSE

CallRecord == [at : {"idle", "sent", "relogin"}, probe : BOOLEAN, retry : BOOLEAN,
               cancelled : BOOLEAN, doomed : BOOLEAN]

BreakerTypeOK ==
  /\ failures \in 0..Limit
  /\ throttle \in {"closed", "cooling", "elapsed"}
  /\ rail \in {"entered", "exited", None}

TransportTypeOK ==
  /\ BreakerTypeOK
  /\ call \in [Calls -> CallRecord]
  /\ released \in BOOLEAN

(* The breaker is open exactly when the failures in a row, counted over all *)
(* concurrent sends and handshakes, have reached the limit since the last   *)
(* answer.                                                                  *)
OpenAtLimit == Throttled <=> failures = Limit

(* The rails fire exactly at the edges of isThrottled, whatever failures    *)
(* re-arm it in between: a consumer that follows them is never a verdict    *)
(* behind.                                                                  *)
RailsAlternate ==
  [][ /\ rail' = "entered" <=> (~Throttled /\ Throttled')
      /\ rail' = "exited" <=> (Throttled /\ ~Throttled') ]_transportVars
=============================================================================
