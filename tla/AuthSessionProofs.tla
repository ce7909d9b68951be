------------------------- MODULE AuthSessionProofs -------------------------
(***************************************************************************)
(* Proofs about AuthSession, for every number of requests and logins and   *)
(* every threshold.  The breaker is argued about first: every step books   *)
(* at most one outcome on it (BreakerStep), and its count and rails follow *)
(* from that alone.  The session needs that a handshake has an owner       *)
(* (Owned) and that a relogin which is over with a yes has left a whole    *)
(* session and a closed breaker (Earned).                                  *)
(***************************************************************************)
EXTENDS AuthSession, TLAPS

USE DEF Throttled, BookNothing

-----------------------------------------------------------------------------
(* The breaker. *)

Cools == throttle = "cooling" /\ throttle' = "elapsed" /\ rail' = None /\ UNCHANGED <<failures, released>>
Unbooked == NoVerdict /\ released' \in {released, TRUE, FALSE}

BreakerStep == Unbooked \/ Cools \/ \E ok \in BOOLEAN : Book(ok)

LEMMA BookingKeeps ==
  ASSUME BreakerTypeOK, OpenAtLimit, NEW ok \in BOOLEAN, Book(ok)
  PROVE  BreakerTypeOK' /\ OpenAtLimit' /\ (ok => throttle' = "closed")
<1>1. CASE ok
  BY <1>1, LimitAssumption DEF Book, Trips, BreakerTypeOK, OpenAtLimit, Smaller
<1>2. CASE ~ok
  BY <1>2, LimitAssumption DEF Book, Trips, BreakerTypeOK, OpenAtLimit, Smaller
<1> QED BY <1>1, <1>2

LEMMA BookingFiresEdges ==
  ASSUME BreakerTypeOK, NEW ok \in BOOLEAN, Book(ok)
  PROVE  /\ rail' = "entered" <=> (~Throttled /\ Throttled')
         /\ rail' = "exited" <=> (Throttled /\ ~Throttled')
<1>1. CASE ok
  BY <1>1, NoRailAssumption DEF Book, Trips, BreakerTypeOK
<1>2. CASE ~ok
  BY <1>2, NoRailAssumption DEF Book, Trips, BreakerTypeOK
<1> QED BY <1>1, <1>2

LEMMA BreakerKeeps ==
  ASSUME BreakerTypeOK, OpenAtLimit, BreakerStep
  PROVE  BreakerTypeOK' /\ OpenAtLimit'
<1>1. CASE Unbooked \/ Cools
  BY <1>1 DEF Unbooked, NoVerdict, Cools, BreakerTypeOK, OpenAtLimit
<1>2. CASE \E ok \in BOOLEAN : Book(ok)
  BY <1>2, BookingKeeps
<1> QED BY <1>1, <1>2 DEF BreakerStep

LEMMA BreakerFiresEdges ==
  ASSUME BreakerTypeOK, BreakerStep
  PROVE  /\ rail' = "entered" <=> (~Throttled /\ Throttled')
         /\ rail' = "exited" <=> (Throttled /\ ~Throttled')
<1>1. CASE Unbooked \/ Cools
  BY <1>1, NoRailAssumption DEF Unbooked, NoVerdict, Cools, BreakerTypeOK
<1>2. CASE \E ok \in BOOLEAN : Book(ok)
  BY <1>2, BookingFiresEdges
<1> QED BY <1>1, <1>2 DEF BreakerStep

(* Every step books at most one outcome. *)
LEMMA StepsBookOnce ==
  ASSUME Next
  PROVE  BreakerStep
<1>0. \A s \in Status : ControllerServing(s) \in BOOLEAN
  BY DEF ControllerServing
<1>1. ASSUME NEW r \in Calls, NEW ok \in BOOLEAN, SettleBooking(r, ok) PROVE BreakerStep
  BY <1>1 DEF SettleBooking, BreakerStep
<1>2. ASSUME NEW r \in Calls, SettleQuietly(r) PROVE BreakerStep
  BY <1>2 DEF SettleQuietly, BreakerStep, Unbooked
<1>3. CASE TransportStep
  <2>1. CASE \E r \in Requests : Cancel(r)
    BY <2>1, <1>2 DEF Cancel, BreakerStep, Unbooked, Calls
  <2>2. CASE \E r \in Requests, probe \in BOOLEAN : Send(r, probe)
    BY <2>2 DEF Send, BreakerStep, Unbooked
  <2>3. CASE CooldownElapses
    BY <2>3 DEF CooldownElapses, Cools, BreakerStep
  <2>4. CASE ConsumerResets \/ Release
    BY <2>4 DEF ConsumerResets, Release, BreakerStep, Unbooked
  <2> QED BY <1>3, <2>1, <2>2, <2>3, <2>4 DEF TransportStep
<1>4. CASE \E r \in Requests : Settles(r)
  BY <1>4, <1>0, <1>1 DEF Settles, Fails, Answered, Calls
<1>5. CASE (\E g \in Credentials : Login(g)) \/ Logout \/ ReloginOver
  BY <1>5 DEF Login, Logout, ReloginOver, BreakerStep, Unbooked
<1>6. CASE \E c \in Calls : Unauthorized(c)
  <2>1. ControllerServing("unauthorized") \in BOOLEAN BY DEF ControllerServing
  <2> QED BY <1>6, <2>1, <1>1 DEF Unauthorized, BreakerStep, Unbooked
<1>7. CASE \E c \in Calls : JoinerResumes(c)
  <2>1. ControllerServing("unauthorized") \in BOOLEAN BY DEF ControllerServing
  <2> QED BY <1>7, <2>1, <1>1, <1>2 DEF JoinerResumes, Resumes, BreakerStep, Unbooked
<1>8. CASE \E h \in Handshakes : HandshakeStep(h)
  <2>1. ASSUME NEW h \in Handshakes, HandshakeFails(h) PROVE BreakerStep
    BY <2>1, <1>1, <1>2 DEF HandshakeFails, Calls
  <2>2. ASSUME NEW h \in Handshakes, NEW s \in Status, RootAnswered(h, s) \/ LoginAnswered(h, s)
        PROVE  BreakerStep
    BY <2>2, <1>0 DEF RootAnswered, LoginAnswered, HandshakeAnswered, BreakerStep
  <2> QED BY <1>8, <2>1, <2>2 DEF HandshakeStep
<1> QED BY <1>3, <1>4, <1>5, <1>6, <1>7, <1>8 DEF Next

BreakerInv == BreakerTypeOK /\ OpenAtLimit

LEMMA BreakerInductive ==
  ASSUME BreakerInv, [Next]_vars
  PROVE  BreakerInv'
<1>1. CASE Next
  BY <1>1, StepsBookOnce, BreakerKeeps DEF BreakerInv
<1>2. CASE UNCHANGED vars
  BY <1>2 DEF BreakerInv, BreakerTypeOK, OpenAtLimit, vars, transportVars
<1> QED BY <1>1, <1>2

LEMMA BreakerInit ==
  ASSUME Init
  PROVE  BreakerInv
BY LimitAssumption DEF Init, TransportInit, BreakerInv, BreakerTypeOK, OpenAtLimit

(* The breaker is open exactly when the failures in a row have reached the *)
(* limit, for every limit and any number of concurrent sends (#book).      *)
THEOREM OpensAtLimit == Spec => []OpenAtLimit
<1>1. BreakerInv => OpenAtLimit
  BY DEF BreakerInv
<1> QED BY BreakerInit, BreakerInductive, <1>1, PTL DEF Spec

(* The rails fire exactly at the edges of isThrottled (#book). *)
THEOREM RailsAreEdges == Spec => RailsAlternate
<1>1. ASSUME BreakerInv, [Next]_vars
      PROVE  [ /\ rail' = "entered" <=> (~Throttled /\ Throttled')
               /\ rail' = "exited" <=> (Throttled /\ ~Throttled') ]_transportVars
  BY <1>1, StepsBookOnce, BreakerFiresEdges DEF BreakerInv, vars
<1> QED BY BreakerInit, BreakerInductive, <1>1, PTL DEF Spec, RailsAlternate

-----------------------------------------------------------------------------
(* The session.  The parts of TypeOK about it, without the sends. *)

HandRecord == [at : {"none", "root", "login", "done"}, owner : Credentials \cup {None},
               outcome : {"yes", "no", "threw", None}]

SessionTypeOK ==
  /\ credentials \in Credentials \cup {None} /\ used \subseteq Credentials
  /\ cookie \in Credentials \cup {None} /\ csrf \in Credentials \cup {None}
  /\ hand \in [Handshakes -> HandRecord]

(* A handshake that may still earn a session was begun for a login. *)
Owned == \A h \in Handshakes : hand[h].at \in {"root", "login"} => hand[h].owner # None

(* A relogin over with a yes has left a whole session of the current login *)
(* and a closed breaker, until every request that shares it resumed.       *)
Earned ==
  hand[Relogin].at = "done" /\ hand[Relogin].outcome = "yes" =>
    /\ throttle = "closed"
    /\ cookie # None /\ csrf = cookie /\ cookie = credentials

SessionInv == SessionTypeOK /\ Owned /\ LoggedOutStaysOut /\ Earned

LEMMA EndedIsRecord ==
  ASSUME NEW h \in Handshakes, NEW owner \in Credentials \cup {None},
         NEW outcome \in {"yes", "no", "threw"}
  PROVE  /\ Ended(h, owner, outcome) \in HandRecord
         /\ Ended(h, owner, outcome).at \in {"none", "done"}
         /\ h # Relogin => Ended(h, owner, outcome).at = "none"
         /\ Ended(h, owner, outcome).outcome \in {outcome, None}
BY DEF Ended, NoHandshake, HandRecord

(* A handshake that ends keeps the parts of the invariant about hand. *)
LEMMA EndsKeeps ==
  ASSUME SessionTypeOK, Owned, NEW h \in Handshakes,
         NEW owner \in Credentials \cup {None},
         NEW outcome \in {"yes", "no", "threw"}, Ends(h, owner, outcome)
  PROVE  /\ hand' \in [Handshakes -> HandRecord] /\ Owned'
         /\ NewTurn /\ hand'[Relogin].at = "done" /\ hand'[Relogin].outcome = "yes"
              => h = Relogin /\ outcome = "yes"
<1>1. /\ Relogin \in Handshakes
      /\ hand' = [hand EXCEPT ![h] = Ended(h, owner, outcome)]
  BY CredentialsAssumption DEF Ends
<1>2. hand' \in [Handshakes -> HandRecord]
  BY <1>1, EndedIsRecord DEF SessionTypeOK
<1>3. Owned'
  BY <1>1, EndedIsRecord DEF SessionTypeOK, Owned
<1>4. CASE h = Relogin
  BY <1>1, <1>2, <1>3, <1>4 DEF Ended, SessionTypeOK
<1>5. CASE h # Relogin
  BY <1>1, <1>2, <1>3, <1>5 DEF NewTurn, SessionTypeOK
<1> QED BY <1>4, <1>5

(* So does a send of a handshake, whether the gate refuses it or not. *)
LEMMA HandshakeSendKeeps ==
  ASSUME SessionTypeOK, Owned, NewTurn, NEW h \in Handshakes, NEW owner \in Credentials,
         NEW step \in {"root", "login"}, NEW probe, NEW calls,
         HandshakeSend(h, owner, step, probe, calls)
  PROVE  /\ hand' \in [Handshakes -> HandRecord] /\ Owned'
         /\ ~(hand'[Relogin].at = "done" /\ hand'[Relogin].outcome = "yes")
<1>1. CASE Ends(h, owner, "threw")
  BY <1>1, EndsKeeps
<1>2. CASE hand' = [hand EXCEPT ![h] = [at |-> step, owner |-> owner, outcome |-> None]]
  BY <1>2, CredentialsAssumption DEF SessionTypeOK, Owned, NewTurn, HandRecord
<1> QED BY <1>1, <1>2 DEF HandshakeSend

LEMMA SessionInductive ==
  ASSUME SessionInv, [Next]_vars
  PROVE  SessionInv'
<1> USE DEF SessionInv
<1>1. CASE UNCHANGED vars
  BY <1>1 DEF vars, sessionVars, transportVars, SessionTypeOK, Owned, LoggedOutStaysOut, Earned
<1>2. ASSUME UNCHANGED <<sessionVars, hand>>, NewTurn PROVE SessionInv'
  BY <1>2 DEF sessionVars, SessionTypeOK, Owned, LoggedOutStaysOut, Earned, NewTurn
<1>3. CASE TransportStep \/ \E r \in Requests : Settles(r)
  BY <1>3, <1>2 DEF TransportStep, Settles
<1>4. ASSUME NEW g \in Credentials, Login(g) PROVE SessionInv'
  <2>1. /\ NewTurn /\ credentials' = g /\ used' = used \cup {g} /\ UNCHANGED <<cookie, csrf>>
        /\ HandshakeSend(g, g, "root", FALSE, call) /\ g \in Handshakes
    BY <1>4, CredentialsAssumption DEF Login
  <2>2. /\ hand' \in [Handshakes -> HandRecord] /\ Owned'
        /\ ~(hand'[Relogin].at = "done" /\ hand'[Relogin].outcome = "yes")
    BY <2>1, HandshakeSendKeeps
  <2> QED BY <2>1, <2>2, CredentialsAssumption DEF SessionTypeOK, LoggedOutStaysOut, Earned
<1>5. CASE Logout
  BY <1>5 DEF Logout, NewTurn, SessionTypeOK, Owned, LoggedOutStaysOut, Earned
<1>6. ASSUME NEW c \in Calls, Unauthorized(c) PROVE SessionInv'
  <2>1. CASE UNCHANGED <<sessionVars, hand>>
    BY <2>1, <1>6, <1>2 DEF Unauthorized
  <2>2. CASE /\ credentials # None /\ cookie' = None /\ csrf' = None
             /\ HandshakeSend(Relogin, credentials, "root", call[c].probe,
                              [call EXCEPT ![c].at = "relogin"])
             /\ UNCHANGED <<credentials, used>>
    <3>1. NewTurn /\ credentials \in Credentials /\ Relogin \in Handshakes
      BY <2>2, <1>6, CredentialsAssumption DEF Unauthorized, SessionTypeOK
    <3>2. /\ hand' \in [Handshakes -> HandRecord] /\ Owned'
          /\ ~(hand'[Relogin].at = "done" /\ hand'[Relogin].outcome = "yes")
      BY <2>2, <3>1, HandshakeSendKeeps
    <3> QED BY <2>2, <3>1, <3>2 DEF SessionTypeOK, LoggedOutStaysOut, Earned
  <2> QED BY <1>6, <2>1, <2>2 DEF Unauthorized
<1>7. ASSUME NEW h \in Handshakes, HandshakeFails(h) PROVE SessionInv'
  <2>1. /\ NewTurn /\ Ends(h, hand[h].owner, "threw") /\ UNCHANGED sessionVars
        /\ hand[h].owner \in Credentials \cup {None}
    BY <1>7 DEF HandshakeFails, SessionTypeOK, HandRecord
  <2>2. /\ hand' \in [Handshakes -> HandRecord] /\ Owned'
        /\ ~(hand'[Relogin].at = "done" /\ hand'[Relogin].outcome = "yes")
    BY <2>1, EndsKeeps
  <2> QED BY <2>1, <2>2 DEF sessionVars, SessionTypeOK, LoggedOutStaysOut, Earned
<1>8. ASSUME NEW h \in Handshakes, NEW s \in Status, RootAnswered(h, s) PROVE SessionInv'
  <2>1. /\ NewTurn /\ UNCHANGED sessionVars /\ hand[h].at = "root"
        /\ hand[h].owner \in Credentials
    BY <1>8 DEF RootAnswered, HandshakeAnswered, SessionTypeOK, HandRecord, Owned
  <2>2. CASE \E o \in {"no", "threw"} : Ends(h, hand[h].owner, o)
    <3>1. /\ hand' \in [Handshakes -> HandRecord] /\ Owned'
          /\ ~(hand'[Relogin].at = "done" /\ hand'[Relogin].outcome = "yes")
      BY <2>1, <2>2, EndsKeeps
    <3> QED BY <2>1, <3>1 DEF sessionVars, SessionTypeOK, LoggedOutStaysOut, Earned
  <2>3. CASE HandshakeSend(h, hand[h].owner, "login", call[h].probe, Others(h, s))
    <3>1. /\ hand' \in [Handshakes -> HandRecord] /\ Owned'
          /\ ~(hand'[Relogin].at = "done" /\ hand'[Relogin].outcome = "yes")
      BY <2>1, <2>3, HandshakeSendKeeps
    <3> QED BY <2>1, <3>1 DEF sessionVars, SessionTypeOK, LoggedOutStaysOut, Earned
  <2> QED BY <1>8, <2>2, <2>3 DEF RootAnswered
<1>9. ASSUME NEW h \in Handshakes, NEW s \in Status, LoginAnswered(h, s) PROVE SessionInv'
  <2>1. /\ NewTurn /\ UNCHANGED <<credentials, used>> /\ hand[h].owner \in Credentials
        /\ s = "ok" => throttle' = "closed"
    BY <1>9 DEF LoginAnswered, HandshakeAnswered, Book, ControllerServing, SessionTypeOK,
                HandRecord, Owned
  <2>2. CASE s = "ok" /\ EarnSession(h) /\ credentials = hand[h].owner
    <3>1. Ends(h, hand[h].owner, "yes") /\ cookie' = credentials /\ csrf' = credentials
      BY <2>2 DEF EarnSession
    <3>2. hand' \in [Handshakes -> HandRecord] /\ Owned'
      BY <2>1, <3>1, EndsKeeps
    <3> QED BY <2>1, <2>2, <3>1, <3>2, CredentialsAssumption
            DEF SessionTypeOK, LoggedOutStaysOut, Earned
  <2>3. CASE /\ \E o \in {"no", "threw"} : Ends(h, hand[h].owner, o)
             /\ cookie' \in {None, cookie} /\ csrf' = csrf
    <3>1. /\ hand' \in [Handshakes -> HandRecord] /\ Owned'
          /\ ~(hand'[Relogin].at = "done" /\ hand'[Relogin].outcome = "yes")
      BY <2>1, <2>3, EndsKeeps
    <3> QED BY <2>1, <2>3, <3>1 DEF SessionTypeOK, LoggedOutStaysOut, Earned
  <2>4. CASE s = "ok" /\ EarnSession(h) /\ credentials # hand[h].owner
    BY <2>3, <2>4 DEF EarnSession
  <2>5. CASE ClearFailedSession(hand[h].owner) /\ \E o \in {"no", "threw"} : Ends(h, hand[h].owner, o)
    BY <2>3, <2>5 DEF ClearFailedSession
  <2> QED BY <1>9, <2>2, <2>4, <2>5 DEF LoginAnswered
<1>10. ASSUME NEW c \in Calls, JoinerResumes(c) PROVE SessionInv'
  <2>1. UNCHANGED <<sessionVars, hand>> /\ hand[Relogin].outcome = "yes" => UNCHANGED throttle
    BY <1>10 DEF JoinerResumes, Resumes, NoVerdict, SettleQuietly
  <2> QED BY <1>10, <2>1 DEF JoinerResumes, sessionVars, SessionTypeOK, Owned, LoggedOutStaysOut, Earned
<1>11. CASE ReloginOver
  BY <1>11, CredentialsAssumption
     DEF ReloginOver, NoHandshake, sessionVars, SessionTypeOK, HandRecord, Owned, LoggedOutStaysOut, Earned
<1> QED BY <1>1, <1>3, <1>4, <1>5, <1>6, <1>7, <1>8, <1>9, <1>10, <1>11 DEF Next, HandshakeStep

LEMMA SessionInit ==
  ASSUME Init
  PROVE  SessionInv
BY CredentialsAssumption
   DEF Init, SessionInv, SessionTypeOK, HandRecord, NoHandshake, Owned, LoggedOutStaysOut, Earned

(* A logout is final, whichever handshakes it overtakes (#handshake's       *)
(* guards), for any number of logins and requests.                          *)
THEOREM LogoutIsFinal == Spec => []LoggedOutStaysOut
<1>1. SessionInv => LoggedOutStaysOut
  BY DEF SessionInv
<1> QED BY SessionInit, SessionInductive, <1>1, PTL DEF Spec

-----------------------------------------------------------------------------
(* The sends in flight. *)

CallsTypeOK == call \in [Calls -> CallRecord] /\ released \in BOOLEAN

(* A send other than c is left where it is, and c is left idle, in flight,  *)
(* or awaiting the relogin.                                                 *)
MovesOnly(c, calls) ==
  /\ calls \in [Calls -> CallRecord]
  /\ \A d \in Calls \ {c} : calls[d].at = call[d].at

LEMMA IdleIsRecord == Idle \in CallRecord
BY DEF Idle, CallRecord

LEMMA DispatchedIsRecord ==
  ASSUME released' \in BOOLEAN, NEW probe \in BOOLEAN, NEW retry \in BOOLEAN
  PROVE  Dispatched(probe, retry) \in CallRecord
BY DEF Dispatched, Idle, CallRecord

LEMMA ResetKeeps ==
  ASSUME NEW calls \in [Calls -> CallRecord]
  PROVE  /\ Reset(calls) \in [Calls -> CallRecord]
         /\ \A c \in Calls : Reset(calls)[c].at = calls[c].at
<1>1. ASSUME NEW r \in CallRecord, NEW b \in BOOLEAN
      PROVE  [r EXCEPT !.doomed = b] \in CallRecord /\ [r EXCEPT !.doomed = b].at = r.at
  BY DEF CallRecord
<1>2. ASSUME NEW c \in Calls PROVE (calls[c].doomed \/ (OwnsPool /\ calls[c].at = "sent")) \in BOOLEAN
  OBVIOUS
<1> QED BY <1>1, <1>2 DEF Reset

LEMMA SurvivorsKeep ==
  ASSUME NEW calls \in [Calls -> CallRecord], NEW ok
  PROVE  /\ Survivors(ok, calls) \in [Calls -> CallRecord]
         /\ \A c \in Calls : Survivors(ok, calls)[c].at = calls[c].at
BY ResetKeeps DEF Survivors

LEMMA SettlesKeep ==
  ASSUME CallsTypeOK, NEW c \in Calls, NEW ok, SettleBooking(c, ok) \/ SettleQuietly(c)
  PROVE  MovesOnly(c, call') /\ call'[c].at = "idle"
<1>1. /\ [call EXCEPT ![c] = Idle] \in [Calls -> CallRecord]
      /\ [call EXCEPT ![c] = Idle][c].at = "idle"
      /\ \A d \in Calls \ {c} : [call EXCEPT ![c] = Idle][d].at = call[d].at
  BY IdleIsRecord DEF CallsTypeOK, Idle
<1>2. CASE SettleBooking(c, ok)
  <2>1. call' = Survivors(ok, [call EXCEPT ![c] = Idle])
    BY <1>2 DEF SettleBooking
  <2> HIDE DEF Idle
  <2>2. /\ call' \in [Calls -> CallRecord]
        /\ \A d \in Calls : call'[d].at = [call EXCEPT ![c] = Idle][d].at
    BY <1>1, <2>1, SurvivorsKeep
  <2> QED BY <1>1, <2>2 DEF MovesOnly
<1>3. CASE SettleQuietly(c)
  BY <1>1, <1>3 DEF SettleQuietly, MovesOnly
<1> QED BY <1>2, <1>3

LEMMA HandshakeSendMoves ==
  ASSUME released' \in BOOLEAN, NEW h \in Handshakes, NEW owner, NEW step, NEW probe \in BOOLEAN,
         NEW calls \in [Calls -> CallRecord], HandshakeSend(h, owner, step, probe, calls)
  PROVE  /\ call' \in [Calls -> CallRecord]
         /\ \A c \in Calls \ {h} : call'[c].at = calls[c].at
BY DispatchedIsRecord DEF HandshakeSend, Calls

(* Which sends a step may move: one request, or one handshake's send with   *)
(* the requests that begin to await it.  None but a resumed one goes from   *)
(* the relogin back into flight.                                            *)
LEMMA CallsInductive ==
  ASSUME CallsTypeOK, SessionTypeOK, [Next]_vars
  PROVE  /\ CallsTypeOK'
         /\ \A r \in Requests :
              call[r].at = "relogin" /\ call'[r].at = "sent"
              => hand[Relogin].outcome = "yes" /\ JoinerResumes(r)
<1> DEFINE Goal == /\ CallsTypeOK'
                   /\ \A r \in Requests :
                        call[r].at = "relogin" /\ call'[r].at = "sent"
                        => hand[Relogin].outcome = "yes" /\ JoinerResumes(r)
<1>0. /\ \A r \in Requests : r \in Calls /\ r \notin Handshakes
      /\ \A h \in Handshakes : h \in Calls
      /\ Relogin \in Handshakes
      /\ \A c \in Calls : call[c] \in CallRecord /\ call[c].probe \in BOOLEAN
  BY CredentialsAssumption DEF Calls, CallsTypeOK, CallRecord
<1>r. released' \in BOOLEAN
  <2>1. CASE UNCHANGED vars
    BY <2>1 DEF vars, transportVars, CallsTypeOK
  <2>2. CASE Next
    BY <2>2, StepsBookOnce DEF BreakerStep, Unbooked, Cools, Book, CallsTypeOK
  <2> QED BY <2>1, <2>2
<1>1. CASE UNCHANGED vars
  BY <1>1 DEF vars, transportVars, CallsTypeOK
<1>2. ASSUME NEW c \in Calls, MovesOnly(c, call'), call[c].at # "relogin" \/ call'[c].at # "sent"
      PROVE  Goal
  BY <1>2, <1>0, <1>r DEF MovesOnly, CallsTypeOK
<1>3. ASSUME NEW c \in Calls, NEW ok, SettleBooking(c, ok) \/ SettleQuietly(c)
      PROVE  Goal
  <2>1. MovesOnly(c, call') /\ call'[c].at = "idle"
    BY <1>3, SettlesKeep
  <2> QED BY <2>1, <1>2, <1>3
<1>4. CASE TransportStep
  <2>1. CASE \E r \in Requests : Cancel(r)
    <3>1. PICK r \in Requests : Cancel(r) BY <2>1
    <3>2. CASE SettleQuietly(r)
      BY <3>2, <1>0, <1>3
    <3>3. CASE call' = [call EXCEPT ![r].cancelled = TRUE]
      <4>1. [call[r] EXCEPT !.cancelled = TRUE] \in CallRecord /\ [call[r] EXCEPT !.cancelled = TRUE].at = call[r].at
        BY <1>0 DEF CallRecord
      <4> QED BY <3>3, <4>1, <1>0, <1>r DEF CallsTypeOK
    <3> QED BY <3>1, <3>2, <3>3 DEF Cancel
  <2>2. CASE \E r \in Requests, probe \in BOOLEAN : Send(r, probe)
    <3>1. PICK r \in Requests, probe \in BOOLEAN : Send(r, probe) BY <2>2
    <3>2. Dispatched(probe, TRUE) \in CallRecord
      BY <1>r, DispatchedIsRecord
    <3> QED BY <3>1, <3>2, <1>0, <1>r DEF Send, CallsTypeOK
  <2>3. CASE CooldownElapses
    BY <2>3 DEF CooldownElapses, CallsTypeOK
  <2>4. CASE ConsumerResets \/ Release
    BY <2>4, <1>0, <1>r, ResetKeeps DEF ConsumerResets, Release, CallsTypeOK
  <2> QED BY <1>4, <2>1, <2>2, <2>3, <2>4 DEF TransportStep
<1>5. CASE \E r \in Requests : Settles(r)
  BY <1>5, <1>0, <1>3 DEF Settles, Fails, Answered
<1>6. CASE \E g \in Credentials : Login(g)
  <2>1. PICK g \in Credentials : Login(g) BY <1>6
  <2>2. g \in Handshakes BY CredentialsAssumption
  <2>3. /\ call' \in [Calls -> CallRecord]
        /\ \A c \in Calls \ {g} : call'[c].at = call[c].at
    BY <2>1, <2>2, <1>r, HandshakeSendMoves DEF Login, CallsTypeOK
  <2> QED BY <2>1, <2>2, <2>3, <1>0, <1>r DEF Login, CallsTypeOK
<1>7. CASE Logout \/ ReloginOver
  BY <1>7 DEF Logout, ReloginOver, CallsTypeOK
<1>8. ASSUME NEW c \in Calls, Unauthorized(c) PROVE Goal
  <2>1. /\ [call EXCEPT ![c].at = "relogin"] \in [Calls -> CallRecord]
        /\ \A d \in Calls \ {c} : [call EXCEPT ![c].at = "relogin"][d].at = call[d].at
        /\ [call EXCEPT ![c].at = "relogin"][c].at = "relogin" /\ call[c].at = "sent"
    BY <1>8, <1>0 DEF Unauthorized, CallsTypeOK, CallRecord
  <2>2. CASE call' = [call EXCEPT ![c].at = "relogin"]
    BY <2>1, <2>2, <1>2 DEF MovesOnly
  <2>3. CASE SettleBooking(c, ControllerServing("unauthorized"))
    BY <2>1, <2>3, <1>3
  <2>4. CASE HandshakeSend(Relogin, credentials, "root", call[c].probe, [call EXCEPT ![c].at = "relogin"])
    <3> DEFINE calls == [call EXCEPT ![c].at = "relogin"]
    <3>1. /\ calls \in [Calls -> CallRecord] /\ call[c].probe \in BOOLEAN
          /\ HandshakeSend(Relogin, credentials, "root", call[c].probe, calls)
      BY <2>1, <2>4, <1>0
    <3>2. \A d \in Calls \ {c} : calls[d].at = call[d].at
      BY <2>1
    <3> HIDE DEF calls
    <3>3. /\ call' \in [Calls -> CallRecord]
          /\ \A d \in Calls \ {Relogin} : call'[d].at = calls[d].at
      BY <3>1, <1>0, <1>r, HandshakeSendMoves
    <3> QED BY <3>2, <3>3, <2>1, <1>0, <1>r DEF CallsTypeOK
  <2> QED BY <1>8, <2>2, <2>3, <2>4 DEF Unauthorized
<1>9. ASSUME NEW c \in Calls, JoinerResumes(c) PROVE Goal
  <2>1. CASE SettleQuietly(c) \/ SettleBooking(c, ControllerServing("unauthorized"))
    BY <2>1, <1>9, <1>3 DEF JoinerResumes, Resumes
  <2>2. CASE hand[Relogin].outcome = "yes" /\ call' = [call EXCEPT ![c] = Dispatched(call[c].probe, FALSE)]
    <3>1. Dispatched(call[c].probe, FALSE) \in CallRecord
      BY <1>0, <1>r, DispatchedIsRecord
    <3> QED BY <2>2, <3>1, <1>9, <1>0, <1>r DEF JoinerResumes, Resumes, CallsTypeOK
  <2> QED BY <1>9, <2>1, <2>2 DEF JoinerResumes, Resumes
<1>10. ASSUME NEW h \in Handshakes, HandshakeFails(h) PROVE Goal
  BY <1>10, <1>0, <1>3 DEF HandshakeFails
<1>11. ASSUME NEW h \in Handshakes, NEW s \in Status, RootAnswered(h, s) \/ LoginAnswered(h, s)
       PROVE  Goal
  <2>1. /\ Others(h, s) \in [Calls -> CallRecord]
        /\ \A c \in Calls \ {h} : Others(h, s)[c].at = call[c].at
    <3>1. /\ [call EXCEPT ![h] = Idle] \in [Calls -> CallRecord]
          /\ \A c \in Calls \ {h} : [call EXCEPT ![h] = Idle][c].at = call[c].at
      BY <1>0, IdleIsRecord DEF CallsTypeOK
    <3> QED BY <3>1, SurvivorsKeep DEF Others
  <2>2. CASE call' = Others(h, s)
    BY <2>1, <2>2, <1>11, <1>0, <1>r DEF RootAnswered, LoginAnswered, HandshakeAnswered, CallsTypeOK
  <2>3. CASE HandshakeSend(h, hand[h].owner, "login", call[h].probe, Others(h, s))
    <3>1. /\ call' \in [Calls -> CallRecord]
          /\ \A c \in Calls \ {h} : call'[c].at = Others(h, s)[c].at
      BY <2>1, <2>3, <1>0, <1>r, HandshakeSendMoves
    <3> QED BY <3>1, <2>1, <1>11, <1>0, <1>r DEF RootAnswered, LoginAnswered, HandshakeAnswered, CallsTypeOK
  <2> QED BY <1>11, <2>2, <2>3 DEF RootAnswered, LoginAnswered
<1> QED BY <1>1, <1>4, <1>5, <1>6, <1>7, <1>8, <1>9, <1>10, <1>11 DEF Next, HandshakeStep

Inv == BreakerInv /\ SessionInv /\ CallsTypeOK

LEMMA InvInit ==
  ASSUME Init
  PROVE  Inv
BY BreakerInit, SessionInit, IdleIsRecord DEF Init, TransportInit, Inv, CallsTypeOK

LEMMA InvInductive ==
  ASSUME Inv, [Next]_vars
  PROVE  Inv'
BY BreakerInductive, SessionInductive, CallsInductive DEF Inv, SessionInv

(* Every variable of the transport and of the session keeps its type. *)
THEOREM TypeCorrect == Spec => []TypeOK
<1>1. Inv => TypeOK
  BY DEF Inv, BreakerInv, SessionInv, SessionTypeOK, CallsTypeOK, TypeOK, TransportTypeOK, HandRecord
<1> QED BY InvInit, InvInductive, <1>1, PTL DEF Spec

(* A request is sent again only with the whole session its relogin earned   *)
(* and through a closed breaker (send's loop, which passes no gate twice).  *)
THEOREM ResendsAreEarned == Spec => ResendIsEarned
<1> DEFINE Step == \A r \in Requests :
                     call[r].at = "relogin" /\ call'[r].at = "sent"
                     => throttle' = "closed" /\ cookie' # None /\ csrf' = cookie' /\ cookie' = credentials'
<1>1. ASSUME Inv, [Next]_vars PROVE Step
  <2>1. SUFFICES ASSUME NEW r \in Requests, call[r].at = "relogin", call'[r].at = "sent"
                 PROVE  throttle' = "closed" /\ cookie' # None /\ csrf' = cookie' /\ cookie' = credentials'
    OBVIOUS
  <2>2. hand[Relogin].outcome = "yes" /\ JoinerResumes(r)
    BY <1>1, <2>1, CallsInductive DEF Inv, SessionInv
  <2>3. UNCHANGED <<throttle, sessionVars>>
    BY <2>2 DEF JoinerResumes, Resumes, NoVerdict, SettleQuietly
  <2> QED BY <1>1, <2>2, <2>3 DEF JoinerResumes, Inv, SessionInv, Earned, sessionVars
<1>2. Spec => [][Step]_vars
  BY InvInit, InvInductive, <1>1, PTL DEF Spec
<1> QED BY <1>2 DEF ResendIsEarned

(* The current login's session ends only by a logout or a handshake of that *)
(* login (#clearFailedSession).                                             *)
THEOREM SessionsEndOnOwnAccount == Spec => SessionEndsOnOwnAccount
<1> DEFINE Step == cookie # None /\ cookie = credentials /\ cookie' # cookie
                   => credentials' = None \/ \E h \in Handshakes : cookie \in {hand[h].owner, hand'[h].owner}
<1>1. ASSUME SessionInv, [Next]_vars PROVE [Step]_vars
  <2>1. CASE UNCHANGED cookie
    BY <2>1
  <2>2. CASE Logout
    BY <2>2 DEF Logout
  <2>3. ASSUME NEW c \in Calls, Unauthorized(c), cookie' # cookie PROVE Step
    <3>1. /\ HandshakeSend(Relogin, credentials, "root", call[c].probe, [call EXCEPT ![c].at = "relogin"])
          /\ Relogin \in Handshakes
      BY <2>3, CredentialsAssumption DEF Unauthorized, sessionVars
    <3>2. hand'[Relogin].owner = credentials
      <4>1. CASE Ends(Relogin, credentials, "threw")
        BY <1>1, <3>1, <4>1 DEF Ends, Ended, SessionInv, SessionTypeOK
      <4>2. CASE hand' = [hand EXCEPT ![Relogin] = [at |-> "root", owner |-> credentials, outcome |-> None]]
        BY <1>1, <3>1, <4>2 DEF SessionInv, SessionTypeOK
      <4> QED BY <3>1, <4>1, <4>2 DEF HandshakeSend
    <3> QED BY <3>1, <3>2
  <2>4. ASSUME NEW h \in Handshakes, NEW s \in Status, LoginAnswered(h, s) PROVE Step
    BY <2>4 DEF LoginAnswered, EarnSession, ClearFailedSession
  <2>5. CASE Next /\ cookie' # cookie
    <3>1. \/ Logout \/ (\E c \in Calls : Unauthorized(c))
          \/ \E h \in Handshakes, s \in Status : LoginAnswered(h, s)
      BY <2>5 DEF Next, HandshakeStep, TransportStep, Settles, Login, ReloginOver, JoinerResumes,
                  HandshakeFails, RootAnswered, sessionVars
    <3> QED BY <2>5, <3>1, <2>2, <2>3, <2>4
  <2> QED BY <1>1, <2>1, <2>5 DEF vars, sessionVars
<1> QED BY SessionInit, SessionInductive, <1>1, PTL DEF Spec, SessionEndsOnOwnAccount
=============================================================================
