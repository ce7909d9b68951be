---------------------------- MODULE AuthSession ----------------------------
(***************************************************************************)
(* src/transport/auth.ts over src/transport/http.ts: the session a login   *)
(* earns, the handshakes that earn it, and the relogin requests share when *)
(* they meet a 401, every send of which books on the one breaker.  An      *)
(* action is the code one event loop turn runs up to the awaits it leaves; *)
(* the promise jobs that resume the requests of a relogin run before the   *)
(* next turn (NewTurn).                                                    *)
(***************************************************************************)
EXTENDS Transport

CONSTANTS
  Credentials, (* the snapshots login() takes, one per call                     *)
  Relogin      (* the relogin's handshake; a login's own is its snapshot        *)

ASSUME CredentialsAssumption ==
  /\ None \notin Credentials /\ Relogin \notin Credentials \cup {None}
  /\ Handshakes = Credentials \cup {Relogin}
  /\ Requests \cap Handshakes = {}

VARIABLES
  credentials, (* #credentials                                                  *)
  used,        (* the snapshots taken so far                                    *)
  cookie,      (* #cookie, by the login that earned it                          *)
  csrf,        (* #csrfToken, likewise                                          *)
  hand         (* each #handshake in progress; the relogin's is #reauthInFlight *)

sessionVars == <<credentials, used, cookie, csrf>>
vars == <<transportVars, sessionVars, hand>>

NoHandshake == [at |-> "none", owner |-> None, outcome |-> None]

(* A relogin's outcome is held until every request that shares it resumed. *)
Ended(h, owner, outcome) ==
  IF h = Relogin THEN [at |-> "done", owner |-> owner, outcome |-> outcome] ELSE NoHandshake

Ends(h, owner, outcome) == hand' = [hand EXCEPT ![h] = Ended(h, owner, outcome)]

NewTurn == hand[Relogin].at # "done"

(* Mutant: a handshake's own 401 may relogin. *)
HandshakeSendRetries(h, owner, step, probe, calls) ==
  IF Refused(probe, throttle')
  THEN Ends(h, owner, "threw") /\ call' = calls
  ELSE /\ hand' = [hand EXCEPT ![h] = [at |-> step, owner |-> owner, outcome |-> None]]
       /\ call' = [calls EXCEPT ![h] = Dispatched(probe, TRUE)]

(* A send of the handshake h: the gate lets a probe's relogin through, and *)
(* refuses another with an error that ends the handshake.  calls are the   *)
(* other sends as the step leaves them.                                    *)
HandshakeSend(h, owner, step, probe, calls) ==
  IF Refused(probe, throttle')
  THEN Ends(h, owner, "threw") /\ call' = calls
  ELSE /\ hand' = [hand EXCEPT ![h] = [at |-> step, owner |-> owner, outcome |-> None]]
       /\ call' = [calls EXCEPT ![h] = Dispatched(probe, FALSE)]

-----------------------------------------------------------------------------
(* login: the credentials are the session's at once, its cookie and token  *)
(* only once the handshake succeeds.                                       *)
Login(g) ==
  /\ NewTurn
  /\ g \notin used
  /\ used' = used \cup {g}
  /\ credentials' = g
  /\ BookNothing
  /\ HandshakeSend(g, g, "root", FALSE, call)
  /\ UNCHANGED <<cookie, csrf>>

(* logout *)
Logout ==
  /\ NewTurn
  /\ cookie' = None /\ credentials' = None /\ csrf' = None
  /\ BookNothing
  /\ UNCHANGED <<used, call, hand>>

(* A request meets a 401 it may relogin for, and asks the hook: it shares  *)
(* the relogin in flight, has none without credentials, or begins one from *)
(* no session.                                                             *)
Unauthorized(c) ==
  /\ NewTurn
  /\ call[c].at = "sent" /\ ~call[c].doomed /\ call[c].retry
  /\ \/ /\ hand[Relogin].at # "none"
        /\ call' = [call EXCEPT ![c].at = "relogin"]
        /\ BookNothing
        /\ UNCHANGED <<sessionVars, hand>>
     \/ /\ hand[Relogin].at = "none" /\ credentials = None
        /\ SettleBooking(c, ControllerServing("unauthorized"))
        /\ UNCHANGED <<sessionVars, hand>>
     \/ /\ hand[Relogin].at = "none" /\ credentials # None
        /\ cookie' = None /\ csrf' = None
        /\ BookNothing
        /\ HandshakeSend(Relogin, credentials, "root", call[c].probe,
                         [call EXCEPT ![c].at = "relogin"])
        /\ UNCHANGED <<credentials, used>>

(* A handshake's send is answered, or fails and ends the handshake. *)
HandshakeAnswered(h, step, s) ==
  /\ NewTurn
  /\ hand[h].at = step
  /\ call[h].at = "sent" /\ ~call[h].doomed
  /\ s = "unauthorized" => ~call[h].retry
  /\ Book(ControllerServing(s))

(* The other sends once the answer is booked. *)
Others(h, s) == Survivors(ControllerServing(s), [call EXCEPT ![h] = Idle])

(* The root's answer: one that is no answer of a ready controller throws,  *)
(* a session over meanwhile posts nothing, and any other sends the login.  *)
RootAnswered(h, s) ==
  /\ HandshakeAnswered(h, "root", s)
  /\ \/ /\ IsTransientStatus(s)
        /\ Ends(h, hand[h].owner, "threw")
        /\ call' = Others(h, s)
     \/ /\ ~IsTransientStatus(s) /\ credentials # hand[h].owner
        /\ Ends(h, hand[h].owner, "no")
        /\ call' = Others(h, s)
     \/ /\ ~IsTransientStatus(s) /\ credentials = hand[h].owner
        /\ HandshakeSend(h, hand[h].owner, "login", call[h].probe, Others(h, s))
  /\ UNCHANGED sessionVars

(* Mutant: a failure of a login long replaced clears the session. *)
ClearAnySession(owner) == cookie' = None /\ UNCHANGED csrf

(* #clearFailedSession, unless the session is another login's by now. *)
ClearFailedSession(owner) ==
  /\ cookie' = IF credentials = owner THEN None ELSE cookie
  /\ UNCHANGED csrf

(* rejectedSignIn *)
RejectedSignIn(s) == s \in {"unauthorized", "denied"}

(* Mutants: a late success re-arms an ended session; a success of a session *)
(* over meanwhile reports a session.                                        *)
EarnAnySession(h) ==
  /\ cookie' = hand[h].owner /\ csrf' = hand[h].owner
  /\ Ends(h, hand[h].owner, "yes")

EarnReportsYes(h) ==
  /\ Ends(h, hand[h].owner, "yes")
  /\ IF credentials = hand[h].owner
     THEN cookie' = credentials /\ csrf' = credentials
     ELSE UNCHANGED <<cookie, csrf>>

(* An accepted login earns the session it was begun for, if that session is *)
(* still wanted.                                                            *)
EarnSession(h) ==
  IF credentials = hand[h].owner
  THEN cookie' = credentials /\ csrf' = credentials /\ Ends(h, credentials, "yes")
  ELSE UNCHANGED <<cookie, csrf>> /\ Ends(h, hand[h].owner, "no")

(* The login's answer: accepted with both halves of a session or without,  *)
(* rejected, or no verdict on the credentials.                             *)
LoginAnswered(h, s) ==
  /\ HandshakeAnswered(h, "login", s)
  /\ call' = Others(h, s)
  /\ \/ s = "ok" /\ EarnSession(h)
     \/ s = "ok" /\ ClearFailedSession(hand[h].owner) /\ Ends(h, hand[h].owner, "no")
     \/ /\ s # "ok"
        /\ ClearFailedSession(hand[h].owner)
        /\ Ends(h, hand[h].owner, IF RejectedSignIn(s) THEN "no" ELSE "threw")
  /\ UNCHANGED <<credentials, used>>

(* A handshake's send fails, or a login's caller cancels it.  The session   *)
(* is left as it is.                                                        *)
HandshakeFails(h) ==
  /\ NewTurn
  /\ call[h].at = "sent"
  /\ \/ SettleBooking(h, FALSE)
     \/ h \in Credentials /\ SettleQuietly(h)
  /\ Ends(h, hand[h].owner, "threw")
  /\ UNCHANGED sessionVars

(* The promise jobs of a relogin that is over: each request that shares it  *)
(* resumes, and #reauthInFlight is cleared.                                 *)
JoinerResumes(c) ==
  /\ hand[Relogin].at = "done"
  /\ Resumes(c, hand[Relogin].outcome)
  /\ UNCHANGED <<sessionVars, hand>>

ReloginOver ==
  /\ hand[Relogin].at = "done"
  /\ \A c \in Calls : call[c].at # "relogin"
  /\ hand' = [hand EXCEPT ![Relogin] = NoHandshake]
  /\ BookNothing
  /\ UNCHANGED <<call, sessionVars>>

-----------------------------------------------------------------------------
Init ==
  /\ TransportInit
  /\ credentials = None /\ used = {}
  /\ cookie = None /\ csrf = None
  /\ hand = [h \in Handshakes |-> NoHandshake]

Settles(r) ==
  /\ NewTurn
  /\ Fails(r) \/ \E s \in Status : Answered(r, s)
  /\ UNCHANGED <<sessionVars, hand>>

TransportStep ==
  /\ NewTurn
  /\ \/ \E r \in Requests : Cancel(r) \/ \E probe \in BOOLEAN : Send(r, probe)
     \/ CooldownElapses \/ ConsumerResets \/ Release
  /\ UNCHANGED <<sessionVars, hand>>

HandshakeStep(h) ==
  HandshakeFails(h) \/ \E s \in Status : RootAnswered(h, s) \/ LoginAnswered(h, s)

Next ==
  \/ TransportStep
  \/ \E g \in Credentials : Login(g)
  \/ Logout \/ ReloginOver
  \/ \E r \in Requests : Settles(r)
  \/ \E c \in Calls : Unauthorized(c) \/ JoinerResumes(c)
  \/ \E h \in Handshakes : HandshakeStep(h)

(* Every send carries a deadline, so each is answered or fails in the end,  *)
(* and promise jobs run.                                                    *)
Fairness ==
  /\ \A r \in Requests :
       /\ SF_vars(Settles(r) \/ Unauthorized(r))
       /\ WF_vars(JoinerResumes(r))
  /\ \A h \in Handshakes : SF_vars(HandshakeStep(h))
  /\ WF_vars(ReloginOver)

Spec == Init /\ [][Next]_vars
FairSpec == Spec /\ Fairness

-----------------------------------------------------------------------------
(* The type invariant. *)
TypeOK ==
  /\ TransportTypeOK
  /\ credentials \in Credentials \cup {None} /\ used \subseteq Credentials
  /\ cookie \in Credentials \cup {None} /\ csrf \in Credentials \cup {None}
  /\ hand \in [Handshakes -> [at : {"none", "root", "login", "done"},
                              owner : Credentials \cup {None},
                              outcome : {"yes", "no", "threw", None}]]

(* A logout is final: whichever handshakes it overtook, none of them leaves *)
(* a cookie or a token behind.                                              *)
LoggedOutStaysOut == credentials = None => cookie = None /\ csrf = None

(* The session of the current login ends on its own account only: by a      *)
(* logout, or by a handshake of that login.  A relogin of a session it      *)
(* replaced, however late it fails or succeeds, leaves it alone.            *)
SessionEndsOnOwnAccount ==
  [][ cookie # None /\ cookie = credentials /\ cookie' # cookie
      => credentials' = None \/ \E h \in Handshakes : cookie \in {hand[h].owner, hand'[h].owner} ]_vars

(* A request is sent again only when its relogin earned something: with the *)
(* whole session of the current login, through a closed breaker, though the *)
(* resend does not pass the gate.                                           *)
ResendIsEarned ==
  [][ \A r \in Requests :
        call[r].at = "relogin" /\ call'[r].at = "sent"
        => throttle' = "closed" /\ cookie' # None /\ csrf' = cookie' /\ cookie' = credentials' ]_vars

(* Every request settles, whatever relogins it shares and whatever those    *)
(* meet: no relogin waits for a request that waits for it.                  *)
EverySendSettles ==
  \A r \in Requests : call[r].at # "idle" ~> call[r].at = "idle"
=============================================================================
