---------------------------- MODULE OwnedSocket -----------------------------
(***************************************************************************)
(* The lifecycle the library's three socket owners share: EventStream,     *)
(* LivestreamSession and TalkbackSession (src/transport), over the         *)
(* connector that holds their connection.  `kind` says which of the three  *)
(* this is; what differs between them is a guard on it.                    *)
(*                                                                         *)
(* undici's WebSocket and the network are external: a WebSocket that is    *)
(* still connecting fires `error` and `close` inside close(); any other    *)
(* event comes in a job of its own, so anything may happen before it.      *)
(***************************************************************************)
EXTENDS FailureRules, FiniteSets

CONSTANTS
  Kinds,       (* which owners: among "events", "livestream", "talkback"       *)
  DialCauses,  (* chains a connection attempt fails with                       *)
  ConnCauses,  (* chains an established connection raises                      *)
  Nothing      (* no event owed, no teardown yet                               *)

ASSUME KindsAssumption == Kinds \subseteq {"events", "livestream", "talkback"}
ASSUME CausesAssumption == <<>> \notin DialCauses \cup ConnCauses

(* The failures an owner ends itself with. *)
NegotiationFailure == Fault(Failure("negotiation", <<>>), "quiet")
Stall(open) == Fault(Failure("stall", <<>>), IF open THEN "warning" ELSE "quiet")

(* SocketTeardown, as far as an owner can be torn down. *)
Teardowns ==
  LET causes == DialCauses \cup ConnCauses \cup {Blank}
  IN  {CallerSignal, ExplicitClose, PeerClose, NegotiationFailure, Stall(TRUE), Stall(FALSE)}
        \cup {SocketFault(c, TRUE) : c \in causes} \cup {SocketFault(c, FALSE) : c \in causes}

ASSUME NothingAssumption ==
  Nothing \notin {"error", "close"} /\ \A t \in Teardowns : Nothing # t /\ Nothing # t.error

VARIABLES
  kind,      (* which owner this is                                            *)
  owned,     (* whether it built its agent and connector itself                *)
  signal,    (* the caller's signal                                            *)
  bound,     (* whether the owner listens to it                                *)
  asking,    (* the negotiation of the URL: unborn, no, pending, over          *)
  ws,        (* #ws: none, or its readyState                                   *)
  conn,      (* what the connector holds: none, dialing, established, gone     *)
  lastDial, lastConn,  (* its records of the dial and of the connection        *)
  due,       (* the event the WebSocket still owes                             *)
  listening, (* whether the owner's listeners are on the socket                *)
  live,      (* whether `open` was heard                                       *)
  released,  (* whether the one teardown has run                               *)
  watch,     (* the silence watchdog: off, waiting, over                       *)
  fresh,     (* whether anything arrived since it last looked or started       *)
  told,      (* what the owner has told: its handshake, its rail, its close    *)
  ended,     (* history: what first set the end in motion                      *)
  struck     (* history: what the network has raised                           *)

socketVars == <<kind, owned, signal, bound, asking, ws, conn, lastDial, lastConn, due,
                listening, live, released, watch, fresh, told, ended, struck>>

given == <<kind, owned>>
connector == <<lastDial, lastConn, struck>>

Negotiates == kind \in {"livestream", "talkback"}
Handshakes == kind \in {"events", "talkback"}
Watched == kind \in {"events", "livestream"}

-----------------------------------------------------------------------------
(* What a teardown tells, once, after the release. *)
(* #railFault of the events stream; a livestream's faults all go out, opened *)
(* or not, and its peer's close never does.                                  *)
OnRail(t) ==
  CASE kind = "events" -> live /\ t.kind \in {"fault", "peer"}
    [] kind = "livestream" -> t.kind = "fault"
    [] kind = "talkback" -> FALSE

(* #closeCauseOf of a livestream and #failureOf of a talkback session: an   *)
(* explicit close records none, nor does a peer's close, but for the one    *)
(* that drops a live talkback.                                              *)
Recorded(t) ==
  \/ kind # "events" /\ t.kind \in {"callerSignal", "fault"}
  \/ kind = "talkback" /\ t.kind = "peer" /\ live

Reports(t) ==
  LET unopened == Handshakes /\ ~live
  IN  [handshake |-> IF unopened THEN "failed" ELSE told.handshake,
       unopened |-> IF unopened THEN t.error ELSE told.unopened,
       rail |-> IF OnRail(t) THEN Append(told.rail, t.error) ELSE told.rail,
       recorded |-> IF Recorded(t) THEN t.error ELSE told.recorded,
       lines |-> IF t.kind = "fault" /\ t.line # "quiet" THEN told.lines + 1 ELSE told.lines,
       closed |-> Append(told.closed, TeardownCode(t))]

(* releaseOwned: the dispatcher is destroyed and then the connector's socket, *)
(* in flight or established, in one stack; an injected one is left alone.    *)
ReleaseOwned == IF owned /\ conn # "none" THEN "gone" ELSE conn

(* #onClose, the single teardown: the listeners and the abort, the release,  *)
(* then every report.                                                        *)
OnClose(t) ==
  IF released THEN UNCHANGED <<listening, bound, released, conn, watch, told>>
  ELSE /\ listening' = FALSE /\ bound' = FALSE
       /\ watch' = IF watch = "waiting" THEN "over" ELSE watch
       /\ conn' = ReleaseOwned
       /\ released' = TRUE
       /\ told' = Reports(t)

(* ws.close(): a connecting socket is closed and has fired its events when *)
(* it returns.                                                             *)
AskedToClose == CASE ws = "connecting" -> "closed" [] ws = "open" -> "closing" [] OTHER -> ws
WsCloses ==
  /\ ws' = AskedToClose
  /\ due' = IF ws = "connecting" THEN Nothing ELSE due

(* What a connecting socket fires inside close(), if it is still heard. *)
SpokenInClose(t) ==
  IF listening /\ ws = "connecting" THEN SocketFault(IF lastDial # <<>> THEN lastDial ELSE Blank, live) ELSE t

(* Mutant: the socket is asked to close before its listeners come off. *)
ShutdownStillHeard(t) == WsCloses /\ OnClose(SpokenInClose(t))

(* #shutdown: the listeners come off first. *)
Shutdown(t) == WsCloses /\ OnClose(t)

(* The end of the socket as its cause has it, whatever the owner makes of it. *)
EndsWith(t) == ended' = IF ended = Nothing THEN t ELSE ended

-----------------------------------------------------------------------------
(* Building the socket starts the dial; all listeners go on. *)
Builds == ws' = "connecting" /\ conn' = "dialing" /\ listening' = TRUE

(* The constructor.  The events stream's URL is known, so it builds its     *)
(* socket there and starts its watchdog; the other two begin to negotiate.  *)
(* A signal aborted already tears down at once, and nothing is negotiated.  *)
Construct ==
  /\ asking = "unborn" /\ signal # "aborted"
  /\ bound' = (signal # "absent")
  /\ IF Negotiates THEN asking' = "pending" /\ UNCHANGED <<ws, conn, listening, watch>>
                   ELSE asking' = "no" /\ Builds /\ watch' = "waiting"
  /\ UNCHANGED <<given, signal, connector, due, live, released, fresh, told, ended>>

ConstructAborted ==
  /\ asking = "unborn" /\ signal = "aborted"
  /\ asking' = "no"
  /\ bound' = FALSE /\ listening' = FALSE /\ released' = TRUE
  /\ ws' = IF Negotiates THEN "none" ELSE "closed"
  /\ conn' = IF Negotiates THEN "none" ELSE IF owned THEN "gone" ELSE "dialing"
  /\ watch' = IF Negotiates THEN "off" ELSE "over"
  /\ told' = Reports(CallerSignal)
  /\ EndsWith(CallerSignal)
  /\ UNCHANGED <<given, signal, connector, due, live, fresh>>

(* Mutant: the socket is built whatever happened during the negotiation. *)
NegotiatedRegardless ==
  /\ asking = "pending" /\ asking' = "over"
  /\ Builds
  /\ UNCHANGED <<given, signal, bound, connector, due, live, released, watch, fresh, told, ended>>

(* #connect goes on with the URL: a session torn down meanwhile builds none. *)
Negotiated ==
  /\ asking = "pending" /\ asking' = "over"
  /\ IF released THEN UNCHANGED <<ws, conn, listening>> ELSE Builds
  /\ UNCHANGED <<given, signal, bound, connector, due, live, released, watch, fresh, told, ended>>

(* The negotiation fails; a teardown that came first has told its own end.  *)
NegotiationFails ==
  /\ asking = "pending" /\ asking' = "over"
  /\ IF released THEN UNCHANGED <<ws, due, listening, bound, conn, watch, released, told, ended>>
                 ELSE Shutdown(NegotiationFailure) /\ EndsWith(NegotiationFailure)
  /\ UNCHANGED <<given, signal, connector, live, fresh>>

-----------------------------------------------------------------------------
(* The network, and the connector's records of it. *)
Connected ==
  /\ conn = "dialing" /\ conn' = "established"
  /\ lastDial' = <<>> /\ lastConn' = <<>>
  /\ UNCHANGED <<given, struck, signal, bound, asking, ws, due, listening, live, released, watch, fresh, told, ended>>

DialFails(c) ==
  /\ conn = "dialing" /\ conn' = "gone"
  /\ lastDial' = IF owned THEN c ELSE lastDial
  /\ struck' = struck \cup {c}
  /\ due' = IF ws = "connecting" THEN "error" ELSE due
  /\ UNCHANGED <<given, signal, bound, asking, ws, lastConn, listening, live, released, watch, fresh, told, ended>>

(* An error of the established connection; a TLS error leaves it open. *)
ConnectionErrs(c) ==
  /\ conn = "established"
  /\ lastConn' = IF owned /\ lastConn = <<>> /\ IsSocketOwnError(c) THEN c ELSE lastConn
  /\ struck' = struck \cup {c}
  /\ \/ conn' = "gone" /\ due' = (IF ws \in {"connecting", "open"} THEN "error" ELSE due)
     \/ UNCHANGED <<conn, due>>
  /\ UNCHANGED <<given, signal, bound, asking, ws, lastDial, listening, live, released, watch, fresh, told, ended>>

(* The controller answers the upgrade with anything but the protocol. *)
UpgradeRefused ==
  /\ conn = "established" /\ ws = "connecting"
  /\ conn' = "gone" /\ due' = "error"
  /\ UNCHANGED <<given, signal, bound, asking, ws, connector, listening, live, released, watch, fresh, told, ended>>

(* The controller closes with a frame, a live socket or one not yet open,   *)
(* or answers the owner's own close.                                        *)
PeerCloses ==
  /\ conn = "established" /\ due = Nothing
  /\ ws \in {"open", "closing"} \/ (ws = "connecting" /\ ~owned)
  /\ conn' = "gone" /\ due' = "close"
  /\ UNCHANGED <<given, signal, bound, asking, ws, connector, listening, live, released, watch, fresh, told, ended>>

-----------------------------------------------------------------------------
(* The listeners. *)
(* #onOpen: the handshake settles, a livestream's watchdog starts, and an   *)
(* events stream lets go of the caller's signal.                            *)
Opens ==
  /\ ws = "connecting" /\ conn = "established" /\ due = Nothing
  /\ ws' = "open"
  /\ IF listening
     THEN /\ live' = TRUE
          /\ told' = [told EXCEPT !.handshake = IF Handshakes THEN "open" ELSE @]
          /\ bound' = (bound /\ kind # "events")
          /\ IF kind = "livestream" THEN watch' = "waiting" /\ fresh' = FALSE ELSE UNCHANGED <<watch, fresh>>
     ELSE UNCHANGED <<live, told, bound, watch, fresh>>
  /\ UNCHANGED <<given, signal, asking, conn, connector, due, listening, released, ended>>

(* Mutant: the event's own error is read, which says nothing. *)
CauseFromEvent == Blank

(* The cause #onError reads: the dial's record, the connection's, then the  *)
(* event's own error.                                                       *)
CauseOfError ==
  IF owned /\ lastDial # <<>> THEN lastDial ELSE IF owned /\ lastConn # <<>> THEN lastConn ELSE Blank

(* `error`, with `close` to follow; #onError tears down with the one cause. *)
HearsError ==
  LET t == SocketFault(CauseOfError, live)
  IN  /\ due = "error"
      /\ due' = "close" /\ ws' = "closed"
      /\ IF listening THEN OnClose(t) /\ EndsWith(t)
         ELSE UNCHANGED <<listening, bound, released, conn, watch, told, ended>>
      /\ UNCHANGED <<given, signal, asking, connector, live, fresh>>

HearsClose ==
  /\ due = "close"
  /\ due' = Nothing /\ ws' = "closed"
  /\ IF listening THEN OnClose(PeerClose) /\ EndsWith(PeerClose)
     ELSE UNCHANGED <<listening, bound, released, conn, watch, told, ended>>
  /\ UNCHANGED <<given, signal, asking, connector, live, fresh>>

(* A message moves the watchdog's stamp before anything reads it; a listener *)
(* of what it carries may close the owner while it is being read.            *)
HearsMessage ==
  /\ ws = "open" /\ listening /\ Watched
  /\ fresh' = TRUE
  /\ \/ Shutdown(ExplicitClose) /\ EndsWith(ExplicitClose)
     \/ UNCHANGED <<ws, due, listening, bound, conn, watch, released, told, ended>>
  /\ UNCHANGED <<given, signal, asking, connector, live>>

(* The consumer's signal, and its close(). *)
CallerAborts ==
  /\ signal = "quiet" /\ signal' = "aborted"
  /\ asking # "unborn"
  /\ IF bound THEN Shutdown(CallerSignal) /\ EndsWith(CallerSignal)
     ELSE UNCHANGED <<ws, due, listening, bound, conn, watch, released, told, ended>>
  /\ UNCHANGED <<given, asking, connector, live, fresh>>

CloseCalled ==
  /\ asking # "unborn"
  /\ Shutdown(ExplicitClose)
  /\ EndsWith(ExplicitClose)
  /\ UNCHANGED <<given, signal, asking, connector, live, fresh>>

(* Mutant: the watchdog waits once. *)
WatchdogWakesOnce ==
  /\ watch = "waiting" /\ fresh
  /\ fresh' = FALSE /\ watch' = "over"
  /\ UNCHANGED <<given, signal, bound, asking, ws, conn, connector, due, listening, live, released, told, ended>>

(* #runWatchdog wakes after a heartbeat in which something arrived and      *)
(* waits again; it trips on a silence that long, which is one in which      *)
(* nothing arrived, or one it woke late from.                               *)
WatchdogWakes ==
  /\ watch = "waiting" /\ fresh
  /\ fresh' = FALSE
  /\ UNCHANGED <<given, signal, bound, asking, ws, conn, connector, due, listening, live, released, watch, told, ended>>

WatchdogTrips ==
  /\ watch = "waiting"
  /\ Shutdown(Stall(live)) /\ EndsWith(Stall(live))
  /\ UNCHANGED <<given, signal, asking, connector, live, fresh>>

-----------------------------------------------------------------------------
NothingTold == [handshake |-> "pending", unopened |-> Nothing, rail |-> <<>>, recorded |-> Nothing,
                lines |-> 0, closed |-> <<>>]

SocketInit ==
  /\ kind \in Kinds /\ owned \in BOOLEAN
  /\ signal \in {"absent", "quiet", "aborted"} /\ bound = FALSE
  /\ asking = "unborn" /\ ws = "none" /\ conn = "none"
  /\ lastDial = <<>> /\ lastConn = <<>> /\ due = Nothing
  /\ listening = FALSE /\ live = FALSE /\ released = FALSE
  /\ watch = "off" /\ fresh = FALSE
  /\ told = NothingTold /\ ended = Nothing /\ struck = {}

Network ==
  \/ Connected \/ UpgradeRefused \/ PeerCloses
  \/ \E c \in DialCauses : DialFails(c)
  \/ \E c \in ConnCauses : ConnectionErrs(c)

Owner ==
  \/ Construct \/ ConstructAborted \/ Negotiated \/ NegotiationFails
  \/ Opens \/ HearsError \/ HearsClose
  \/ CallerAborts \/ CloseCalled \/ WatchdogWakes \/ WatchdogTrips

SocketNext == Network \/ Owner \/ HearsMessage

SocketSpec == SocketInit /\ [][SocketNext]_socketVars

-----------------------------------------------------------------------------
(* A torn-down owner holds nothing: no listener, no binding, no connection   *)
(* dialing or established, no socket it did not ask to close, no watchdog;   *)
(* and a socket is open only while its owner can still hear it.  This is     *)
(* what a close that lands in the negotiation, in the dial or between two    *)
(* events would break.                                                       *)
NothingHeldAfterRelease ==
  /\ released => /\ ~bound /\ ~listening /\ watch # "waiting"
                 /\ ws \notin {"connecting", "open"}
                 /\ owned => conn \in {"none", "gone"}
  /\ ws \in {"connecting", "open"} => listening

(* The account a torn-down owner gave is that of teardown t. *)
ToldAs(t) ==
  /\ told.closed[1] = TeardownCode(t)
  /\ told.rail \in {<<>>, <<t.error>>}
  /\ told.recorded \in {Nothing, t.error}
  /\ told.handshake = "failed" => told.unopened = t.error /\ (kind = "events" => told.rail = <<>>)
  /\ t.kind = "fault" => told.handshake = "failed" \/ told.rail # <<>> \/ told.recorded # Nothing
  /\ t.kind \in {"callerSignal", "close"} => told.rail = <<>> /\ told.lines = 0
  /\ told.lines <= IF live /\ t.kind = "fault" THEN 1 ELSE 0

(* The cause of a socket's failure is one the network raised, and not the    *)
(* bare error of the event while it raised one that says more.               *)
CauseIsTheNetworks(t) ==
  t.kind = "fault" /\ t.error.cause # <<>> /\ owned =>
    \/ t.error.cause \in struck
    \/ t.error.cause = Blank /\ \A c \in struck : ~IsSocketOwnError(c)

(* What ended the owner is told exactly once, and as what it was: a failure  *)
(* with the cause the network gave, a cancel or a close as such however the  *)
(* socket answers it; to the one who awaits the opening before it, and on    *)
(* the rail or the record of failure after it.                               *)
OneAccount ==
  /\ Len(told.closed) = IF released THEN 1 ELSE 0
  /\ released <=> ended # Nothing
  /\ Handshakes => told.handshake = IF live THEN "open" ELSE IF released THEN "failed" ELSE "pending"
  /\ ~released => told.rail = <<>> /\ told.recorded = Nothing /\ told.lines = 0
  /\ released => ToldAs(ended) /\ CauseIsTheNetworks(ended)
=============================================================================
