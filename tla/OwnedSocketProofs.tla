------------------------- MODULE OwnedSocketProofs --------------------------
(***************************************************************************)
(* Proofs about OwnedSocket: whatever order a caller's signal, a close, a  *)
(* negotiation, the network and the watchdog come in, a torn-down owner    *)
(* holds nothing and has told its end once, as what it was, for every set  *)
(* of causes a dial or a connection can fail with.                         *)
(***************************************************************************)
EXTENDS OwnedSocket, TLAPS

Account == [handshake |-> told.handshake, unopened |-> told.unopened, rail |-> told.rail,
            recorded |-> told.recorded, lines |-> told.lines, closed |-> told.closed]

Shape ==
  /\ kind \in {"events", "livestream", "talkback"}
  /\ owned \in BOOLEAN /\ live \in BOOLEAN
  /\ told = Account
  /\ ended \in Teardowns \cup {Nothing}

(* What an owner that has not begun, or still negotiates, has: nothing. *)
Unbuilt ==
  /\ asking = "unborn" => ws = "none" /\ conn = "none" /\ ~released /\ ~listening /\ ~bound
                          /\ watch = "off" /\ ~live /\ due = Nothing
  /\ asking = "pending" => ws = "none" /\ conn = "none" /\ ~listening /\ ~live /\ due = Nothing

(* The connector's records are of what the network raised, and hold the      *)
(* socket's own error whenever it raised one.                                *)
Records ==
  /\ struck \subseteq DialCauses \cup ConnCauses
  /\ lastDial \in struck \cup {<<>>} /\ lastConn \in struck \cup {<<>>}
  /\ conn \in {"none", "dialing"} => struck = {} /\ lastDial = <<>> /\ lastConn = <<>>
  /\ owned /\ lastDial = <<>> /\ lastConn = <<>> => \A c \in struck : ~IsSocketOwnError(c)

(* Nothing is told of an end before it comes. *)
Untold ==
  ~released => /\ told.closed = <<>> /\ told.rail = <<>> /\ told.recorded = Nothing /\ told.lines = 0
               /\ told.handshake # "failed"

SInv == Shape /\ Unbuilt /\ NothingHeldAfterRelease /\ Records /\ Untold /\ OneAccount

USE DEF given, connector, Handshakes, Negotiates, Watched

-----------------------------------------------------------------------------
LEMMA InitHolds == SocketInit => SInv
  <1> SUFFICES ASSUME SocketInit PROVE SInv
    OBVIOUS
  <1>1. Shape
    BY KindsAssumption DEF SocketInit, Shape, Account, NothingTold
  <1>2. Unbuilt /\ NothingHeldAfterRelease /\ Records /\ Untold
    BY NothingAssumption DEF SocketInit, Unbuilt, NothingHeldAfterRelease, Records, Untold, NothingTold
  <1>3. Len(told.closed) = 0 /\ told.handshake = "pending"
    BY DEF SocketInit, NothingTold
  <1>4. OneAccount
    BY <1>2, <1>3 DEF OneAccount, SocketInit, Untold
  <1> QED BY <1>1, <1>2, <1>4 DEF SInv

(* Each teardown is one of the teardowns, with an error that says so. *)
LEMMA TeardownsAreTeardowns ==
  ASSUME NEW t \in Teardowns
  PROVE  /\ t # Nothing /\ t.error # Nothing
         /\ t.kind \in {"callerSignal", "close", "peer", "fault"}
         /\ t.kind # "fault" => t.line = "quiet"
  <1>1. t # Nothing /\ t.error # Nothing
    BY NothingAssumption
  <1>2. CASE t \in {CallerSignal, ExplicitClose, PeerClose, NegotiationFailure, Stall(TRUE), Stall(FALSE)}
    BY <1>1, <1>2 DEF CallerSignal, ExplicitClose, PeerClose, NegotiationFailure, Stall, Fault
  <1> DEFINE causes == DialCauses \cup ConnCauses \cup {Blank}
  <1>3. ASSUME NEW c, NEW open, t = SocketFault(c, open)
        PROVE  t.kind = "fault"
    <2>1. PICK e, l : t = Fault(e, l)
      BY <1>3 DEF SocketFault
    <2> QED BY <2>1 DEF Fault
  <1>4. CASE \E c \in causes, open \in BOOLEAN : t = SocketFault(c, open)
    BY <1>1, <1>3, <1>4
  <1>5. t \in {CallerSignal, ExplicitClose, PeerClose, NegotiationFailure, Stall(TRUE), Stall(FALSE)}
          \/ t \in {SocketFault(c, TRUE) : c \in causes} \/ t \in {SocketFault(c, FALSE) : c \in causes}
    BY DEF Teardowns
  <1> QED BY <1>2, <1>4, <1>5

(* The account of an end that has not been told yet: one report, as what it  *)
(* was.                                                                      *)
LEMMA AccountOfEnd ==
  ASSUME SInv, ~released, NEW t \in Teardowns, told' = Reports(t), released', live' = live, kind' = kind,
         ended' = t, CauseIsTheNetworks(t)', t.line = "quiet" \/ live
  PROVE  (told = Account)' /\ OneAccount'
  <1> DEFINE h == IF Handshakes /\ ~live THEN "failed" ELSE told.handshake
             u == IF Handshakes /\ ~live THEN t.error ELSE told.unopened
             r == IF OnRail(t) THEN <<t.error>> ELSE <<>>
             f == IF Recorded(t) THEN t.error ELSE Nothing
             n == IF t.kind = "fault" /\ t.line # "quiet" THEN 1 ELSE 0
  <1>0. told' = [handshake |-> h, unopened |-> u, rail |-> r, recorded |-> f, lines |-> n,
                 closed |-> <<TeardownCode(t)>>]
    <2>1. /\ told = Account /\ told.closed = <<>> /\ told.rail = <<>> /\ told.recorded = Nothing
          /\ told.lines = 0
      BY DEF SInv, Shape, Untold
    <2>2. Append(told.rail, t.error) = <<t.error>> /\ Append(told.closed, TeardownCode(t)) = <<TeardownCode(t)>>
      BY <2>1
    <2> QED BY <2>1, <2>2 DEF Reports
  <1> HIDE DEF h, u, r, f, n
  <1>1. told' = [handshake |-> h, unopened |-> u, rail |-> r, recorded |-> f, lines |-> n,
                 closed |-> <<TeardownCode(t)>>]
    BY <1>0
  <1>2. (told = Account)'
    BY <1>1 DEF Account
  <1>3. /\ told'.handshake = h /\ told'.unopened = u /\ told'.rail = r /\ told'.recorded = f
        /\ told'.lines = n /\ told'.closed = <<TeardownCode(t)>>
    BY <1>1
  <1>4. Len(told'.closed) = 1 /\ told'.closed[1] = TeardownCode(t)
    BY <1>3
  <1>5. told'.rail \in {<<>>, <<t.error>>} /\ told'.recorded \in {Nothing, t.error}
    BY <1>3 DEF r, f
  <1>6. h = "failed" => u = t.error /\ (kind = "events" => told'.rail = <<>>)
    <2>1. told.handshake # "failed"
      BY DEF SInv, Untold
    <2>2. CASE Handshakes /\ ~live
      BY <1>3, <2>2 DEF u, r, OnRail
    <2>3. CASE ~(Handshakes /\ ~live)
      BY <2>1, <2>3 DEF h
    <2> QED BY <2>2, <2>3
  <1>7. t.kind = "fault" => h = "failed" \/ told'.rail # <<>> \/ told'.recorded # Nothing
    <2>1. <<t.error>> # <<>>
      OBVIOUS
    <2> QED BY <1>3, <2>1, TeardownsAreTeardowns DEF h, r, f, SInv, Shape, OnRail, Recorded
  <1>8. t.kind \in {"callerSignal", "close"} => told'.rail = <<>> /\ told'.lines = 0
    BY <1>3 DEF r, n, OnRail, SInv, Shape
  <1>9. told'.lines <= IF live' /\ t.kind = "fault" THEN 1 ELSE 0
    BY <1>3 DEF n, SInv, Shape
  <1>10. ToldAs(t)'
    BY <1>3, <1>4, <1>5, <1>6, <1>7, <1>8, <1>9 DEF ToldAs
  <1>11. Handshakes' => told'.handshake = IF live' THEN "open" ELSE IF released' THEN "failed" ELSE "pending"
    BY <1>3 DEF h, SInv, OneAccount
  <1>12. ended' # Nothing
    BY TeardownsAreTeardowns
  <1> QED BY <1>2, <1>4, <1>10, <1>11, <1>12 DEF OneAccount

-----------------------------------------------------------------------------
(* The one teardown, whatever state the socket is left in. *)
LEMMA OnCloseKeeps ==
  ASSUME SInv, NEW t \in Teardowns, OnClose(t), EndsWith(t), UNCHANGED <<given, connector, live>>,
         asking' \in {asking, "over"}, asking # "unborn", ws' \notin {"connecting", "open"},
         asking' = "pending" => ws' = "none" /\ due' = Nothing, CauseIsTheNetworks(t)', t.line = "quiet" \/ live
  PROVE  SInv'
  <1>1. CASE released
    <2>1. UNCHANGED <<listening, bound, released, conn, watch, told, ended>>
      BY <1>1 DEF OnClose, EndsWith, SInv, OneAccount
    <2>2. Shape' /\ Unbuilt' /\ NothingHeldAfterRelease' /\ Records' /\ Untold'
      BY <1>1, <2>1 DEF SInv, Shape, Account, Unbuilt, NothingHeldAfterRelease, Records, Untold
    <2>3. OneAccount'
      BY <1>1, <2>1 DEF SInv, OneAccount, ToldAs, CauseIsTheNetworks
    <2> QED BY <2>2, <2>3 DEF SInv
  <1>2. CASE ~released
    <2>1. /\ ~listening' /\ ~bound' /\ released' /\ told' = Reports(t)
          /\ watch' = IF watch = "waiting" THEN "over" ELSE watch
          /\ conn' = IF owned /\ conn # "none" THEN "gone" ELSE conn
      BY <1>2 DEF OnClose, ReleaseOwned
    <2>2. ended' = t
      BY <1>2 DEF EndsWith, SInv, OneAccount
    <2>3. (told = Account)' /\ OneAccount'
      BY <1>2, <2>1, <2>2, AccountOfEnd
    <2>4. Shape'
      BY <2>2, <2>3 DEF SInv, Shape
    <2>5. Unbuilt' /\ NothingHeldAfterRelease' /\ Untold'
      BY <2>1 DEF SInv, Shape, Unbuilt, NothingHeldAfterRelease, Untold
    <2>6. Records'
      BY <2>1 DEF SInv, Shape, Records
    <2> QED BY <2>3, <2>4, <2>5, <2>6 DEF SInv
  <1> QED BY <1>1, <1>2

(* A close of the owner's own, with no cause of the network's. *)
LEMMA ShutdownKeeps ==
  ASSUME SInv, NEW t \in Teardowns, t.kind = "fault" => t.error.cause = <<>>, t.line = "quiet" \/ live,
         Shutdown(t), EndsWith(t), UNCHANGED <<given, connector, live>>,
         asking' \in {asking, "over"}, asking # "unborn"
  PROVE  SInv'
  <1>1. ws' \notin {"connecting", "open"} /\ (asking' = "pending" => ws' = "none" /\ due' = Nothing)
    BY NothingAssumption DEF Shutdown, WsCloses, AskedToClose, SInv, Unbuilt
  <1>2. CauseIsTheNetworks(t)'
    BY DEF CauseIsTheNetworks
  <1> QED BY <1>1, <1>2, OnCloseKeeps DEF Shutdown

(* Steps that move what no report reads. *)
LEMMA QuietKeeps ==
  ASSUME SInv, UNCHANGED <<given, live, released, told, ended>>,
         Unbuilt', NothingHeldAfterRelease', Records', released => struck' = struck \/ ~owned
  PROVE  SInv'
  <1>1. Shape' /\ Untold'
    BY DEF SInv, Shape, Account, Untold
  <1>2. OneAccount'
    BY DEF SInv, OneAccount, ToldAs, CauseIsTheNetworks
  <1> QED BY <1>1, <1>2 DEF SInv

-----------------------------------------------------------------------------
LEMMA ConstructKeeps == SInv /\ (Construct \/ ConstructAborted) => SInv'
  <1>1. ASSUME SInv, Construct PROVE SInv'
    <2>1. Unbuilt' /\ NothingHeldAfterRelease' /\ Records'
      BY <1>1 DEF Construct, Builds, SInv, Unbuilt, NothingHeldAfterRelease, Records
    <2>2. UNCHANGED <<given, live, released, told, ended, struck>>
      BY <1>1 DEF Construct
    <2> QED BY <1>1, <2>1, <2>2, QuietKeeps
  <1>2. ASSUME SInv, ConstructAborted PROVE SInv'
    <2>1. ~released /\ ~live /\ ended = Nothing
      BY <1>2 DEF ConstructAborted, SInv, Unbuilt, OneAccount
    <2>2. CallerSignal \in Teardowns /\ CallerSignal.kind = "callerSignal" /\ CallerSignal.line = "quiet"
      BY DEF Teardowns, CallerSignal
    <2>3. (told = Account)' /\ OneAccount'
      <3>1. CauseIsTheNetworks(CallerSignal)'
        BY <2>2 DEF CauseIsTheNetworks
      <3>2. told' = Reports(CallerSignal) /\ released' /\ live' = live /\ kind' = kind /\ ended' = CallerSignal
        BY <1>2, <2>1 DEF ConstructAborted, EndsWith
      <3> QED BY <1>2, <2>1, <2>2, <3>1, <3>2, AccountOfEnd
    <2>4. Unbuilt' /\ NothingHeldAfterRelease' /\ Records' /\ Untold'
      BY <1>2 DEF ConstructAborted, SInv, Shape, Unbuilt, NothingHeldAfterRelease, Records, Untold
    <2>5. Shape'
      BY <1>2, <2>1, <2>2, <2>3 DEF ConstructAborted, EndsWith, SInv, Shape
    <2> QED BY <2>3, <2>4, <2>5 DEF SInv
  <1> QED BY <1>1, <1>2

LEMMA NegotiationKeeps == SInv /\ (Negotiated \/ NegotiationFails) => SInv'
  <1>1. ASSUME SInv, Negotiated PROVE SInv'
    <2>1. Unbuilt' /\ NothingHeldAfterRelease' /\ Records'
      BY <1>1 DEF Negotiated, Builds, SInv, Unbuilt, NothingHeldAfterRelease, Records
    <2>2. UNCHANGED <<given, live, released, told, ended, struck>>
      BY <1>1 DEF Negotiated
    <2> QED BY <1>1, <2>1, <2>2, QuietKeeps
  <1>2. ASSUME SInv, NegotiationFails, released PROVE SInv'
    <2>1. UNCHANGED <<given, live, released, told, ended, struck, ws, listening, bound, conn, watch, lastDial, lastConn>>
          /\ asking' = "over"
      BY <1>2 DEF NegotiationFails
    <2>2. Unbuilt' /\ NothingHeldAfterRelease' /\ Records'
      BY <1>2, <2>1 DEF SInv, Unbuilt, NothingHeldAfterRelease, Records
    <2> QED BY <1>2, <2>1, <2>2, QuietKeeps
  <1>3. ASSUME SInv, NegotiationFails, ~released PROVE SInv'
    <2>1. NegotiationFailure \in Teardowns /\ NegotiationFailure.error.cause = <<>> /\ NegotiationFailure.line = "quiet"
      BY DEF Teardowns, NegotiationFailure, Fault, Failure
    <2>2. /\ Shutdown(NegotiationFailure) /\ EndsWith(NegotiationFailure)
          /\ UNCHANGED <<given, connector, live>> /\ asking = "pending" /\ asking' = "over"
      BY <1>3 DEF NegotiationFails
    <2> QED BY <1>3, <2>1, <2>2, ShutdownKeeps
  <1> QED BY <1>1, <1>2, <1>3

LEMMA NetworkKeeps == SInv /\ Network => SInv'
  <1> SUFFICES ASSUME SInv, Network PROVE SInv'
    OBVIOUS
  <1>1. UNCHANGED <<given, live, released, told, ended, ws, listening, bound, watch, asking>>
    BY DEF Network, Connected, UpgradeRefused, PeerCloses, DialFails, ConnectionErrs
  <1>2. conn \in {"dialing", "established"} /\ conn' \in {"established", "gone"} /\ (conn' = conn => conn' = "established")
    BY DEF Network, Connected, UpgradeRefused, PeerCloses, DialFails, ConnectionErrs
  <1>3. Unbuilt' /\ NothingHeldAfterRelease'
    BY <1>1, <1>2 DEF SInv, Unbuilt, NothingHeldAfterRelease
  <1>4. Records'
    <2>1. CASE Connected
      BY <2>1 DEF Connected, SInv, Records
    <2>2. CASE UpgradeRefused \/ PeerCloses
      BY <2>2 DEF UpgradeRefused, PeerCloses, SInv, Records
    <2>3. ASSUME NEW c \in DialCauses, DialFails(c) PROVE Records'
      BY <2>3, CausesAssumption DEF DialFails, SInv, Records, Shape
    <2>4. ASSUME NEW c \in ConnCauses, ConnectionErrs(c) PROVE Records'
      BY <2>4, CausesAssumption, <1>2 DEF ConnectionErrs, SInv, Records, Shape
    <2> QED BY <2>1, <2>2, <2>3, <2>4 DEF Network
  <1>5. released => ~owned
    BY <1>2 DEF SInv, NothingHeldAfterRelease
  <1> QED BY <1>1, <1>3, <1>4, <1>5, QuietKeeps

LEMMA OpensKeeps == SInv /\ Opens => SInv'
  <1> SUFFICES ASSUME SInv, Opens PROVE SInv'
    OBVIOUS
  <1>1. listening /\ ~released
    BY DEF Opens, SInv, NothingHeldAfterRelease
  <1>2. /\ told' = [told EXCEPT !.handshake = IF Handshakes THEN "open" ELSE @] /\ live' /\ ws' = "open"
        /\ UNCHANGED <<given, asking, conn, connector, listening, released, ended>>
    BY <1>1 DEF Opens
  <1>3. told' = [handshake |-> IF Handshakes THEN "open" ELSE told.handshake, unopened |-> told.unopened,
                 rail |-> told.rail, recorded |-> told.recorded, lines |-> told.lines, closed |-> told.closed]
    BY <1>2 DEF SInv, Shape, Account
  <1>4. Shape' /\ Untold'
    BY <1>1, <1>2, <1>3 DEF SInv, Shape, Account, Untold
  <1>5. Unbuilt' /\ NothingHeldAfterRelease' /\ Records'
    BY <1>1, <1>2 DEF Opens, SInv, Unbuilt, NothingHeldAfterRelease, Records
  <1>6. OneAccount'
    <2>1. told'.handshake = (IF Handshakes THEN "open" ELSE told.handshake) /\ told'.closed = told.closed
          /\ told'.rail = told.rail /\ told'.recorded = told.recorded /\ told'.lines = told.lines
      BY <1>3
    <2> QED BY <1>1, <1>2, <2>1 DEF SInv, OneAccount
  <1> QED BY <1>4, <1>5, <1>6 DEF SInv

(* The cause an error is reported with. *)
LEMMA CauseRead ==
  ASSUME SInv
  PROVE  /\ CauseOfError \in DialCauses \cup ConnCauses \cup {Blank}
         /\ owned => CauseOfError \in struck \/ (CauseOfError = Blank /\ \A c \in struck : ~IsSocketOwnError(c))
  BY DEF SInv, Records, CauseOfError

LEMMA HearsErrorKeeps == SInv /\ HearsError => SInv'
  <1> SUFFICES ASSUME SInv, HearsError PROVE SInv'
    OBVIOUS
  <1>1. CASE listening
    <2>0. live \in BOOLEAN
      BY DEF SInv, Shape
    <2>1. PICK t : t = SocketFault(CauseOfError, live)
      OBVIOUS
    <2>2. t \in Teardowns
      BY <2>0, <2>1, CauseRead DEF Teardowns
    <2>3. t.error.cause = CauseOfError
      BY <2>1 DEF SocketFault, Fault, Failure
    <2>4. t.line = "quiet" \/ live
      BY <2>0, <2>1 DEF SocketFault, Fault, Failure
    <2>5. CauseIsTheNetworks(t)'
      <3>1. struck' = struck /\ owned' = owned
        BY DEF HearsError
      <3> QED BY <2>3, <3>1, CauseRead DEF CauseIsTheNetworks
    <2>6. /\ OnClose(t) /\ EndsWith(t) /\ UNCHANGED <<given, connector, live>>
          /\ asking' = asking /\ asking \notin {"unborn", "pending"} /\ ws' = "closed"
      <3>1. asking \notin {"unborn", "pending"}
        BY <1>1 DEF SInv, Unbuilt, NothingHeldAfterRelease
      <3> QED BY <1>1, <2>1, <3>1 DEF HearsError
    <2> QED BY <2>2, <2>4, <2>5, <2>6, OnCloseKeeps
  <1>2. CASE ~listening
    <2>1. UNCHANGED <<given, live, released, told, ended, struck>>
      BY <1>2 DEF HearsError
    <2>2. Unbuilt' /\ NothingHeldAfterRelease' /\ Records'
      BY <1>2, NothingAssumption DEF HearsError, SInv, Unbuilt, NothingHeldAfterRelease, Records
    <2> QED BY <2>1, <2>2, QuietKeeps
  <1> QED BY <1>1, <1>2

LEMMA HearsCloseKeeps == SInv /\ HearsClose => SInv'
  <1> SUFFICES ASSUME SInv, HearsClose PROVE SInv'
    OBVIOUS
  <1>1. CASE listening
    <2>1. PeerClose \in Teardowns /\ PeerClose.kind = "peer" /\ PeerClose.line = "quiet"
      BY DEF Teardowns, PeerClose
    <2>2. CauseIsTheNetworks(PeerClose)'
      BY <2>1 DEF CauseIsTheNetworks
    <2>3. asking \notin {"unborn", "pending"}
      BY <1>1 DEF SInv, Unbuilt, NothingHeldAfterRelease
    <2>4. /\ OnClose(PeerClose) /\ EndsWith(PeerClose) /\ UNCHANGED <<given, connector, live>>
          /\ asking' = asking /\ ws' = "closed"
      BY <1>1 DEF HearsClose
    <2> QED BY <2>1, <2>2, <2>3, <2>4, OnCloseKeeps
  <1>2. CASE ~listening
    <2>1. /\ UNCHANGED <<given, live, released, told, ended, struck, asking, lastDial, lastConn, listening, bound, conn, watch>>
          /\ ws' = "closed" /\ due = "close" /\ due' = Nothing
      BY <1>2 DEF HearsClose
    <2>2. asking \notin {"unborn", "pending"} \/ ws = "none"
      BY DEF SInv, Unbuilt
    <2>3. Unbuilt' /\ NothingHeldAfterRelease' /\ Records'
      BY <1>2, <2>1, NothingAssumption DEF SInv, Unbuilt, NothingHeldAfterRelease, Records
    <2> QED BY <2>1, <2>3, QuietKeeps
  <1> QED BY <1>1, <1>2

(* The owner's own ends: a message's listener, a signal, a close, a stall. *)
LEMMA OwnEndKeeps ==
  ASSUME SInv, HearsMessage \/ CallerAborts \/ CloseCalled \/ WatchdogWakes \/ WatchdogTrips
  PROVE  SInv'
  <1>1. /\ ExplicitClose \in Teardowns /\ ExplicitClose.kind = "close" /\ ExplicitClose.line = "quiet"
        /\ CallerSignal \in Teardowns /\ CallerSignal.kind = "callerSignal" /\ CallerSignal.line = "quiet"
    BY DEF Teardowns, ExplicitClose, CallerSignal
  <1>2. Stall(live) \in Teardowns /\ Stall(live).error.cause = <<>> /\ (Stall(live).line = "quiet" \/ live)
    BY DEF SInv, Shape, Teardowns, Stall, Fault, Failure
  <1>3. UNCHANGED <<given, connector, live, asking>>
    BY DEF HearsMessage, CallerAborts, CloseCalled, WatchdogWakes, WatchdogTrips
  <1>4. asking # "unborn"
    BY DEF HearsMessage, CallerAborts, CloseCalled, WatchdogWakes, WatchdogTrips, SInv, Unbuilt
  <1>5. CASE Shutdown(ExplicitClose) /\ EndsWith(ExplicitClose)
    BY <1>1, <1>3, <1>4, <1>5, ShutdownKeeps
  <1>6. CASE Shutdown(CallerSignal) /\ EndsWith(CallerSignal)
    BY <1>1, <1>3, <1>4, <1>6, ShutdownKeeps
  <1>7. CASE Shutdown(Stall(live)) /\ EndsWith(Stall(live))
    BY <1>2, <1>3, <1>4, <1>7, ShutdownKeeps
  <1>8. CASE UNCHANGED <<ws, due, listening, bound, conn, watch, released, told, ended>>
    BY <1>3, <1>8, QuietKeeps DEF SInv, Unbuilt, NothingHeldAfterRelease, Records
  <1> QED BY <1>5, <1>6, <1>7, <1>8 DEF HearsMessage, CallerAborts, CloseCalled, WatchdogWakes, WatchdogTrips

LEMMA NextKeeps == SInv /\ [SocketNext]_socketVars => SInv'
  <1>1. ASSUME SInv, UNCHANGED socketVars PROVE SInv'
    BY <1>1, QuietKeeps DEF socketVars, SInv, Unbuilt, NothingHeldAfterRelease, Records
  <1> QED BY <1>1, ConstructKeeps, NegotiationKeeps, NetworkKeeps, OpensKeeps, HearsErrorKeeps, HearsCloseKeeps,
             OwnEndKeeps DEF SocketNext, Owner

THEOREM SocketInvariant == SocketSpec => []SInv
  BY InitHolds, NextKeeps, PTL DEF SocketSpec

-----------------------------------------------------------------------------
(* A torn-down owner holds nothing, whatever the network, the negotiation,   *)
(* its caller and its watchdog did and in whatever order.                    *)
THEOREM ReleaseIsWhole == SocketSpec => []NothingHeldAfterRelease
  <1>1. SInv => NothingHeldAfterRelease
    BY DEF SInv
  <1> QED BY <1>1, SocketInvariant, PTL

(* The end of an owner is told once, and as what first set it in motion,     *)
(* with the cause the network raised.                                        *)
THEOREM EndIsToldOnce == SocketSpec => []OneAccount
  <1>1. SInv => OneAccount
    BY DEF SInv
  <1> QED BY <1>1, SocketInvariant, PTL
=============================================================================
