---------------------------- MODULE ProtectClient ----------------------------
(***************************************************************************)
(* The composition root: ProtectClient.connect builds the parts one stage  *)
(* at a time and takes down what it built when a stage fails; disposals    *)
(* stand the parts down in their order, and may overlap each other, a      *)
(* bootstrap in flight, and consumers that subscribe and iterate.          *)
(***************************************************************************)
EXTENDS PoolSubscriptions, ClientRails

CONSTANTS
  Callers, (* who may dispose the client                                     *)
  Nobody   (* connect itself, disposing what it built                        *)

ASSUME NobodyAssumption == Nobody \notin Callers

VARIABLES
  stage,    (* where connect is: idle, login, fetch, opening, connected,     *)
            (* rejecting, rejected                                           *)
  standing, (* the parts that are built and not disposed                     *)
  tearing,  (* per disposal, the place in DisposalOrder it has come to       *)
  stream,   (* the events stream: none, connecting, open, lost               *)
  refresh,  (* the store's failsafe: off, waiting, sent, answered            *)
  retired   (* history: how many sessions there were at a pool's disposal    *)

lifeVars == <<stage, standing, tearing, stream, refresh, retired>>
clientVars == <<lifeVars, poolVars, railVars>>

Disposers == Callers \cup {Nobody}
Parts == {"transport", "store", "monitor", "pool"}

(* asyncDispose: ingestion first, the transport that feeds it last. *)
DisposalOrder == <<"monitor", "pool", "store", "transport">>
AllDown == Len(DisposalOrder) + 1

ClientInit ==
  /\ stage = "idle" /\ standing = {} /\ tearing = [d \in Disposers |-> AllDown]
  /\ stream = "none" /\ refresh = "off" /\ retired = 0
  /\ PoolInit /\ RailsInit

Rests == UNCHANGED <<poolVars, railVars>>

-----------------------------------------------------------------------------
(* connect: an address no URL can carry is refused with nothing built. *)
Refuses ==
  /\ stage = "idle" /\ stage' = "rejected"
  /\ UNCHANGED <<standing, tearing, stream, refresh, retired>> /\ Rests

Begins ==
  /\ stage = "idle" /\ stage' = "login"
  /\ standing' = {"transport"}
  /\ UNCHANGED <<tearing, stream, refresh, retired>> /\ Rests

Authenticated ==
  /\ stage = "login" /\ stage' = "fetch"
  /\ UNCHANGED <<standing, tearing, stream, refresh, retired>> /\ Rests

(* What connect had built is disposed, in the order of every disposal. *)
RejectsDisposingFrom(part) ==
  /\ stage' = "rejecting"
  /\ \E i \in DOMAIN DisposalOrder : DisposalOrder[i] = part /\ tearing' = [tearing EXCEPT ![Nobody] = i]

(* A login or a fetch that fails, or its caller's signal. *)
LoginOrFetchFails ==
  /\ stage \in {"login", "fetch"}
  /\ RejectsDisposingFrom("transport")
  /\ UNCHANGED <<standing, stream, refresh, retired>> /\ Rests

(* The store begins its refresh loop as it is built, unless that is off.     *)
RefreshLoop == {"waiting", "off"}

(* Mutant: a document that cannot be applied costs only the transport. *)
ApplyFailsForgetsStore ==
  /\ stage = "fetch"
  /\ standing' = standing \cup {"store"} /\ refresh' \in RefreshLoop
  /\ RejectsDisposingFrom("transport")
  /\ UNCHANGED <<stream, retired>> /\ Rests

(* The store stands, and its loop runs, before the first apply. *)
ApplyFails ==
  /\ stage = "fetch"
  /\ standing' = standing \cup {"store"} /\ refresh' \in RefreshLoop
  /\ RejectsDisposingFrom("store")
  /\ UNCHANGED <<stream, retired>> /\ Rests

(* The document is applied and the client built in the same turn.            *)
Assembles ==
  /\ stage = "fetch" /\ stage' = "opening"
  /\ standing' = Parts /\ stream' = "connecting"
  /\ refresh' \in RefreshLoop
  /\ UNCHANGED <<tearing, retired>> /\ Rests

StreamOpens ==
  /\ stage = "opening" /\ stream = "connecting"
  /\ stream' = "open" /\ stage' = "connected"
  /\ UNCHANGED <<standing, tearing, refresh, retired>> /\ Rests

OpenFails ==
  /\ stage = "opening"
  /\ stream' = "lost"
  /\ RejectsDisposingFrom("monitor")
  /\ UNCHANGED <<standing, refresh, retired>> /\ Rests

-----------------------------------------------------------------------------
(* A connected client's stream is lost, and relaunched by its monitor, which *)
(* detaches the old stream's sinks and attaches the new one's.               *)
StreamLost ==
  /\ stage = "connected" /\ stream = "open" /\ stream' = "lost"
  /\ UNCHANGED <<stage, standing, tearing, refresh, retired>> /\ Rests

Relaunches ==
  /\ stage = "connected" /\ stream = "lost" /\ "monitor" \in standing
  /\ stream' = "open"
  /\ UNCHANGED <<stage, standing, tearing, refresh, retired>> /\ Rests

Frame ==
  /\ stream = "open" /\ "monitor" \in standing
  /\ \E p \in Packets : FrameArrives(p)
  /\ UNCHANGED <<lifeVars, poolVars>>

(* The store's refresh failsafe fetches through the transport. *)
RefreshDue ==
  /\ refresh = "waiting" /\ "store" \in standing /\ refresh' = "sent"
  /\ UNCHANGED <<stage, standing, tearing, stream, retired>> /\ Rests

RefreshSettles ==
  /\ refresh = "sent" /\ refresh' = IF "store" \in standing THEN "waiting" ELSE "off"
  /\ UNCHANGED <<stage, standing, tearing, stream, retired>> /\ Rests

-----------------------------------------------------------------------------
(* Dispose, by a caller who holds the client; disposals may overlap. *)
Dispose(d) ==
  /\ d \in Callers /\ stage = "connected" /\ tearing[d] = AllDown
  /\ tearing' = [tearing EXCEPT ![d] = 1]
  /\ UNCHANGED <<stage, standing, stream, refresh, retired>> /\ Rests

(* Mutant: the pool's disposal only lets its sessions go. *)
StandDownForgetsSessions(part) ==
  /\ stream' = IF part = "monitor" THEN "lost" ELSE stream
  /\ refresh' = IF part = "store" /\ refresh = "waiting" THEN "off" ELSE refresh
  /\ IF part = "pool"
     THEN pool' = [k \in StreamKeys |-> NoSession] /\ retired' = Len(managed) /\ UNCHANGED <<managed, subs, drains>>
     ELSE UNCHANGED <<retired, pool, managed, subs, drains>>

(* What a part does of its disposal before it first awaits. *)
StandDown(part) ==
  /\ stream' = IF part = "monitor" THEN "lost" ELSE stream
  /\ refresh' = IF part = "store" /\ refresh = "waiting" THEN "off" ELSE refresh
  /\ IF part = "pool"
     THEN /\ Becomes(PoolDisposed(PoolState)) /\ retired' = Len(managed)
          /\ Wakes(UNION {managed[s].subscribers : s \in {t \in DOMAIN managed : ~managed[t].torndown}})
     ELSE UNCHANGED <<retired, pool, managed, subs, drains>>

(* Each await of a disposal ends, and the next part is disposed. *)
TearsDown(d) ==
  /\ tearing[d] # AllDown
  /\ StandDown(DisposalOrder[tearing[d]])
  /\ standing' = standing \ {DisposalOrder[tearing[d]]}
  /\ tearing' = [tearing EXCEPT ![d] = @ + 1]
  /\ stage' = IF d = Nobody /\ tearing'[d] = AllDown THEN "rejected" ELSE stage
  /\ UNCHANGED <<fanned, railVars>>

-----------------------------------------------------------------------------
ClientNext ==
  \/ Refuses \/ Begins \/ Authenticated \/ LoginOrFetchFails \/ ApplyFails \/ Assembles \/ StreamOpens \/ OpenFails
  \/ StreamLost \/ Relaunches \/ Frame \/ RefreshDue \/ RefreshSettles
  \/ \E d \in Disposers : Dispose(d) \/ TearsDown(d)
  \/ stage = "connected" /\ PoolSteps /\ UNCHANGED <<lifeVars, railVars>>
  \/ stage = "connected" /\ HoseSteps /\ UNCHANGED <<lifeVars, poolVars>>

Spec == ClientInit /\ [][ClientNext]_clientVars

(* A disposal's awaits end, and a consumer's loop takes what it is given. *)
FairSpec ==
  /\ Spec
  /\ \A d \in Disposers : WF_clientVars(TearsDown(d))
  /\ \A h \in Firehoses : WF_clientVars(Hands(h) /\ UNCHANGED <<lifeVars, poolVars>>)
                          /\ WF_clientVars(EndsQuietly(h) /\ UNCHANGED <<lifeVars, poolVars>>)
                          /\ WF_clientVars(AsksMore(h) /\ UNCHANGED <<lifeVars, poolVars>>)

-----------------------------------------------------------------------------
(* No part outlives what it stands on, and no failed connect and no disposal *)
(* leaves one: the state is not refreshed through a transport that is gone,  *)
(* and ingestion ends before the state it feeds.                             *)
StandsInOrder ==
  /\ stage = "rejected" => standing = {} /\ refresh # "waiting"
  /\ "transport" \notin standing => standing = {}
  /\ "store" \notin standing => standing \cap {"monitor", "pool"} = {} /\ refresh # "waiting"
  /\ "monitor" \notin standing => stream # "open"

(* And of the streams consumers held none outlives the pool; all of it holds *)
(* of overlapping disposals too.                                             *)
NothingOutlivesTheClient ==
  /\ StandsInOrder
  /\ "pool" \notin standing => \A s \in DOMAIN managed : s <= retired => managed[s].torndown

(* events() and rawPackets() run "until the signal aborts or the client is   *)
(* disposed" (src/client/client.ts:707, :737).                               *)
EventsEndWithClient ==
  \A h \in Firehoses : (standing = {} /\ hoses[h].at = "parked") ~> hoses[h].at # "parked"
=============================================================================
