----------------------------- MODULE StateStore -----------------------------
(***************************************************************************)
(* The observable store of src/state/store.ts between the controller it    *)
(* mirrors and the consumers that observe it: packets that can be lost on  *)
(* the way, bootstraps asked for by the refresh loop and by a recovery,    *)
(* each a snapshot that is answered later, the dispatch chokepoint with    *)
(* its adoption episodes, the memoized selectors of state/selectors.ts,    *)
(* the observers' queues, and disposal.                                    *)
(***************************************************************************)
EXTENDS Reducer, PacketEvents, TLC

CONSTANTS
  Devices,      (* ids                                                        *)
  Contents,     (* per device, the full records the controller may hold of it  *)
  Nvrs,         (* the controller's own records                               *)
  Rosters,      (* what a collection without packets may hold                 *)
  FirstTruth,   (* what the controller holds when the client connects         *)
  Key,          (* the collection the devices are in                          *)
  Observers,    (* one consumer's iteration each                              *)
  Watches,      (* what each observes: <<"byId", id>>, <<"all">>, <<"adoptedIds">>... *)
  MayThrow,     (* the observers whose selector may throw                     *)
  Fetchers,     (* who asks for a bootstrap: "refresh", "recovery"            *)
  MaxChanges    (* bound: changes of the controller in a behaviour            *)

ASSUME KeyAssumption == Key \in ModelKeys /\ Key \in STATE_MODEL_KEYS
ASSUME WatchesAssumption ==
  /\ MayThrow \subseteq Observers /\ IsFiniteSet(Observers) /\ "refresh" \in Fetchers
  /\ \A o \in Observers : Watches[o][1] \in {"byId", "all", "online", "adoptedIds"}

(* "Each is a full record that explicitly asserts its adoption" (src/state/  *)
(* store.ts:401); the rosters of users and liveviews carry no such fields    *)
(* (src/protocol/reducer.ts:654).  And a controller keeps its own MAC.       *)
AssertsAdoption(r) ==
  /\ Field(r, "isAdopted") \in {Yes, No} /\ Field(r, "isAdoptedByOther") \in {Yes, No}
  /\ Field(r, "nvrMac") # Undefined
SilentOnAdoption(r) == \A k \in {"isAdopted", "isAdoptedByOther", "nvrMac"} : Field(r, k) = Undefined
FullRecord(k, r) == IsPlainObject(r) /\ (AssertsAdoption(r) \/ (k # Key /\ SilentOnAdoption(r)))

OwnMac == Field(FirstTruth.nvr, "mac")
Controls(nvr) == IsPlainObject(nvr) /\ Field(nvr, "mac") = OwnMac

ASSUME ControllerAssumption ==
  /\ DOMAIN FirstTruth = {"nvr", "maps"} /\ DOMAIN FirstTruth.maps = ModelKeys \cup BootstrapKeys
  /\ \A k \in ModelKeys : \A id \in DOMAIN FirstTruth.maps[k] : FullRecord(k, FirstTruth.maps[k][id])
  /\ \A id \in Devices : \A r \in Contents[id] : FullRecord(Key, r)
  /\ ~IsPlainObject(OwnMac) /\ \A r \in Nvrs \cup {FirstTruth.nvr} : Controls(r)

ASSUME DocumentsAssumption ==
  /\ \A c \in {FirstTruth.maps[k] : k \in DOMAIN FirstTruth.maps} \cup Rosters : IsCollection(c)
  /\ \A r \in Nvrs \cup {FirstTruth.nvr} : IsDocument(r)
  /\ \A id \in Devices : \A r \in Contents[id] : IsDocument(r)

VARIABLES
  truth,     (* the controller: its own record, its devices, its rosters       *)
  changes,   (* how many times it changed                                      *)
  wire,      (* packets of the events stream not yet delivered                 *)
  fetch,     (* per fetcher: where its request is, and the snapshot it carries *)
  state,     (* #state                                                         *)
  memo,      (* the content memo of adoptedIds: the ids and their identity     *)
  engaged,   (* #engagedAdoption                                               *)
  disposed,  (* #disposed                                                      *)
  observers, (* #observers                                                     *)
  obs,       (* each StateObserver and the generator that iterates it          *)
  threw      (* history: the observers whose selector threw at the last commit *)

vars == <<truth, changes, wire, fetch, state, memo, engaged, disposed, observers, obs, threw>>
world == <<truth, changes, wire>>

-----------------------------------------------------------------------------
(* Identities.  A fold allocates under the least number nothing holds.     *)
BornIn(r) == {r.born} \cup {r.at[k].born : k \in {x \in DOMAIN r.at : IsPlainObject(r.at[x])}}
LiveRecords == (IF state.nvr = Undefined THEN {} ELSE {state.nvr})
               \cup UNION {{state.maps[k].at[i] : i \in DOMAIN state.maps[k].at} : k \in DOMAIN state.maps}
Remembered(o) == {obs[o].last, obs[o].held} \cup {obs[o].queue[i] : i \in DOMAIN obs[o].queue}
                 \cup {obs[o].batch[i] : i \in DOMAIN obs[o].batch}
Live == {0, memo.born} \cup (UNION {BornIn(r) : r \in LiveRecords})
        \cup {state.maps[k].born : k \in DOMAIN state.maps} \cup (UNION {Remembered(o) : o \in Observers})
Now == CHOOSE n \in 0..Cardinality(Live) : n \notin Live /\ \A m \in 0..(n - 1) : m \in Live

-----------------------------------------------------------------------------
(* Selectors, by the identity of what they return; 0 is undefined. *)
IsDeviceAdopted(r) == Field(r, "isAdopted") = Yes /\ Field(r, "isAdoptedByOther") # Yes
AdoptedIn(s) == {id \in DOMAIN s.maps[Key].at : IsDeviceAdopted(s.maps[Key].at[id])}

(* memoizeArrayByContent over the ids of the map at hand: the same ids come *)
(* back as the array returned before.                                       *)
MemoizeArrayByContent(m, s) ==
  IF m.ids = AdoptedIn(s) THEN m ELSE [ids |-> AdoptedIn(s), born |-> s.maps[Key].born]

Select(o, s, m) ==
  CASE Watches[o][1] = "byId" ->
         IF Watches[o][2] \in DOMAIN s.maps[Key].at THEN s.maps[Key].at[Watches[o][2]].born ELSE 0
    [] Watches[o][1] \in {"all", "online"} -> s.maps[Key].born
    [] Watches[o][1] = "adoptedIds" -> m.born

(* The memo's slot moves when somebody runs its selector. *)
Memoized(s, who) ==
  IF \E o \in who : Watches[o][1] = "adoptedIds" THEN MemoizeArrayByContent(memo, s) ELSE memo

-----------------------------------------------------------------------------
(* One observer: closed, the identity last enqueued, the pending values,   *)
(* the batch being drained, what the consumer holds, and where its         *)
(* generator is: before the first pull ("off"), at a yield, parked on its  *)
(* wake, woken, or over.                                                   *)
NewObserver == [at |-> "off", closed |-> FALSE, last |-> 0, queue |-> <<>>, batch |-> <<>>, held |-> 0]

(* #signal: wakes a parked iterator once. *)
Signal(r) == IF r.at = "parked" THEN [r EXCEPT !.at = "woken"] ELSE r

(* Mutant: the new value is enqueued and the parked iterator is not woken. *)
EvaluateUnsignalled(r, next) ==
  IF next = r.last THEN r ELSE [r EXCEPT !.last = next, !.queue = Append(@, next)]

(* StateObserver.evaluate *)
Evaluate(r, next) ==
  IF next = r.last THEN r ELSE Signal([r EXCEPT !.last = next, !.queue = Append(@, next)])

(* StateObserver.close: what is queued is still drained. *)
Close(r) == Signal([r EXCEPT !.closed = TRUE])

(* The loop of iterate(), from a pull or a wake to the next yield or park. *)
Iterate(r) ==
  LET b == IF r.batch # <<>> THEN r.batch ELSE r.queue
      q == IF r.batch # <<>> THEN r.queue ELSE <<>>
  IN  IF b # <<>> THEN [r EXCEPT !.at = "yielded", !.held = Head(b), !.batch = Tail(b), !.queue = q]
      ELSE IF r.closed THEN [r EXCEPT !.at = "over"]
      ELSE [r EXCEPT !.at = "parked"]

(* The iterator ran on; its finally unregisters it where it returned. *)
Runs(o, r) ==
  /\ obs' = [obs EXCEPT ![o] = r]
  /\ observers' = IF r.at = "over" THEN observers \ {o} ELSE observers
  /\ threw' = IF r.at = "over" THEN threw \ {o} ELSE threw

-----------------------------------------------------------------------------
(* #trackAdoptionContradiction, before the fold, from what the wire says.  *)
Stored(key, id) ==
  IF key # "nvr" /\ id \in DOMAIN state.maps[key].at THEN state.maps[key].at[id] ELSE Undefined

ReconcileAdoptionFromBootstrap(bootstrap) ==
  UNION {{<<k, id>> : id \in {x \in DOMAIN bootstrap.maps[k] :
            IsAdoptionContradiction(AdoptionView(Stored(k, x), bootstrap.maps[k][x]),
                                    Field(bootstrap.nvr, "mac"))}} : k \in ModelKeys}

TrackAdoptionForDevice(key, id, incoming, requireStored) ==
  IF \/ key = "nvr" \/ AdoptedByOtherAssertion(incoming) = Undefined
     \/ requireStored /\ Stored(key, id) = Undefined
  THEN engaged
  ELSE IF IsAdoptionContradiction(AdoptionView(Stored(key, id), incoming), Field(state.nvr, "mac"))
  THEN engaged \cup {<<key, id>>}
  ELSE engaged \ {<<key, id>>}

TrackAdoptionContradiction(e) ==
  CASE e.kind = "bootstrapLoaded" -> ReconcileAdoptionFromBootstrap(e.data)
    [] e.kind = "deviceAdded" -> TrackAdoptionForDevice(e.modelKey, e.id, e.data, FALSE)
    [] e.kind = "devicePatched" -> TrackAdoptionForDevice(e.modelKey, e.id, e.patch, TRUE)
    [] e.kind = "deviceRemoved" -> engaged \ {<<e.modelKey, e.id>>}
    [] OTHER -> engaged

(* Mutant: a selector that throws ends the loop over the observers. *)
DispatchUncontained(e, now) ==
  IF disposed THEN UNCHANGED <<state, memo, engaged, obs, threw>>
  ELSE /\ engaged' = TrackAdoptionContradiction(e)
       /\ \E next \in {Reduce(state, e, now)} :
            IF e.kind # "bootstrapLoaded" /\ next = state
            THEN UNCHANGED <<state, memo, obs, threw>>
            ELSE /\ state' = next
                 /\ threw' \in SUBSET (observers \cap MayThrow)
                 /\ memo' = Memoized(next, observers)
                 /\ obs' = [o \in Observers |->
                              IF o \in observers /\ threw' = {}
                              THEN Evaluate(obs[o], Select(o, next, memo')) ELSE obs[o]]

(* dispatch.  A selector that throws is contained: its observer keeps what *)
(* it enqueued last, and the others still wake.                            *)
Dispatch(e, now) ==
  IF disposed THEN UNCHANGED <<state, memo, engaged, obs, threw>>
  ELSE /\ engaged' = TrackAdoptionContradiction(e)
       /\ \E next \in {Reduce(state, e, now)} :
            IF e.kind # "bootstrapLoaded" /\ next = state
            THEN UNCHANGED <<state, memo, obs, threw>>
            ELSE /\ state' = next
                 /\ threw' \in SUBSET (observers \cap MayThrow)
                 /\ memo' = Memoized(next, observers)
                 /\ obs' = [o \in Observers |->
                              IF o \in observers \ threw'
                              THEN Evaluate(obs[o], Select(o, next, memo')) ELSE obs[o]]

-----------------------------------------------------------------------------
(* The controller.  It sends what it changed: a whole record it adds, the  *)
(* fields it patches, the id it removes.                                   *)
Packet(action, key, id, payload) ==
  [action |-> action, modelKey |-> key, id |-> id, payload |-> payload]

Changes(p) == changes < MaxChanges /\ changes' = changes + 1 /\ wire' = p

Held(id) == id \in DOMAIN truth.maps[Key]
Patch(old, new) ==
  [at |-> [k \in {x \in DOMAIN new.at : x \notin DOMAIN old.at \/ old.at[x] # new.at[x]} |-> new.at[k]]]

ControllerAdds(id, r) ==
  /\ ~Held(id) /\ r \in Contents[id]
  /\ Changes(Append(wire, Packet("add", Key, id, r)))
  /\ truth' = [truth EXCEPT !.maps[Key] = With(@, id, r)]
  /\ UNCHANGED <<fetch, state, memo, engaged, disposed, observers, obs, threw>>

ControllerPatches(id, r) ==
  /\ Held(id) /\ r \in Contents[id] \ {truth.maps[Key][id]}
  /\ Changes(Append(wire, Packet("update", Key, id, Patch(truth.maps[Key][id], r))))
  /\ truth' = [truth EXCEPT !.maps[Key][id] = r]
  /\ UNCHANGED <<fetch, state, memo, engaged, disposed, observers, obs, threw>>

ControllerRemoves(id) ==
  /\ Held(id)
  /\ Changes(Append(wire, Packet("remove", Key, id, NotRecord)))
  /\ truth' = [truth EXCEPT !.maps[Key] = Without(@, id)]
  /\ UNCHANGED <<fetch, state, memo, engaged, disposed, observers, obs, threw>>

ControllerPatchesNvr(r) ==
  /\ r \in Nvrs \ {truth.nvr}
  /\ Changes(Append(wire, Packet("update", "nvr", "nvr", Patch(truth.nvr, r))))
  /\ truth' = [truth EXCEPT !.nvr = r]
  /\ UNCHANGED <<fetch, state, memo, engaged, disposed, observers, obs, threw>>

(* A collection the controller sends no packets of, and an occurrence. *)
ControllerEditsRoster(k, c) ==
  /\ k \in BootstrapKeys /\ c \in Rosters \ {truth.maps[k]}
  /\ Changes(wire)
  /\ truth' = [truth EXCEPT !.maps[k] = c]
  /\ UNCHANGED <<fetch, state, memo, engaged, disposed, observers, obs, threw>>

(* The realtime path: a frame decoded, classified and dispatched, unless it *)
(* is one the library declines; or lost.                                   *)
ParsedEvent(e, now) ==
  CASE e.kind = "deviceAdded" -> [e EXCEPT !.data = Parsed(e.data, now)]
    [] e.kind = "devicePatched" -> [e EXCEPT !.patch = Parsed(e.patch, now)]
    [] OTHER -> e

PacketArrives ==
  /\ wire # <<>>
  /\ wire' = Tail(wire)
  /\ IF ClassifyPacket(Head(wire)) = None THEN UNCHANGED <<state, memo, engaged, obs, threw>>
     ELSE \E now \in {Now} : Dispatch(ParsedEvent(ClassifyPacket(Head(wire)), now), now)
  /\ UNCHANGED <<truth, changes, fetch, disposed, observers>>

PacketLost ==
  /\ wire # <<>>
  /\ wire' = Tail(wire)
  /\ UNCHANGED <<truth, changes, fetch, state, memo, engaged, disposed, observers, obs, threw>>

-----------------------------------------------------------------------------
(* Bootstraps.  #runRefreshLoop waits, asks and dispatches; a recovery     *)
(* asks when it wants.  The controller takes the snapshot between the      *)
(* question and the answer, so what is dispatched may be older than what   *)
(* the stream delivered meanwhile.                                         *)
Ask(f) ==
  /\ fetch[f].at = "idle" /\ ~disposed
  /\ fetch' = [fetch EXCEPT ![f].at = "asked"]
  /\ UNCHANGED <<truth, changes, wire, state, memo, engaged, disposed, observers, obs, threw>>

ControllerSnapshots(f) ==
  /\ fetch[f].at = "asked"
  /\ fetch' = [fetch EXCEPT ![f] = [at |-> "answering", carries |-> truth]]
  /\ UNCHANGED <<truth, changes, wire, state, memo, engaged, disposed, observers, obs, threw>>

NoRequest == [at |-> "idle", carries |-> None]

ParsedBootstrap(b, now) ==
  [nvr |-> Parsed(b.nvr, now),
   maps |-> [k \in DOMAIN b.maps |-> [id \in DOMAIN b.maps[k] |-> Parsed(b.maps[k][id], now)]]]

(* A request in flight at the disposal settles after it: the chokepoint    *)
(* refuses the answer, and the loop's next delay rejects, so none follows. *)
Settles(f) == fetch[f].at = "answering" /\ fetch' = [fetch EXCEPT ![f] = NoRequest]

Answered(f) ==
  /\ Settles(f)
  /\ \E now \in {Now} :
       Dispatch([kind |-> "bootstrapLoaded", data |-> ParsedBootstrap(fetch[f].carries, now)], now)
  /\ UNCHANGED <<truth, changes, wire, disposed, observers>>

(* Mutant: a refresh that failed is not tried again. *)
AskFailsForGood(f) ==
  /\ fetch[f].at = "asked"
  /\ fetch' = [fetch EXCEPT ![f] = [NoRequest EXCEPT !.at = "ended"]]
  /\ UNCHANGED <<truth, changes, wire, state, memo, engaged, disposed, observers, obs, threw>>

(* An answer that is lost is a request that failed: the controller's       *)
(* snapshot leaves no trace on it.                                         *)
AskFails(f) ==
  /\ fetch[f].at = "asked"
  /\ fetch' = [fetch EXCEPT ![f] = NoRequest]
  /\ UNCHANGED <<truth, changes, wire, state, memo, engaged, disposed, observers, obs, threw>>

-----------------------------------------------------------------------------
(* Consumers. *)
(* observe(): the body runs at the first pull, so that is what registers   *)
(* the observer and takes its baseline.                                    *)
Observe(o) ==
  /\ obs[o].at = "off" /\ ~disposed
  /\ memo' = Memoized(state, {o})
  /\ observers' = observers \cup {o}
  /\ LET base == Select(o, state, memo')
     IN  obs' = [obs EXCEPT ![o] = Iterate([@ EXCEPT !.last = base, !.held = base])]
  /\ UNCHANGED <<truth, changes, wire, fetch, state, engaged, disposed, threw>>

(* On a disposed store, with a signal that is aborted already, or with a    *)
(* selector that throws on the baseline: nothing is registered.            *)
ObserveEnded(o) ==
  /\ obs[o].at = "off"
  /\ obs' = [obs EXCEPT ![o].at = "over"]
  /\ UNCHANGED <<world, fetch, state, memo, engaged, disposed, observers, threw>>

Pull(o) ==
  /\ obs[o].at = "yielded"
  /\ Runs(o, Iterate(obs[o]))
  /\ UNCHANGED <<world, fetch, state, memo, engaged, disposed>>

Wakes(o) ==
  /\ obs[o].at = "woken"
  /\ Runs(o, Iterate(obs[o]))
  /\ UNCHANGED <<world, fetch, state, memo, engaged, disposed>>

(* The consumer breaks out of its loop, which runs the finally. *)
Breaks(o) ==
  /\ obs[o].at = "yielded"
  /\ Runs(o, [obs[o] EXCEPT !.at = "over"])
  /\ UNCHANGED <<world, fetch, state, memo, engaged, disposed>>

(* The consumer's signal. *)
Aborts(o) ==
  /\ o \in observers \/ obs[o].at \in {"yielded", "parked", "woken"}
  /\ ~obs[o].closed
  /\ obs' = [obs EXCEPT ![o] = Close(@)]
  /\ UNCHANGED <<world, fetch, state, memo, engaged, disposed, observers, threw>>

(* [Symbol.asyncDispose] *)
Dispose ==
  /\ ~disposed /\ disposed' = TRUE
  /\ obs' = [o \in Observers |-> IF o \in observers THEN Close(obs[o]) ELSE obs[o]]
  /\ observers' = {} /\ threw' = {}
  /\ UNCHANGED <<world, fetch, state, memo, engaged>>

-----------------------------------------------------------------------------
(* connect() seeds the store with a first bootstrap before it is handed    *)
(* out, so the model begins with the controller's state reduced.           *)
Init ==
  /\ truth = FirstTruth /\ changes = 0 /\ wire = <<>>
  /\ fetch = [f \in Fetchers |-> NoRequest]
  /\ state = Reduce(InitialState, [kind |-> "bootstrapLoaded", data |-> ParsedBootstrap(truth, 1)], 1)
  /\ memo = [ids |-> {}, born |-> 0]
  /\ engaged = {} /\ disposed = FALSE
  /\ observers = {} /\ threw = {}
  /\ obs = [o \in Observers |-> NewObserver]

Controller ==
  \/ \E id \in Devices : \/ \E r \in Contents[id] : ControllerAdds(id, r) \/ ControllerPatches(id, r)
                         \/ ControllerRemoves(id)
  \/ \E r \in Nvrs : ControllerPatchesNvr(r)
  \/ \E k \in BootstrapKeys, c \in Rosters : ControllerEditsRoster(k, c)

Consumer(o) ==
  Observe(o) \/ ObserveEnded(o) \/ Pull(o) \/ Wakes(o) \/ Breaks(o) \/ Aborts(o)

Next ==
  \/ Controller \/ PacketArrives \/ PacketLost
  \/ \E f \in Fetchers : Ask(f) \/ ControllerSnapshots(f) \/ Answered(f) \/ AskFails(f)
  \/ \E o \in Observers : Consumer(o)
  \/ Dispose

Spec == Init /\ [][Next]_vars

(* The loop asks again after every interval, a controller that is asked     *)
(* again and again answers again and again, and an answer arrives.  Nothing *)
(* is assumed of packets, of the recovery or of the consumers.              *)
FairSpec ==
  /\ Spec
  /\ WF_vars(Ask("refresh")) /\ SF_vars(ControllerSnapshots("refresh")) /\ WF_fetch(Settles("refresh"))

-----------------------------------------------------------------------------
(* Places of the state, each with the path that names it, and what is held *)
(* there: the references a consumer compares.                              *)
Nested(path, r) ==
  {<<path, r>>} \cup {<<Append(path, k), r.at[k]>> : k \in {x \in DOMAIN r.at : IsPlainObject(r.at[x])}}
Places(s) ==
  (IF s.nvr = Undefined THEN {} ELSE Nested(<<"nvr">>, s.nvr))
  \cup {<<<<k>>, s.maps[k]>> : k \in DOMAIN s.maps}
  \cup UNION {UNION {Nested(<<k, id>>, s.maps[k].at[id]) : id \in DOMAIN s.maps[k].at} : k \in DOMAIN s.maps}

Forgetting(p) ==
  IF Len(p[1]) = 1 /\ p[1][1] # "nvr" THEN [id \in DOMAIN p[2].at |-> Bare(p[2].at[id])] ELSE Bare(p[2])

(* A reference is a change signal: whatever is in the state before and      *)
(* after a step, and at every depth, is a new object exactly when its value *)
(* differs, so a refresh that found nothing wakes nobody and a change       *)
(* anywhere below wakes those who watch what holds it.                      *)
IdentityIsChange ==
  [][\A p \in Places(state), q \in Places(state') :
       p[1] = q[1] => (p[2].born = q[2].born <=> Forgetting(p) = Forgetting(q))]_vars

(* A device the store keeps never reads as owned by another controller      *)
(* while it names this one, whichever of the packets, removals, stale       *)
(* snapshots and refreshes wrote it; and an episode is open only for a      *)
(* device whose stored record was corrected.                                *)
ContradictionNeverStored ==
  /\ \A k \in ModelKeys : \A id \in DOMAIN state.maps[k].at :
       ~IsAdoptionContradiction(AdoptionView(Undefined, state.maps[k].at[id]), Field(state.nvr, "mac"))
  /\ \A e \in engaged : /\ e[2] \in DOMAIN state.maps[e[1]].at
                        /\ Field(state.maps[e[1]].at[e[2]], "isAdoptedByOther") = No

(* What the consumer of o holds and will still be handed, in order. *)
Pending(o) == <<obs[o].held>> \o obs[o].batch \o obs[o].queue

(* A consumer that keeps pulling ends at the current value, is handed no    *)
(* value twice in a row, and its neighbour's throwing selector costs it     *)
(* nothing.                                                                 *)
ObserverNotBehind ==
  \A o \in observers :
    /\ o \notin threw => Pending(o)[Len(Pending(o))] = Select(o, state, memo)
    /\ \A i \in 1..(Len(Pending(o)) - 1) : Pending(o)[i] # Pending(o)[i + 1]

(* An iterator sleeps only when it has nothing to hand over and somebody    *)
(* who can still wake it: never past a change, an abort or the disposal of  *)
(* the store.                                                               *)
NoLostWakeup ==
  \A o \in Observers :
    obs[o].at = "parked" =>
      /\ o \in observers /\ ~disposed /\ ~obs[o].closed
      /\ obs[o].queue = <<>> /\ obs[o].batch = <<>>

(* What a bootstrap taken now would leave. *)
Mirrors ==
  LET source == NormalizeBootstrapAdoption(ParsedBootstrap(truth, 0), 0)
  IN  /\ SameValue(state.nvr, source.nvr)
      /\ \A k \in DOMAIN state.maps :
           [id \in DOMAIN state.maps[k].at |-> Bare(state.maps[k].at[id])]
             = [id \in DOMAIN source.maps[k] |-> Bare(source.maps[k][id])]

(* Packets may be lost, snapshots may overwrite what the stream delivered   *)
(* after they were taken, a device may be adopted, removed and adopted      *)
(* again while one is in flight, refreshes may fail: once the controller    *)
(* stops changing, the store comes to mirror it for good.                   *)
LossHealed == <>[](disposed \/ Mirrors)
=============================================================================
