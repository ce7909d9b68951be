-------------------------- MODULE PoolSubscriptions --------------------------
(***************************************************************************)
(* The livestream pool between its consumers and its managed sessions:     *)
(* which session a subscriber joins, what its queue holds, and how its     *)
(* iteration ends.  What goes on inside a session (its episodes, its       *)
(* watchdog) is LivestreamRecovery's; here it fans segments out until it   *)
(* is torn down.                                                           *)
(***************************************************************************)
EXTENDS Integers, Sequences, SequencesExt

CONSTANTS
  Subscriptions, (* handles consumers may come to hold                       *)
  StreamKeys,    (* livestreamKey of the streams they ask for                *)
  MaxSessions,   (* managed sessions there may ever be                       *)
  MaxSegments,   (* segments sessions may fan out, all together              *)
  Failures,      (* terminal errors: the policy gave up, a codec changed      *)
  NoSession,     (* no managed session                                       *)
  Detached,      (* the host of a subscription that joined none               *)
  NoError        (* no terminal error, no cached init                        *)

(* An absent session, host, error and cached init are null in the code, and  *)
(* told from any that is there.                                              *)
ASSUME SessionAssumption == NoSession \notin Nat /\ Detached \notin Nat /\ Detached # NoSession

Segments == [type : {"init", "media"}, at : Nat]

ASSUME ErrorAssumption == NoError \notin Segments

VARIABLES
  pool,    (* #sessions: the session at each key                             *)
  managed, (* every session there was: its key, subscribers, torndown flag   *)
           (* and cached init                                                *)
  fanned,  (* history: the segments each session fanned out                  *)
  subs,    (* the subscriptions                                              *)
  drains   (* their iterators, #drain: where one is, and what it delivered   *)

poolVars == <<pool, managed, fanned, subs, drains>>

(* error is #error, done #done, and disposed #disposed; discards is          *)
(* #discardOnDispose.  joined and left are history: how much its session had *)
(* fanned out when it joined, and when it was disposed; dropped, whether the *)
(* consumer disposed it.                                                     *)
Unborn ==
  [host |-> NoSession, queue |-> <<>>, error |-> NoError, done |-> FALSE, disposed |-> FALSE,
   discards |-> FALSE, joined |-> 0, left |-> -1, dropped |-> FALSE]

NotIterated == [at |-> "idle", delivered |-> <<>>, ending |-> "none"]

PoolInit ==
  /\ pool = [k \in StreamKeys |-> NoSession] /\ managed = <<>> /\ fanned = <<>>
  /\ subs = [s \in Subscriptions |-> Unborn]
  /\ drains = [s \in Subscriptions |-> NotIterated]

Held(s) == subs[s].host # NoSession

-----------------------------------------------------------------------------
(* push, fail and close: a subscriber that is over takes nothing more. *)
Push(sub, segment) == IF sub.done THEN sub ELSE [sub EXCEPT !.queue = Append(@, segment)]

Fail(sub, error) == IF sub.done \/ sub.error # NoError THEN sub ELSE [sub EXCEPT !.error = error]

Close(sub) == [sub EXCEPT !.done = TRUE]

(* #fireWake: an iterator parked on its subscription looks again.           *)
Woken(drain) == IF drain.at = "parked" THEN [drain EXCEPT !.at = "looking"] ELSE drain

Wakes(who) == drains' = [s \in Subscriptions |-> IF s \in who THEN Woken(drains[s]) ELSE drains[s]]

(* Mutant: a session is torn down each time it is left. *)
TornDownAgain(s, error, state) ==
  LET session == state.managed[s]
      Ends(sub) == IF error = NoError THEN Close(sub) ELSE Fail(sub, error)
  IN  [managed |-> [state.managed EXCEPT ![s].torndown = TRUE],
       pool |-> [state.pool EXCEPT ![session.key] = NoSession],
       subs |-> [t \in Subscriptions |-> IF t \in session.subscribers THEN Ends(state.subs[t]) ELSE state.subs[t]]]

(* #teardown: once, the key leaves the map and every subscriber is ended. *)
TornDown(s, error, state) ==
  LET session == state.managed[s]
      Ends(sub) == IF error = NoError THEN Close(sub) ELSE Fail(sub, error)
  IN  IF session.torndown THEN state
      ELSE [managed |-> [state.managed EXCEPT ![s].torndown = TRUE],
            pool |-> [state.pool EXCEPT ![session.key] = NoSession],
            subs |-> [t \in Subscriptions |-> IF t \in session.subscribers THEN Ends(state.subs[t]) ELSE state.subs[t]]]

PoolState == [managed |-> managed, pool |-> pool, subs |-> subs]
Becomes(state) == managed' = state.managed /\ pool' = state.pool /\ subs' = state.subs

-----------------------------------------------------------------------------
(* subscribe: an aborted signal joins nothing and hands out a handle that is *)
(* over; any other joins the session at its key, or the one it makes.        *)
SubscribeAborted(s) ==
  /\ ~Held(s)
  /\ subs' = [subs EXCEPT ![s] = [@ EXCEPT !.host = Detached, !.disposed = TRUE, !.done = TRUE]]
  /\ UNCHANGED <<pool, managed, fanned, drains>>

Session(k) == [key |-> k, subscribers |-> {}, torndown |-> FALSE, cache |-> NoError]

(* Mutant: a joiner waits for the next init. *)
AttachedUnreplayed(s, discards, host, joined, cache) ==
  [Unborn EXCEPT !.host = host, !.discards = discards, !.joined = joined]

(* attach: a late joiner is replayed the cached init. *)
Attached(s, discards, host, joined, cache) ==
  LET born == [Unborn EXCEPT !.host = host, !.discards = discards, !.joined = joined]
  IN  IF cache = NoError THEN born ELSE Push(born, cache)

Subscribe(s, k, discards) ==
  LET joins == pool[k] # NoSession
      host == IF joins THEN pool[k] ELSE Len(managed) + 1
      all == IF joins THEN managed ELSE Append(managed, Session(k))
  IN  /\ ~Held(s) /\ host <= MaxSessions
      /\ managed' = [all EXCEPT ![host].subscribers = @ \cup {s}]
      /\ fanned' = IF joins THEN fanned ELSE Append(fanned, <<>>)
      /\ pool' = [pool EXCEPT ![k] = host]
      /\ subs' = [subs EXCEPT ![s] = Attached(s, discards, host, Len(fanned'[host]), all[host].cache)]
      /\ UNCHANGED drains

(* A segment of a session reaches every subscriber's own queue; an init is   *)
(* cached for whoever joins later.                                           *)
FansOut(s, type) ==
  LET segment == [type |-> type, at |-> Len(fanned[s]) + 1]
      to == managed[s].subscribers
  IN  /\ ~managed[s].torndown /\ Len(FlattenSeq(fanned)) < MaxSegments
      /\ fanned' = [fanned EXCEPT ![s] = Append(@, segment)]
      /\ managed' = [managed EXCEPT ![s].cache = IF type = "init" THEN segment ELSE @]
      /\ subs' = [t \in Subscriptions |-> IF t \in to THEN Push(subs[t], segment) ELSE subs[t]]
      /\ Wakes({t \in to : ~subs[t].done})
      /\ UNCHANGED pool

(* The policy gives up, or a reconnect changed the codec. *)
SessionFails(s, error) ==
  /\ ~managed[s].torndown
  /\ Becomes(TornDown(s, error, PoolState))
  /\ Wakes(managed[s].subscribers)
  /\ UNCHANGED fanned

-----------------------------------------------------------------------------
(* The subscription's disposal: its own end first, then the session's if it  *)
(* was the last.  Discarding is a consumer's choice for its own disposal.    *)
Disposed(s, own, state) ==
  LET sub == state.subs[s]
      over == [sub EXCEPT !.disposed = TRUE, !.done = TRUE, !.left = Len(fanned[sub.host]), !.dropped = own,
                          !.queue = IF sub.discards THEN <<>> ELSE @]
      left == IF sub.host \in DOMAIN state.managed
              THEN [state.managed EXCEPT ![sub.host].subscribers = @ \ {s}] ELSE state.managed
      rest == [state EXCEPT !.managed = left, !.subs[s] = over]
  IN  IF sub.disposed THEN state
      ELSE IF sub.host \in DOMAIN left /\ left[sub.host].subscribers = {} THEN TornDown(sub.host, NoError, rest)
      ELSE rest

(* An explicit disposal, or the consumer's signal. *)
DisposeSubscription(s) ==
  /\ Held(s) /\ ~subs[s].disposed
  /\ Becomes(Disposed(s, TRUE, PoolState))
  /\ Wakes({s})
  /\ UNCHANGED fanned

(* #drain: what is queued first, then the error, then the end; leaving the   *)
(* loop, by its end or by the consumer's break, disposes the subscription.   *)
Ended(s, how) ==
  /\ drains' = [drains EXCEPT ![s].at = "ended", ![s].ending = how]
  /\ Becomes(Disposed(s, how = "broke", PoolState))

Looks(s) ==
  LET sub == subs[s]
  IN  /\ drains[s].at = "looking"
      /\ IF sub.queue # <<>>
         THEN /\ subs' = [subs EXCEPT ![s].queue = Tail(@)]
              /\ drains' = [drains EXCEPT ![s].at = "body", ![s].delivered = Append(@, Head(sub.queue))]
              /\ UNCHANGED <<pool, managed>>
         ELSE IF sub.error # NoError THEN Ended(s, sub.error)
         ELSE IF sub.done THEN Ended(s, "done")
         ELSE drains' = [drains EXCEPT ![s].at = "parked"] /\ UNCHANGED <<pool, managed, subs>>
      /\ UNCHANGED fanned

(* next(), of an iterator that is in nobody's hands or in the body. *)
Asks(s) ==
  /\ Held(s) /\ drains[s].at \in {"idle", "body"}
  /\ drains' = [drains EXCEPT ![s].at = "looking"]
  /\ UNCHANGED <<pool, managed, fanned, subs>>

Break(s) == drains[s].at = "body" /\ Ended(s, "broke") /\ UNCHANGED fanned

(* The pool's disposal: the map is cleared at once, and every session in it  *)
(* closed.  Nothing marks the pool: a later subscribe makes a new session.   *)
PoolDisposed(state) ==
  LET closed == {state.pool[k] : k \in StreamKeys} \ {NoSession}
      ended == UNION {state.managed[s].subscribers : s \in closed}
  IN  [managed |-> [s \in DOMAIN state.managed |-> [state.managed[s] EXCEPT !.torndown = @ \/ s \in closed]],
       pool |-> [k \in StreamKeys |-> NoSession],
       subs |-> [t \in Subscriptions |-> IF t \in ended THEN Close(state.subs[t]) ELSE state.subs[t]]]

PoolSteps ==
  \/ \E s \in Subscriptions :
       \/ SubscribeAborted(s)
       \/ \E k \in StreamKeys, discards \in BOOLEAN : Subscribe(s, k, discards)
       \/ DisposeSubscription(s) \/ Looks(s) \/ Asks(s) \/ Break(s)
  \/ \E s \in DOMAIN managed :
       \/ \E type \in {"init", "media"} : FansOut(s, type)
       \/ \E error \in Failures : SessionFails(s, error)

-----------------------------------------------------------------------------
(* Subscribers of one stream share one session, whatever sessions of that    *)
(* stream were given up before and whoever still reads from them: a session  *)
(* in force is the one at its key, and one that nobody holds is not.         *)
OneSessionPerStream ==
  \A s \in DOMAIN managed : ~managed[s].torndown => pool[managed[s].key] = s /\ managed[s].subscribers # {}

(* What a subscription is due: the init cached when it joined, and what its  *)
(* session fanned out from then to its disposal.                             *)
LastInits(all, upto) == {i \in 1..upto : all[i].type = "init" /\ \A j \in i + 1..upto : all[j].type # "init"}
Replayed(all, upto) ==
  IF LastInits(all, upto) = {} THEN <<>> ELSE <<all[CHOOSE i \in LastInits(all, upto) : TRUE]>>
Due(sub, all) ==
  Replayed(all, sub.joined) \o SubSeq(all, sub.joined + 1, IF sub.left = -1 THEN Len(all) ELSE sub.left)

(* A consumer is given what its stream fanned out since it joined, behind    *)
(* the init cached then, all of it and in order, and the end comes after the *)
(* last of it, in-band failures included; only its own disposal may drop     *)
(* what it had not read; and none is left parked on a stream that has        *)
(* something to say or is over.                                              *)
DeliveredInFull ==
  \A s \in {t \in Subscriptions : subs[t].host \in DOMAIN managed} :
    LET sub == subs[s]
        given == drains[s].delivered \o sub.queue
        due == Due(sub, fanned[sub.host])
    IN  /\ IF sub.dropped /\ sub.discards THEN IsPrefix(given, due) ELSE given = due
        /\ drains[s].at = "ended" /\ drains[s].ending # "broke" => sub.queue = <<>>
        /\ drains[s].at = "parked" => sub.queue = <<>> /\ ~sub.done /\ sub.error = NoError
=============================================================================
