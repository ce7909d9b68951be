---------------------- MODULE PoolSubscriptionsProofs ----------------------
(***************************************************************************)
(* Proofs about the livestream pool: the map and the sessions agree,       *)
(* whatever order subscribers join, leave, fail and close them in.         *)
(***************************************************************************)
EXTENDS PoolSubscriptions, SequenceTheorems, TLAPS

Sessions ==
  [key : StreamKeys, subscribers : SUBSET Subscriptions, torndown : BOOLEAN, cache : Segments \cup {NoError}]

(* The map names a live session of its key, and every live session is named. *)
MapFits(map, all) ==
  /\ all \in Seq(Sessions)
  /\ map \in [StreamKeys -> (1..Len(all)) \cup {NoSession}]
  /\ \A k \in StreamKeys : map[k] # NoSession => all[map[k]].key = k /\ ~all[map[k]].torndown
  /\ \A s \in 1..Len(all) : ~all[s].torndown => map[all[s].key] = s

(* Every live session but one has subscribers. *)
HeldBut(all, but) == \A s \in 1..Len(all) : ~all[s].torndown /\ s # but => all[s].subscribers # {}

PoolInv ==
  /\ MapFits(pool, managed) /\ HeldBut(managed, NoSession)
  /\ fanned \in Seq(Seq(Segments)) /\ Len(fanned) = Len(managed)

LEMMA InForceIsOnePerStream == PoolInv => OneSessionPerStream
  <1> SUFFICES ASSUME PoolInv, NEW s \in DOMAIN managed, ~managed[s].torndown
               PROVE  pool[managed[s].key] = s /\ managed[s].subscribers # {}
    BY DEF OneSessionPerStream
  <1>1. s \in 1..Len(managed) /\ s # NoSession
    BY LenProperties, SessionAssumption DEF PoolInv, MapFits
  <1> QED BY <1>1 DEF PoolInv, MapFits, HeldBut

LEMMA PoolInitFits == PoolInit => PoolInv
  <1> SUFFICES ASSUME PoolInit PROVE PoolInv OBVIOUS
  <1>1. managed \in Seq(Sessions) /\ Len(managed) = 0 /\ fanned \in Seq(Seq(Segments)) /\ Len(fanned) = 0
    BY EmptySeq DEF PoolInit
  <1> QED BY <1>1 DEF PoolInit, PoolInv, MapFits, HeldBut

-----------------------------------------------------------------------------
(* One session changed in place, its key kept: going on, or ended. *)
LEMMA SessionReplaced ==
  ASSUME NEW all \in Seq(Sessions), NEW s \in 1..Len(all), NEW session \in Sessions
  PROVE  /\ [all EXCEPT ![s] = session] \in Seq(Sessions) /\ Len([all EXCEPT ![s] = session]) = Len(all)
         /\ \A t \in 1..Len(all) : [all EXCEPT ![s] = session][t] = IF t = s THEN session ELSE all[t]
  BY ExceptSeq

LEMMA SessionKept ==
  ASSUME NEW map, NEW all, MapFits(map, all), NEW s \in 1..Len(all), NEW session \in Sessions,
         session.key = all[s].key, session.torndown = all[s].torndown
  PROVE  MapFits(map, [all EXCEPT ![s] = session])
  BY SessionReplaced DEF MapFits

LEMMA SessionEnded ==
  ASSUME NEW map, NEW all, MapFits(map, all), NEW s \in 1..Len(all), NEW session \in Sessions,
         session.key = all[s].key, session.torndown, ~all[s].torndown
  PROVE  MapFits([map EXCEPT ![session.key] = NoSession], [all EXCEPT ![s] = session])
  <1> DEFINE new == [all EXCEPT ![s] = session]
  <1>1. all \in Seq(Sessions) BY DEF MapFits
  <1>2. new \in Seq(Sessions) /\ Len(new) = Len(all) /\ \A t \in 1..Len(all) : new[t] = IF t = s THEN session ELSE all[t]
    BY <1>1, SessionReplaced
  <1> DEFINE cleared == [map EXCEPT ![session.key] = NoSession]
  <1>3. map[session.key] = s /\ session.key \in StreamKeys
    BY DEF MapFits, Sessions
  <1>4. \A k \in StreamKeys : cleared[k] = IF k = session.key THEN NoSession ELSE map[k]
    BY DEF MapFits
  <1>5. cleared \in [StreamKeys -> (1..Len(new)) \cup {NoSession}]
    BY <1>2 DEF MapFits
  <1>6. \A k \in StreamKeys : cleared[k] # NoSession => new[cleared[k]].key = k /\ ~new[cleared[k]].torndown
    <2> SUFFICES ASSUME NEW k \in StreamKeys, cleared[k] # NoSession
                 PROVE  new[cleared[k]].key = k /\ ~new[cleared[k]].torndown
      OBVIOUS
    <2>1. k # session.key /\ cleared[k] = map[k] /\ map[k] \in 1..Len(all) /\ all[map[k]].key = k
      BY <1>4 DEF MapFits
    <2>2. map[k] # s BY <2>1
    <2> QED BY <2>1, <2>2, <1>2 DEF MapFits
  <1>7. \A t \in 1..Len(new) : ~new[t].torndown => cleared[new[t].key] = t
    <2> SUFFICES ASSUME NEW t \in 1..Len(all), ~new[t].torndown PROVE cleared[new[t].key] = t
      BY <1>2
    <2>1. t # s /\ new[t] = all[t] /\ map[all[t].key] = t /\ all[t] \in Sessions
      BY <1>1, <1>2, ElementOfSeq DEF MapFits
    <2>2. all[t].key # session.key BY <1>3, <2>1
    <2> QED BY <1>4, <2>1, <2>2 DEF Sessions
  <1> QED BY <1>2, <1>5, <1>6, <1>7 DEF MapFits

(* #teardown, of a session that may be torn down already. *)
LEMMA TornDownFits ==
  ASSUME NEW state, MapFits(state.pool, state.managed), NEW s \in 1..Len(state.managed), NEW error,
         HeldBut(state.managed, s)
  PROVE  LET after == TornDown(s, error, state)
         IN  /\ MapFits(after.pool, after.managed) /\ HeldBut(after.managed, NoSession)
             /\ Len(after.managed) = Len(state.managed)
  <1> DEFINE after == TornDown(s, error, state)
             all == state.managed
             session == [all[s] EXCEPT !.torndown = TRUE]
  <1>1. all[s] \in Sessions BY ElementOfSeq DEF MapFits
  <1>2. session \in Sessions /\ session.key = all[s].key /\ session.torndown
    BY <1>1 DEF Sessions
  <1>3. s # NoSession BY SessionAssumption
  <1>4. CASE all[s].torndown
    BY <1>3, <1>4 DEF TornDown, HeldBut
  <1>5. CASE ~all[s].torndown
    <2>1. after.managed = [all EXCEPT ![s] = session] /\ after.pool = [state.pool EXCEPT ![session.key] = NoSession]
      BY <1>2, <1>5 DEF TornDown
    <2> DEFINE new == [all EXCEPT ![s] = session]
    <2>2. /\ MapFits([state.pool EXCEPT ![session.key] = NoSession], new) /\ Len(new) = Len(all)
          /\ \A t \in 1..Len(all) : new[t] = IF t = s THEN session ELSE all[t]
      <3> HIDE DEF all, session
      <3>1. MapFits(state.pool, all) /\ all \in Seq(Sessions) /\ s \in 1..Len(all) BY DEF all, MapFits
      <3> QED BY <1>2, <1>5, <3>1, SessionEnded, SessionReplaced
    <2>3. /\ MapFits(after.pool, after.managed) /\ Len(after.managed) = Len(all)
          /\ \A t \in 1..Len(all) : after.managed[t] = IF t = s THEN session ELSE all[t]
      BY <2>1, <2>2
    <2> QED BY <1>2, <2>3 DEF HeldBut
  <1> QED BY <1>4, <1>5

(* A subscription's disposal leaves its session, and tears it down as the    *)
(* last.                                                                     *)
LEMMA DisposedFits ==
  ASSUME NEW state, MapFits(state.pool, state.managed), HeldBut(state.managed, NoSession),
         state = [managed |-> state.managed, pool |-> state.pool, subs |-> state.subs],
         NEW s \in Subscriptions, NEW own
  PROVE  LET after == Disposed(s, own, state)
         IN  /\ MapFits(after.pool, after.managed) /\ HeldBut(after.managed, NoSession)
             /\ Len(after.managed) = Len(state.managed)
  <1> DEFINE after == Disposed(s, own, state)
             all == state.managed
             sub == state.subs[s]
             host == sub.host
             over == [sub EXCEPT !.disposed = TRUE, !.done = TRUE, !.left = Len(fanned[sub.host]), !.dropped = own,
                                 !.queue = IF sub.discards THEN <<>> ELSE @]
             left == IF host \in DOMAIN all THEN [all EXCEPT ![host].subscribers = @ \ {s}] ELSE all
             rest == [state EXCEPT !.managed = left, !.subs[s] = over]
  <1>1. DOMAIN all = 1..Len(all) BY LenProperties DEF MapFits
  <1>2. rest.managed = left /\ rest.pool = state.pool
    OBVIOUS
  <1>3. after = IF sub.disposed THEN state
                ELSE IF host \in DOMAIN left /\ left[host].subscribers = {} THEN TornDown(host, NoError, rest)
                ELSE rest
    BY DEF Disposed
  <1>4. CASE sub.disposed BY <1>3, <1>4
  <1>5. CASE ~sub.disposed /\ host \notin DOMAIN all BY <1>2, <1>3, <1>5
  <1>6. CASE ~sub.disposed /\ host \in DOMAIN all
    <2> DEFINE session == [all[host] EXCEPT !.subscribers = @ \ {s}]
    <2>1. all[host] \in Sessions BY <1>1, <1>6, ElementOfSeq DEF MapFits
    <2>2. session \in Sessions /\ session.key = all[host].key /\ session.torndown = all[host].torndown
      BY <2>1 DEF Sessions
    <2>3. left = [all EXCEPT ![host] = session] BY <1>6
    <2>4. /\ Len(left) = Len(all) /\ MapFits(state.pool, left)
          /\ \A t \in 1..Len(all) : left[t] = IF t = host THEN session ELSE all[t]
      <3> HIDE DEF all, session, host, left
      <3>1. MapFits(state.pool, all) /\ all \in Seq(Sessions) /\ host \in 1..Len(all) BY <1>1, <1>6 DEF all, MapFits
      <3> DEFINE new == [all EXCEPT ![host] = session]
      <3>2. /\ Len(new) = Len(all) /\ MapFits(state.pool, new)
            /\ \A t \in 1..Len(all) : new[t] = IF t = host THEN session ELSE all[t]
        BY <2>2, <3>1, SessionKept, SessionReplaced
      <3>3. left = new BY <2>3
      <3> HIDE DEF new
      <3> QED BY <3>2, <3>3
    <2>5. HeldBut(left, host) BY <2>4, SessionAssumption DEF HeldBut
    <2>6. DOMAIN left = 1..Len(left) BY <2>4, LenProperties DEF MapFits
    <2>7. CASE left[host].subscribers = {}
      <3>1. after = TornDown(host, NoError, rest) BY <1>1, <1>3, <1>6, <2>4, <2>6, <2>7
      <3> HIDE DEF after, rest, left, host, all
      <3>2. MapFits(rest.pool, rest.managed) /\ host \in 1..Len(rest.managed) /\ HeldBut(rest.managed, host)
        BY <1>1, <1>2, <1>6, <2>4, <2>5
      <3>3. /\ MapFits(after.pool, after.managed) /\ HeldBut(after.managed, NoSession)
            /\ Len(after.managed) = Len(rest.managed)
        BY <3>1, <3>2, TornDownFits
      <3> QED BY <1>2, <2>4, <3>3 DEF after, all
    <2>8. CASE left[host].subscribers # {}
      <3>1. after = rest BY <1>3, <1>6, <2>8
      <3>2. HeldBut(left, NoSession) BY <1>1, <1>6, <2>4, <2>5, <2>8 DEF HeldBut
      <3> QED BY <1>2, <2>4, <3>1, <3>2
    <2> QED BY <2>7, <2>8
  <1> QED BY <1>4, <1>5, <1>6

(* The pool's disposal: every live session is in the map it clears. *)
LEMMA PoolDisposedFits ==
  ASSUME PoolInv
  PROVE  LET after == PoolDisposed(PoolState)
         IN  /\ MapFits(after.pool, after.managed) /\ HeldBut(after.managed, NoSession)
             /\ Len(after.managed) = Len(managed)
             /\ \A s \in DOMAIN after.managed : after.managed[s].torndown
  <1> DEFINE closed == {pool[k] : k \in StreamKeys} \ {NoSession}
             all == [s \in DOMAIN managed |-> [managed[s] EXCEPT !.torndown = @ \/ s \in closed]]
             after == PoolDisposed(PoolState)
  <1>1. after.managed = all /\ after.pool = [k \in StreamKeys |-> NoSession]
    BY DEF PoolDisposed, PoolState
  <1>2. DOMAIN managed = 1..Len(managed) /\ Len(managed) \in Nat
    BY LenProperties DEF PoolInv, MapFits
  <1>3. \A s \in DOMAIN managed : managed[s] \in Sessions
    BY <1>2, ElementOfSeq DEF PoolInv, MapFits
  <1>4. \A s \in DOMAIN managed : managed[s].torndown \/ s \in closed
    BY <1>2, <1>3, SessionAssumption DEF PoolInv, MapFits, Sessions
  <1>5. \A s \in DOMAIN managed : all[s] \in Sessions /\ all[s].torndown
    BY <1>3, <1>4 DEF Sessions
  <1>6. all \in Seq(Sessions) /\ Len(all) = Len(managed) /\ DOMAIN all = 1..Len(managed)
    <2> HIDE DEF closed
    <2>1. all \in [1..Len(managed) -> Sessions] BY <1>2, <1>5
    <2> QED BY <1>2, <2>1
  <1> HIDE DEF all
  <1>7. MapFits([k \in StreamKeys |-> NoSession], all) /\ HeldBut(all, NoSession)
    BY <1>2, <1>5, <1>6 DEF MapFits, HeldBut
  <1> QED BY <1>1, <1>2, <1>5, <1>6, <1>7

-----------------------------------------------------------------------------
LEMMA SubscribeFits ==
  ASSUME PoolInv, NEW s \in Subscriptions, NEW k \in StreamKeys, NEW discards, Subscribe(s, k, discards)
  PROVE  PoolInv'
  <1> DEFINE host == IF pool[k] # NoSession THEN pool[k] ELSE Len(managed) + 1
             all == IF pool[k] # NoSession THEN managed ELSE Append(managed, Session(k))
             session == [all[host] EXCEPT !.subscribers = @ \cup {s}]
  <1>1. /\ managed' = [all EXCEPT ![host] = session] /\ pool' = [pool EXCEPT ![k] = host]
        /\ fanned' = IF pool[k] # NoSession THEN fanned ELSE Append(fanned, <<>>)
    BY DEF Subscribe
  <1>2. /\ managed \in Seq(Sessions) /\ Len(managed) \in Nat /\ Session(k) \in Sessions
        /\ fanned \in Seq(Seq(Segments)) /\ Len(fanned) = Len(managed)
    BY LenProperties DEF PoolInv, MapFits, Session, Sessions
  <1>3. /\ all \in Seq(Sessions) /\ Len(all) = (IF pool[k] # NoSession THEN Len(managed) ELSE Len(managed) + 1)
        /\ \A t \in 1..Len(managed) : all[t] = managed[t]
        /\ pool[k] = NoSession => all[host] = Session(k)
    BY <1>2
  <1>4. host \in 1..Len(all) /\ host # NoSession /\ all[host].key = k /\ ~all[host].torndown
    <2>1. CASE pool[k] # NoSession
      BY <1>2, <1>3, <2>1, SessionAssumption DEF PoolInv, MapFits
    <2>2. CASE pool[k] = NoSession
      BY <1>2, <1>3, <2>2, SessionAssumption DEF Session
    <2> QED BY <2>1, <2>2
  <1>5. all[host] \in Sessions BY <1>3, <1>4, ElementOfSeq
  <1>6. /\ session \in Sessions /\ session.key = k /\ ~session.torndown /\ session.subscribers # {}
    BY <1>4, <1>5 DEF Sessions
  <1>7. /\ managed' \in Seq(Sessions) /\ Len(managed') = Len(all)
        /\ \A t \in 1..Len(all) : managed'[t] = IF t = host THEN session ELSE all[t]
    <2> HIDE DEF all, host, session
    <2> QED BY <1>1, <1>3, <1>4, <1>6, SessionReplaced
  <1>8. \A l \in StreamKeys : pool'[l] = IF l = k THEN host ELSE pool[l]
    BY <1>1 DEF PoolInv, MapFits
  <1>9. \A t \in 1..Len(all) : t # host => t \in 1..Len(managed) /\ managed'[t] = managed[t]
    BY <1>2, <1>3, <1>7
  <1>10. pool' \in [StreamKeys -> (1..Len(managed')) \cup {NoSession}]
    BY <1>1, <1>2, <1>3, <1>4, <1>7 DEF PoolInv, MapFits
  <1>11. managed'[host] = session BY <1>4, <1>7
  <1> HIDE DEF all, host, session
  <1>12. \A l \in StreamKeys : pool'[l] # NoSession => managed'[pool'[l]].key = l /\ ~managed'[pool'[l]].torndown
    <2> SUFFICES ASSUME NEW l \in StreamKeys, pool'[l] # NoSession
                 PROVE  managed'[pool'[l]].key = l /\ ~managed'[pool'[l]].torndown
      OBVIOUS
    <2>1. CASE l = k BY <1>6, <1>8, <1>11, <2>1
    <2>2. CASE l # k
      <3>1. pool'[l] = pool[l] /\ pool[l] \in 1..Len(managed) /\ managed[pool[l]].key = l /\ ~managed[pool[l]].torndown
        BY <1>8, <2>2 DEF PoolInv, MapFits
      <3>2. pool[l] \in 1..Len(all) BY <1>2, <1>3, <3>1
      <3>3. pool[l] # host BY <1>3, <1>4, <2>2, <3>1
      <3> QED BY <1>9, <3>1, <3>2, <3>3
    <2> QED BY <2>1, <2>2
  <1>13. \A t \in 1..Len(managed') : ~managed'[t].torndown => pool'[managed'[t].key] = t /\ managed'[t].subscribers # {}
    <2> SUFFICES ASSUME NEW t \in 1..Len(all), ~managed'[t].torndown
                 PROVE  pool'[managed'[t].key] = t /\ managed'[t].subscribers # {}
      BY <1>7
    <2>1. CASE t = host BY <1>6, <1>8, <1>11, <2>1
    <2>2. CASE t # host
      <3>1. /\ t \in 1..Len(managed) /\ managed'[t] = managed[t] /\ ~managed[t].torndown /\ t # NoSession
            /\ managed[t] \in Sessions /\ pool[managed[t].key] = t /\ managed[t].subscribers # {}
        <4>1. t \in 1..Len(managed) /\ managed'[t] = managed[t] BY <1>9, <2>2
        <4>2. ~managed[t].torndown /\ t # NoSession BY <1>2, <4>1, SessionAssumption
        <4>3. managed[t] \in Sessions BY <1>2, <4>1, ElementOfSeq
        <4>4. pool[managed[t].key] = t BY <4>1, <4>2 DEF PoolInv, MapFits
        <4>5. managed[t].subscribers # {} BY <4>1, <4>2 DEF PoolInv, HeldBut
        <4> QED BY <4>1, <4>2, <4>3, <4>4, <4>5
      <3>2. managed[t].key # k
        BY <2>2, <3>1 DEF host
      <3> QED BY <1>8, <3>1, <3>2 DEF Sessions
    <2> QED BY <2>1, <2>2
  <1>14. fanned' \in Seq(Seq(Segments)) /\ Len(fanned') = Len(managed')
    BY <1>1, <1>2, <1>3, <1>7, EmptySeq
  <1> QED BY <1>7, <1>10, <1>12, <1>13, <1>14 DEF PoolInv, MapFits, HeldBut

LEMMA FansOutFits ==
  ASSUME PoolInv, NEW s \in DOMAIN managed, NEW type \in {"init", "media"}, FansOut(s, type)
  PROVE  PoolInv'
  <1> DEFINE segment == [type |-> type, at |-> Len(fanned[s]) + 1]
             session == [managed[s] EXCEPT !.cache = IF type = "init" THEN segment ELSE @]
  <1>1. s \in 1..Len(managed) /\ managed \in Seq(Sessions) /\ managed[s] \in Sessions /\ fanned[s] \in Seq(Segments)
    BY LenProperties, ElementOfSeq DEF PoolInv, MapFits
  <1>2. segment \in Segments BY <1>1, LenProperties DEF Segments
  <1>3. /\ session \in Sessions /\ session.key = managed[s].key /\ session.torndown = managed[s].torndown
        /\ session.subscribers = managed[s].subscribers
    BY <1>1, <1>2 DEF Sessions
  <1>4. managed' = [managed EXCEPT ![s] = session] /\ pool' = pool /\ fanned' = [fanned EXCEPT ![s] = Append(@, segment)]
    BY DEF FansOut
  <1>5. Append(fanned[s], segment) \in Seq(Segments)
    <2> HIDE DEF segment
    <2> QED BY <1>1, <1>2
  <1> HIDE DEF segment, session
  <1> DEFINE new == [managed EXCEPT ![s] = session]
  <1>6. /\ MapFits(pool', managed') /\ Len(managed') = Len(managed)
        /\ \A t \in 1..Len(managed) : managed'[t] = IF t = s THEN session ELSE managed[t]
    <2>1. MapFits(pool, managed) BY DEF PoolInv
    <2>2. MapFits(pool, new) BY <1>1, <1>3, <2>1, SessionKept
    <2>3. Len(new) = Len(managed) /\ \A t \in 1..Len(managed) : new[t] = IF t = s THEN session ELSE managed[t]
      BY <1>1, <1>3, SessionReplaced
    <2>4. managed' = new /\ pool' = pool BY <1>4
    <2> HIDE DEF new
    <2> QED BY <2>2, <2>3, <2>4
  <1>7. fanned' \in Seq(Seq(Segments)) /\ Len(fanned') = Len(fanned)
    BY <1>1, <1>4, <1>5, ExceptSeq DEF PoolInv
  <1> QED BY <1>3, <1>6, <1>7 DEF PoolInv, HeldBut

LEMMA SessionFailsFits ==
  ASSUME PoolInv, NEW s \in DOMAIN managed, NEW error, SessionFails(s, error)
  PROVE  PoolInv'
  <1> DEFINE after == TornDown(s, error, PoolState)
  <1>1. PoolState.managed = managed /\ PoolState.pool = pool BY DEF PoolState
  <1>2. s \in 1..Len(managed) /\ HeldBut(managed, s)
    <2>1. Len(managed) \in Nat /\ DOMAIN managed = 1..Len(managed) BY LenProperties DEF PoolInv, MapFits
    <2>2. \A t \in 1..Len(managed) : t # NoSession BY <2>1, SessionAssumption
    <2> QED BY <2>1, <2>2 DEF PoolInv, HeldBut
  <1>3. /\ MapFits(after.pool, after.managed) /\ HeldBut(after.managed, NoSession)
        /\ Len(after.managed) = Len(managed)
    BY <1>1, <1>2, TornDownFits DEF PoolInv
  <1>4. managed' = after.managed /\ pool' = after.pool /\ fanned' = fanned BY DEF SessionFails, Becomes
  <1> HIDE DEF after
  <1> QED BY <1>3, <1>4 DEF PoolInv

LEMMA LeavingFits ==
  ASSUME PoolInv, NEW s \in Subscriptions, NEW own, Becomes(Disposed(s, own, PoolState)), UNCHANGED fanned
  PROVE  PoolInv'
  <1> DEFINE after == Disposed(s, own, PoolState)
  <1>1. /\ PoolState.managed = managed /\ PoolState.pool = pool
        /\ PoolState = [managed |-> PoolState.managed, pool |-> PoolState.pool, subs |-> PoolState.subs]
    BY DEF PoolState
  <1>2. /\ MapFits(after.pool, after.managed) /\ HeldBut(after.managed, NoSession)
        /\ Len(after.managed) = Len(managed)
    BY <1>1, DisposedFits DEF PoolInv
  <1>3. managed' = after.managed /\ pool' = after.pool BY DEF Becomes
  <1> HIDE DEF after
  <1> QED BY <1>2, <1>3 DEF PoolInv

LEMMA PoolUnchanged ==
  ASSUME PoolInv, UNCHANGED <<pool, managed, fanned>>
  PROVE  PoolInv'
  BY DEF PoolInv, MapFits, HeldBut

LEMMA PoolStepFits ==
  ASSUME PoolInv, PoolSteps
  PROVE  PoolInv'
  <1>1. ASSUME NEW s \in Subscriptions, SubscribeAborted(s) \/ Asks(s) PROVE PoolInv'
    BY <1>1, PoolUnchanged DEF SubscribeAborted, Asks
  <1>2. ASSUME NEW s \in Subscriptions, NEW k \in StreamKeys, NEW discards \in BOOLEAN, Subscribe(s, k, discards)
        PROVE  PoolInv'
    BY <1>2, SubscribeFits
  <1>3. ASSUME NEW s \in Subscriptions, DisposeSubscription(s) PROVE PoolInv'
    BY <1>3, LeavingFits DEF DisposeSubscription
  <1>4. ASSUME NEW s \in Subscriptions, Looks(s) PROVE PoolInv'
    <2>1. CASE UNCHANGED <<pool, managed>> BY <1>4, <2>1, PoolUnchanged DEF Looks
    <2>2. CASE \E how : Ended(s, how) BY <1>4, <2>2, LeavingFits DEF Looks, Ended
    <2> QED BY <1>4, <2>1, <2>2 DEF Looks
  <1>5. ASSUME NEW s \in Subscriptions, Break(s) PROVE PoolInv'
    BY <1>5, LeavingFits DEF Break, Ended
  <1>6. ASSUME NEW s \in DOMAIN managed, NEW type \in {"init", "media"}, FansOut(s, type) PROVE PoolInv'
    BY <1>6, FansOutFits
  <1>7. ASSUME NEW s \in DOMAIN managed, NEW error \in Failures, SessionFails(s, error) PROVE PoolInv'
    BY <1>7, SessionFailsFits
  <1> QED BY <1>1, <1>2, <1>3, <1>4, <1>5, <1>6, <1>7 DEF PoolSteps

-----------------------------------------------------------------------------
(* A session that was torn down stays so, whatever happens at its key. *)
StaysDown(all, new) ==
  Len(new) >= Len(all) /\ \A s \in 1..Len(all) : all[s].torndown => new[s].torndown

LEMMA ReplacedStaysDown ==
  ASSUME NEW all \in Seq(Sessions), NEW s \in 1..Len(all), NEW session \in Sessions,
         all[s].torndown => session.torndown
  PROVE  StaysDown(all, [all EXCEPT ![s] = session])
  BY SessionReplaced, LenProperties DEF StaysDown

LEMMA TornDownStaysDown ==
  ASSUME NEW state, state.managed \in Seq(Sessions), NEW s \in 1..Len(state.managed), NEW error
  PROVE  StaysDown(state.managed, TornDown(s, error, state).managed)
  <1> DEFINE all == state.managed
             session == [all[s] EXCEPT !.torndown = TRUE]
  <1>1. all[s] \in Sessions BY ElementOfSeq
  <1>2. session \in Sessions /\ session.torndown BY <1>1 DEF Sessions
  <1>3. TornDown(s, error, state).managed = IF all[s].torndown THEN all ELSE [all EXCEPT ![s] = session]
    BY DEF TornDown
  <1>4. StaysDown(all, all) BY LenProperties DEF StaysDown
  <1>5. StaysDown(all, [all EXCEPT ![s] = session])
    <2> HIDE DEF session, all
    <2>1. all \in Seq(Sessions) /\ s \in 1..Len(all) BY DEF all
    <2> QED BY <1>2, <2>1, ReplacedStaysDown
  <1> QED BY <1>3, <1>4, <1>5

LEMMA DisposedStaysDown ==
  ASSUME NEW state, state.managed \in Seq(Sessions), NEW s \in Subscriptions, NEW own,
         state = [managed |-> state.managed, pool |-> state.pool, subs |-> state.subs]
  PROVE  StaysDown(state.managed, Disposed(s, own, state).managed)
  <1> DEFINE all == state.managed
             sub == state.subs[s]
             host == sub.host
             over == [sub EXCEPT !.disposed = TRUE, !.done = TRUE, !.left = Len(fanned[sub.host]), !.dropped = own,
                                 !.queue = IF sub.discards THEN <<>> ELSE @]
             left == IF host \in DOMAIN all THEN [all EXCEPT ![host].subscribers = @ \ {s}] ELSE all
             rest == [state EXCEPT !.managed = left, !.subs[s] = over]
             after == Disposed(s, own, state)
  <1>1. DOMAIN all = 1..Len(all) /\ Len(all) \in Nat BY LenProperties
  <1>2. rest.managed = left OBVIOUS
  <1>3. after = IF sub.disposed THEN state
                ELSE IF host \in DOMAIN left /\ left[host].subscribers = {} THEN TornDown(host, NoError, rest)
                ELSE rest
    BY DEF Disposed
  <1>4. left \in Seq(Sessions) /\ Len(left) = Len(all) /\ StaysDown(all, left)
    <2>1. CASE host \notin DOMAIN all
      <3>1. left = all BY <2>1
      <3>2. all \in Seq(Sessions) /\ StaysDown(all, all) BY <1>1 DEF StaysDown
      <3> HIDE DEF left, all
      <3> QED BY <3>1, <3>2
    <2>2. CASE host \in DOMAIN all
      <3> DEFINE session == [all[host] EXCEPT !.subscribers = @ \ {s}]
      <3>1. all[host] \in Sessions BY <1>1, <2>2, ElementOfSeq
      <3>2. session \in Sessions /\ session.torndown = all[host].torndown BY <3>1 DEF Sessions
      <3>3. left = [all EXCEPT ![host] = session] BY <2>2
      <3>4. all \in Seq(Sessions) /\ host \in 1..Len(all) BY <1>1, <2>2
      <3> HIDE DEF session, host, left, all
      <3> QED BY <3>2, <3>3, <3>4, SessionReplaced, ReplacedStaysDown
    <2> QED BY <2>1, <2>2
  <1>5. DOMAIN left = 1..Len(left) BY <1>4, LenProperties
  <1>6. host \in DOMAIN left => StaysDown(left, TornDown(host, NoError, rest).managed)
    <2> HIDE DEF rest, left, host
    <2> QED BY <1>2, <1>4, <1>5, TornDownStaysDown
  <1> HIDE DEF rest, left, host, all, after, sub
  <1>7. StaysDown(left, after.managed) \/ after.managed = all \/ after.managed = left
    BY <1>2, <1>3, <1>6 DEF all
  <1>8. StaysDown(all, all) BY <1>1 DEF StaysDown
  <1> QED BY <1>1, <1>4, <1>7, <1>8 DEF StaysDown, all, after

LEMMA PoolStepStaysDown ==
  ASSUME PoolInv, PoolSteps, PoolInv'
  PROVE  StaysDown(managed, managed')
  <1>1. managed \in Seq(Sessions) /\ DOMAIN managed = 1..Len(managed) /\ Len(managed) \in Nat
    BY LenProperties DEF PoolInv, MapFits
  <1>2. StaysDown(managed, managed) BY <1>1 DEF StaysDown
  <1>3. ASSUME NEW s \in Subscriptions, NEW k \in StreamKeys, NEW discards, Subscribe(s, k, discards)
        PROVE  StaysDown(managed, managed')
    <2>1. CASE pool[k] # NoSession
      <3> DEFINE session == [managed[pool[k]] EXCEPT !.subscribers = @ \cup {s}]
      <3>1. pool[k] \in 1..Len(managed) /\ managed' = [managed EXCEPT ![pool[k]] = session]
        BY <1>3, <2>1 DEF Subscribe, PoolInv, MapFits
      <3>2. managed[pool[k]] \in Sessions BY <1>1, <3>1, ElementOfSeq
      <3>3. session \in Sessions /\ session.torndown = managed[pool[k]].torndown BY <3>2 DEF Sessions
      <3> HIDE DEF session
      <3> QED BY <1>1, <3>1, <3>3, ReplacedStaysDown
    <2>2. CASE pool[k] = NoSession
      <3> DEFINE all == Append(managed, Session(k))
      <3>1. managed' = [all EXCEPT ![Len(managed) + 1].subscribers = @ \cup {s}]
        BY <1>3, <2>2 DEF Subscribe
      <3>2. Session(k) \in Sessions BY DEF Session, Sessions
      <3>3. Len(all) = Len(managed) + 1 /\ DOMAIN all = 1..(Len(managed) + 1)
            /\ \A t \in 1..Len(managed) : all[t] = managed[t]
        BY <1>1, <3>2
      <3>4. DOMAIN managed' = 1..(Len(managed) + 1) /\ \A t \in 1..Len(managed) : managed'[t] = managed[t]
        <4> HIDE DEF all
        <4> QED BY <1>1, <3>1, <3>3
      <3>5. managed' \in Seq(Sessions) BY DEF PoolInv, MapFits
      <3>6. Len(managed') = Len(managed) + 1
        BY <1>1, <3>4, <3>5, LenProperties
      <3> QED BY <1>1, <3>4, <3>6 DEF StaysDown
    <2> QED BY <2>1, <2>2
  <1>4. ASSUME NEW s \in DOMAIN managed, NEW type \in {"init", "media"}, FansOut(s, type)
        PROVE  StaysDown(managed, managed')
    <2> DEFINE segment == [type |-> type, at |-> Len(fanned[s]) + 1]
               session == [managed[s] EXCEPT !.cache = IF type = "init" THEN segment ELSE @]
    <2>1. managed' = [managed EXCEPT ![s] = session] BY <1>4 DEF FansOut
    <2>2. fanned[s] \in Seq(Segments) /\ managed[s] \in Sessions BY <1>1, ElementOfSeq DEF PoolInv
    <2>3. session \in Sessions /\ session.torndown = managed[s].torndown
      BY <2>2, LenProperties DEF Sessions, Segments
    <2> HIDE DEF session
    <2> QED BY <1>1, <2>1, <2>3, ReplacedStaysDown
  <1>5. PoolState.managed = managed
        /\ PoolState = [managed |-> PoolState.managed, pool |-> PoolState.pool, subs |-> PoolState.subs]
    BY DEF PoolState
  <1>6. ASSUME NEW s \in DOMAIN managed, NEW error, SessionFails(s, error) PROVE StaysDown(managed, managed')
    <2>1. managed' = TornDown(s, error, PoolState).managed BY <1>6 DEF SessionFails, Becomes
    <2> QED BY <1>1, <1>5, <2>1, TornDownStaysDown
  <1>7. ASSUME NEW s \in Subscriptions, NEW own, Becomes(Disposed(s, own, PoolState)) PROVE StaysDown(managed, managed')
    <2>1. managed' = Disposed(s, own, PoolState).managed BY <1>7 DEF Becomes
    <2> QED BY <1>1, <1>5, <2>1, DisposedStaysDown
  <1>8. ASSUME NEW s \in Subscriptions, SubscribeAborted(s) \/ Asks(s) PROVE managed' = managed
    BY <1>8 DEF SubscribeAborted, Asks
  <1>9. ASSUME NEW s \in Subscriptions, DisposeSubscription(s) \/ Looks(s) \/ Break(s)
        PROVE  StaysDown(managed, managed')
    BY <1>2, <1>7, <1>9 DEF DisposeSubscription, Looks, Break, Ended
  <1> QED BY <1>2, <1>3, <1>4, <1>6, <1>8, <1>9 DEF PoolSteps

-----------------------------------------------------------------------------
LEMMA HandsTheFirst ==
  ASSUME NEW S, NEW handed \in Seq(S), NEW queue \in Seq(S), queue # <<>>
  PROVE  Append(handed, Head(queue)) \o Tail(queue) = handed \o queue
  <1> DEFINE first == Head(queue)
             rest == Tail(queue)
             one == Append(handed, first)
  <1>1. first \in S /\ rest \in Seq(S) /\ Len(queue) \in Nat \ {0} /\ Len(rest) = Len(queue) - 1
        /\ first = queue[1] /\ \A i \in 1..Len(rest) : rest[i] = queue[i + 1]
    BY HeadTailProperties, LenProperties, EmptySeq
  <1> HIDE DEF first, rest
  <1>2. one \in Seq(S) /\ Len(handed) \in Nat /\ Len(one) = Len(handed) + 1 /\ one[Len(handed) + 1] = first
        /\ \A i \in 1..Len(handed) : one[i] = handed[i]
    BY <1>1, AppendProperties, LenProperties
  <1> HIDE DEF one
  <1> DEFINE left == one \o rest
             right == handed \o queue
  <1>3. left \in Seq(S) /\ Len(left) = Len(one) + Len(rest)
        /\ \A i \in 1..Len(one) + Len(rest) : left[i] = IF i <= Len(one) THEN one[i] ELSE rest[i - Len(one)]
    BY <1>1, <1>2, ConcatProperties
  <1>4. right \in Seq(S) /\ Len(right) = Len(handed) + Len(queue)
        /\ \A i \in 1..Len(handed) + Len(queue) :
             right[i] = IF i <= Len(handed) THEN handed[i] ELSE queue[i - Len(handed)]
    BY ConcatProperties
  <1> HIDE DEF left, right
  <1>5. Len(left) = Len(right) BY <1>1, <1>2, <1>3, <1>4
  <1>6. ASSUME NEW i \in 1..Len(left) PROVE left[i] = right[i]
    <2>1. PICK m \in Nat, n \in Nat : m = Len(handed) /\ n = Len(queue) /\ n > 0 BY <1>1, <1>2
    <2>2. Len(one) = m + 1 /\ Len(rest) = n - 1 /\ Len(left) = m + n BY <2>1, <1>1, <1>2, <1>3
    <2>3. i \in 1..m + n BY <2>2
    <2>4. left[i] = IF i <= m + 1 THEN one[i] ELSE rest[i - (m + 1)]
      <3>1. i \in 1..Len(one) + Len(rest) BY <2>1, <2>2, <2>3
      <3> QED BY <3>1, <2>2, <1>3
    <2>5. right[i] = IF i <= m THEN handed[i] ELSE queue[i - m]
      <3>1. i \in 1..Len(handed) + Len(queue) BY <2>1, <2>3
      <3> QED BY <3>1, <2>1, <1>4
    <2>6. CASE i <= m
      <3>1. i \in 1..Len(handed) /\ i <= m + 1 BY <2>1, <2>3, <2>6
      <3> QED BY <3>1, <2>4, <2>5, <2>6, <1>2
    <2>7. CASE i = m + 1
      <3>1. i - m = 1 /\ ~(i <= m) /\ i <= m + 1 BY <2>1, <2>7
      <3> QED BY <3>1, <2>1, <2>4, <2>5, <2>7, <1>1, <1>2
    <2>8. CASE i > m + 1
      <3>1. i - (m + 1) \in 1..Len(rest) /\ i - (m + 1) + 1 = i - m /\ ~(i <= m) /\ ~(i <= m + 1)
        BY <2>1, <2>2, <2>3, <2>8
      <3>2. rest[i - (m + 1)] = queue[i - m] BY <3>1, <1>1
      <3> QED BY <3>1, <3>2, <2>4, <2>5
    <2> QED BY <2>1, <2>3, <2>6, <2>7, <2>8
  <1>7. left = right BY <1>3, <1>4, <1>5, <1>6, SeqEqual
  <1> QED BY <1>7 DEF left, right, one, first, rest

LEMMA QueuesBehind ==
  ASSUME NEW S, NEW handed \in Seq(S), NEW queue \in Seq(S), NEW f \in S
  PROVE  handed \o Append(queue, f) = Append(handed \o queue, f)
  BY AppendIsConcat, ConcatAssociative, ConcatProperties, IsASeq

LEMMA SubSeqAgrees ==
  ASSUME NEW S, NEW s \in Seq(S), NEW t \in Seq(S), NEW m \in Nat \ {0}, NEW n \in Int, n <= Len(s), n <= Len(t),
         \A i \in m..n : s[i] = t[i]
  PROVE  SubSeq(s, m, n) = SubSeq(t, m, n)
  <1> DEFINE left == SubSeq(s, m, n)
             right == SubSeq(t, m, n)
  <1>0. m \in Int /\ Len(s) \in Nat /\ Len(t) \in Nat BY LenProperties
  <1>1. (\A i \in m..n : s[i] \in S) /\ (\A i \in m..n : t[i] \in S)
    <2> SUFFICES ASSUME NEW i \in m..n PROVE s[i] \in S /\ t[i] \in S OBVIOUS
    <2>1. i \in 1..Len(s) /\ i \in 1..Len(t) BY <1>0
    <2> QED BY <2>1, ElementOfSeq
  <1>2. left \in Seq(S) /\ Len(left) = (IF m <= n THEN n - m + 1 ELSE 0)
        /\ \A i \in 1..n - m + 1 : left[i] = s[m + i - 1]
    BY <1>0, <1>1, SubSeqProperties
  <1>3. right \in Seq(S) /\ Len(right) = (IF m <= n THEN n - m + 1 ELSE 0)
        /\ \A i \in 1..n - m + 1 : right[i] = t[m + i - 1]
    BY <1>0, <1>1, SubSeqProperties
  <1> HIDE DEF left, right
  <1>4. ASSUME NEW i \in 1..Len(left) PROVE left[i] = right[i]
    <2>1. CASE m <= n
      <3>1. i \in 1..n - m + 1 BY <2>1, <1>0, <1>2, <1>4
      <3>2. m + i - 1 \in m..n BY <3>1, <1>0
      <3>3. s[m + i - 1] = t[m + i - 1] BY <3>2
      <3> QED BY <3>1, <3>3, <1>2, <1>3
    <2>2. CASE ~(m <= n) BY <2>2, <1>2, <1>4
    <2> QED BY <2>1, <2>2
  <1>5. left = right
    <2>1. left \in Seq(S) /\ right \in Seq(S) /\ Len(left) = Len(right) BY <1>2, <1>3
    <2> QED BY <2>1, <1>4, SeqEqual
  <1> QED BY <1>5 DEF left, right

LEMMA StretchGrows ==
  ASSUME NEW S, NEW all \in Seq(S), NEW x \in S, NEW from \in 0..Len(all)
  PROVE  /\ SubSeq(all, from + 1, Len(all)) \in Seq(S)
         /\ SubSeq(Append(all, x), from + 1, Len(all) + 1) = Append(SubSeq(all, from + 1, Len(all)), x)
  <1> DEFINE n == Len(all)
             more == Append(all, x)
             one == SubSeq(all, from + 1, n)
  <1>1. n \in Nat /\ from \in 0..n /\ more \in Seq(S) /\ Len(more) = n + 1 /\ more[n + 1] = x
        /\ \A i \in 1..n : more[i] = all[i] /\ all[i] \in S
    BY AppendProperties, LenProperties, ElementOfSeq
  <1> HIDE DEF n, more
  <1>2. one \in Seq(S)
    <2>1. \A i \in from + 1..n : all[i] \in S BY <1>1
    <2> QED BY <2>1, <1>1, SubSeqProperties
  <1>3. SubSeq(more, from + 1, n) = one
    <2>1. from + 1 \in Nat \ {0} /\ n \in Int /\ n <= Len(more) /\ n <= Len(all) BY <1>1 DEF n
    <2>2. \A i \in from + 1..n : more[i] = all[i] BY <1>1
    <2> QED BY <2>1, <2>2, <1>1, SubSeqAgrees
  <1>4. SubSeq(more, from + 1, n + 1) = SubSeq(more, from + 1, n) \o <<more[n + 1]>>
    <2>1. PICK m, k : m = from + 1 /\ k = n + 1 OBVIOUS
    <2>2. m \in 1..Len(more) /\ k \in m..Len(more) /\ k - 1 = n BY <1>1, <2>1
    <2>3. SubSeq(more, m, k) = SubSeq(more, m, k - 1) \o <<more[k]>> BY <1>1, <2>2, SubSeqRecursiveSecond
    <2> QED BY <2>1, <2>2, <2>3
  <1>6. SubSeq(more, from + 1, n + 1) = one \o <<x>> BY <1>1, <1>3, <1>4
  <1>7. SubSeq(more, from + 1, n + 1) = Append(one, x) BY <1>2, <1>6, AppendIsConcat
  <1> QED BY <1>2, <1>7 DEF n, more

LEMMA IsPrefixOfJoined ==
  ASSUME NEW S, NEW s \in Seq(S), NEW t \in Seq(S)
  PROVE  IsPrefix(s, s \o t)
  <1>1. s \o t \in Seq(S) /\ Len(s \o t) = Len(s) + Len(t) /\ Len(s) \in Nat /\ Len(t) \in Nat
        /\ \A i \in 1..Len(s) : (s \o t)[i] = s[i]
    BY ConcatProperties, LenProperties
  <1>2. Len(s) <= Len(s \o t) BY <1>1
  <1>3. SubSeq(s, 1, Len(s)) = SubSeq(s \o t, 1, Len(s)) BY <1>1, <1>2, SubSeqAgrees
  <1> QED BY <1>2, <1>3 DEF IsPrefix

-----------------------------------------------------------------------------
(* What the cache replays, as a session fans out more. *)
LEMMA LastInitIsOne ==
  ASSUME NEW all, NEW upto \in Nat, NEW i \in LastInits(all, upto)
  PROVE  Replayed(all, upto) = <<all[i]>>
  <1>1. \A j \in LastInits(all, upto) : j = i BY DEF LastInits
  <1>2. (CHOOSE j \in LastInits(all, upto) : TRUE) \in LastInits(all, upto) OBVIOUS
  <1>3. (CHOOSE j \in LastInits(all, upto) : TRUE) = i BY <1>1, <1>2
  <1> QED BY <1>3 DEF Replayed

LEMMA ReplayedFits ==
  ASSUME NEW all \in Seq(Segments), NEW upto \in 0..Len(all)
  PROVE  Replayed(all, upto) \in Seq(Segments)
  <1>1. upto \in Nat /\ \A i \in 1..upto : all[i] \in Segments BY LenProperties, ElementOfSeq
  <1>2. CASE LastInits(all, upto) = {} BY <1>2, EmptySeq DEF Replayed
  <1>3. ASSUME NEW i \in LastInits(all, upto) PROVE Replayed(all, upto) \in Seq(Segments)
    <2>1. all[i] \in Segments BY <1>1, <1>3 DEF LastInits
    <2>2. Replayed(all, upto) = <<all[i]>> BY <1>1, <1>3, LastInitIsOne
    <2>3. <<all[i]>> \in Seq(Segments) BY <2>1
    <2> QED BY <2>2, <2>3
  <1> QED BY <1>2, <1>3

LEMMA ReplayedStays ==
  ASSUME NEW all, NEW more, NEW upto \in Nat, \A i \in 1..upto : more[i] = all[i]
  PROVE  Replayed(more, upto) = Replayed(all, upto)
  <1>1. LastInits(more, upto) = LastInits(all, upto) BY DEF LastInits
  <1>2. CASE LastInits(all, upto) = {} BY <1>1, <1>2 DEF Replayed
  <1>3. ASSUME NEW i \in LastInits(all, upto) PROVE Replayed(more, upto) = Replayed(all, upto)
    <2>1. more[i] = all[i] BY DEF LastInits
    <2> QED BY <1>1, <2>1, LastInitIsOne
  <1> QED BY <1>2, <1>3

LEMMA ReplayedNext ==
  ASSUME NEW more, NEW upto \in Nat
  PROVE  Replayed(more, upto + 1) = IF more[upto + 1].type = "init" THEN <<more[upto + 1]>> ELSE Replayed(more, upto)
  <1>1. CASE more[upto + 1].type = "init"
    <2>1. upto + 1 \in LastInits(more, upto + 1) BY <1>1 DEF LastInits
    <2> QED BY <1>1, <2>1, LastInitIsOne
  <1>2. CASE more[upto + 1].type # "init"
    <2>1. LastInits(more, upto + 1) = LastInits(more, upto)
      <3>1. \A i \in 1..upto : i + 1..upto + 1 = (i + 1..upto) \cup {upto + 1} OBVIOUS
      <3>2. 1..upto + 1 = (1..upto) \cup {upto + 1} OBVIOUS
      <3> QED BY <1>2, <3>1, <3>2 DEF LastInits
    <2>2. CASE LastInits(more, upto) = {} BY <1>2, <2>1, <2>2 DEF Replayed
    <2>3. ASSUME NEW i \in LastInits(more, upto) PROVE Replayed(more, upto + 1) = Replayed(more, upto)
      <3>1. i \in LastInits(more, upto + 1) BY <2>1
      <3>2. Replayed(more, upto + 1) = <<more[i]>> BY <3>1, LastInitIsOne
      <3>3. Replayed(more, upto) = <<more[i]>> BY LastInitIsOne
      <3> QED BY <3>2, <3>3
    <2> QED BY <1>2, <2>2, <2>3
  <1> QED BY <1>1, <1>2

(* What a subscription is due, as its session fans out more. *)
LEMMA DueGrows ==
  ASSUME NEW all \in Seq(Segments), NEW x \in Segments, NEW sub, sub.joined \in 0..Len(all), sub.left = -1
  PROVE  Due(sub, Append(all, x)) = Append(Due(sub, all), x) /\ Due(sub, all) \in Seq(Segments)
  <1> DEFINE more == Append(all, x)
             from == sub.joined
             stretch == SubSeq(all, from + 1, Len(all))
             head == Replayed(all, from)
  <1>1. Len(all) \in Nat /\ Len(more) = Len(all) + 1 /\ \A i \in 1..Len(all) : more[i] = all[i]
    BY AppendProperties, LenProperties
  <1>2. from \in Nat /\ from <= Len(all) BY <1>1
  <1>3. Replayed(more, from) = head
    <2>1. \A i \in 1..from : more[i] = all[i] BY <1>1, <1>2
    <2> QED BY <2>1, <1>2, ReplayedStays
  <1>4. stretch \in Seq(Segments) /\ SubSeq(more, from + 1, Len(all) + 1) = Append(stretch, x) BY StretchGrows
  <1>5. head \in Seq(Segments) BY ReplayedFits
  <1> HIDE DEF more, head, stretch
  <1>6. Due(sub, all) = head \o stretch BY DEF Due, head, stretch
  <1>7. Due(sub, more) = head \o Append(stretch, x)
    <2>1. Due(sub, more) = Replayed(more, from) \o SubSeq(more, from + 1, Len(more)) BY DEF Due
    <2> QED BY <2>1, <1>1, <1>3, <1>4
  <1>8. head \o Append(stretch, x) = Append(head \o stretch, x) 
    <2>1. PICK h, t : h = head /\ t = stretch OBVIOUS
    <2>2. h \in Seq(Segments) /\ t \in Seq(Segments) BY <2>1, <1>4, <1>5
    <2>3. h \o Append(t, x) = Append(h \o t, x) BY <2>2, QueuesBehind
    <2> QED BY <2>1, <2>3
  <1>9. head \o stretch \in Seq(Segments) BY <1>4, <1>5, ConcatProperties
  <1> QED BY <1>6, <1>7, <1>8, <1>9 DEF more

LEMMA DueStays ==
  ASSUME NEW all \in Seq(Segments), NEW x \in Segments, NEW sub, sub.joined \in 0..Len(all),
         sub.left \in sub.joined..Len(all)
  PROVE  Due(sub, Append(all, x)) = Due(sub, all)
  <1> DEFINE more == Append(all, x)
             from == sub.joined
             until == sub.left
  <1>1. Len(all) \in Nat /\ more \in Seq(Segments) /\ Len(more) = Len(all) + 1
        /\ \A i \in 1..Len(all) : more[i] = all[i]
    BY AppendProperties, LenProperties
  <1>2. from \in Nat /\ from <= Len(all) /\ until \in Nat /\ until <= Len(all) /\ until # -1 BY <1>1
  <1> HIDE DEF more
  <1>3. Replayed(more, from) = Replayed(all, from) BY <1>1, <1>2, ReplayedStays
  <1>4. SubSeq(more, from + 1, until) = SubSeq(all, from + 1, until)
    <2>1. from + 1 \in Nat \ {0} /\ until \in Int /\ until <= Len(more) BY <1>1, <1>2
    <2>2. \A i \in from + 1..until : more[i] = all[i] BY <1>1, <1>2
    <2> QED BY <2>1, <2>2, <1>1, <1>2, SubSeqAgrees
  <1>5. Due(sub, more) = Due(sub, all) BY <1>2, <1>3, <1>4 DEF Due
  <1> QED BY <1>5 DEF more

LEMMA DueAtJoin ==
  ASSUME NEW all \in Seq(Segments), NEW sub, sub.joined = Len(all), sub.left = -1
  PROVE  Due(sub, all) = Replayed(all, Len(all))
  <1>1. Len(all) \in Nat BY LenProperties
  <1>2. SubSeq(all, Len(all) + 1, Len(all)) = <<>> BY <1>1, SubSeqEmpty
  <1>3. Replayed(all, Len(all)) \in Seq(Segments) BY <1>1, ReplayedFits
  <1> QED BY <1>2, <1>3, ConcatEmptySeq DEF Due

-----------------------------------------------------------------------------
Subs ==
  [host : Nat \cup {NoSession, Detached}, queue : Seq(Segments), error : Failures \cup {NoError}, done : BOOLEAN,
   disposed : BOOLEAN, discards : BOOLEAN, joined : Int, left : Int, dropped : BOOLEAN]

Drains ==
  [at : {"idle", "looking", "body", "parked", "ended"}, delivered : Seq(Segments),
   ending : Failures \cup {"none", "done", "broke"}]

(* What a subscription was given and still holds is what it is due, unless   *)
(* its consumer dropped the rest.                                            *)
Had(sub, drain) == drain.delivered \o sub.queue
GivenDue(sub, drain, all) ==
  IF sub.dropped /\ sub.discards THEN IsPrefix(Had(sub, drain), Due(sub, all)) ELSE Had(sub, drain) = Due(sub, all)

(* It listens until it is disposed, or until its session is torn down. *)
Listens(sub, all, session) ==
  /\ sub.joined \in 0..Len(all)
  /\ ~sub.disposed => sub.left = -1 /\ ~sub.dropped /\ (sub.done => session.torndown)
  /\ sub.disposed => sub.done /\ sub.left \in sub.joined..Len(all)

DrainFits(sub, drain) ==
  /\ drain.at = "ended" => sub.disposed
  /\ drain.at = "ended" /\ drain.ending # "broke" => sub.queue = <<>>
  /\ drain.at = "parked" => sub.queue = <<>> /\ ~sub.done /\ sub.error = NoError

SubFits(sub, drain, all, session) ==
  /\ sub \in Subs /\ drain \in Drains
  /\ Listens(sub, all, session) /\ GivenDue(sub, drain, all) /\ DrainFits(sub, drain)

LEMMA DueSame ==
  ASSUME NEW sub, NEW other, NEW all, other.joined = sub.joined, other.left = sub.left
  PROVE  Due(other, all) = Due(sub, all)
  BY DEF Due

LEMMA WokenReads ==
  ASSUME NEW drain \in Drains
  PROVE  /\ Woken(drain) \in Drains /\ Woken(drain).delivered = drain.delivered /\ Woken(drain).ending = drain.ending
         /\ Woken(drain).at # "parked" /\ (Woken(drain).at = "ended" => drain.at = "ended")
  <1>1. [drain EXCEPT !.at = "looking"] \in Drains BY DEF Drains
  <1> QED BY <1>1 DEF Woken, Drains

LEMMA SessionLater ==
  ASSUME NEW sub, NEW drain, NEW all, NEW session, NEW later, SubFits(sub, drain, all, session),
         session.torndown => later.torndown
  PROVE  SubFits(sub, drain, all, later)
  BY DEF SubFits, Listens

(* A subscription and its iterator where only the queue's end, the error or  *)
(* the iterator's place change.                                              *)
LEMMA DrainMoves ==
  ASSUME NEW sub, NEW drain, NEW all, NEW session, SubFits(sub, drain, all, session),
         NEW to \in Drains, to.delivered = drain.delivered, DrainFits(sub, to)
  PROVE  SubFits(sub, to, all, session)
  BY DEF SubFits, GivenDue, Had

LEMMA EndsFits ==
  ASSUME NEW sub, NEW drain, NEW all, NEW session, SubFits(sub, drain, all, session),
         NEW other \in Subs, other.joined = sub.joined, other.left = sub.left, other.queue = sub.queue,
         other.disposed = sub.disposed, other.discards = sub.discards, other.dropped = sub.dropped,
         sub.done => other.done, NEW later, later.torndown
  PROVE  SubFits(other, Woken(drain), all, later)
  <1> DEFINE to == Woken(drain)
  <1>1. /\ to \in Drains /\ to.delivered = drain.delivered /\ to.ending = drain.ending
        /\ to.at # "parked" /\ (to.at = "ended" => drain.at = "ended")
    BY WokenReads DEF SubFits
  <1> HIDE DEF to
  <1>2. Due(other, all) = Due(sub, all) BY DueSame
  <1>3. GivenDue(other, to, all) BY <1>1, <1>2 DEF SubFits, GivenDue, Had
  <1>4. DrainFits(other, to) BY <1>1 DEF SubFits, DrainFits
  <1>5. Listens(other, all, later) BY DEF SubFits, Listens
  <1> QED BY <1>1, <1>3, <1>4, <1>5 DEF SubFits, to

LEMMA FailFits ==
  ASSUME NEW sub, NEW drain, NEW all, NEW session, SubFits(sub, drain, all, session), NEW error \in Failures,
         NEW later, later.torndown
  PROVE  SubFits(Fail(sub, error), Woken(drain), all, later)
  <1>1. sub \in Subs BY DEF SubFits
  <1>2. Fail(sub, error) = sub \/ Fail(sub, error) = [sub EXCEPT !.error = error] BY DEF Fail
  <1>3. [sub EXCEPT !.error = error] \in Subs BY <1>1 DEF Subs
  <1>4. CASE Fail(sub, error) = sub BY <1>1, <1>4, EndsFits
  <1>5. CASE Fail(sub, error) = [sub EXCEPT !.error = error]
    <2>1. PICK other : other = [sub EXCEPT !.error = error] OBVIOUS
    <2>2. /\ other \in Subs /\ other.joined = sub.joined /\ other.left = sub.left /\ other.queue = sub.queue
          /\ other.disposed = sub.disposed /\ other.discards = sub.discards /\ other.dropped = sub.dropped
          /\ other.done = sub.done
      BY <2>1, <1>1, <1>3 DEF Subs
    <2> QED BY <1>5, <2>1, <2>2, EndsFits
  <1> QED BY <1>2, <1>4, <1>5

LEMMA CloseFits ==
  ASSUME NEW sub, NEW drain, NEW all, NEW session, SubFits(sub, drain, all, session), NEW later, later.torndown
  PROVE  SubFits(Close(sub), Woken(drain), all, later)
  <1>1. sub \in Subs BY DEF SubFits
  <1>2. PICK other : other = [sub EXCEPT !.done = TRUE] OBVIOUS
  <1>3. /\ other \in Subs /\ other.joined = sub.joined /\ other.left = sub.left /\ other.queue = sub.queue
        /\ other.disposed = sub.disposed /\ other.discards = sub.discards /\ other.dropped = sub.dropped
        /\ other.done
    BY <1>1, <1>2 DEF Subs
  <1>4. SubFits(other, Woken(drain), all, later) BY <1>3, EndsFits
  <1> QED BY <1>2, <1>4 DEF Close

(* A segment, to a subscriber of a session in force. *)
LEMMA PushFits ==
  ASSUME NEW sub, NEW drain, NEW all \in Seq(Segments), NEW session, NEW later, SubFits(sub, drain, all, session),
         ~session.torndown, ~sub.disposed, NEW x \in Segments
  PROVE  ~sub.done /\ SubFits(Push(sub, x), Woken(drain), Append(all, x), later)
  <1> DEFINE to == Woken(drain)
             more == Append(all, x)
  <1>1. /\ to \in Drains /\ to.delivered = drain.delivered /\ to.ending = drain.ending
        /\ to.at # "parked" /\ (to.at = "ended" => drain.at = "ended")
    BY WokenReads DEF SubFits
  <1>2. sub \in Subs /\ ~sub.done /\ sub.left = -1 /\ ~sub.dropped /\ sub.joined \in 0..Len(all)
        /\ sub.queue \in Seq(Segments) /\ drain.delivered \in Seq(Segments) /\ drain.at # "ended"
    BY DEF SubFits, Listens, DrainFits, Subs, Drains
  <1>3. Append(sub.queue, x) \in Seq(Segments) BY <1>2, AppendProperties
  <1>4. PICK other : other = [sub EXCEPT !.queue = Append(@, x)] OBVIOUS
  <1>5. Push(sub, x) = other BY <1>2, <1>4 DEF Push
  <1>6. /\ other \in Subs /\ other.joined = sub.joined /\ other.left = sub.left
        /\ other.queue = Append(sub.queue, x) /\ ~other.disposed /\ ~other.dropped /\ ~other.done
    BY <1>2, <1>3, <1>4 DEF Subs
  <1>7. Len(more) = Len(all) + 1 /\ Len(all) \in Nat BY AppendProperties, LenProperties
  <1>8. Due(sub, more) = Append(Due(sub, all), x) BY <1>2, DueGrows
  <1> HIDE DEF to, more
  <1>9. Had(sub, drain) = Due(sub, all) BY <1>2 DEF SubFits, GivenDue
  <1>10. Had(other, to) = Append(Had(sub, drain), x)
    <2>1. PICK d \in Seq(Segments), q \in Seq(Segments) : d = drain.delivered /\ q = sub.queue BY <1>2
    <2>2. d \o Append(q, x) = Append(d \o q, x) BY QueuesBehind
    <2> QED BY <1>1, <1>6, <2>1, <2>2 DEF Had
  <1>11. Due(other, more) = Due(sub, more) BY <1>6, DueSame
  <1>12. GivenDue(other, to, more) BY <1>6, <1>8, <1>9, <1>10, <1>11 DEF GivenDue
  <1>13. Listens(other, more, later) BY <1>2, <1>6, <1>7 DEF Listens
  <1>14. DrainFits(other, to) BY <1>1, <1>2 DEF DrainFits
  <1> QED BY <1>1, <1>2, <1>5, <1>6, <1>12, <1>13, <1>14 DEF SubFits, to, more

(* A segment, past a subscription that is over. *)
LEMMA PassedFits ==
  ASSUME NEW sub, NEW drain, NEW all \in Seq(Segments), NEW session, NEW later, SubFits(sub, drain, all, session),
         sub.disposed, NEW x \in Segments
  PROVE  SubFits(sub, drain, Append(all, x), later)
  <1> DEFINE more == Append(all, x)
  <1>1. Len(more) = Len(all) + 1 /\ Len(all) \in Nat BY AppendProperties, LenProperties
  <1>2. Due(sub, more) = Due(sub, all) BY DueStays DEF SubFits, Listens
  <1> HIDE DEF more
  <1>3. GivenDue(sub, drain, more) BY <1>2 DEF SubFits, GivenDue
  <1>4. Listens(sub, more, later)
    <2>1. sub.joined \in 0..Len(all) /\ sub.left \in sub.joined..Len(all) /\ sub.done BY DEF SubFits, Listens
    <2>2. sub.joined \in 0..Len(more) /\ sub.left \in sub.joined..Len(more) BY <1>1, <2>1
    <2> QED BY <2>1, <2>2 DEF Listens
  <1> QED BY <1>3, <1>4 DEF SubFits, more

(* A disposal: what was not read is kept, unless the consumer discards it. *)
OverAt(sub, own, n) ==
  [sub EXCEPT !.disposed = TRUE, !.done = TRUE, !.left = n, !.dropped = own,
              !.queue = IF sub.discards THEN <<>> ELSE @]

LEMMA OverFits ==
  ASSUME NEW sub, NEW drain, NEW all \in Seq(Segments), NEW session, NEW later, SubFits(sub, drain, all, session),
         ~sub.disposed, NEW own \in BOOLEAN,
         NEW to \in Drains, to.delivered = drain.delivered, to.at # "parked",
         (to.at = "ended" /\ to.ending # "broke") \/ ~own => sub.queue = <<>>
  PROVE  SubFits(OverAt(sub, own, Len(all)), to, all, later)
  <1> DEFINE over == OverAt(sub, own, Len(all))
  <1>1. sub \in Subs /\ sub.left = -1 /\ ~sub.dropped /\ sub.joined \in 0..Len(all)
        /\ sub.queue \in Seq(Segments) /\ drain.delivered \in Seq(Segments)
    BY DEF SubFits, Listens, Subs, Drains
  <1>2. <<>> \in Seq(Segments) /\ Len(all) \in Nat /\ Len(all) \in Int BY EmptySeq, LenProperties
  <1>3. PICK n \in Int, q \in Seq(Segments) :
          n = Len(all) /\ q = IF sub.discards THEN <<>> ELSE sub.queue
    BY <1>1, <1>2
  <1>4. over = [sub EXCEPT !.disposed = TRUE, !.done = TRUE, !.left = n, !.dropped = own, !.queue = q]
    BY <1>3 DEF OverAt
  <1>5. /\ over \in Subs /\ over.joined = sub.joined /\ over.left = Len(all) /\ over.disposed /\ over.done
        /\ over.dropped = own /\ over.discards = sub.discards /\ over.queue = q
    BY <1>1, <1>3, <1>4 DEF Subs
  <1> HIDE DEF over
  <1>6. Due(over, all) = Due(sub, all)
    <2>1. over.left # -1 BY <1>2, <1>5
    <2> QED BY <1>1, <1>5, <2>1 DEF Due
  <1>7. Had(sub, drain) = Due(sub, all) BY <1>1 DEF SubFits, GivenDue
  <1>8. GivenDue(over, to, all)
    <2>1. CASE q = sub.queue
      <3>1. Had(over, to) = Due(over, all) BY <1>5, <1>6, <1>7, <2>1 DEF Had
      <3>2. Had(over, to) \in Seq(Segments) BY <1>1, <1>5, <2>1, ConcatProperties DEF Had
      <3>3. IsPrefix(Had(over, to), Had(over, to)) BY <3>2, LenProperties DEF IsPrefix
      <3> QED BY <3>1, <3>3 DEF GivenDue
    <2>2. CASE q # sub.queue
      <3>1. sub.discards /\ own /\ q = <<>> BY <1>3, <2>2
      <3>2. Had(over, to) = drain.delivered BY <1>1, <1>5, <3>1, ConcatEmptySeq DEF Had
      <3>3. IsPrefix(drain.delivered, drain.delivered \o sub.queue) BY <1>1, IsPrefixOfJoined
      <3>4. IsPrefix(Had(over, to), Due(over, all)) BY <1>6, <1>7, <3>2, <3>3 DEF Had
      <3> QED BY <1>5, <3>1, <3>4 DEF GivenDue
    <2> QED BY <2>1, <2>2
  <1>9. Listens(over, all, later) BY <1>1, <1>2, <1>5 DEF Listens
  <1>10. DrainFits(over, to) BY <1>3, <1>5 DEF DrainFits
  <1> QED BY <1>5, <1>8, <1>9, <1>10 DEF SubFits, over

(* What is queued first is handed out. *)
LEMMA PopFits ==
  ASSUME NEW sub, NEW drain, NEW all, NEW session, SubFits(sub, drain, all, session), sub.queue # <<>>,
         drain.at = "looking"
  PROVE  SubFits([sub EXCEPT !.queue = Tail(@)],
                 [drain EXCEPT !.at = "body", !.delivered = Append(@, Head(sub.queue))], all, session)
  <1>1. sub \in Subs /\ drain \in Drains /\ sub.queue \in Seq(Segments) /\ drain.delivered \in Seq(Segments)
    BY DEF SubFits, Subs, Drains
  <1>2. Head(sub.queue) \in Segments /\ Tail(sub.queue) \in Seq(Segments) BY <1>1, HeadTailProperties
  <1>3. Append(drain.delivered, Head(sub.queue)) \in Seq(Segments) BY <1>1, <1>2, AppendProperties
  <1>4. PICK other, to : /\ other = [sub EXCEPT !.queue = Tail(@)]
                         /\ to = [drain EXCEPT !.at = "body", !.delivered = Append(@, Head(sub.queue))]
    OBVIOUS
  <1>5. /\ other \in Subs /\ other.joined = sub.joined /\ other.left = sub.left /\ other.queue = Tail(sub.queue)
        /\ other.disposed = sub.disposed /\ other.discards = sub.discards /\ other.dropped = sub.dropped
        /\ other.done = sub.done
    BY <1>1, <1>2, <1>4 DEF Subs
  <1>6. to \in Drains /\ to.at = "body" /\ to.delivered = Append(drain.delivered, Head(sub.queue))
    BY <1>1, <1>3, <1>4 DEF Drains
  <1>7. Had(other, to) = Had(sub, drain) BY <1>1, <1>5, <1>6, HandsTheFirst DEF Had
  <1>8. Due(other, all) = Due(sub, all) BY <1>5, DueSame
  <1>9. GivenDue(other, to, all) BY <1>5, <1>7, <1>8 DEF SubFits, GivenDue
  <1>10. Listens(other, all, session) BY <1>5 DEF SubFits, Listens
  <1>11. DrainFits(other, to) BY <1>6 DEF DrainFits
  <1>12. SubFits(other, to, all, session) BY <1>5, <1>6, <1>9, <1>10, <1>11 DEF SubFits
  <1> QED BY <1>4, <1>12

(* The cache holds the last init there was. *)
CacheFits(session, all) ==
  Replayed(all, Len(all)) = IF session.cache = NoError THEN <<>> ELSE <<session.cache>>

Joined(sub, host, all, session) ==
  SubFits(sub, NotIterated, all, session) /\ sub.host = host /\ ~sub.disposed

LEMMA AttachedFits ==
  ASSUME NEW s, NEW discards \in BOOLEAN, NEW host \in Nat, NEW all \in Seq(Segments), NEW session,
         session.cache \in Segments \cup {NoError}, CacheFits(session, all)
  PROVE  Joined(Attached(s, discards, host, Len(all), session.cache), host, all, session)
  <1> DEFINE n == Len(all)
             sub == Attached(s, discards, host, n, session.cache)
             cache == session.cache
             queue == IF cache = NoError THEN <<>> ELSE <<cache>>
             born == [Unborn EXCEPT !.host = host, !.discards = discards, !.joined = n]
  <1>1. <<>> \in Seq(Segments) /\ n \in Nat /\ n \in Int BY EmptySeq, LenProperties
  <1>2. Unborn \in Subs BY <1>1 DEF Unborn, Subs
  <1>3. Unborn.queue = <<>> /\ ~Unborn.done /\ ~Unborn.disposed /\ Unborn.left = -1 /\ ~Unborn.dropped BY DEF Unborn
  <1>4. PICK m \in Int : m = n BY <1>1
  <1>5. /\ born \in Subs /\ born.queue = <<>> /\ ~born.done /\ ~born.disposed /\ born.left = -1 /\ ~born.dropped
        /\ born.joined = n /\ born.host = host
    <2>1. born = [Unborn EXCEPT !.host = host, !.discards = discards, !.joined = m] BY <1>4
    <2> QED BY <1>2, <1>3, <1>4, <2>1 DEF Subs
  <1> HIDE DEF born
  <1>6. queue \in Seq(Segments) BY <1>1
  <1>7. /\ cache = NoError => sub = born
        /\ cache # NoError => sub = [born EXCEPT !.queue = Append(@, cache)]
    <2>1. sub = IF cache = NoError THEN born ELSE Push(born, cache) BY Zenon DEF Attached, born
    <2> HIDE DEF sub
    <2> QED BY <1>5, <2>1 DEF Push
  <1> HIDE DEF sub
  <1>8. /\ sub \in Subs /\ sub.queue = queue /\ ~sub.done /\ ~sub.disposed /\ sub.left = -1 /\ ~sub.dropped
        /\ sub.joined = n /\ sub.host = host
    <2>1. CASE cache = NoError BY <1>5, <1>7, <2>1
    <2>2. CASE cache # NoError
      <3>1. Append(<<>>, cache) = <<cache>> /\ <<cache>> \in Seq(Segments) BY <2>2
      <3> QED BY <1>5, <1>7, <2>2, <3>1 DEF Subs
    <2> QED BY <2>1, <2>2
  <1> HIDE DEF queue
  <1>9. Due(sub, all) = Replayed(all, n) BY <1>8, DueAtJoin
  <1>10. Replayed(all, n) = queue BY DEF CacheFits, queue
  <1>11. NotIterated \in Drains /\ NotIterated.delivered = <<>> /\ NotIterated.at = "idle"
    BY <1>1 DEF NotIterated, Drains
  <1>12. Had(sub, NotIterated) = queue BY <1>6, <1>8, <1>11, ConcatEmptySeq DEF Had
  <1>13. GivenDue(sub, NotIterated, all) BY <1>8, <1>9, <1>10, <1>12 DEF GivenDue
  <1>14. Listens(sub, all, session) BY <1>1, <1>8 DEF Listens
  <1>15. DrainFits(sub, NotIterated) BY <1>11 DEF DrainFits
  <1>16. SubFits(sub, NotIterated, all, session) BY <1>8, <1>11, <1>13, <1>14, <1>15 DEF SubFits
  <1>17. Joined(sub, host, all, session) BY <1>8, <1>16 DEF Joined
  <1> QED BY <1>17, Zenon DEF sub

-----------------------------------------------------------------------------
DeliveryTyped ==
  /\ subs \in [Subscriptions -> Subs] /\ drains \in [Subscriptions -> Drains]
  /\ \A s \in Subscriptions : subs[s].host \in (1..Len(managed)) \cup {NoSession, Detached}
  /\ \A s \in Subscriptions : subs[s].host = NoSession => drains[s] = NotIterated
  /\ \A s \in Subscriptions : subs[s].host = Detached => subs[s].disposed /\ subs[s].done /\ drains[s].at # "parked"

(* A session's subscribers are the subscriptions of it that are not disposed. *)
MembersFit ==
  \A h \in 1..Len(managed), s \in Subscriptions :
    s \in managed[h].subscribers <=> subs[s].host = h /\ ~subs[s].disposed

SubsFit ==
  \A s \in Subscriptions :
    subs[s].host \in 1..Len(managed) => SubFits(subs[s], drains[s], fanned[subs[s].host], managed[subs[s].host])

CachesFit == \A h \in 1..Len(managed) : CacheFits(managed[h], fanned[h])

DeliveryInv == DeliveryTyped /\ MembersFit /\ SubsFit /\ CachesFit

LEMMA PoolReads ==
  ASSUME PoolInv
  PROVE  /\ Len(managed) \in Nat /\ DOMAIN managed = 1..Len(managed) /\ Len(fanned) = Len(managed)
         /\ managed \in Seq(Sessions) /\ fanned \in Seq(Seq(Segments))
         /\ \A h \in 1..Len(managed) :
              managed[h] \in Sessions /\ fanned[h] \in Seq(Segments) /\ h # NoSession /\ h # Detached
  BY LenProperties, ElementOfSeq, SessionAssumption DEF PoolInv, MapFits

LEMMA InFull == PoolInv /\ DeliveryInv => DeliveredInFull
  <1> SUFFICES ASSUME PoolInv, DeliveryInv, NEW s \in Subscriptions, subs[s].host \in DOMAIN managed
               PROVE  /\ IF subs[s].dropped /\ subs[s].discards
                         THEN IsPrefix(Had(subs[s], drains[s]), Due(subs[s], fanned[subs[s].host]))
                         ELSE Had(subs[s], drains[s]) = Due(subs[s], fanned[subs[s].host])
                      /\ DrainFits(subs[s], drains[s])
    BY DEF DeliveredInFull, Had, DrainFits
  <1>1. SubFits(subs[s], drains[s], fanned[subs[s].host], managed[subs[s].host])
    BY PoolReads DEF DeliveryInv, SubsFit
  <1> QED BY <1>1 DEF SubFits, GivenDue

LEMMA DeliveryInitFits == PoolInit => DeliveryInv
  <1> SUFFICES ASSUME PoolInit PROVE DeliveryInv OBVIOUS
  <1>1. <<>> \in Seq(Segments) /\ Len(managed) = 0 BY EmptySeq DEF PoolInit
  <1>2. Unborn \in Subs /\ NotIterated \in Drains BY <1>1 DEF Unborn, NotIterated, Subs, Drains
  <1>3. \A s \in Subscriptions : subs[s] = Unborn /\ drains[s] = NotIterated BY DEF PoolInit
  <1>4. Unborn.host = NoSession /\ NoSession # Detached /\ NoSession \notin 1..0 BY SessionAssumption DEF Unborn
  <1>5. subs \in [Subscriptions -> Subs] /\ drains \in [Subscriptions -> Drains] BY <1>2 DEF PoolInit
  <1> QED BY <1>1, <1>3, <1>4, <1>5 DEF DeliveryInv, DeliveryTyped, MembersFit, SubsFit, CachesFit

LEMMA DeliveryUnchanged ==
  ASSUME DeliveryInv, UNCHANGED poolVars
  PROVE  DeliveryInv'
  BY DEF DeliveryInv, DeliveryTyped, MembersFit, SubsFit, CachesFit, poolVars

(* Steps of one subscription's iterator alone. *)
LEMMA IteratorMoves ==
  ASSUME PoolInv, DeliveryInv, NEW s \in Subscriptions, UNCHANGED <<pool, managed, fanned>>,
         NEW sub \in Subs, NEW to \in Drains, subs' = [subs EXCEPT ![s] = sub], drains' = [drains EXCEPT ![s] = to],
         subs[s].host # NoSession, sub.host = subs[s].host, sub.disposed = subs[s].disposed, sub.done = subs[s].done,
         subs[s].host = Detached => to.at # "parked",
         subs[s].host \in 1..Len(managed) => SubFits(sub, to, fanned[subs[s].host], managed[subs[s].host])
  PROVE  DeliveryInv'
  <1>1. \A t \in Subscriptions : /\ subs'[t] = IF t = s THEN sub ELSE subs[t]
                                 /\ drains'[t] = IF t = s THEN to ELSE drains[t]
    BY DEF DeliveryInv, DeliveryTyped
  <1>2. DeliveryTyped' BY <1>1 DEF DeliveryInv, DeliveryTyped
  <1>3. MembersFit' BY <1>1 DEF DeliveryInv, MembersFit
  <1>4. SubsFit' BY <1>1 DEF DeliveryInv, SubsFit
  <1>5. CachesFit' BY DEF DeliveryInv, CachesFit
  <1> QED BY <1>2, <1>3, <1>4, <1>5 DEF DeliveryInv

(* What a disposal leaves: of a session that nobody holds any more nobody is *)
(* told.                                                                     *)
OverOf(sub, own) == OverAt(sub, own, Len(fanned[sub.host]))

Leaves(after, s, own) ==
  /\ after.subs = [subs EXCEPT ![s] = OverOf(subs[s], own)]
  /\ Len(after.managed) = Len(managed)
  /\ \A h \in 1..Len(managed) :
       /\ after.managed[h].subscribers = managed[h].subscribers \ (IF h = subs[s].host THEN {s} ELSE {})
       /\ after.managed[h].cache = managed[h].cache
       /\ managed[h].torndown => after.managed[h].torndown

LEMMA TornDownUntold ==
  ASSUME NEW state, NEW h \in 1..Len(state.managed), state.managed \in Seq(Sessions), NEW error,
         state.managed[h].subscribers = {}, state.subs = [t \in Subscriptions |-> state.subs[t]], NEW after,
         after = TornDown(h, error, state)
  PROVE  /\ after.subs = state.subs /\ Len(after.managed) = Len(state.managed)
         /\ \A t \in 1..Len(state.managed) :
              /\ after.managed[t].subscribers = state.managed[t].subscribers
              /\ after.managed[t].cache = state.managed[t].cache
              /\ state.managed[t].torndown => after.managed[t].torndown
  <1> DEFINE all == state.managed
             ended == [all[h] EXCEPT !.torndown = TRUE]
             Ends(sub) == IF error = NoError THEN Close(sub) ELSE Fail(sub, error)
  <1>1. CASE all[h].torndown BY <1>1 DEF TornDown
  <1>2. CASE ~all[h].torndown
    <2>1. after.managed = [all EXCEPT ![h] = ended] BY <1>2 DEF TornDown
    <2>2. after.subs = [t \in Subscriptions |-> IF t \in all[h].subscribers THEN Ends(state.subs[t]) ELSE state.subs[t]]
      BY <1>2 DEF TornDown
    <2>3. after.subs = state.subs BY <2>2
    <2>4. all[h] \in Sessions BY ElementOfSeq
    <2>5. ended \in Sessions /\ ended.subscribers = all[h].subscribers /\ ended.cache = all[h].cache /\ ended.torndown
      BY <2>4 DEF Sessions
    <2> HIDE DEF ended
    <2>6. /\ Len(after.managed) = Len(all)
          /\ \A t \in 1..Len(all) : after.managed[t] = IF t = h THEN ended ELSE all[t]
      BY <2>1, <2>5, SessionReplaced
    <2> QED BY <2>3, <2>5, <2>6
  <1> QED BY <1>1, <1>2

LEMMA DisposedLeaves ==
  ASSUME PoolInv, DeliveryInv, NEW s \in Subscriptions, NEW own, subs[s].host # NoSession, ~subs[s].disposed,
         NEW after, after = Disposed(s, own, PoolState)
  PROVE  subs[s].host \in 1..Len(managed) /\ Leaves(after, s, own)
  <1> DEFINE state == PoolState
             host == subs[s].host
             over == OverOf(subs[s], own)
             one == [managed[host] EXCEPT !.subscribers = @ \ {s}]
             left == [managed EXCEPT ![host].subscribers = @ \ {s}]
             rest == [state EXCEPT !.managed = left, !.subs[s] = over]
  <1>1. /\ host \in 1..Len(managed) /\ managed[host] \in Sessions /\ managed \in Seq(Sessions)
        /\ DOMAIN managed = 1..Len(managed) /\ Len(managed) \in Nat
    BY PoolReads DEF DeliveryInv, DeliveryTyped
  <1>2. one \in Sessions /\ one.subscribers = managed[host].subscribers \ {s} /\ one.cache = managed[host].cache
        /\ one.torndown = managed[host].torndown
    BY <1>1 DEF Sessions
  <1>3. left = [managed EXCEPT ![host] = one] OBVIOUS
  <1>4. state.managed = managed /\ state.subs = subs BY DEF PoolState
  <1>5. rest.managed = left /\ rest.subs = [subs EXCEPT ![s] = over] BY DEF PoolState
  <1>6. after = IF host \in DOMAIN left /\ left[host].subscribers = {} THEN TornDown(host, NoError, rest) ELSE rest
    <2> DEFINE sub == state.subs[s]
               over0 == [sub EXCEPT !.disposed = TRUE, !.done = TRUE, !.left = Len(fanned[sub.host]), !.dropped = own,
                                    !.queue = IF sub.discards THEN <<>> ELSE @]
               left0 == IF sub.host \in DOMAIN state.managed
                        THEN [state.managed EXCEPT ![sub.host].subscribers = @ \ {s}] ELSE state.managed
               rest0 == [state EXCEPT !.managed = left0, !.subs[s] = over0]
    <2>1. after = IF sub.disposed THEN state
                  ELSE IF sub.host \in DOMAIN left0 /\ left0[sub.host].subscribers = {}
                       THEN TornDown(sub.host, NoError, rest0)
                  ELSE rest0
      BY DEF Disposed
    <2>2. sub = subs[s] /\ over0 = over /\ left0 = left BY <1>1, <1>4 DEF OverOf, OverAt
    <2>3. rest0 = rest BY <2>2
    <2> HIDE DEF sub, over0, left0, rest0, over, left, rest, state
    <2> QED BY <2>1, <2>2, <2>3
  <1> HIDE DEF one, over, left, rest
  <1>7. /\ left \in Seq(Sessions) /\ Len(left) = Len(managed)
        /\ \A t \in 1..Len(managed) : left[t] = IF t = host THEN one ELSE managed[t]
    <2>1. PICK h \in 1..Len(managed), session \in Sessions : h = host /\ session = one BY <1>1, <1>2
    <2>2. left = [managed EXCEPT ![h] = session] BY <1>3, <2>1
    <2> HIDE DEF host
    <2> QED BY <1>1, <2>1, <2>2, SessionReplaced
  <1>8. \A t \in 1..Len(managed) :
          /\ left[t].subscribers = managed[t].subscribers \ (IF t = host THEN {s} ELSE {})
          /\ left[t].cache = managed[t].cache /\ left[t].torndown = managed[t].torndown
    BY <1>2, <1>7
  <1>9. Len(after.managed) = Len(left) /\ after.subs = rest.subs
        /\ \A t \in 1..Len(left) : /\ after.managed[t].subscribers = left[t].subscribers
                                   /\ after.managed[t].cache = left[t].cache
                                   /\ left[t].torndown => after.managed[t].torndown
    <2>1. CASE after = rest BY <1>5, <2>1
    <2>2. CASE left[host].subscribers = {} /\ after = TornDown(host, NoError, rest)
      <3>1. rest.subs = [t \in Subscriptions |-> rest.subs[t]] BY <1>5 DEF DeliveryInv, DeliveryTyped
      <3>2. host \in 1..Len(rest.managed) /\ rest.managed \in Seq(Sessions) /\ rest.managed[host].subscribers = {}
        BY <1>1, <1>5, <1>7, <2>2
      <3> HIDE DEF host
      <3>3. /\ after.subs = rest.subs /\ Len(after.managed) = Len(rest.managed)
            /\ \A t \in 1..Len(rest.managed) : /\ after.managed[t].subscribers = rest.managed[t].subscribers
                                               /\ after.managed[t].cache = rest.managed[t].cache
                                               /\ rest.managed[t].torndown => after.managed[t].torndown
        BY <3>1, <3>2, <2>2, TornDownUntold
      <3> QED BY <3>3, <1>5
    <2> QED BY <1>6, <2>1, <2>2
  <1> HIDE DEF host
  <1>10. Leaves(after, s, own) BY <1>5, <1>7, <1>8, <1>9 DEF Leaves, over, host
  <1> QED BY <1>1, <1>10 DEF host

(* A disposal, by its consumer or as its iterator ends. *)
LEMMA LeavingDelivers ==
  ASSUME PoolInv, DeliveryInv, NEW s \in Subscriptions, NEW own \in BOOLEAN, subs[s].host # NoSession,
         ~subs[s].disposed, Becomes(Disposed(s, own, PoolState)), UNCHANGED fanned,
         NEW to \in Drains, drains' = [drains EXCEPT ![s] = to], to.delivered = drains[s].delivered, to.at # "parked",
         (to.at = "ended" /\ to.ending # "broke") \/ ~own => subs[s].queue = <<>>
  PROVE  DeliveryInv'
  <1> DEFINE host == subs[s].host
             over == OverOf(subs[s], own)
  <1>1. host \in 1..Len(managed) /\ Leaves(Disposed(s, own, PoolState), s, own) BY DisposedLeaves
  <1>2. /\ subs' = [subs EXCEPT ![s] = over] /\ Len(managed') = Len(managed)
        /\ \A h \in 1..Len(managed) :
             /\ managed'[h].subscribers = managed[h].subscribers \ (IF h = host THEN {s} ELSE {})
             /\ managed'[h].cache = managed[h].cache
             /\ managed[h].torndown => managed'[h].torndown
    BY <1>1 DEF Becomes, Leaves
  <1>3. \A t \in Subscriptions : /\ subs'[t] = IF t = s THEN over ELSE subs[t]
                                 /\ drains'[t] = IF t = s THEN to ELSE drains[t]
    BY <1>2 DEF DeliveryInv, DeliveryTyped
  <1>4. SubFits(subs[s], drains[s], fanned[host], managed[host]) /\ fanned[host] \in Seq(Segments)
    BY <1>1, PoolReads DEF DeliveryInv, SubsFit
  <1>5. SubFits(over, to, fanned[host], managed'[host])
    <2> PICK all \in Seq(Segments) : all = fanned[host] BY <1>4
    <2>1. PICK sub, drain, session, later :
            /\ all = fanned[host] /\ sub = subs[s] /\ drain = drains[s]
            /\ session = managed[host] /\ later = managed'[host]
      OBVIOUS
    <2>2. over = OverAt(sub, own, Len(all))
      BY <2>1 DEF OverOf
    <2> HIDE DEF over
    <2>3. /\ SubFits(sub, drain, all, session) /\ ~sub.disposed /\ to.delivered = drain.delivered
          /\ (to.at = "ended" /\ to.ending # "broke") \/ ~own => sub.queue = <<>>
      BY <1>4, <2>1
    <2>4. SubFits(over, to, all, later) BY <2>2, <2>3, OverFits
    <2> QED BY <2>1, <2>4
  <1>6. over \in Subs /\ over.disposed /\ over.host = host
    <2>1. subs[s] \in Subs BY DEF DeliveryInv, DeliveryTyped
    <2>2. over \in Subs BY <1>5 DEF SubFits
    <2> QED BY <2>1, <2>2 DEF OverOf, OverAt, Subs
  <1>7. host # NoSession /\ host # Detached BY <1>1, PoolReads
  <1> HIDE DEF over, host
  <1>8. DeliveryTyped'
    <2>1. subs' \in [Subscriptions -> Subs] /\ drains' \in [Subscriptions -> Drains]
      BY <1>2, <1>6 DEF DeliveryInv, DeliveryTyped
    <2> QED BY <1>1, <1>2, <1>3, <1>6, <1>7, <2>1 DEF DeliveryInv, DeliveryTyped
  <1>9. MembersFit'
    <2> SUFFICES ASSUME NEW h \in 1..Len(managed), NEW t \in Subscriptions
                 PROVE  t \in managed'[h].subscribers <=> subs'[t].host = h /\ ~subs'[t].disposed
      BY <1>2 DEF MembersFit
    <2>1. t \in managed[h].subscribers <=> subs[t].host = h /\ ~subs[t].disposed BY DEF DeliveryInv, MembersFit
    <2>2. CASE t = s
      <3>1. t \in managed[h].subscribers => h = host BY <2>1, <2>2 DEF host
      <3> QED BY <3>1, <2>2, <1>2, <1>3, <1>6
    <2>3. CASE t # s BY <2>1, <2>3, <1>2, <1>3
    <2> QED BY <2>2, <2>3
  <1>10. SubsFit'
    <2> SUFFICES ASSUME NEW t \in Subscriptions, subs'[t].host \in 1..Len(managed)
                 PROVE  SubFits(subs'[t], drains'[t], fanned[subs'[t].host], managed'[subs'[t].host])
      BY <1>2 DEF SubsFit
    <2>1. CASE t = s BY <2>1, <1>3, <1>5, <1>6
    <2>2. CASE t # s
      <3>1. subs'[t] = subs[t] /\ drains'[t] = drains[t] /\ subs[t].host \in 1..Len(managed) BY <2>2, <1>3
      <3>2. SubFits(subs[t], drains[t], fanned[subs[t].host], managed[subs[t].host])
        BY <3>1 DEF DeliveryInv, SubsFit
      <3>3. managed[subs[t].host].torndown => managed'[subs[t].host].torndown BY <3>1, <1>2
      <3> QED BY <3>1, <3>2, <3>3, SessionLater
    <2> QED BY <2>1, <2>2
  <1>11. CachesFit' BY <1>2 DEF DeliveryInv, CachesFit, CacheFits
  <1> QED BY <1>8, <1>9, <1>10, <1>11 DEF DeliveryInv

LEMMA SubscribeAbortedDelivers ==
  ASSUME PoolInv, DeliveryInv, NEW s \in Subscriptions, SubscribeAborted(s)
  PROVE  DeliveryInv'
  <1> DEFINE sub == [subs[s] EXCEPT !.host = Detached, !.disposed = TRUE, !.done = TRUE]
  <1>1. subs[s] \in Subs /\ subs[s].host = NoSession /\ drains[s] = NotIterated
    BY DEF SubscribeAborted, Held, DeliveryInv, DeliveryTyped
  <1>2. sub \in Subs /\ sub.host = Detached /\ sub.disposed /\ sub.done BY <1>1 DEF Subs
  <1>3. subs' = [subs EXCEPT ![s] = sub] /\ UNCHANGED <<pool, managed, fanned, drains>> BY DEF SubscribeAborted
  <1> HIDE DEF sub
  <1>4. \A t \in Subscriptions : subs'[t] = IF t = s THEN sub ELSE subs[t]
    BY <1>3 DEF DeliveryInv, DeliveryTyped
  <1>5. Detached # NoSession /\ Detached \notin 1..Len(managed) /\ NoSession \notin 1..Len(managed)
    BY SessionAssumption, PoolReads
  <1>6. NotIterated.at # "parked" BY DEF NotIterated
  <1>7. DeliveryTyped'
    <2>1. subs' \in [Subscriptions -> Subs] BY <1>2, <1>3 DEF DeliveryInv, DeliveryTyped
    <2> QED BY <1>1, <1>2, <1>3, <1>4, <1>5, <1>6, <2>1 DEF DeliveryInv, DeliveryTyped
  <1>8. MembersFit' BY <1>1, <1>2, <1>3, <1>4, <1>5 DEF DeliveryInv, MembersFit
  <1>9. SubsFit' BY <1>2, <1>3, <1>4, <1>5 DEF DeliveryInv, SubsFit
  <1>10. CachesFit' BY <1>3 DEF DeliveryInv, CachesFit
  <1> QED BY <1>7, <1>8, <1>9, <1>10 DEF DeliveryInv

LEMMA SubscribeDelivers ==
  ASSUME PoolInv, DeliveryInv, NEW s \in Subscriptions, NEW k \in StreamKeys, NEW discards \in BOOLEAN,
         Subscribe(s, k, discards)
  PROVE  DeliveryInv'
  <1> DEFINE joins == pool[k] # NoSession
             host == IF joins THEN pool[k] ELSE Len(managed) + 1
             all == IF joins THEN managed ELSE Append(managed, Session(k))
             one == [all[host] EXCEPT !.subscribers = @ \cup {s}]
             sub == Attached(s, discards, host, Len(fanned'[host]), all[host].cache)
  <1>1. /\ managed' = [all EXCEPT ![host] = one] /\ subs' = [subs EXCEPT ![s] = sub]
        /\ fanned' = IF joins THEN fanned ELSE Append(fanned, <<>>)
        /\ ~Held(s) /\ drains' = drains
    BY DEF Subscribe
  <1>2. subs[s].host = NoSession /\ drains[s] = NotIterated
    BY <1>1 DEF Held, DeliveryInv, DeliveryTyped
  <1>3. /\ Session(k) \in Sessions /\ Session(k).subscribers = {} /\ Session(k).cache = NoError
        /\ <<>> \in Seq(Segments) /\ Len(<<>>) = 0
    BY EmptySeq DEF Session, Sessions
  <1>4. /\ all \in Seq(Sessions) /\ host \in 1..Len(all) /\ Len(all) \in Nat /\ Len(managed) <= Len(all)
        /\ \A h \in 1..Len(managed) : all[h] = managed[h] /\ fanned'[h] = fanned[h]
        /\ \A h \in 1..Len(all) : h \notin 1..Len(managed) =>
             h = host /\ all[h].subscribers = {} /\ all[h].cache = NoError /\ fanned'[h] = <<>>
    <2>1. CASE joins
      <3>1. pool[k] \in 1..Len(managed) BY <2>1 DEF PoolInv, MapFits
      <3> QED BY <2>1, <3>1, <1>1, PoolReads
    <2>2. CASE ~joins
      <3> DEFINE n == Len(managed)
      <3>1. managed \in Seq(Sessions) /\ fanned \in Seq(Seq(Segments)) /\ n \in Nat /\ Len(fanned) = n BY PoolReads
      <3>2. all = Append(managed, Session(k)) /\ fanned' = Append(fanned, <<>>) /\ host = n + 1 BY <1>1, <2>2
      <3>3. /\ all \in Seq(Sessions) /\ Len(all) = n + 1 /\ all[n + 1] = Session(k)
            /\ \A h \in 1..n : all[h] = managed[h]
        BY <1>3, <3>1, <3>2, AppendProperties
      <3>4. fanned'[n + 1] = <<>> /\ \A h \in 1..n : fanned'[h] = fanned[h] BY <1>3, <3>1, <3>2, AppendProperties
      <3> HIDE DEF n, all, host
      <3>5. \A h \in 1..n + 1 : h \notin 1..n => h = n + 1 BY <3>1
      <3>6. host \in 1..n + 1 /\ n <= n + 1 /\ n + 1 \in Nat BY <3>1, <3>2
      <3> QED BY <1>3, <3>2, <3>3, <3>4, <3>5, <3>6 DEF n
    <2> QED BY <2>1, <2>2
  <1>5. all[host] \in Sessions BY <1>4, ElementOfSeq
  <1>6. one \in Sessions /\ one.subscribers = all[host].subscribers \cup {s} /\ one.cache = all[host].cache
        /\ one.torndown = all[host].torndown
    BY <1>5 DEF Sessions
  <1>7. fanned'[host] \in Seq(Segments) BY <1>3, <1>4, PoolReads
  <1>8. CacheFits(all[host], fanned'[host])
    <2>1. CASE host \in 1..Len(managed) BY <2>1, <1>4 DEF DeliveryInv, CachesFit
    <2>2. CASE host \notin 1..Len(managed)
      <3>1. fanned'[host] = <<>> /\ all[host].cache = NoError BY <2>2, <1>4
      <3>2. Replayed(<<>>, 0) = <<>> BY DEF Replayed, LastInits
      <3> QED BY <1>3, <3>1, <3>2 DEF CacheFits
    <2> QED BY <2>1, <2>2
  <1>9. SubFits(sub, NotIterated, fanned'[host], one) /\ sub.host = host /\ ~sub.disposed
    <2> PICK n \in Nat, fan \in Seq(Segments) : n = host /\ fan = fanned'[host] BY <1>4, <1>7
    <2>1. PICK session :
            n = host /\ fan = fanned'[host] /\ session = all[host] /\ session.cache \in Segments \cup {NoError}
      BY <1>5 DEF Sessions
    <2>2. sub = Attached(s, discards, n, Len(fan), session.cache) BY <2>1
    <2>3. CacheFits(session, fan) BY <1>8, <2>1
    <2> HIDE DEF sub, host, all, one
    <2>4. SubFits(sub, NotIterated, fan, session) /\ sub.host = n /\ ~sub.disposed
      <3> DEFINE new == Attached(s, discards, n, Len(fan), session.cache)
      <3>1. Joined(new, n, fan, session) BY <2>1, <2>3, AttachedFits
      <3>2. sub = new BY <2>2
      <3> HIDE DEF new
      <3> QED BY <3>1, <3>2 DEF Joined
    <2>5. session.torndown => one.torndown BY <1>6, <2>1
    <2>6. SubFits(sub, NotIterated, fan, one) BY <2>4, <2>5, SessionLater
    <2> QED BY <2>1, <2>4, <2>6
  <1> HIDE DEF joins, host, all, one, sub
  <1>10. /\ Len(managed') = Len(all)
         /\ \A h \in 1..Len(all) : managed'[h] = IF h = host THEN one ELSE all[h]
    BY <1>1, <1>4, <1>6, SessionReplaced
  <1>11. \A t \in Subscriptions : subs'[t] = IF t = s THEN sub ELSE subs[t]
    BY <1>1 DEF DeliveryInv, DeliveryTyped
  <1>12. NoSession \notin 1..Len(all) /\ Detached \notin 1..Len(all) BY <1>4, SessionAssumption
  <1>13. Len(managed) \in Nat /\ \A h \in 1..Len(managed) : h \in 1..Len(all) BY <1>4, PoolReads
  <1>14. sub \in Subs BY <1>9 DEF SubFits
  <1>15. DeliveryTyped'
    <2>1. subs' \in [Subscriptions -> Subs] BY <1>1, <1>14 DEF DeliveryInv, DeliveryTyped
    <2>2. \A t \in Subscriptions : subs'[t].host \in (1..Len(all)) \cup {NoSession, Detached}
      BY <1>4, <1>9, <1>11, <1>13 DEF DeliveryInv, DeliveryTyped
    <2> QED BY <1>1, <1>4, <1>9, <1>10, <1>11, <1>12, <2>1, <2>2 DEF DeliveryInv, DeliveryTyped
  <1>16. MembersFit'
    <2> SUFFICES ASSUME NEW h \in 1..Len(all), NEW t \in Subscriptions
                 PROVE  t \in managed'[h].subscribers <=> subs'[t].host = h /\ ~subs'[t].disposed
      BY <1>10 DEF MembersFit
    <2>1. t \in all[h].subscribers <=> subs[t].host = h /\ ~subs[t].disposed
      <3>1. CASE h \in 1..Len(managed) BY <3>1, <1>4 DEF DeliveryInv, MembersFit
      <3>2. CASE h \notin 1..Len(managed)
        <4>1. subs[t].host # h BY <3>2, <1>12 DEF DeliveryInv, DeliveryTyped
        <4> QED BY <3>2, <4>1, <1>4
      <3> QED BY <3>1, <3>2
    <2>2. CASE t = s
      <3>1. t \notin all[h].subscribers BY <2>1, <2>2, <1>2, <1>12
      <3> QED BY <3>1, <2>2, <1>6, <1>9, <1>10, <1>11
    <2>3. CASE t # s BY <2>1, <2>3, <1>6, <1>10, <1>11
    <2> QED BY <2>2, <2>3
  <1>17. SubsFit'
    <2> SUFFICES ASSUME NEW t \in Subscriptions, subs'[t].host \in 1..Len(all)
                 PROVE  SubFits(subs'[t], drains'[t], fanned'[subs'[t].host], managed'[subs'[t].host])
      BY <1>10 DEF SubsFit
    <2>1. CASE t = s
      <3>1. subs'[t] = sub /\ drains'[t] = NotIterated /\ sub.host = host BY <2>1, <1>1, <1>2, <1>9, <1>11
      <3>2. managed'[host] = one BY <1>4, <1>10
      <3> QED BY <3>1, <3>2, <1>9
    <2>2. CASE t # s
      <3>1. PICK h : h = subs[t].host /\ subs'[t] = subs[t] /\ h \in 1..Len(managed)
        BY <2>2, <1>11, <1>12 DEF DeliveryInv, DeliveryTyped
      <3>2. SubFits(subs[t], drains[t], fanned[h], managed[h]) BY <3>1 DEF DeliveryInv, SubsFit
      <3>3. managed[h].torndown => managed'[h].torndown BY <3>1, <1>4, <1>6, <1>10, <1>13
      <3>4. SubFits(subs[t], drains[t], fanned[h], managed'[h]) BY <3>2, <3>3, SessionLater
      <3> QED BY <3>1, <3>4, <1>1, <1>4
    <2> QED BY <2>1, <2>2
  <1>18. CachesFit'
    <2> SUFFICES ASSUME NEW h \in 1..Len(all) PROVE CacheFits(managed'[h], fanned'[h]) BY <1>10 DEF CachesFit
    <2>1. managed'[h].cache = all[h].cache BY <1>6, <1>10
    <2>2. CASE h = host BY <2>1, <2>2, <1>8 DEF CacheFits
    <2>3. CASE h # host
      <3>1. h \in 1..Len(managed) BY <2>3, <1>4
      <3> QED BY <2>1, <3>1, <1>4 DEF DeliveryInv, CachesFit, CacheFits
    <2> QED BY <2>2, <2>3
  <1> QED BY <1>15, <1>16, <1>17, <1>18 DEF DeliveryInv

LEMMA FansOutDelivers ==
  ASSUME PoolInv, DeliveryInv, NEW h \in DOMAIN managed, NEW type \in {"init", "media"}, FansOut(h, type)
  PROVE  DeliveryInv'
  <1> DEFINE x == [type |-> type, at |-> Len(fanned[h]) + 1]
             to == managed[h].subscribers
             one == [managed[h] EXCEPT !.cache = IF type = "init" THEN x ELSE @]
             all == fanned[h]
             more == Append(all, x)
  <1>1. /\ h \in 1..Len(managed) /\ managed[h] \in Sessions /\ all \in Seq(Segments) /\ Len(all) \in Nat
        /\ managed \in Seq(Sessions) /\ fanned \in Seq(Seq(Segments)) /\ Len(fanned) = Len(managed)
    BY PoolReads, LenProperties
  <1>2. x \in Segments /\ x.type = type BY <1>1 DEF Segments
  <1>3. /\ ~managed[h].torndown /\ fanned' = [fanned EXCEPT ![h] = more] /\ managed' = [managed EXCEPT ![h] = one]
        /\ subs' = [t \in Subscriptions |-> IF t \in to THEN Push(subs[t], x) ELSE subs[t]]
        /\ drains' = [t \in Subscriptions |-> IF t \in {r \in to : ~subs[r].done} THEN Woken(drains[t]) ELSE drains[t]]
    BY DEF FansOut, Wakes
  <1>4. /\ one \in Sessions /\ one.subscribers = to /\ one.torndown = managed[h].torndown
        /\ one.cache = IF type = "init" THEN x ELSE managed[h].cache
    BY <1>1, <1>2 DEF Sessions
  <1> HIDE DEF x, one
  <1>5. more \in Seq(Segments) /\ Len(more) = Len(all) + 1 /\ more[Len(all) + 1] = x
        /\ \A i \in 1..Len(all) : more[i] = all[i]
    BY <1>1, <1>2, AppendProperties
  <1>6. Len(managed') = Len(managed) /\ \A g \in 1..Len(managed) : managed'[g] = IF g = h THEN one ELSE managed[g]
    BY <1>1, <1>3, <1>4, SessionReplaced
  <1>7. \A g \in 1..Len(managed) : fanned'[g] = IF g = h THEN more ELSE fanned[g]
    <2> HIDE DEF more
    <2> QED BY <1>1, <1>3, <1>5, ExceptSeq
  <1>8. \A t \in Subscriptions : t \in to <=> subs[t].host = h /\ ~subs[t].disposed
    BY <1>1 DEF DeliveryInv, MembersFit
  <1>9. ASSUME NEW t \in Subscriptions, t \in to
        PROVE  /\ SubFits(subs'[t], drains'[t], more, one) /\ subs'[t].host = h /\ ~subs'[t].disposed
               /\ drains'[t] \in Drains
    <2>1. subs[t].host = h /\ ~subs[t].disposed BY <1>8, <1>9
    <2>2. SubFits(subs[t], drains[t], all, managed[h]) BY <1>1, <2>1 DEF DeliveryInv, SubsFit
    <2>3. PICK sub, drain, session : sub = subs[t] /\ drain = drains[t] /\ session = managed[h] OBVIOUS
    <2>4. ~sub.done /\ SubFits(Push(sub, x), Woken(drain), more, one)
      <3>1. SubFits(sub, drain, all, session) /\ ~session.torndown /\ ~sub.disposed BY <1>3, <2>1, <2>2, <2>3
      <3> HIDE DEF all
      <3> QED BY <1>1, <1>2, <3>1, PushFits
    <2>5. subs'[t] = Push(sub, x) /\ drains'[t] = Woken(drain) BY <1>3, <1>9, <2>3, <2>4
    <2>6. sub \in Subs /\ Push(sub, x) \in Subs BY <2>2, <2>3, <2>4 DEF SubFits
    <2>7. Push(sub, x).host = sub.host /\ Push(sub, x).disposed = sub.disposed BY <2>4, <2>6 DEF Push, Subs
    <2> QED BY <2>1, <2>3, <2>4, <2>5, <2>7 DEF SubFits
  <1>10. \A t \in Subscriptions : t \notin to => subs'[t] = subs[t] /\ drains'[t] = drains[t] BY <1>3
  <1>11. h # NoSession /\ h # Detached BY <1>1, PoolReads
  <1> HIDE DEF more, to, all
  <1>12. DeliveryTyped'
    <2>1. \A t \in Subscriptions : subs'[t] \in Subs /\ drains'[t] \in Drains /\ subs'[t].host = subs[t].host
      <3> SUFFICES ASSUME NEW t \in Subscriptions
                   PROVE  subs'[t] \in Subs /\ drains'[t] \in Drains /\ subs'[t].host = subs[t].host
        OBVIOUS
      <3>1. CASE t \in to BY <3>1, <1>8, <1>9 DEF SubFits
      <3>2. CASE t \notin to BY <3>2, <1>10 DEF DeliveryInv, DeliveryTyped
      <3> QED BY <3>1, <3>2
    <2>2. subs' \in [Subscriptions -> Subs] /\ drains' \in [Subscriptions -> Drains] BY <1>3, <2>1
    <2>3. ASSUME NEW t \in Subscriptions, subs'[t].host \in {NoSession, Detached}
          PROVE  subs'[t] = subs[t] /\ drains'[t] = drains[t]
      BY <2>1, <2>3, <1>8, <1>10, <1>11
    <2> QED BY <1>6, <2>1, <2>2, <2>3 DEF DeliveryInv, DeliveryTyped
  <1>13. MembersFit'
    <2> SUFFICES ASSUME NEW g \in 1..Len(managed), NEW t \in Subscriptions
                 PROVE  t \in managed'[g].subscribers <=> subs'[t].host = g /\ ~subs'[t].disposed
      BY <1>6 DEF MembersFit
    <2>1. managed'[g].subscribers = managed[g].subscribers BY <1>4, <1>6 DEF to
    <2>2. t \in managed[g].subscribers <=> subs[t].host = g /\ ~subs[t].disposed BY DEF DeliveryInv, MembersFit
    <2>3. CASE t \in to BY <2>1, <2>2, <2>3, <1>8, <1>9
    <2>4. CASE t \notin to BY <2>1, <2>2, <2>4, <1>10
    <2> QED BY <2>3, <2>4
  <1>14. SubsFit'
    <2> SUFFICES ASSUME NEW t \in Subscriptions, subs'[t].host \in 1..Len(managed)
                 PROVE  SubFits(subs'[t], drains'[t], fanned'[subs'[t].host], managed'[subs'[t].host])
      BY <1>6 DEF SubsFit
    <2>1. CASE t \in to BY <2>1, <1>1, <1>6, <1>7, <1>9
    <2>2. CASE t \notin to
      <3>1. PICK g \in 1..Len(managed) : g = subs[t].host /\ subs'[t] = subs[t] /\ drains'[t] = drains[t]
        BY <2>2, <1>10
      <3>2. SubFits(subs[t], drains[t], fanned[g], managed[g]) BY <3>1 DEF DeliveryInv, SubsFit
      <3>3. CASE g = h
        <4>1. subs[t].disposed BY <3>1, <3>3, <2>2, <1>8
        <4>2. SubFits(subs[t], drains[t], all, managed[h]) BY <3>2, <3>3 DEF all
        <4>3. SubFits(subs[t], drains[t], more, one) BY <4>1, <4>2, <1>1, <1>2, PassedFits DEF more
        <4> QED BY <3>1, <3>3, <4>3, <1>6, <1>7
      <3>4. CASE g # h BY <3>1, <3>2, <3>4, <1>6, <1>7
      <3> QED BY <3>3, <3>4
    <2> QED BY <2>1, <2>2
  <1>15. CachesFit'
    <2> SUFFICES ASSUME NEW g \in 1..Len(managed) PROVE CacheFits(managed'[g], fanned'[g]) BY <1>6 DEF CachesFit
    <2>1. CASE g = h
      <3>1. Replayed(all, Len(all)) = IF managed[h].cache = NoError THEN <<>> ELSE <<managed[h].cache>>
        BY <1>1 DEF DeliveryInv, CachesFit, CacheFits, all
      <3>2. Replayed(more, Len(all)) = Replayed(all, Len(all)) BY <1>1, <1>5, ReplayedStays
      <3>3. Replayed(more, Len(all) + 1) = IF x.type = "init" THEN <<x>> ELSE Replayed(more, Len(all))
        <4>1. PICK n \in Nat : n = Len(all) BY <1>1
        <4>2. Replayed(more, n + 1) = IF more[n + 1].type = "init" THEN <<more[n + 1]>> ELSE Replayed(more, n)
          BY ReplayedNext
        <4> QED BY <1>5, <4>1, <4>2
      <3>4. x # NoError BY <1>2, ErrorAssumption
      <3>5. CacheFits(one, more) BY <1>2, <1>4, <1>5, <3>1, <3>2, <3>3, <3>4 DEF CacheFits
      <3> QED BY <2>1, <3>5, <1>6, <1>7
    <2>2. CASE g # h BY <2>2, <1>6, <1>7 DEF DeliveryInv, CachesFit
    <2> QED BY <2>1, <2>2
  <1> QED BY <1>12, <1>13, <1>14, <1>15 DEF DeliveryInv

(* Sessions end, and all their subscribers are told. *)
SessionsEnd ==
  /\ UNCHANGED fanned /\ Len(managed') = Len(managed)
  /\ \A h \in 1..Len(managed) : /\ managed'[h].subscribers = managed[h].subscribers
                                /\ managed'[h].cache = managed[h].cache
                                /\ managed[h].torndown => managed'[h].torndown

OthersUntold(to) ==
  /\ subs' = [t \in Subscriptions |-> subs'[t]] /\ drains' = [t \in Subscriptions |-> drains'[t]]
  /\ \A t \in Subscriptions : t \notin to => subs'[t] = subs[t] /\ drains'[t] = drains[t]

Told(to) ==
  \A t \in Subscriptions : t \in to =>
    /\ subs[t].host \in 1..Len(managed) /\ subs'[t].host = subs[t].host /\ subs'[t].disposed = subs[t].disposed
    /\ SubFits(subs'[t], drains'[t], fanned[subs[t].host], managed'[subs[t].host])

LEMMA EndedDelivers ==
  ASSUME PoolInv, DeliveryInv, NEW to, SessionsEnd, OthersUntold(to), Told(to)
  PROVE  DeliveryInv'
  <1> USE DEF SessionsEnd, OthersUntold, Told
  <1>1. \A t \in Subscriptions : subs'[t].host = subs[t].host /\ subs'[t].disposed = subs[t].disposed OBVIOUS
  <1>2. \A t \in Subscriptions : subs'[t] \in Subs /\ drains'[t] \in Drains
    BY DEF DeliveryInv, DeliveryTyped, SubFits
  <1>3. \A t \in Subscriptions : subs[t].host \in {NoSession, Detached} => t \notin to BY PoolReads
  <1>4. DeliveryTyped'
    <2>1. subs' \in [Subscriptions -> Subs] /\ drains' \in [Subscriptions -> Drains] BY <1>2
    <2> QED BY <1>1, <1>3, <2>1 DEF DeliveryInv, DeliveryTyped
  <1>5. MembersFit' BY <1>1 DEF DeliveryInv, MembersFit
  <1>6. SubsFit'
    <2> SUFFICES ASSUME NEW t \in Subscriptions, subs'[t].host \in 1..Len(managed)
                 PROVE  SubFits(subs'[t], drains'[t], fanned[subs'[t].host], managed'[subs'[t].host])
      BY DEF SubsFit
    <2>1. CASE t \in to BY <2>1, <1>1
    <2>2. CASE t \notin to
      <3>1. SubFits(subs[t], drains[t], fanned[subs[t].host], managed[subs[t].host]) /\ subs[t].host \in 1..Len(managed)
        BY <1>1 DEF DeliveryInv, SubsFit
      <3>2. SubFits(subs[t], drains[t], fanned[subs[t].host], managed'[subs[t].host]) BY <3>1, SessionLater
      <3> QED BY <3>2, <2>2
    <2> QED BY <2>1, <2>2
  <1>7. CachesFit' BY DEF DeliveryInv, CachesFit, CacheFits
  <1> QED BY <1>4, <1>5, <1>6, <1>7 DEF DeliveryInv

LEMMA SessionFailsDelivers ==
  ASSUME PoolInv, DeliveryInv, NEW h \in DOMAIN managed, NEW error \in Failures, SessionFails(h, error)
  PROVE  DeliveryInv'
  <1> DEFINE to == managed[h].subscribers
             ended == [managed[h] EXCEPT !.torndown = TRUE]
             Ends(sub) == IF error = NoError THEN Close(sub) ELSE Fail(sub, error)
  <1>1. h \in 1..Len(managed) /\ managed[h] \in Sessions /\ managed \in Seq(Sessions) /\ ~managed[h].torndown
    BY PoolReads DEF SessionFails
  <1>2. PoolState.managed = managed /\ PoolState.pool = pool /\ PoolState.subs = subs BY DEF PoolState
  <1>3. /\ managed' = [managed EXCEPT ![h] = ended]
        /\ subs' = [t \in Subscriptions |-> IF t \in to THEN Ends(subs[t]) ELSE subs[t]]
        /\ drains' = [t \in Subscriptions |-> IF t \in to THEN Woken(drains[t]) ELSE drains[t]]
        /\ fanned' = fanned
    BY <1>1, <1>2 DEF SessionFails, Becomes, TornDown, Wakes
  <1>4. ended \in Sessions /\ ended.subscribers = to /\ ended.cache = managed[h].cache /\ ended.torndown
    BY <1>1 DEF Sessions
  <1>5. Len(managed') = Len(managed) /\ \A g \in 1..Len(managed) : managed'[g] = IF g = h THEN ended ELSE managed[g]
    <2> HIDE DEF ended
    <2> QED BY <1>1, <1>3, <1>4, SessionReplaced
  <1>6. ASSUME NEW t \in Subscriptions, t \in to
        PROVE  SubFits(subs'[t], drains'[t], fanned[h], ended) /\ subs'[t].host = h /\ ~subs'[t].disposed
    <2>1. subs[t].host = h /\ ~subs[t].disposed BY <1>1, <1>6 DEF DeliveryInv, MembersFit
    <2>2. SubFits(subs[t], drains[t], fanned[h], managed[h]) BY <1>1, <2>1 DEF DeliveryInv, SubsFit
    <2>3. subs'[t] = Ends(subs[t]) /\ drains'[t] = Woken(drains[t]) BY <1>3, <1>6
    <2>4. SubFits(Ends(subs[t]), Woken(drains[t]), fanned[h], ended)
      <3> HIDE DEF ended
      <3>1. CASE error = NoError BY <3>1, <1>4, <2>2, CloseFits
      <3>2. CASE error # NoError BY <3>2, <1>4, <2>2, FailFits
      <3> QED BY <3>1, <3>2
    <2>5. subs[t] \in Subs BY <2>2 DEF SubFits
    <2>6. Ends(subs[t]).host = subs[t].host /\ Ends(subs[t]).disposed = subs[t].disposed
      BY <2>5 DEF Close, Fail, Subs
    <2> HIDE DEF Ends
    <2> QED BY <2>1, <2>3, <2>4, <2>6
  <1>7. \A t \in Subscriptions : t \notin to => subs'[t] = subs[t] /\ drains'[t] = drains[t] BY <1>3
  <1> HIDE DEF ended
  <1>8. \A t \in Subscriptions : t \in to =>
          /\ subs[t].host \in 1..Len(managed) /\ subs'[t].host = subs[t].host /\ subs'[t].disposed = subs[t].disposed
          /\ SubFits(subs'[t], drains'[t], fanned[subs[t].host], managed'[subs[t].host])
    <2> SUFFICES ASSUME NEW t \in Subscriptions, t \in to
                 PROVE  /\ subs[t].host \in 1..Len(managed) /\ subs'[t].host = subs[t].host
                        /\ subs'[t].disposed = subs[t].disposed
                        /\ SubFits(subs'[t], drains'[t], fanned[subs[t].host], managed'[subs[t].host])
      OBVIOUS
    <2>1. subs[t].host = h /\ ~subs[t].disposed BY <1>1 DEF DeliveryInv, MembersFit
    <2>2. subs[t] \in Subs /\ subs'[t] \in Subs BY <1>6 DEF DeliveryInv, DeliveryTyped, SubFits
    <2>3. subs[t].disposed = subs'[t].disposed BY <1>6, <2>1, <2>2 DEF Subs
    <2> QED BY <2>1, <2>3, <1>1, <1>5, <1>6
  <1>9. /\ subs' = [t \in Subscriptions |-> subs'[t]] /\ drains' = [t \in Subscriptions |-> drains'[t]]
    BY <1>3
  <1>10. \A g \in 1..Len(managed) :
           /\ managed'[g].subscribers = managed[g].subscribers /\ managed'[g].cache = managed[g].cache
           /\ managed[g].torndown => managed'[g].torndown
    BY <1>4, <1>5
  <1> HIDE DEF to
  <1>11. SessionsEnd BY <1>3, <1>5, <1>10 DEF SessionsEnd
  <1>12. OthersUntold(to) BY <1>7, <1>9 DEF OthersUntold
  <1>13. Told(to) BY <1>8 DEF Told
  <1> QED BY <1>11, <1>12, <1>13, EndedDelivers

LEMMA DisposeDelivers ==
  ASSUME PoolInv, DeliveryInv, NEW s \in Subscriptions, DisposeSubscription(s)
  PROVE  DeliveryInv'
  <1> DEFINE to == Woken(drains[s])
  <1>1. /\ subs[s].host # NoSession /\ ~subs[s].disposed /\ Becomes(Disposed(s, TRUE, PoolState)) /\ UNCHANGED fanned
        /\ drains' = [t \in Subscriptions |-> IF t \in {s} THEN Woken(drains[t]) ELSE drains[t]]
    BY DEF DisposeSubscription, Held, Wakes
  <1>2. drains \in [Subscriptions -> Drains] BY DEF DeliveryInv, DeliveryTyped
  <1>3. drains' = [drains EXCEPT ![s] = to] BY <1>1, <1>2
  <1>4. /\ to \in Drains /\ to.delivered = drains[s].delivered /\ to.at # "parked"
        /\ to.at = "ended" => drains[s].at = "ended"
    BY <1>2, WokenReads
  <1>5. subs[s].host \in 1..Len(managed) BY <1>1 DEF DeliveryInv, DeliveryTyped
  <1>6. drains[s].at # "ended" BY <1>1, <1>5 DEF DeliveryInv, SubsFit, SubFits, DrainFits
  <1> HIDE DEF to
  <1>7. to.at # "ended" BY <1>4, <1>6
  <1> QED BY <1>1, <1>3, <1>4, <1>7, LeavingDelivers

(* An iterator's end: the disposal of what is not disposed yet. *)
LEMMA EndedLeaves ==
  ASSUME PoolInv, DeliveryInv, NEW s \in Subscriptions, NEW how \in Failures \cup {"done", "broke"}, Ended(s, how),
         UNCHANGED fanned, subs[s].host # NoSession, drains[s].at # "ended", how # "broke" => subs[s].queue = <<>>
  PROVE  DeliveryInv'
  <1> DEFINE to == [drains[s] EXCEPT !.at = "ended", !.ending = how]
             own == how = "broke"
  <1>1. drains' = [drains EXCEPT ![s] = to] /\ Becomes(Disposed(s, own, PoolState)) BY DEF Ended
  <1>2. drains[s] \in Drains /\ subs[s] \in Subs BY DEF DeliveryInv, DeliveryTyped
  <1>3. to \in Drains /\ to.at = "ended" /\ to.ending = how /\ to.delivered = drains[s].delivered BY <1>2 DEF Drains
  <1>4. CASE ~subs[s].disposed
    <2>1. PICK mine \in BOOLEAN : mine = own OBVIOUS
    <2>2. Becomes(Disposed(s, mine, PoolState)) BY <1>1, <2>1
    <2>3. (to.at = "ended" /\ to.ending # "broke") \/ ~mine => subs[s].queue = <<>> BY <1>3, <2>1
    <2> HIDE DEF to, own
    <2> QED BY <1>1, <1>3, <1>4, <2>2, <2>3, LeavingDelivers
  <1>5. CASE subs[s].disposed
    <2>1. PoolState.managed = managed /\ PoolState.pool = pool /\ PoolState.subs = subs BY DEF PoolState
    <2>2. Disposed(s, own, PoolState) = PoolState BY <1>5, <2>1 DEF Disposed
    <2>3. UNCHANGED <<pool, managed, subs>> BY <1>1, <2>1, <2>2 DEF Becomes
    <2>4. subs' = [subs EXCEPT ![s] = subs[s]] BY <2>3 DEF DeliveryInv, DeliveryTyped
    <2> HIDE DEF to
    <2>5. ASSUME subs[s].host \in 1..Len(managed)
          PROVE  SubFits(subs[s], to, fanned[subs[s].host], managed[subs[s].host])
      <3>1. SubFits(subs[s], drains[s], fanned[subs[s].host], managed[subs[s].host])
        BY <2>5 DEF DeliveryInv, SubsFit
      <3>2. DrainFits(subs[s], to) BY <1>3, <1>5 DEF DrainFits
      <3> QED BY <3>1, <3>2, <1>3, DrainMoves
    <2>6. to.at # "parked" BY <1>3
    <2> QED BY <1>1, <1>2, <1>3, <2>3, <2>4, <2>5, <2>6, IteratorMoves
  <1> QED BY <1>4, <1>5

LEMMA BreakDelivers ==
  ASSUME PoolInv, DeliveryInv, NEW s \in Subscriptions, Break(s)
  PROVE  DeliveryInv'
  <1>1. drains[s].at = "body" /\ Ended(s, "broke") /\ UNCHANGED fanned BY DEF Break
  <1>2. subs[s].host # NoSession BY <1>1 DEF DeliveryInv, DeliveryTyped, NotIterated
  <1> QED BY <1>1, <1>2, EndedLeaves

LEMMA AsksDelivers ==
  ASSUME PoolInv, DeliveryInv, NEW s \in Subscriptions, Asks(s)
  PROVE  DeliveryInv'
  <1> DEFINE to == [drains[s] EXCEPT !.at = "looking"]
  <1>1. drains' = [drains EXCEPT ![s] = to] /\ UNCHANGED <<pool, managed, fanned, subs>> /\ subs[s].host # NoSession
    BY DEF Asks, Held
  <1>2. drains[s] \in Drains /\ subs[s] \in Subs BY DEF DeliveryInv, DeliveryTyped
  <1>3. to \in Drains /\ to.at = "looking" /\ to.delivered = drains[s].delivered BY <1>2 DEF Drains
  <1>4. subs' = [subs EXCEPT ![s] = subs[s]] BY <1>1 DEF DeliveryInv, DeliveryTyped
  <1> HIDE DEF to
  <1>5. ASSUME subs[s].host \in 1..Len(managed)
        PROVE  SubFits(subs[s], to, fanned[subs[s].host], managed[subs[s].host])
    <2>1. SubFits(subs[s], drains[s], fanned[subs[s].host], managed[subs[s].host])
      BY <1>5 DEF DeliveryInv, SubsFit
    <2>2. DrainFits(subs[s], to) BY <1>3 DEF DrainFits
    <2> QED BY <2>1, <2>2, <1>3, DrainMoves
  <1>6. to.at # "parked" BY <1>3
  <1> QED BY <1>1, <1>2, <1>3, <1>4, <1>5, <1>6, IteratorMoves

LEMMA LooksDelivers ==
  ASSUME PoolInv, DeliveryInv, NEW s \in Subscriptions, Looks(s)
  PROVE  DeliveryInv'
  <1> DEFINE sub == subs[s]
             drain == drains[s]
  <1>1. drain.at = "looking" /\ UNCHANGED fanned BY DEF Looks
  <1>2. sub.host # NoSession BY <1>1 DEF DeliveryInv, DeliveryTyped, NotIterated
  <1>3. drain \in Drains /\ sub \in Subs BY DEF DeliveryInv, DeliveryTyped
  <1>4. CASE sub.queue # <<>>
    <2>1. PICK next, to : /\ next = [sub EXCEPT !.queue = Tail(@)]
                          /\ to = [drain EXCEPT !.at = "body", !.delivered = Append(@, Head(sub.queue))]
      OBVIOUS
    <2>2. subs' = [subs EXCEPT ![s] = next] /\ drains' = [drains EXCEPT ![s] = to] /\ UNCHANGED <<pool, managed>>
      BY <1>4, <2>1 DEF Looks
    <2>3. sub.queue \in Seq(Segments) /\ drain.delivered \in Seq(Segments) BY <1>3 DEF Subs, Drains
    <2>4. Tail(sub.queue) \in Seq(Segments) /\ Append(drain.delivered, Head(sub.queue)) \in Seq(Segments)
      BY <1>4, <2>3, HeadTailProperties, AppendProperties
    <2>5. next \in Subs /\ next.host = sub.host /\ next.disposed = sub.disposed /\ next.done = sub.done
      BY <1>3, <2>1, <2>4 DEF Subs
    <2>6. to \in Drains /\ to.at # "parked" BY <1>3, <2>1, <2>4 DEF Drains
    <2>7. ASSUME sub.host \in 1..Len(managed) PROVE SubFits(next, to, fanned[sub.host], managed[sub.host])
      <3>1. SubFits(sub, drain, fanned[sub.host], managed[sub.host]) BY <2>7 DEF DeliveryInv, SubsFit
      <3> QED BY <3>1, <1>1, <1>4, <2>1, PopFits
    <2> QED BY <1>1, <1>2, <2>2, <2>5, <2>6, <2>7, IteratorMoves
  <1>5. CASE sub.queue = <<>> /\ sub.error # NoError
    <2>1. Ended(s, sub.error) BY <1>5 DEF Looks
    <2>2. sub.error \in Failures BY <1>3, <1>5 DEF Subs
    <2> QED BY <1>1, <1>2, <1>5, <2>1, <2>2, EndedLeaves
  <1>6. CASE sub.queue = <<>> /\ sub.error = NoError /\ sub.done
    <2>1. Ended(s, "done") BY <1>6 DEF Looks
    <2> QED BY <1>1, <1>2, <1>6, <2>1, EndedLeaves
  <1>7. CASE sub.queue = <<>> /\ sub.error = NoError /\ ~sub.done
    <2> DEFINE to == [drain EXCEPT !.at = "parked"]
    <2>1. drains' = [drains EXCEPT ![s] = to] /\ UNCHANGED <<pool, managed, subs>> BY <1>7 DEF Looks
    <2>2. to \in Drains /\ to.at = "parked" /\ to.delivered = drain.delivered BY <1>3 DEF Drains
    <2>3. subs' = [subs EXCEPT ![s] = sub] BY <2>1 DEF DeliveryInv, DeliveryTyped
    <2> HIDE DEF to
    <2>4. ASSUME sub.host \in 1..Len(managed) PROVE SubFits(sub, to, fanned[sub.host], managed[sub.host])
      <3>1. SubFits(sub, drain, fanned[sub.host], managed[sub.host]) BY <2>4 DEF DeliveryInv, SubsFit
      <3>2. DrainFits(sub, to) BY <1>7, <2>2 DEF DrainFits
      <3> QED BY <3>1, <3>2, <2>2, DrainMoves
    <2>5. sub.host # Detached BY <1>7 DEF DeliveryInv, DeliveryTyped
    <2> QED BY <1>1, <1>2, <1>3, <2>1, <2>2, <2>3, <2>4, <2>5, IteratorMoves
  <1> QED BY <1>4, <1>5, <1>6, <1>7

LEMMA PoolDisposedDelivers ==
  ASSUME PoolInv, DeliveryInv, Becomes(PoolDisposed(PoolState)), UNCHANGED fanned,
         Wakes(UNION {managed[s].subscribers : s \in {t \in DOMAIN managed : ~managed[t].torndown}})
  PROVE  DeliveryInv'
  <1> DEFINE live == {t \in DOMAIN managed : ~managed[t].torndown}
             to == UNION {managed[s].subscribers : s \in live}
             closed == {pool[k] : k \in StreamKeys} \ {NoSession}
             Down(session, ends) == [session EXCEPT !.torndown = @ \/ ends]
  <1>1. /\ managed \in Seq(Sessions) /\ DOMAIN managed = 1..Len(managed) /\ Len(managed) \in Nat
        /\ \A h \in 1..Len(managed) : managed[h] \in Sessions /\ h # NoSession
    BY PoolReads
  <1>2. closed = live BY <1>1 DEF PoolInv, MapFits, Sessions
  <1>3. PoolState.managed = managed /\ PoolState.pool = pool /\ PoolState.subs = subs BY DEF PoolState
  <1>4. /\ managed' = [s \in DOMAIN managed |-> Down(managed[s], s \in closed)]
        /\ subs' = [t \in Subscriptions |-> IF t \in UNION {managed[s].subscribers : s \in closed}
                                            THEN Close(subs[t]) ELSE subs[t]]
    BY <1>3 DEF Becomes, PoolDisposed
  <1>5. /\ managed' = [s \in 1..Len(managed) |-> Down(managed[s], s \in live)]
        /\ subs' = [t \in Subscriptions |-> IF t \in to THEN Close(subs[t]) ELSE subs[t]]
        /\ drains' = [t \in Subscriptions |-> IF t \in to THEN Woken(drains[t]) ELSE drains[t]]
    BY <1>1, <1>2, <1>4 DEF Wakes
  <1>6. Len(managed') = Len(managed)
    <2>1. PICK n \in Nat : n = Len(managed) BY <1>1
    <2>2. \A s \in 1..n : Down(managed[s], s \in live) \in Sessions BY <2>1, <1>1 DEF Sessions
    <2>3. managed' \in [1..n -> Sessions] BY <2>1, <2>2, <1>5
    <2>4. DOMAIN managed' = 1..n /\ managed' \in Seq(Sessions) BY <2>1, <2>3, SeqDef
    <2> QED BY <2>1, <2>4, LenProperties
  <1>7. \A h \in 1..Len(managed) :
          /\ managed'[h].subscribers = managed[h].subscribers /\ managed'[h].cache = managed[h].cache
          /\ managed[h].torndown => managed'[h].torndown
          /\ h \in live => managed'[h].torndown
    <2> SUFFICES ASSUME NEW h \in 1..Len(managed)
                 PROVE  /\ managed'[h].subscribers = managed[h].subscribers /\ managed'[h].cache = managed[h].cache
                        /\ managed[h].torndown => managed'[h].torndown
                        /\ h \in live => managed'[h].torndown
      OBVIOUS
    <2>1. managed'[h] = Down(managed[h], h \in live) /\ managed[h] \in Sessions BY <1>1, <1>5
    <2> HIDE DEF live
    <2> QED BY <2>1 DEF Sessions
  <1>8. ASSUME NEW t \in Subscriptions, t \in to
        PROVE  /\ subs[t].host \in 1..Len(managed) /\ subs'[t].host = subs[t].host
               /\ subs'[t].disposed = subs[t].disposed
               /\ SubFits(subs'[t], drains'[t], fanned[subs[t].host], managed'[subs[t].host])
    <2>1. PICK h \in 1..Len(managed) : h \in live /\ t \in managed[h].subscribers BY <1>1, <1>8
    <2>2. subs[t].host = h BY <2>1 DEF DeliveryInv, MembersFit
    <2>3. SubFits(subs[t], drains[t], fanned[h], managed[h]) BY <2>2 DEF DeliveryInv, SubsFit
    <2>4. subs'[t] = Close(subs[t]) /\ drains'[t] = Woken(drains[t]) BY <1>5, <1>8
    <2> HIDE DEF to, live
    <2>5. managed'[h].torndown BY <1>7, <2>1
    <2>6. SubFits(Close(subs[t]), Woken(drains[t]), fanned[h], managed'[h]) BY <2>3, <2>5, CloseFits
    <2>7. subs[t] \in Subs BY <2>3 DEF SubFits
    <2>8. Close(subs[t]).host = subs[t].host /\ Close(subs[t]).disposed = subs[t].disposed
      BY <2>7 DEF Close, Subs
    <2> QED BY <2>1, <2>2, <2>4, <2>6, <2>8
  <1>9. Told(to) BY <1>8 DEF Told
  <1>10. OthersUntold(to) BY <1>5 DEF OthersUntold
  <1>11. SessionsEnd BY <1>6, <1>7 DEF SessionsEnd
  <1> HIDE DEF to
  <1> QED BY <1>9, <1>10, <1>11, EndedDelivers

LEMMA DeliveryStep ==
  ASSUME PoolInv, DeliveryInv, PoolSteps
  PROVE  DeliveryInv'
  <1>1. ASSUME NEW s \in Subscriptions, SubscribeAborted(s) PROVE DeliveryInv' BY <1>1, SubscribeAbortedDelivers
  <1>2. ASSUME NEW s \in Subscriptions, NEW k \in StreamKeys, NEW discards \in BOOLEAN, Subscribe(s, k, discards)
        PROVE  DeliveryInv'
    BY <1>2, SubscribeDelivers
  <1>3. ASSUME NEW s \in Subscriptions, DisposeSubscription(s) PROVE DeliveryInv' BY <1>3, DisposeDelivers
  <1>4. ASSUME NEW s \in Subscriptions, Looks(s) PROVE DeliveryInv' BY <1>4, LooksDelivers
  <1>5. ASSUME NEW s \in Subscriptions, Asks(s) PROVE DeliveryInv' BY <1>5, AsksDelivers
  <1>6. ASSUME NEW s \in Subscriptions, Break(s) PROVE DeliveryInv' BY <1>6, BreakDelivers
  <1>7. ASSUME NEW h \in DOMAIN managed, NEW type \in {"init", "media"}, FansOut(h, type) PROVE DeliveryInv'
    BY <1>7, FansOutDelivers
  <1>8. ASSUME NEW h \in DOMAIN managed, NEW error \in Failures, SessionFails(h, error) PROVE DeliveryInv'
    BY <1>8, SessionFailsDelivers
  <1> QED BY <1>1, <1>2, <1>3, <1>4, <1>5, <1>6, <1>7, <1>8 DEF PoolSteps
=============================================================================
