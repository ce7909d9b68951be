-------------------------- MODULE StateStoreProofs --------------------------
(***************************************************************************)
(* Proofs about StateStore, for any controller, devices, collections,      *)
(* observers, selectors and snapshots in flight.  First the observers:     *)
(* whatever is dispatched, thrown, aborted and disposed while an iterator  *)
(* runs, it never sleeps past what it should hand over, and what it hands  *)
(* over ends at what its selector returns now.  Then the adoption rule:    *)
(* how a record reads after each of the folds, what each fold therefore    *)
(* leaves in the state, what may be on the wire and in a snapshot, and     *)
(* that the store never holds a record that contradicts itself.  Last the  *)
(* references: what each fold allocates, that it is born under a number    *)
(* nothing alive holds, and that a reference therefore changes exactly     *)
(* when the value it stands for does.                                      *)
(***************************************************************************)
EXTENDS StateStore, SequenceTheorems, FiniteSetTheorems, TLAPS

(* An observer is a record, and its generator at one of its five places. *)
ObserverFits(r) ==
  /\ r = [at |-> r.at, closed |-> r.closed, last |-> r.last, queue |-> r.queue, batch |-> r.batch, held |-> r.held]
  /\ r.at \in {"off", "yielded", "parked", "woken", "over"}
  /\ r.closed \in BOOLEAN

(* What lets an iterator sleep: nothing to hand over and, while it is begun  *)
(* and not over, a registration or a close.                                  *)
MaySleep(r, registered) ==
  /\ r.at = "parked" => ~r.closed /\ r.queue = <<>> /\ r.batch = <<>>
  /\ r.at \in {"yielded", "parked", "woken"} => registered \/ r.closed

WInv ==
  /\ obs = [o \in Observers |-> obs[o]]
  /\ disposed => observers = {}
  /\ \A o \in Observers : ObserverFits(obs[o]) /\ MaySleep(obs[o], o \in observers)

-----------------------------------------------------------------------------
(* What an observer's methods do to it. *)
LEMMA SignalFits ==
  ASSUME NEW r, ObserverFits(r)
  PROVE  /\ ObserverFits(Signal(r))
         /\ Signal(r).at # "parked"
         /\ Signal(r).at = (IF r.at = "parked" THEN "woken" ELSE r.at)
         /\ Signal(r).closed = r.closed
  BY DEF ObserverFits, Signal

(* A change that is enqueued wakes whoever sleeps. *)
LEMMA EvaluateFits ==
  ASSUME NEW r, NEW next, NEW registered, ObserverFits(r), MaySleep(r, registered)
  PROVE  ObserverFits(Evaluate(r, next)) /\ MaySleep(Evaluate(r, next), registered)
  <1>0. PICK q : q = [r EXCEPT !.last = next, !.queue = Append(r.queue, next)]
    OBVIOUS
  <1>1. CASE next = r.last
    BY <1>1 DEF Evaluate
  <1>2. CASE next # r.last
    <2>1. q = [at |-> r.at, closed |-> r.closed, last |-> next, queue |-> Append(r.queue, next),
               batch |-> r.batch, held |-> r.held]
      BY <1>0 DEF ObserverFits
    <2>2. ObserverFits(q) /\ q.at = r.at /\ q.closed = r.closed
      BY <2>1 DEF ObserverFits
    <2>3. Evaluate(r, next) = Signal(q)
      BY <1>0, <1>2 DEF Evaluate
    <2> QED BY <2>2, <2>3, SignalFits DEF MaySleep, ObserverFits
  <1> QED BY <1>1, <1>2

(* A closed observer is awake to see it. *)
LEMMA CloseFits ==
  ASSUME NEW r, ObserverFits(r)
  PROVE  ObserverFits(Close(r)) /\ \A registered : MaySleep(Close(r), registered)
  <1>0. PICK yes, q : yes = TRUE /\ q = [r EXCEPT !.closed = yes]
    OBVIOUS
  <1>1. ObserverFits(q) /\ q.closed
    <2>1. q = [at |-> r.at, closed |-> yes, last |-> r.last, queue |-> r.queue, batch |-> r.batch, held |-> r.held]
      BY <1>0 DEF ObserverFits
    <2> QED BY <1>0, <2>1 DEF ObserverFits
  <1>2. Close(r) = Signal(q)
    BY <1>0 DEF Close
  <1> QED BY <1>1, <1>2, SignalFits DEF MaySleep

(* The loop parks with everything handed over and only while it is open. *)
LEMMA IterateFits ==
  ASSUME NEW r, NEW registered, ObserverFits(r), registered \/ r.closed
  PROVE  ObserverFits(Iterate(r)) /\ MaySleep(Iterate(r), registered)
  <1> DEFINE b == IF r.batch # <<>> THEN r.batch ELSE r.queue
             q == IF r.batch # <<>> THEN r.queue ELSE <<>>
  <1>1. CASE b # <<>>
    <2>1. Iterate(r) = [r EXCEPT !.at = "yielded", !.held = Head(b), !.batch = Tail(b), !.queue = q]
      BY <1>1 DEF Iterate
    <2> HIDE DEF b, q
    <2> QED BY <2>1 DEF ObserverFits, MaySleep
  <1>2. CASE b = <<>> /\ r.closed
    <2>1. Iterate(r) = [r EXCEPT !.at = "over"]
      BY <1>2 DEF Iterate
    <2> QED BY <2>1 DEF ObserverFits, MaySleep
  <1>3. CASE b = <<>> /\ ~r.closed
    <2>1. Iterate(r) = [r EXCEPT !.at = "parked"] /\ r.queue = <<>> /\ r.batch = <<>>
      BY <1>3 DEF Iterate
    <2> QED BY <1>3, <2>1 DEF ObserverFits, MaySleep
  <1> QED BY <1>1, <1>2, <1>3 DEF ObserverFits

-----------------------------------------------------------------------------
(* The steps that touch an observer. *)
LEMMA DispatchKeeps ==
  ASSUME WInv, NEW e, NEW now, Dispatch(e, now), UNCHANGED <<disposed, observers>>
  PROVE  WInv'
  <1>1. \/ UNCHANGED obs
        \/ \E f : \E woken \in SUBSET Observers :
             obs' = [o \in Observers |-> IF o \in woken THEN Evaluate(obs[o], f[o]) ELSE obs[o]]
    <2>1. CASE disposed
      BY <2>1 DEF Dispatch
    <2>2. CASE ~disposed
      <3>1. PICK next : \/ UNCHANGED obs
                        \/ obs' = [o \in Observers |-> IF o \in observers \ threw'
                                                       THEN Evaluate(obs[o], Select(o, next, memo')) ELSE obs[o]]
        BY <2>2 DEF Dispatch
      <3> DEFINE f == [o \in Observers |-> Select(o, next, memo')]
                 woken == {o \in Observers : o \in observers \ threw'}
      <3>2. CASE obs' = [o \in Observers |-> IF o \in observers \ threw'
                                             THEN Evaluate(obs[o], Select(o, next, memo')) ELSE obs[o]]
        <4>1. obs' = [o \in Observers |-> IF o \in woken THEN Evaluate(obs[o], f[o]) ELSE obs[o]]
          BY <3>2
        <4>2. woken \in SUBSET Observers
          OBVIOUS
        <4> HIDE DEF f, woken
        <4> QED BY <4>1, <4>2
      <3> QED BY <3>1, <3>2
    <2> QED BY <2>1, <2>2
  <1>2. CASE UNCHANGED obs
    BY <1>2 DEF WInv
  <1>3. ASSUME NEW f, NEW woken \in SUBSET Observers,
               obs' = [o \in Observers |-> IF o \in woken THEN Evaluate(obs[o], f[o]) ELSE obs[o]]
        PROVE  WInv'
    <2>1. ASSUME NEW o \in Observers PROVE ObserverFits(obs'[o]) /\ MaySleep(obs'[o], o \in observers)
      <3>1. ObserverFits(obs[o]) /\ MaySleep(obs[o], o \in observers)
        BY DEF WInv
      <3>2. obs'[o] = obs[o] \/ obs'[o] = Evaluate(obs[o], f[o])
        BY <1>3
      <3> QED BY <3>1, <3>2, EvaluateFits
    <2> QED BY <1>3, <2>1 DEF WInv
  <1> QED BY <1>1, <1>2, <1>3

(* One observer moved, and left as its state lets it be left. *)
LEMMA OneMoves ==
  ASSUME WInv, NEW o \in Observers, NEW r, obs' = [obs EXCEPT ![o] = r], disposed' = disposed,
         ObserverFits(r), MaySleep(r, o \in observers'),
         \A p \in Observers \ {o} : p \in observers' <=> p \in observers,
         disposed => observers' = {}
  PROVE  WInv'
  <1>1. ASSUME NEW p \in Observers PROVE ObserverFits(obs'[p]) /\ MaySleep(obs'[p], p \in observers')
    <2>1. CASE p = o
      BY <2>1 DEF WInv
    <2>2. CASE p # o
      BY <2>2 DEF WInv
    <2> QED BY <2>1, <2>2
  <1> QED BY <1>1 DEF WInv

LEMMA RunsKeeps ==
  ASSUME WInv, NEW o \in Observers, obs[o].at \in {"yielded", "woken"}, Runs(o, Iterate(obs[o])), disposed' = disposed
  PROVE  WInv'
  <1> DEFINE r == Iterate(obs[o])
  <1>1. ObserverFits(r) /\ MaySleep(r, o \in observers)
    BY IterateFits DEF WInv, MaySleep
  <1>2. MaySleep(r, o \in observers')
    BY <1>1 DEF Runs, MaySleep
  <1> QED BY <1>1, <1>2, OneMoves DEF Runs, WInv

LEMMA ConsumerKeeps == ASSUME WInv, NEW o \in Observers, Consumer(o) PROVE WInv'
  <1>0. ObserverFits(obs[o]) /\ MaySleep(obs[o], o \in observers)
    BY DEF WInv
  <1>1. CASE Observe(o)
    <2>1. PICK base : obs' = [obs EXCEPT ![o] = Iterate([obs[o] EXCEPT !.last = base, !.held = base])]
      BY <1>1 DEF Observe
    <2>r. PICK r : r = [obs[o] EXCEPT !.last = base, !.held = base]
      OBVIOUS
    <2>2. ObserverFits(r)
      <3>1. r = [at |-> obs[o].at, closed |-> obs[o].closed, last |-> base, queue |-> obs[o].queue,
                 batch |-> obs[o].batch, held |-> base]
        BY <1>0, <2>r DEF ObserverFits
      <3> QED BY <1>0, <3>1 DEF ObserverFits
    <2>3. ObserverFits(Iterate(r)) /\ MaySleep(Iterate(r), TRUE)
      BY <2>2, IterateFits
    <2>4. o \in observers' /\ observers' = observers \cup {o} /\ ~disposed /\ disposed' = disposed
      BY <1>1 DEF Observe
    <2>5. MaySleep(Iterate(r), o \in observers')
      BY <2>3, <2>4 DEF MaySleep
    <2>6. obs' = [obs EXCEPT ![o] = Iterate(r)]
      BY <2>1, <2>r
    <2> QED BY <2>3, <2>4, <2>5, <2>6, OneMoves
  <1>2. CASE ObserveEnded(o)
    <2>1. ObserverFits([obs[o] EXCEPT !.at = "over"]) /\ [obs[o] EXCEPT !.at = "over"].at = "over"
      BY <1>0 DEF ObserverFits
    <2>2. /\ obs' = [obs EXCEPT ![o] = [obs[o] EXCEPT !.at = "over"]] /\ disposed' = disposed
          /\ observers' = observers
      BY <1>2 DEF ObserveEnded, WInv
    <2> QED BY <2>1, <2>2, OneMoves DEF MaySleep, WInv
  <1>3. CASE Pull(o) \/ Wakes(o)
    BY <1>3, RunsKeeps DEF Pull, Wakes
  <1>4. CASE Breaks(o)
    <2>1. ObserverFits([obs[o] EXCEPT !.at = "over"]) /\ [obs[o] EXCEPT !.at = "over"].at = "over"
      BY <1>0 DEF ObserverFits
    <2> QED BY <1>4, <2>1, OneMoves DEF Breaks, Runs, MaySleep, WInv
  <1>5. CASE Aborts(o)
    <2>1. ObserverFits(Close(obs[o])) /\ MaySleep(Close(obs[o]), o \in observers)
      BY <1>0, CloseFits
    <2> QED BY <1>5, <2>1, OneMoves DEF Aborts, WInv
  <1> QED BY <1>1, <1>2, <1>3, <1>4, <1>5 DEF Consumer

LEMMA DisposeKeeps == ASSUME WInv, Dispose PROVE WInv'
  <1>1. ASSUME NEW o \in Observers PROVE ObserverFits(obs'[o]) /\ MaySleep(obs'[o], o \in observers')
    <2>1. ObserverFits(obs[o]) /\ MaySleep(obs[o], o \in observers)
      BY DEF WInv
    <2>2. CASE o \in observers
      BY <2>1, <2>2, CloseFits DEF Dispose
    <2>3. CASE o \notin observers
      BY <2>1, <2>3 DEF Dispose, MaySleep
    <2> QED BY <2>2, <2>3
  <1> QED BY <1>1 DEF Dispose, WInv

LEMMA StoreKeeps == WInv /\ [Next]_vars => WInv'
  <1> SUFFICES ASSUME WInv, [Next]_vars PROVE WInv'
    OBVIOUS
  <1>1. CASE UNCHANGED <<disposed, observers, obs>>
    BY <1>1 DEF WInv
  <1>2. CASE Controller \/ PacketLost \/ \E f \in Fetchers : Ask(f) \/ ControllerSnapshots(f) \/ AskFails(f)
    BY <1>1, <1>2 DEF Controller, ControllerAdds, ControllerPatches, ControllerRemoves, ControllerPatchesNvr,
                      ControllerEditsRoster, PacketLost, Ask, ControllerSnapshots, AskFails
  <1>3. CASE PacketArrives
    <2>1. UNCHANGED <<disposed, observers>> /\ (UNCHANGED obs \/ \E e, now : Dispatch(e, now))
      BY <1>3 DEF PacketArrives
    <2> QED BY <1>1, <2>1, DispatchKeeps
  <1>4. CASE \E f \in Fetchers : Answered(f)
    BY <1>4, DispatchKeeps DEF Answered
  <1>5. CASE \E o \in Observers : Consumer(o)
    BY <1>5, ConsumerKeeps
  <1>6. CASE Dispose
    BY <1>6, DisposeKeeps
  <1>7. CASE UNCHANGED vars
    BY <1>1, <1>7 DEF vars
  <1> QED BY <1>2, <1>3, <1>4, <1>5, <1>6, <1>7 DEF Next

LEMMA ObserversBegin == Init => WInv
  <1>1. ObserverFits(NewObserver) /\ NewObserver.at = "off"
    BY DEF NewObserver, ObserverFits
  <1> QED BY <1>1 DEF Init, WInv, MaySleep

(* However packets, refreshes, aborts and the disposal fall between the      *)
(* awaits of any number of iterators, none sleeps past a value it should     *)
(* hand over, past its abort or past the end of the store.                   *)
THEOREM ObserversWake == Spec => []NoLostWakeup
  <1>1. WInv => NoLostWakeup
    BY DEF WInv, MaySleep, ObserverFits, NoLostWakeup
  <1> QED BY <1>1, ObserversBegin, StoreKeeps, PTL DEF Spec

-----------------------------------------------------------------------------
(* What they hand over, as sequences. *)

(* What a consumer holds and will be handed, and that it ends at the value  *)
(* enqueued last and no value follows itself.                               *)
Handed(h, b, q) == <<h>> \o b \o q
Tells(p, last) == Len(p) \in Nat \ {0} /\ p[Len(p)] = last /\ \A i \in 1..(Len(p) - 1) : p[i] # p[i + 1]

Joined(f, a, b) ==
  /\ Len(a) \in Nat /\ Len(b) \in Nat /\ Len(f) = Len(a) + Len(b)
  /\ \A i \in 1..(Len(a) + Len(b)) : f[i] = IF i <= Len(a) THEN a[i] ELSE b[i - Len(a)]

LEMMA JoinedByPlace ==
  ASSUME NEW S, NEW a \in Seq(S), NEW b \in Seq(S), NEW f, f = a \o b
  PROVE  f \in Seq(S) /\ Joined(f, a, b)
  BY DEF Joined

(* The same by places: what is held, the batch, the queue. *)
Placed(p, h, b, q) ==
  /\ Len(b) \in Nat /\ Len(q) \in Nat
  /\ Len(p) = 1 + Len(b) + Len(q)
  /\ p[1] = h
  /\ \A i \in 2..(1 + Len(b)) : p[i] = b[i - 1]
  /\ \A i \in (2 + Len(b))..(1 + Len(b) + Len(q)) : p[i] = q[i - 1 - Len(b)]

LEMMA HandedByPlace ==
  ASSUME NEW S, NEW h \in S, NEW b \in Seq(S), NEW q \in Seq(S), NEW p, p = Handed(h, b, q)
  PROVE  Placed(p, h, b, q)
  <1>1. PICK s : s = <<h>> OBVIOUS
  <1>2. s \in Seq(S) /\ Len(s) = 1 /\ s[1] = h BY <1>1
  <1>3. PICK f : f = s \o b OBVIOUS
  <1>4. p = f \o q BY <1>1, <1>3 DEF Handed
  <1>5. f \in Seq(S) /\ Joined(f, s, b)
    <2>1. s \in Seq(S) BY <1>2
    <2> QED BY <1>3, <2>1, JoinedByPlace
  <1>6. Joined(p, f, q)
    <2>1. f \in Seq(S) BY <1>5
    <2> QED BY <1>4, <2>1, JoinedByPlace
  <1>7. /\ Len(b) \in Nat /\ Len(q) \in Nat /\ Len(f) = 1 + Len(b) /\ Len(p) = 1 + Len(b) + Len(q)
        /\ \A i \in 1..(1 + Len(b)) : f[i] = IF i <= 1 THEN s[i] ELSE b[i - 1]
    BY <1>2, <1>5, <1>6 DEF Joined
  <1>8. \A i \in 1..(1 + Len(b) + Len(q)) : p[i] = IF i <= 1 + Len(b) THEN f[i] ELSE q[i - (1 + Len(b))]
    BY <1>6, <1>7 DEF Joined
  <1>9. p[1] = h
    BY <1>2, <1>7, <1>8
  <1>10. \A i \in 2..(1 + Len(b)) : p[i] = b[i - 1]
    BY <1>7, <1>8
  <1>11. ASSUME NEW i \in (2 + Len(b))..(1 + Len(b) + Len(q)) PROVE p[i] = q[i - 1 - Len(b)]
    <2>1. i - (1 + Len(b)) = i - 1 - Len(b) /\ ~(i <= 1 + Len(b)) /\ i \in 1..(1 + Len(b) + Len(q))
      BY <1>7
    <2>2. p[i] = q[i - (1 + Len(b))] BY <1>8, <2>1
    <2> QED BY <2>1, <2>2
  <1> QED BY <1>7, <1>9, <1>10, <1>11 DEF Placed

(* The next value of the batch is handed over. *)
LEMMA OneIsHanded ==
  ASSUME NEW S, NEW h \in S, NEW b \in Seq(S), NEW q \in Seq(S), b # <<>>, NEW last, Tells(Handed(h, b, q), last)
  PROVE  Head(b) \in S /\ Tail(b) \in Seq(S) /\ Tells(Handed(Head(b), Tail(b), q), last)
  <1>1. PICK head, tail : head = Head(b) /\ tail = Tail(b) OBVIOUS
  <1>2. /\ head = b[1] /\ head \in S /\ tail \in Seq(S) /\ Len(b) \in Nat \ {0} /\ Len(tail) = Len(b) - 1
        /\ \A i \in 1..Len(tail) : tail[i] = b[i + 1]
    BY <1>1, HeadTailProperties, EmptySeq
  <1>3. PICK p, n : p = Handed(h, b, q) /\ n = Handed(head, tail, q) OBVIOUS
  <1>p. Placed(p, h, b, q)
    BY <1>3, HandedByPlace
  <1>n. Placed(n, head, tail, q)
    <2>1. head \in S /\ tail \in Seq(S) BY <1>2
    <2> QED BY <1>3, <2>1, HandedByPlace
  <1>4. /\ Len(q) \in Nat /\ Len(p) = 1 + Len(b) + Len(q)
        /\ \A i \in 2..(1 + Len(b)) : p[i] = b[i - 1]
        /\ \A i \in (2 + Len(b))..(1 + Len(b) + Len(q)) : p[i] = q[i - 1 - Len(b)]
    BY <1>p DEF Placed
  <1>5. /\ Len(n) = 1 + Len(tail) + Len(q) /\ n[1] = head
        /\ \A i \in 2..(1 + Len(tail)) : n[i] = tail[i - 1]
        /\ \A i \in (2 + Len(tail))..(1 + Len(tail) + Len(q)) : n[i] = q[i - 1 - Len(tail)]
    BY <1>n DEF Placed
  <1>6. Len(n) = Len(p) - 1 /\ Len(n) \in Nat \ {0}
    BY <1>2, <1>4, <1>5
  <1>7. ASSUME NEW i \in 1..Len(n) PROVE n[i] = p[i + 1]
    <2>1. CASE i = 1
      BY <1>2, <1>4, <1>5, <2>1
    <2>2. CASE i \in 2..Len(b)
      <3>1. n[i] = tail[i - 1] /\ tail[i - 1] = b[i] BY <1>2, <1>5, <2>2
      <3>2. p[i + 1] = b[i] BY <1>2, <1>4, <2>2
      <3> QED BY <3>1, <3>2
    <2>3. CASE i > Len(b)
      <3>0. i \in (2 + Len(tail))..(1 + Len(tail) + Len(q)) /\ i - 1 - Len(tail) = i - Len(b)
        BY <1>2, <1>4, <1>5, <1>6, <2>3
      <3>1. n[i] = q[i - Len(b)]
        <4>1. n[i] = q[i - 1 - Len(tail)] BY <1>5, <3>0
        <4> QED BY <3>0, <4>1
      <3>2. p[i + 1] = q[i - Len(b)]
        <4>1. i + 1 \in (2 + Len(b))..(1 + Len(b) + Len(q)) /\ (i + 1) - 1 - Len(b) = i - Len(b)
          BY <1>2, <1>4, <1>5, <1>6, <2>3
        <4>2. p[i + 1] = q[(i + 1) - 1 - Len(b)] BY <1>4, <4>1
        <4> QED BY <4>1, <4>2
      <3> QED BY <3>1, <3>2
    <2> QED BY <1>2, <1>6, <2>1, <2>2, <2>3
  <1>8. p[Len(p)] = last /\ \A i \in 1..(Len(p) - 1) : p[i] # p[i + 1]
    BY <1>3 DEF Tells
  <1>9. n[Len(n)] = last
    BY <1>2, <1>4, <1>6, <1>7, <1>8
  <1>10. ASSUME NEW i \in 1..(Len(n) - 1) PROVE n[i] # n[i + 1]
    <2>1. n[i] = p[i + 1] /\ n[i + 1] = p[i + 2] BY <1>6, <1>7
    <2>2. p[i + 1] # p[(i + 1) + 1] BY <1>6, <1>8
    <2> QED BY <2>1, <2>2
  <1> QED BY <1>1, <1>2, <1>3, <1>6, <1>9, <1>10 DEF Tells

LEMMA OneIsEnqueued ==
  ASSUME NEW S, NEW h \in S, NEW b \in Seq(S), NEW q \in Seq(S), NEW last, NEW next, next # last,
         Tells(Handed(h, b, q), last)
  PROVE  Tells(Handed(h, b, Append(q, next)), next)
  <1>1. PICK T : T = S \cup {next} OBVIOUS
  <1>2. h \in T /\ b \in Seq(T) /\ q \in Seq(T) /\ next \in T BY <1>1, SeqMonotonic
  <1>3. PICK more : more = Append(q, next) OBVIOUS
  <1>4. /\ more \in Seq(T) /\ Len(q) \in Nat /\ Len(b) \in Nat /\ Len(more) = Len(q) + 1
        /\ \A i \in 1..(Len(q) + 1) : more[i] = IF i = Len(q) + 1 THEN next ELSE q[i]
    BY <1>2, <1>3, LenProperties
  <1>5. PICK p, n : p = Handed(h, b, q) /\ n = Handed(h, b, more) OBVIOUS
  <1>p. Placed(p, h, b, q)
    BY <1>5, HandedByPlace
  <1>n. Placed(n, h, b, more)
    <2>1. h \in T /\ b \in Seq(T) /\ more \in Seq(T) BY <1>2, <1>4
    <2> QED BY <1>5, <2>1, HandedByPlace
  <1>6. /\ Len(p) = 1 + Len(b) + Len(q) /\ p[1] = h
        /\ \A i \in 2..(1 + Len(b)) : p[i] = b[i - 1]
        /\ \A i \in (2 + Len(b))..(1 + Len(b) + Len(q)) : p[i] = q[i - 1 - Len(b)]
    BY <1>p DEF Placed
  <1>7. /\ Len(n) = 1 + Len(b) + Len(more) /\ n[1] = h
        /\ \A i \in 2..(1 + Len(b)) : n[i] = b[i - 1]
        /\ \A i \in (2 + Len(b))..(1 + Len(b) + Len(more)) : n[i] = more[i - 1 - Len(b)]
    BY <1>n DEF Placed
  <1>8. Len(n) = Len(p) + 1 /\ Len(p) \in Nat \ {0} BY <1>4, <1>6, <1>7
  <1>9. n[Len(n)] = next
    <2>1. Len(n) \in (2 + Len(b))..(1 + Len(b) + Len(more)) /\ Len(n) - 1 - Len(b) = Len(q) + 1
      BY <1>4, <1>7
    <2>2. n[Len(n)] = more[Len(n) - 1 - Len(b)] BY <1>7, <2>1
    <2>3. more[Len(q) + 1] = next BY <1>4
    <2> QED BY <2>1, <2>2, <2>3
  <1>10. ASSUME NEW i \in 1..Len(p) PROVE n[i] = p[i]
    <2>1. CASE i = 1 BY <1>6, <1>7, <2>1
    <2>2. CASE i \in 2..(1 + Len(b)) BY <1>6, <1>7, <2>2
    <2>3. CASE i > 1 + Len(b) BY <1>4, <1>6, <1>7, <2>3
    <2> QED BY <1>4, <1>6, <2>1, <2>2, <2>3
  <1>11. p[Len(p)] = last /\ \A i \in 1..(Len(p) - 1) : p[i] # p[i + 1]
    BY <1>5 DEF Tells
  <1>12. ASSUME NEW i \in 1..(Len(n) - 1) PROVE n[i] # n[i + 1]
    <2>1. CASE i = Len(p)
      <3>1. n[i] = last /\ n[i + 1] = next BY <1>8, <1>9, <1>10, <1>11, <2>1
      <3> QED BY <3>1
    <2>2. CASE i # Len(p)
      <3>1. n[i] = p[i] /\ n[i + 1] = p[i + 1] /\ p[i] # p[i + 1] BY <1>8, <1>10, <1>11, <2>2
      <3> QED BY <3>1
    <2> QED BY <2>1, <2>2
  <1> QED BY <1>3, <1>5, <1>8, <1>9, <1>12 DEF Tells

-----------------------------------------------------------------------------
(* The same of an observer. *)
Told(r, last) ==
  /\ \E S : r.held \in S /\ r.batch \in Seq(S) /\ r.queue \in Seq(S)
  /\ Tells(Handed(r.held, r.batch, r.queue), last)

LEMMA IterateTells ==
  ASSUME NEW r, ObserverFits(r), Told(r, r.last), NEW n, n = Iterate(r)
  PROVE  n.last = r.last /\ n.at # "off" /\ Told(n, n.last)
  <1>0. PICK h, b, q, last : h = r.held /\ b = r.batch /\ q = r.queue /\ last = r.last
    OBVIOUS
  <1>1. PICK S : h \in S /\ b \in Seq(S) /\ q \in Seq(S)
    BY <1>0 DEF Told
  <1>2. Tells(Handed(h, b, q), last)
    BY <1>0 DEF Told
  <1>3. PICK none : none = <<>>
    OBVIOUS
  <1>4. CASE b # <<>>
    <2>1. n = [r EXCEPT !.at = "yielded", !.held = Head(b), !.batch = Tail(b), !.queue = q]
      BY <1>0, <1>4 DEF Iterate
    <2>2. n.at = "yielded" /\ n.last = last /\ n.held = Head(b) /\ n.batch = Tail(b) /\ n.queue = q
      BY <1>0, <2>1 DEF ObserverFits
    <2>3. Head(b) \in S /\ Tail(b) \in Seq(S) /\ Tells(Handed(Head(b), Tail(b), q), last)
      BY <1>1, <1>2, <1>4, OneIsHanded
    <2> QED BY <1>0, <1>1, <2>2, <2>3 DEF Told
  <1>5. CASE b = <<>> /\ q # <<>>
    <2>1. n = [r EXCEPT !.at = "yielded", !.held = Head(q), !.batch = Tail(q), !.queue = none]
      BY <1>0, <1>3, <1>5 DEF Iterate
    <2>2. n.at = "yielded" /\ n.last = last /\ n.held = Head(q) /\ n.batch = Tail(q) /\ n.queue = none
      BY <1>0, <2>1 DEF ObserverFits
    <2>3. Handed(h, b, q) = Handed(h, q, none)
      <3>1. PICK s : s = <<h>> OBVIOUS
      <3>2. s \in Seq(S) /\ s \o q \in Seq(S) BY <1>1, <3>1, ConcatProperties
      <3>3. s \o none = s /\ (s \o q) \o none = s \o q BY <1>3, <3>2, ConcatEmptySeq
      <3> QED BY <1>3, <1>5, <3>1, <3>3 DEF Handed
    <2>4. none \in Seq(S) BY <1>3
    <2>5. Head(q) \in S /\ Tail(q) \in Seq(S) /\ Tells(Handed(Head(q), Tail(q), none), last)
      BY <1>1, <1>2, <1>5, <2>3, <2>4, OneIsHanded
    <2> QED BY <1>0, <2>2, <2>4, <2>5 DEF Told
  <1>6. CASE b = <<>> /\ q = <<>>
    <2>1. n = [r EXCEPT !.at = "over"] \/ n = [r EXCEPT !.at = "parked"]
      BY <1>0, <1>6 DEF Iterate
    <2>2. n.at # "off" /\ n.last = r.last /\ n.held = r.held /\ n.batch = r.batch /\ n.queue = r.queue
      BY <2>1 DEF ObserverFits
    <2> QED BY <2>2 DEF Told
  <1> QED BY <1>4, <1>5, <1>6

(* All but the place of the generator. *)
SameTold(n, r) ==
  /\ n.last = r.last /\ n.held = r.held /\ n.batch = r.batch /\ n.queue = r.queue
  /\ (n.at = "off" <=> r.at = "off")

LEMMA SignalLeaves ==
  ASSUME NEW r, ObserverFits(r), NEW n, n = Signal(r)
  PROVE  SameTold(n, r)
  BY DEF Signal, ObserverFits, SameTold

LEMMA EvaluateTells ==
  ASSUME NEW r, ObserverFits(r), Told(r, r.last), NEW next, NEW n, n = Evaluate(r, next)
  PROVE  n.last = next /\ Told(n, n.last) /\ (n.at = "off" <=> r.at = "off")
  <1>1. CASE next = r.last
    BY <1>1 DEF Evaluate
  <1>2. CASE next # r.last
    <2>0. PICK h, b, q, last : h = r.held /\ b = r.batch /\ q = r.queue /\ last = r.last
      OBVIOUS
    <2>1. PICK m : m = [r EXCEPT !.last = next, !.queue = Append(q, next)] OBVIOUS
    <2>2. n = Signal(m) BY <1>2, <2>0, <2>1 DEF Evaluate
    <2>3. /\ m = [at |-> r.at, closed |-> r.closed, last |-> next, queue |-> Append(q, next), batch |-> b, held |-> h]
          /\ ObserverFits(m)
      <3>1. m = [at |-> r.at, closed |-> r.closed, last |-> next, queue |-> Append(q, next), batch |-> b, held |-> h]
        BY <2>0, <2>1 DEF ObserverFits
      <3> QED BY <3>1 DEF ObserverFits
    <2>4. /\ n.last = next /\ n.held = h /\ n.batch = b /\ n.queue = Append(q, next)
          /\ (n.at = "off" <=> r.at = "off")
      <3>1. SameTold(n, m) BY <2>2, <2>3, SignalLeaves
      <3> QED BY <2>3, <3>1 DEF SameTold
    <2>5. PICK S : h \in S /\ b \in Seq(S) /\ q \in Seq(S)
      BY <2>0 DEF Told
    <2>6. PICK T : T = S \cup {next} OBVIOUS
    <2>7. h \in T /\ b \in Seq(T) /\ q \in Seq(T) /\ next \in T /\ Append(q, next) \in Seq(T)
      <3>1. h \in T /\ b \in Seq(T) /\ q \in Seq(T) /\ next \in T BY <2>5, <2>6, SeqMonotonic
      <3> QED BY <3>1
    <2>8. Tells(Handed(h, b, Append(q, next)), next)
      <3>1. Tells(Handed(h, b, q), last) BY <2>0 DEF Told
      <3> QED BY <1>2, <2>0, <2>5, <3>1, OneIsEnqueued
    <2> QED BY <2>4, <2>7, <2>8 DEF Told
  <1> QED BY <1>1, <1>2

-----------------------------------------------------------------------------
(* Everything an observer holds leads to what its selector returns now,    *)
(* unless the selector threw; and the memo is that of the state while      *)
(* anybody's selector reads it.                                            *)
WatchesIds(o) == Watches[o][1] = "adoptedIds"
TInv ==
  /\ observers \subseteq Observers
  /\ \A o \in Observers : obs[o].at = "off" => o \notin observers /\ obs[o].batch = <<>> /\ obs[o].queue = <<>>
  /\ \A o \in observers : Told(obs[o], obs[o].last) /\ (o \notin threw => obs[o].last = Select(o, state, memo))
  /\ (\E o \in observers : WatchesIds(o)) => memo.ids = AdoptedIn(state)

LEMMA MemoOfState ==
  ASSUME NEW s, NEW who
  PROVE  /\ (\E o \in who : WatchesIds(o)) => Memoized(s, who).ids = AdoptedIn(s)
         /\ ~(\E o \in who : WatchesIds(o)) => Memoized(s, who) = memo
         /\ memo.ids = AdoptedIn(s) => Memoized(s, who) = memo
  BY DEF Memoized, MemoizeArrayByContent, WatchesIds

LEMMA SelectReads ==
  ASSUME NEW o \in Observers, NEW s, NEW m, NEW n, WatchesIds(o) => m = n
  PROVE  Select(o, s, m) = Select(o, s, n)
  <1>1. Watches[o][1] \in {"byId", "all", "online", "adoptedIds"}
    BY WatchesAssumption
  <1> QED BY <1>1 DEF Select, WatchesIds

LEMMA DispatchTells ==
  ASSUME WInv, TInv, NEW e, NEW now, Dispatch(e, now), observers' = observers
  PROVE  TInv'
  <1>1. CASE UNCHANGED <<state, memo, obs, threw>>
    BY <1>1 DEF TInv, Select, AdoptedIn
  <1>2. CASE ~UNCHANGED <<state, memo, obs, threw>>
    <2>1. ~disposed BY <1>2 DEF Dispatch
    <2>2. PICK next : next = Reduce(state, e, now) OBVIOUS
    <2>3. /\ state' = next /\ memo' = Memoized(next, observers)
          /\ obs' = [o \in Observers |-> IF o \in observers \ threw'
                                         THEN Evaluate(obs[o], Select(o, next, memo')) ELSE obs[o]]
      BY <1>2, <2>1, <2>2 DEF Dispatch
    <2>4. (\E o \in observers : WatchesIds(o)) => memo'.ids = AdoptedIn(state')
      BY <2>3, MemoOfState
    <2>5. ASSUME NEW o \in Observers PROVE obs'[o].at = "off" => o \notin observers /\ obs'[o].batch = <<>> /\ obs'[o].queue = <<>>
      <3>1. CASE o \in observers
        <4>1. ObserverFits(obs[o]) /\ Told(obs[o], obs[o].last) /\ obs[o].at # "off"
          BY <3>1 DEF TInv, WInv
        <4>2. PICK sel : sel = Select(o, next, memo') OBVIOUS
        <4>3. obs'[o] = obs[o] \/ obs'[o] = Evaluate(obs[o], sel)
          BY <2>3, <4>2
        <4> QED BY <4>1, <4>3, EvaluateTells
      <3>2. CASE o \notin observers
        BY <2>3, <3>2 DEF TInv
      <3> QED BY <3>1, <3>2
    <2>6. ASSUME NEW o \in observers
          PROVE  Told(obs'[o], obs'[o].last) /\ (o \notin threw' => obs'[o].last = Select(o, state', memo'))
      <3>1. o \in Observers /\ ObserverFits(obs[o]) /\ Told(obs[o], obs[o].last)
        BY DEF TInv, WInv
      <3>2. PICK sel : sel = Select(o, next, memo') OBVIOUS
      <3>3. obs'[o] = IF o \in threw' THEN obs[o] ELSE Evaluate(obs[o], sel)
        BY <2>3, <3>1, <3>2
      <3>4. \A n : n = Evaluate(obs[o], sel) => n.last = sel /\ Told(n, n.last)
        BY <3>1, EvaluateTells
      <3> QED BY <2>3, <3>1, <3>2, <3>3, <3>4
    <2> QED BY <2>4, <2>5, <2>6 DEF TInv
  <1> QED BY <1>1, <1>2

(* One observer moved and keeps what it tells, or leaves. *)
LEMMA OneTells ==
  ASSUME WInv, TInv, NEW o \in Observers, NEW r, obs' = [obs EXCEPT ![o] = r], UNCHANGED <<state, memo>>,
         observers' \in {observers, observers \ {o}}, \A p \in observers' : p \in threw => p \in threw',
         r.at = "off" => o \notin observers,
         r.at = "off" => r.batch = obs[o].batch /\ r.queue = obs[o].queue /\ obs[o].at = "off",
         o \in observers' => r.last = obs[o].last /\ Told(r, r.last)
  PROVE  TInv'
  <1>1. \A p \in Observers : obs'[p] = IF p = o THEN r ELSE obs[p]
    BY DEF WInv
  <1>2. observers' \subseteq observers /\ observers' \subseteq Observers
    BY DEF TInv
  <1>3. \A p \in observers' : Select(p, state', memo') = Select(p, state, memo) /\ AdoptedIn(state') = AdoptedIn(state)
    BY DEF Select, AdoptedIn
  <1>4. ASSUME NEW p \in observers'
        PROVE  Told(obs'[p], obs'[p].last) /\ (p \notin threw' => obs'[p].last = Select(p, state', memo'))
    BY <1>1, <1>2, <1>3 DEF TInv
  <1>5. ASSUME NEW p \in Observers PROVE obs'[p].at = "off" => p \notin observers' /\ obs'[p].batch = <<>> /\ obs'[p].queue = <<>>
    BY <1>1, <1>2 DEF TInv
  <1>6. (\E p \in observers' : WatchesIds(p)) => memo'.ids = AdoptedIn(state')
    BY <1>2, <1>3 DEF TInv
  <1> QED BY <1>2, <1>4, <1>5, <1>6 DEF TInv

LEMMA RunsTells ==
  ASSUME WInv, TInv, NEW o \in Observers, obs[o].at \in {"yielded", "woken"}, NEW r,
         Runs(o, r), UNCHANGED <<state, memo>>,
         r = Iterate(obs[o]) \/ r = [obs[o] EXCEPT !.at = "over"]
  PROVE  TInv'
  <1>1. ObserverFits(obs[o])
    BY DEF WInv
  <1>2. r.at # "off" /\ (o \in observers' => r.last = obs[o].last /\ Told(r, r.last))
    <2>1. CASE r = [obs[o] EXCEPT !.at = "over"]
      <3>1. r.at = "over" BY <1>1, <2>1 DEF ObserverFits
      <3> QED BY <3>1 DEF Runs
    <2>2. CASE r = Iterate(obs[o])
      <3>1. r.at # "off"
        BY <1>1, <2>2 DEF Iterate, ObserverFits
      <3>2. o \in observers' => o \in observers BY DEF Runs
      <3>3. o \in observers => Told(obs[o], obs[o].last) BY DEF TInv
      <3> QED BY <1>1, <2>2, <3>1, <3>2, <3>3, IterateTells
    <2> QED BY <2>1, <2>2
  <1>3. /\ obs' = [obs EXCEPT ![o] = r] /\ observers' \in {observers, observers \ {o}}
        /\ \A p \in observers' : p \in threw => p \in threw'
    BY DEF Runs
  <1> QED BY <1>2, <1>3, OneTells

LEMMA ObserveTells == ASSUME WInv, TInv, NEW o \in Observers, Observe(o) PROVE TInv'
  <1>1. obs[o].at = "off" /\ observers' = observers \cup {o} /\ memo' = Memoized(state, {o}) /\ UNCHANGED <<state, threw>>
    BY DEF Observe
  <1>2. PICK base : base = Select(o, state, memo') OBVIOUS
  <1>3. PICK r : r = [obs[o] EXCEPT !.last = base, !.held = base] OBVIOUS
  <1>4. PICK n : n = Iterate(r) OBVIOUS
  <1>5. obs' = [obs EXCEPT ![o] = n]
    BY <1>2, <1>3, <1>4 DEF Observe
  <1>6. ObserverFits(r) /\ r.last = base /\ Told(r, r.last)
    <2>0. PICK none : none = <<>> OBVIOUS
    <2>1. ObserverFits(obs[o]) /\ obs[o].batch = none /\ obs[o].queue = none
      BY <1>1, <2>0 DEF WInv, TInv
    <2>2. r = [at |-> obs[o].at, closed |-> obs[o].closed, last |-> base, queue |-> none, batch |-> none, held |-> base]
      BY <1>3, <2>1 DEF ObserverFits
    <2>3. ObserverFits(r) /\ r.last = base /\ r.held = base /\ r.batch = none /\ r.queue = none
      BY <2>1, <2>2 DEF ObserverFits
    <2>4. PICK S : S = {base} OBVIOUS
    <2>5. base \in S /\ none \in Seq(S) /\ Len(none) = 0 BY <2>0, <2>4
    <2>6. PICK p : p = Handed(base, none, none) OBVIOUS
    <2>7. Placed(p, base, none, none) BY <2>5, <2>6, HandedByPlace
    <2>8. Tells(p, base) BY <2>5, <2>7 DEF Placed, Tells
    <2> QED BY <2>3, <2>5, <2>6, <2>8 DEF Told
  <1>7. n.last = base /\ n.at # "off" /\ Told(n, n.last)
    BY <1>4, <1>6, IterateTells
  <1>8. /\ (\E p \in observers' : WatchesIds(p)) => memo'.ids = AdoptedIn(state')
        /\ \A p \in observers : WatchesIds(p) => memo' = memo
    <2>1. AdoptedIn(state') = AdoptedIn(state) BY <1>1 DEF AdoptedIn
    <2>2. \A p \in observers : WatchesIds(p) => memo.ids = AdoptedIn(state) BY DEF TInv
    <2>3. WatchesIds(o) => memo'.ids = AdoptedIn(state) BY <1>1, MemoOfState
    <2>4. memo.ids = AdoptedIn(state) => memo' = memo BY <1>1, MemoOfState
    <2> QED BY <1>1, <2>1, <2>2, <2>3, <2>4
  <1>9. \A p \in Observers : obs'[p] = IF p = o THEN n ELSE obs[p]
    BY <1>5 DEF WInv
  <1>10. \A p : Select(p, state', memo') = Select(p, state, memo')
    BY <1>1 DEF Select
  <1>11. ASSUME NEW p \in observers'
         PROVE  Told(obs'[p], obs'[p].last) /\ (p \notin threw' => obs'[p].last = Select(p, state', memo'))
    <2>1. CASE p = o
      BY <1>2, <1>7, <1>9, <1>10, <2>1
    <2>2. CASE p # o
      <3>1. p \in observers /\ p \in Observers BY <1>1, <2>2 DEF TInv
      <3>2. Select(p, state, memo') = Select(p, state, memo)
        BY <1>8, <3>1, SelectReads
      <3> QED BY <1>1, <1>9, <1>10, <2>2, <3>1, <3>2 DEF TInv
    <2> QED BY <2>1, <2>2
  <1>12. ASSUME NEW p \in Observers
         PROVE  obs'[p].at = "off" => p \notin observers' /\ obs'[p].batch = <<>> /\ obs'[p].queue = <<>>
    BY <1>1, <1>7, <1>9 DEF TInv
  <1>13. observers' \subseteq Observers BY <1>1 DEF TInv
  <1> QED BY <1>8, <1>11, <1>12, <1>13 DEF TInv

LEMMA CloseLeaves ==
  ASSUME NEW r, ObserverFits(r), NEW n, n = Close(r)
  PROVE  SameTold(n, r)
  <1>0. PICK yes, q : yes = TRUE /\ q = [r EXCEPT !.closed = yes]
    OBVIOUS
  <1>1. q = [at |-> r.at, closed |-> yes, last |-> r.last, queue |-> r.queue, batch |-> r.batch, held |-> r.held]
    BY <1>0 DEF ObserverFits
  <1>2. ObserverFits(q) /\ SameTold(q, r) BY <1>0, <1>1 DEF ObserverFits, SameTold
  <1>3. n = Signal(q) BY <1>0 DEF Close
  <1> QED BY <1>2, <1>3, SignalLeaves DEF SameTold

LEMMA ConsumerTells == ASSUME WInv, TInv, NEW o \in Observers, Consumer(o) PROVE TInv'
  <1>1. CASE Observe(o)
    BY <1>1, ObserveTells
  <1>2. CASE ObserveEnded(o)
    <2>1. PICK r : r = [obs[o] EXCEPT !.at = "over"] OBVIOUS
    <2>2. obs[o].at = "off" /\ obs' = [obs EXCEPT ![o] = r] /\ UNCHANGED <<state, memo, observers, threw>>
      BY <1>2, <2>1 DEF ObserveEnded
    <2>3. r.at = "over" BY <2>1 DEF WInv, ObserverFits
    <2>4. o \notin observers BY <2>2 DEF TInv
    <2> QED BY <2>2, <2>3, <2>4, OneTells
  <1>3. CASE Pull(o) \/ Wakes(o) \/ Breaks(o)
    <2>1. PICK r : (r = Iterate(obs[o]) \/ r = [obs[o] EXCEPT !.at = "over"]) /\ Runs(o, r)
      BY <1>3 DEF Pull, Wakes, Breaks
    <2>2. obs[o].at \in {"yielded", "woken"} /\ UNCHANGED <<state, memo>>
      BY <1>3 DEF Pull, Wakes, Breaks
    <2> QED BY <2>1, <2>2, RunsTells
  <1>4. CASE Aborts(o)
    <2>1. PICK r : r = Close(obs[o]) OBVIOUS
    <2>2. obs' = [obs EXCEPT ![o] = r] /\ UNCHANGED <<state, memo, observers, threw>>
      BY <1>4, <2>1 DEF Aborts
    <2>3. SameTold(r, obs[o]) BY <2>1, CloseLeaves DEF WInv
    <2>4. o \in observers => r.last = obs[o].last /\ Told(r, r.last)
      BY <2>3 DEF TInv, SameTold, Told
    <2> QED BY <2>2, <2>3, <2>4, OneTells DEF SameTold, TInv
  <1> QED BY <1>1, <1>2, <1>3, <1>4 DEF Consumer

LEMMA DisposeTells == ASSUME WInv, TInv, Dispose PROVE TInv'
  <1>1. observers' = {} BY DEF Dispose
  <1>2. ASSUME NEW o \in Observers PROVE obs'[o].at = "off" => obs'[o].batch = <<>> /\ obs'[o].queue = <<>>
    <2>1. \A n : n = Close(obs[o]) => SameTold(n, obs[o]) BY CloseLeaves DEF WInv
    <2>2. obs'[o] = Close(obs[o]) \/ obs'[o] = obs[o] BY DEF Dispose
    <2> QED BY <2>1, <2>2 DEF TInv, SameTold
  <1> QED BY <1>1, <1>2 DEF TInv

LEMMA TellingKept == WInv /\ TInv /\ [Next]_vars => TInv'
  <1> SUFFICES ASSUME WInv, TInv, [Next]_vars PROVE TInv'
    OBVIOUS
  <1>0. ASSUME UNCHANGED <<state, memo, observers, obs, threw>> PROVE TInv'
    BY <1>0 DEF TInv, Select, AdoptedIn
  <1>1. CASE Controller \/ PacketLost \/ \E f \in Fetchers : Ask(f) \/ ControllerSnapshots(f) \/ AskFails(f)
    BY <1>0, <1>1 DEF Controller, ControllerAdds, ControllerPatches, ControllerRemoves, ControllerPatchesNvr,
                      ControllerEditsRoster, PacketLost, Ask, ControllerSnapshots, AskFails
  <1>2. CASE PacketArrives
    <2>1. observers' = observers /\ (UNCHANGED <<state, memo, obs, threw>> \/ \E e, now : Dispatch(e, now))
      BY <1>2 DEF PacketArrives
    <2> QED BY <1>0, <2>1, DispatchTells
  <1>3. CASE \E f \in Fetchers : Answered(f)
    BY <1>3, DispatchTells DEF Answered
  <1>4. CASE \E o \in Observers : Consumer(o)
    BY <1>4, ConsumerTells
  <1>5. CASE Dispose
    BY <1>5, DisposeTells
  <1>6. CASE UNCHANGED vars
    BY <1>0, <1>6 DEF vars
  <1> QED BY <1>1, <1>2, <1>3, <1>4, <1>5, <1>6 DEF Next

(* However folds, refreshes, throwing selectors, late subscribers to a       *)
(* memoized selector and the consumers' own pulls interleave, what an        *)
(* observer will be handed ends at what its selector returns now, and no     *)
(* value twice in a row.                                                     *)
THEOREM ObserversKeepUp == Spec => []ObserverNotBehind
  <1>1. Init => WInv /\ TInv
    <2>1. Init => TInv
      BY DEF Init, TInv, NewObserver
    <2> QED BY <2>1, ObserversBegin
  <1>2. WInv /\ TInv => ObserverNotBehind
    <2> SUFFICES ASSUME TInv, NEW o \in observers
                 PROVE  /\ o \notin threw => Pending(o)[Len(Pending(o))] = Select(o, state, memo)
                        /\ \A i \in 1..(Len(Pending(o)) - 1) : Pending(o)[i] # Pending(o)[i + 1]
      BY DEF ObserverNotBehind
    <2>1. PICK p : p = Pending(o) OBVIOUS
    <2>2. p = Handed(obs[o].held, obs[o].batch, obs[o].queue) BY <2>1 DEF Pending, Handed
    <2>3. Tells(p, obs[o].last) BY <2>2 DEF TInv, Told
    <2> QED BY <2>1, <2>3 DEF TInv, Tells
  <1> QED BY <1>1, <1>2, StoreKeeps, TellingKept, PTL DEF Spec

-----------------------------------------------------------------------------
(* How a record reads, whatever objects hold it, after each of the folds. *)
(* What a value reads as, whatever object holds it: an object, or its leaf. *)
ReadsAs(a, b) == (IsPlainObject(a) <=> IsPlainObject(b)) /\ (~IsPlainObject(b) => a = b)

LEMMA LeavesAreBare ==
  /\ ~IsPlainObject(Yes) /\ ~IsPlainObject(No) /\ ~IsPlainObject(Undefined)
  /\ Yes # No /\ Yes # Undefined /\ No # Undefined
  BY DEF IsPlainObject, Yes, No, Undefined, Leaf

LEMMA ObjectsArePlain ==
  ASSUME NEW now, NEW at
  PROVE  IsPlainObject(Object(now, at)) /\ Object(now, at).at = at /\ Object(now, at).born = now
  BY DEF IsPlainObject, Object

LEMMA SameReads ==
  ASSUME NEW a, NEW b, SameValue(a, b)
  PROVE  ReadsAs(a, b)
  <1>1. \A r : IF IsPlainObject(r) THEN IsPlainObject(Bare(r)) ELSE Bare(r) = r
    BY DEF IsPlainObject, Bare
  <1> QED BY <1>1 DEF ReadsAs, SameValue

LEMMA BareObjectReads ==
  ASSUME NEW a, NEW b, BareObject(a) = BareObject(b)
  PROVE  ReadsAs(a, b)
  <1>1. \A r : IF IsPlainObject(r) THEN IsPlainObject(BareObject(r)) ELSE BareObject(r) = r
    BY DEF IsPlainObject, BareObject
  <1> QED BY <1>1 DEF ReadsAs

LEMMA SameFieldsRead ==
  ASSUME NEW a, NEW b, IsPlainObject(a), IsPlainObject(b), SameValue(a, b), NEW k
  PROVE  ReadsAs(Field(a, k), Field(b, k))
  <1> DEFINE f == [x \in DOMAIN a.at |-> BareObject(a.at[x])]
             g == [x \in DOMAIN b.at |-> BareObject(b.at[x])]
  <1>1. f = g
    <2>1. Bare(a) = [at |-> f] /\ Bare(b) = [at |-> g] BY DEF Bare
    <2>2. [at |-> f].at = f /\ [at |-> g].at = g OBVIOUS
    <2> HIDE DEF f, g
    <2> QED BY <2>1, <2>2 DEF SameValue
  <1>2. DOMAIN a.at = DOMAIN b.at
    <2>1. DOMAIN f = DOMAIN a.at /\ DOMAIN g = DOMAIN b.at OBVIOUS
    <2> HIDE DEF f, g
    <2> QED BY <1>1, <2>1
  <1>3. CASE k \in DOMAIN a.at
    <2>1. f[k] = BareObject(a.at[k]) /\ g[k] = BareObject(b.at[k]) BY <1>2, <1>3
    <2> HIDE DEF f, g
    <2>2. ReadsAs(a.at[k], b.at[k]) BY <1>1, <2>1, BareObjectReads
    <2> QED BY <1>2, <1>3, <2>2 DEF Field
  <1>4. CASE k \notin DOMAIN a.at
    BY <1>2, <1>4 DEF Field, ReadsAs
  <1> QED BY <1>3, <1>4

(* What a fold writes over what was held reads as what came in. *)
LEMMA KeepReads ==
  ASSUME NEW prior, NEW incoming, NEW now
  PROVE  ReadsAs(KeepIfSame(prior, incoming, now), incoming)
  BY SameReads DEF KeepIfSame, ReadsAs

LEMMA MergedIsPlain ==
  ASSUME NEW device, NEW patch, IsPlainObject(device), NEW now
  PROVE  /\ IsPlainObject(MergeWith(KeepIfSame, device, patch, now))
         /\ IsPlainObject(MergeWith(MergeObjects, device, patch, now))
         /\ IsPlainObject(ReconcileWith(KeepIfSame, device, patch, now))
         /\ IsPlainObject(ReconcileWith(ReconcileObject, device, patch, now))
  BY ObjectsArePlain DEF MergeWith, ReconcileWith

LEMMA MergeObjectsReads ==
  ASSUME NEW device, NEW patch, NEW now
  PROVE  /\ ReadsAs(MergeObjects(device, patch, now), patch)
         /\ ReadsAs(ReconcileObject(device, patch, now), patch)
  BY MergedIsPlain, KeepReads DEF MergeObjects, ReconcileObject, ReadsAs

LEMMA PatchReads ==
  ASSUME NEW device, NEW patch, IsPlainObject(device), IsPlainObject(patch), NEW now, NEW k
  PROVE  LET after == ApplyDevicePatch(device, patch, now)
         IN  /\ IsPlainObject(after)
             /\ k \in DOMAIN patch.at => ReadsAs(Field(after, k), patch.at[k])
             /\ k \notin DOMAIN patch.at => Field(after, k) = Field(device, k)
  <1> DEFINE after == ApplyDevicePatch(device, patch, now)
             Merged(x) == IF x \notin DOMAIN patch.at THEN device.at[x]
                          ELSE IF x \notin DOMAIN device.at THEN patch.at[x]
                          ELSE MergeObjects(device.at[x], patch.at[x], now)
             next == [x \in DOMAIN device.at \cup DOMAIN patch.at |-> Merged(x)]
  <1>1. IsPlainObject(after) /\ after.at = next
    BY ObjectsArePlain DEF ApplyDevicePatch, MergeWith
  <1>2. DOMAIN next = DOMAIN device.at \cup DOMAIN patch.at /\ \A x \in DOMAIN next : next[x] = Merged(x)
    OBVIOUS
  <1> HIDE DEF after, next
  <1>3. CASE k \in DOMAIN patch.at
    <2>1. Field(after, k) = Merged(k) BY <1>1, <1>2, <1>3 DEF Field
    <2>2. ReadsAs(Merged(k), patch.at[k]) BY <1>3, MergeObjectsReads DEF ReadsAs
    <2> QED BY <1>1, <1>3, <2>1, <2>2 DEF after
  <1>4. CASE k \notin DOMAIN patch.at
    BY <1>1, <1>2, <1>4 DEF Field, after
  <1> QED BY <1>3, <1>4

LEMMA ReconcileReads ==
  ASSUME NEW prior, NEW incoming, IsPlainObject(prior), IsPlainObject(incoming), NEW now, NEW k
  PROVE  LET after == ReconcileRecord(prior, incoming, now)
         IN  IsPlainObject(after) /\ ReadsAs(Field(after, k), Field(incoming, k))
  <1> DEFINE after == ReconcileRecord(prior, incoming, now)
             Over(x) == IF x \in DOMAIN prior.at THEN ReconcileObject(prior.at[x], incoming.at[x], now) ELSE incoming.at[x]
             next == [x \in DOMAIN incoming.at |-> Over(x)]
  <1>1. IsPlainObject(after) /\ after.at = next
    BY ObjectsArePlain DEF ReconcileRecord, ReconcileWith
  <1>2. DOMAIN next = DOMAIN incoming.at /\ \A x \in DOMAIN next : next[x] = Over(x)
    OBVIOUS
  <1> HIDE DEF after, next
  <1>3. CASE k \in DOMAIN incoming.at
    <2>1. Field(after, k) = Over(k) /\ Field(incoming, k) = incoming.at[k] BY <1>1, <1>2, <1>3 DEF Field
    <2>2. ReadsAs(Over(k), incoming.at[k]) BY MergeObjectsReads DEF ReadsAs
    <2> QED BY <1>1, <2>1, <2>2 DEF after
  <1>4. CASE k \notin DOMAIN incoming.at
    BY <1>1, <1>2, <1>4 DEF Field, ReadsAs, after
  <1> QED BY <1>3, <1>4

LEMMA ParsedReads ==
  ASSUME NEW r, IsPlainObject(r), NEW now, NEW k
  PROVE  IsPlainObject(Parsed(r, now)) /\ ReadsAs(Field(Parsed(r, now), k), Field(r, k))
  <1> DEFINE next == [x \in DOMAIN r.at |-> ParsedObject(r.at[x], now)]
  <1>1. IsPlainObject(Parsed(r, now)) /\ Parsed(r, now).at = next
    BY ObjectsArePlain DEF Parsed
  <1>2. \A v : ReadsAs(ParsedObject(v, now), v)
    BY ObjectsArePlain DEF ParsedObject, ReadsAs, IsPlainObject
  <1>3. CASE k \in DOMAIN r.at
    BY <1>1, <1>2, <1>3 DEF Field
  <1>4. CASE k \notin DOMAIN r.at
    BY <1>1, <1>4 DEF Field, ReadsAs
  <1> QED BY <1>1, <1>3, <1>4

-----------------------------------------------------------------------------
AdoptionFields == {"isAdopted", "isAdoptedByOther", "nvrMac"}

Contradicts(r, mac) == IsAdoptionContradiction(AdoptionView(Undefined, r), mac)

(* A record the store may hold. *)
Sound(r) == IsPlainObject(r) /\ ~Contradicts(r, OwnMac)

LEMMA ContradictsReads ==
  ASSUME NEW r, NEW mac
  PROVE  Contradicts(r, mac) <=>
           /\ Field(r, "isAdopted") = Yes /\ Field(r, "isAdoptedByOther") = Yes
           /\ Known(Field(r, "nvrMac")) /\ Known(mac) /\ MacOf[Field(r, "nvrMac").leaf] = MacOf[mac.leaf]
  <1>1. \A k : MergedField(Undefined, r, k) = Field(r, k)
    BY LeavesAreBare DEF MergedField, Field
  <1> QED BY <1>1 DEF Contradicts, IsAdoptionContradiction, AdoptionView

LEMMA AlikeContradict ==
  ASSUME NEW a, NEW b, NEW mac, \A k \in AdoptionFields : ReadsAs(Field(a, k), Field(b, k))
  PROVE  Contradicts(a, mac) <=> Contradicts(b, mac)
  <1>1. \A k \in AdoptionFields : Field(a, k) = Yes <=> Field(b, k) = Yes
    BY LeavesAreBare DEF ReadsAs
  <1>2. Known(Field(a, "nvrMac")) \/ Known(Field(b, "nvrMac")) => Field(a, "nvrMac") = Field(b, "nvrMac")
    BY DEF ReadsAs, Known, AdoptionFields
  <1> QED BY <1>1, <1>2, ContradictsReads DEF AdoptionFields

(* The correction of what comes in. *)
LEMMA Corrects ==
  ASSUME NEW stored, NEW incoming, IsPlainObject(incoming), NEW mac, NEW now
  PROVE  LET n == NormalizeAdoptedByOther(stored, incoming, mac, now)
         IN  /\ IsPlainObject(n)
             /\ IF IsAdoptionContradiction(AdoptionView(stored, incoming), mac)
                THEN /\ "isAdoptedByOther" \in DOMAIN n.at /\ n.at["isAdoptedByOther"] = No
                     /\ \A k : k # "isAdoptedByOther" =>
                          (k \in DOMAIN n.at <=> k \in DOMAIN incoming.at) /\ Field(n, k) = Field(incoming, k)
                ELSE n = incoming
  <1> DEFINE n == NormalizeAdoptedByOther(stored, incoming, mac, now)
             at == [k \in DOMAIN incoming.at \cup {"isAdoptedByOther"} |->
                     IF k = "isAdoptedByOther" THEN No ELSE incoming.at[k]]
  <1>1. CASE IsAdoptionContradiction(AdoptionView(stored, incoming), mac)
    <2>1. n.at = at /\ IsPlainObject(n)
      BY <1>1, ObjectsArePlain DEF NormalizeAdoptedByOther
    <2>2. /\ DOMAIN at = DOMAIN incoming.at \cup {"isAdoptedByOther"} /\ at["isAdoptedByOther"] = No
          /\ \A k \in DOMAIN incoming.at : k # "isAdoptedByOther" => at[k] = incoming.at[k]
      OBVIOUS
    <2> HIDE DEF n, at
    <2>3. "isAdoptedByOther" \in DOMAIN n.at /\ n.at["isAdoptedByOther"] = No BY <2>1, <2>2
    <2>4. ASSUME NEW k, k # "isAdoptedByOther"
          PROVE  (k \in DOMAIN n.at <=> k \in DOMAIN incoming.at) /\ Field(n, k) = Field(incoming, k)
      BY <2>1, <2>2, <2>4 DEF Field
    <2> QED BY <1>1, <2>1, <2>3, <2>4 DEF n
  <1>2. CASE ~IsAdoptionContradiction(AdoptionView(stored, incoming), mac)
    BY <1>2 DEF NormalizeAdoptedByOther
  <1> QED BY <1>1, <1>2

LEMMA CorrectedIsSound ==
  ASSUME NEW r, IsPlainObject(r), NEW now
  PROVE  LET n == NormalizeAdoptedByOther(Undefined, r, OwnMac, now)
         IN  Sound(n) /\ (Contradicts(r, OwnMac) => Field(n, "isAdoptedByOther") = No)
  <1> DEFINE n == NormalizeAdoptedByOther(Undefined, r, OwnMac, now)
  <1>1. CASE Contradicts(r, OwnMac)
    <2>1. IsPlainObject(n) /\ Field(n, "isAdoptedByOther") = No
      BY <1>1, Corrects DEF Contradicts, Field
    <2> QED BY <2>1, ContradictsReads, LeavesAreBare DEF Sound
  <1>2. CASE ~Contradicts(r, OwnMac)
    <2>1. n = r BY <1>2, Corrects DEF Contradicts
    <2> QED BY <1>2, <2>1 DEF Sound
  <1> QED BY <1>1, <1>2

(* What a patch of the device's own fields may carry: JSON has no undefined. *)
PatchFits(p) == IsPlainObject(p) /\ \A k \in AdoptionFields : k \in DOMAIN p.at => p.at[k] # Undefined

(* A record that was sound and is patched is sound, whichever of the three   *)
(* fields the patch names.                                                   *)
LEMMA PatchedIsSound ==
  ASSUME NEW r, Sound(r), NEW p, PatchFits(p), NEW now
  PROVE  LET after == ApplyDevicePatch(r, NormalizeAdoptedByOther(r, p, OwnMac, now), now)
         IN  /\ Sound(after)
             /\ IsAdoptionContradiction(AdoptionView(r, p), OwnMac) => Field(after, "isAdoptedByOther") = No
             /\ AdoptedByOtherAssertion(p) = Undefined /\ Field(r, "isAdoptedByOther") = No
                  => Field(after, "isAdoptedByOther") = No
  <1> DEFINE n == NormalizeAdoptedByOther(r, p, OwnMac, now)
             after == ApplyDevicePatch(r, n, now)
  <1>0. IsPlainObject(r) /\ IsPlainObject(p) /\ IsPlainObject(n) BY Corrects DEF Sound, PatchFits
  <1>1. /\ IsPlainObject(after)
        /\ \A k : IF k \in DOMAIN n.at THEN ReadsAs(Field(after, k), n.at[k]) ELSE Field(after, k) = Field(r, k)
    <2> HIDE DEF n
    <2> QED BY <1>0, PatchReads
  <1>2. CASE IsAdoptionContradiction(AdoptionView(r, p), OwnMac)
    <2>1. "isAdoptedByOther" \in DOMAIN n.at /\ n.at["isAdoptedByOther"] = No
      BY <1>0, <1>2, Corrects
    <2>2. Field(after, "isAdoptedByOther") = No
      <3> HIDE DEF n, after
      <3> QED BY <1>1, <2>1, LeavesAreBare DEF ReadsAs
    <2> HIDE DEF after, n
    <2> QED BY <1>1, <2>2, ContradictsReads, LeavesAreBare DEF Sound, after, n
  <1>3. CASE ~IsAdoptionContradiction(AdoptionView(r, p), OwnMac)
    <2>1. n = p BY <1>0, <1>3, Corrects
    <2> HIDE DEF after, n
    <2>2. \A k \in AdoptionFields : ReadsAs(Field(after, k), MergedField(r, p, k))
      <3> TAKE k \in AdoptionFields
      <3>1. CASE k \in DOMAIN p.at
        BY <1>0, <1>1, <2>1, <3>1 DEF PatchFits, MergedField, Field
      <3>2. CASE k \notin DOMAIN p.at
        BY <1>0, <1>1, <2>1, <3>2 DEF MergedField, Field, ReadsAs
      <3> QED BY <3>1, <3>2
    <2>3. Contradicts(after, OwnMac) => IsAdoptionContradiction(AdoptionView(r, p), OwnMac)
      <3> SUFFICES ASSUME Contradicts(after, OwnMac) PROVE IsAdoptionContradiction(AdoptionView(r, p), OwnMac)
        OBVIOUS
      <3>1. /\ Field(after, "isAdopted") = Yes /\ Field(after, "isAdoptedByOther") = Yes
            /\ Known(Field(after, "nvrMac")) /\ Known(OwnMac)
            /\ MacOf[Field(after, "nvrMac").leaf] = MacOf[OwnMac.leaf]
        BY ContradictsReads
      <3>2. MergedField(r, p, "isAdopted") = Yes /\ MergedField(r, p, "isAdoptedByOther") = Yes
        BY <2>2, <3>1, LeavesAreBare DEF ReadsAs, AdoptionFields
      <3>3. MergedField(r, p, "nvrMac") = Field(after, "nvrMac")
        BY <2>2, <3>1 DEF ReadsAs, AdoptionFields, Known
      <3> QED BY <3>1, <3>2, <3>3 DEF IsAdoptionContradiction, AdoptionView
    <2>4. AdoptedByOtherAssertion(p) = Undefined => Field(after, "isAdoptedByOther") = Field(r, "isAdoptedByOther")
      BY <1>0, <1>1, <2>1 DEF AdoptedByOtherAssertion, Field, PatchFits, AdoptionFields
    <2> QED BY <1>1, <1>3, <2>3, <2>4 DEF Sound, after, n
  <1> QED BY <1>2, <1>3

-----------------------------------------------------------------------------
(* The invariant, by the parts of the state it is about. *)
(* What the controller holds, and so every snapshot of it and every answer. *)
TruthFits(t) ==
  /\ DOMAIN t = {"nvr", "maps"} /\ DOMAIN t.maps = ModelKeys \cup BootstrapKeys
  /\ Controls(t.nvr)
  /\ \A k \in ModelKeys : \A id \in DOMAIN t.maps[k] : FullRecord(k, t.maps[k][id])

StateFits(s) ==
  /\ DOMAIN s = {"nvr", "maps"} /\ DOMAIN s.maps = ModelKeys \cup BootstrapKeys
  /\ Controls(s.nvr)
  /\ \A k \in ModelKeys : \A id \in DOMAIN s.maps[k].at : Sound(s.maps[k].at[id])

(* An open episode is a stored device's, whose record was corrected. *)
Corrected(s, k, id) == id \in DOMAIN s.maps[k].at /\ Field(s.maps[k].at[id], "isAdoptedByOther") = No
EngagedFits(g, s) == \A e \in g : e = <<e[1], e[2]>> /\ e[1] \in ModelKeys /\ Corrected(s, e[1], e[2])

Holds(s, id, r) == id \in DOMAIN s.maps[Key].at /\ s.maps[Key].at[id] = r

(* What a step from s to n leaves alone. *)
Elsewhere(s, n, id) ==
  \A k \in ModelKeys : \A x : <<k, x>> # <<Key, id>> =>
    /\ x \in DOMAIN n.maps[k].at <=> x \in DOMAIN s.maps[k].at
    /\ x \in DOMAIN s.maps[k].at => n.maps[k].at[x] = s.maps[k].at[x]

LEMMA KeyIsNoNvr == Key \in ModelKeys /\ Key # "nvr"
  BY KeyAssumption, KeysAssumption

LEMMA OthersStayEngaged ==
  ASSUME NEW g, NEW s, NEW n, NEW id, EngagedFits(g, s), Elsewhere(s, n, id)
  PROVE  EngagedFits(g \ {<<Key, id>>}, n)
  <1> SUFFICES ASSUME NEW e \in g, e # <<Key, id>>
               PROVE  e = <<e[1], e[2]>> /\ e[1] \in ModelKeys /\ Corrected(n, e[1], e[2])
    BY DEF EngagedFits
  <1>1. e = <<e[1], e[2]>> /\ e[1] \in ModelKeys /\ Corrected(s, e[1], e[2])
    BY DEF EngagedFits
  <1>2. <<e[1], e[2]>> # <<Key, id>>
    BY <1>1
  <1>3. e[2] \in DOMAIN n.maps[e[1]].at /\ n.maps[e[1]].at[e[2]] = s.maps[e[1]].at[e[2]]
    BY <1>1, <1>2 DEF Elsewhere, Corrected
  <1> QED BY <1>1, <1>3 DEF Corrected

(* One collection written, and what a record put in or taken out of it does. *)
LEMMA MapWritten ==
  ASSUME NEW s, StateFits(s), NEW at, NEW now
  PROVE  LET n == WithDeviceMap(s, Key, at, now)
         IN  /\ DOMAIN n = {"nvr", "maps"} /\ DOMAIN n.maps = ModelKeys \cup BootstrapKeys
             /\ n.nvr = s.nvr /\ n.maps[Key].at = at
             /\ \A k \in ModelKeys \ {Key} : n.maps[k] = s.maps[k]
  <1> DEFINE c == Object(now, at)
             n == WithDeviceMap(s, Key, at, now)
  <1>1. c.at = at BY ObjectsArePlain
  <1>2. n = [s EXCEPT !.maps[Key] = c] BY DEF WithDeviceMap
  <1> HIDE DEF c, n
  <1>3. /\ DOMAIN n = {"nvr", "maps"} /\ DOMAIN n.maps = ModelKeys \cup BootstrapKeys
        /\ n.nvr = s.nvr /\ n.maps[Key] = c
        /\ \A k \in ModelKeys \ {Key} : n.maps[k] = s.maps[k]
    BY <1>2, KeyIsNoNvr DEF StateFits
  <1> QED BY <1>1, <1>3 DEF n

LEMMA RecordWritten ==
  ASSUME NEW s, StateFits(s), NEW id, NEW r, Sound(r), NEW now, NEW n,
         n = WithDeviceMap(s, Key, With(s.maps[Key].at, id, r), now)
  PROVE  StateFits(n) /\ Elsewhere(s, n, id) /\ Holds(n, id, r)
  <1> DEFINE at == With(s.maps[Key].at, id, r)
  <1>1. /\ DOMAIN at = DOMAIN s.maps[Key].at \cup {id} /\ at[id] = r
        /\ \A x \in DOMAIN s.maps[Key].at : x # id => at[x] = s.maps[Key].at[x]
    BY DEF With
  <1>n. n = WithDeviceMap(s, Key, at, now) OBVIOUS
  <1> HIDE DEF at
  <1>2. /\ DOMAIN n = {"nvr", "maps"} /\ DOMAIN n.maps = ModelKeys \cup BootstrapKeys
        /\ n.nvr = s.nvr /\ n.maps[Key].at = at
        /\ \A k \in ModelKeys \ {Key} : n.maps[k] = s.maps[k]
    BY <1>n, MapWritten
  <1>3. StateFits(n)
    <2>1. ASSUME NEW k \in ModelKeys, NEW x \in DOMAIN n.maps[k].at PROVE Sound(n.maps[k].at[x])
      BY <1>1, <1>2 DEF StateFits
    <2> QED BY <1>2, <2>1 DEF StateFits
  <1>4. Elsewhere(s, n, id)
    BY <1>1, <1>2 DEF Elsewhere
  <1> QED BY <1>1, <1>2, <1>3, <1>4, KeyIsNoNvr DEF Holds

-----------------------------------------------------------------------------
(* What a packet leaves. *)
LEMMA AddedKeeps ==
  ASSUME NEW s, StateFits(s), NEW id, NEW r, FullRecord(Key, r), NEW now
  PROVE  LET n == UpsertDevice(s, Key, id, r, now)
         IN  /\ StateFits(n) /\ Elsewhere(s, n, id)
             /\ Contradicts(r, OwnMac) => Corrected(n, Key, id)
  <1> DEFINE record == NormalizeAdoptedByOther(Undefined, r, OwnMac, now)
             existing == IF id \in DOMAIN s.maps[Key].at THEN s.maps[Key].at[id] ELSE Undefined
             next == IF existing = Undefined THEN record ELSE ReconcileRecord(existing, record, now)
             n == UpsertDevice(s, Key, id, r, now)
  <1>1. Sound(record) /\ (Contradicts(r, OwnMac) => Field(record, "isAdoptedByOther") = No)
    BY CorrectedIsSound DEF FullRecord
  <1>2. existing = Undefined \/ (existing # Undefined /\ id \in DOMAIN s.maps[Key].at /\ Sound(existing))
    BY KeyIsNoNvr DEF StateFits
  <1>3. n = IF existing # Undefined /\ SameValue(existing, record) THEN s
            ELSE WithDeviceMap(s, Key, With(s.maps[Key].at, id, next), now)
    BY KeyIsNoNvr DEF UpsertDevice, StateFits, Controls
  <1>4. CASE existing # Undefined /\ SameValue(existing, record)
    <2>1. n = s BY <1>3, <1>4
    <2>2. existing = s.maps[Key].at[id] BY <1>4
    <2> HIDE DEF record, existing, n
    <2>3. ReadsAs(Field(existing, "isAdoptedByOther"), Field(record, "isAdoptedByOther"))
      BY <1>1, <1>2, <1>4, SameFieldsRead DEF Sound
    <2>4. Contradicts(r, OwnMac) => Corrected(s, Key, id)
      BY <1>1, <1>2, <1>4, <2>2, <2>3, LeavesAreBare DEF ReadsAs, Corrected
    <2> QED BY <2>1, <2>4 DEF Elsewhere, n
  <1>5. CASE ~(existing # Undefined /\ SameValue(existing, record))
    <2>1. n = WithDeviceMap(s, Key, With(s.maps[Key].at, id, next), now) BY <1>3, <1>5
    <2>2. Sound(next) /\ ReadsAs(Field(next, "isAdoptedByOther"), Field(record, "isAdoptedByOther"))
      <3> HIDE DEF record, existing
      <3>1. CASE existing = Undefined
        BY <1>1, <3>1 DEF ReadsAs
      <3>2. CASE existing # Undefined
        <4>1. IsPlainObject(next) /\ \A k \in AdoptionFields : ReadsAs(Field(next, k), Field(record, k))
          BY <1>1, <1>2, <3>2, ReconcileReads DEF Sound
        <4> HIDE DEF next
        <4> QED BY <1>1, <4>1, AlikeContradict DEF Sound, AdoptionFields
      <3> QED BY <3>1, <3>2
    <2> HIDE DEF next, existing, n, record
    <2>3. StateFits(n) /\ Elsewhere(s, n, id) /\ Holds(n, id, next)
      BY <2>1, <2>2, RecordWritten
    <2> QED BY <1>1, <2>2, <2>3, LeavesAreBare DEF Holds, Corrected, ReadsAs, n
  <1> QED BY <1>4, <1>5

LEMMA PatchedKeeps ==
  ASSUME NEW s, StateFits(s), NEW id, NEW p, PatchFits(p), NEW now
  PROVE  LET n == PatchDevice(s, Key, id, p, now)
             view == AdoptionView(s.maps[Key].at[id], p)
         IN  /\ StateFits(n) /\ Elsewhere(s, n, id)
             /\ id \in DOMAIN s.maps[Key].at /\ IsAdoptionContradiction(view, OwnMac) => Corrected(n, Key, id)
             /\ AdoptedByOtherAssertion(p) = Undefined /\ Corrected(s, Key, id) => Corrected(n, Key, id)
  <1> DEFINE n == PatchDevice(s, Key, id, p, now)
             old == s.maps[Key].at[id]
             patched == ApplyDevicePatch(old, NormalizeAdoptedByOther(old, p, OwnMac, now), now)
  <1>1. CASE id \notin DOMAIN s.maps[Key].at
    <2>1. n = s BY <1>1, KeyIsNoNvr DEF PatchDevice
    <2> HIDE DEF n
    <2> QED BY <1>1, <2>1 DEF Elsewhere, Corrected, n
  <1>2. CASE id \in DOMAIN s.maps[Key].at
    <2>1. Sound(old) BY <1>2, KeyIsNoNvr DEF StateFits
    <2>2. old # Undefined BY <2>1, LeavesAreBare DEF Sound
    <2>3. /\ Sound(patched)
          /\ IsAdoptionContradiction(AdoptionView(old, p), OwnMac) => Field(patched, "isAdoptedByOther") = No
          /\ AdoptedByOtherAssertion(p) = Undefined /\ Field(old, "isAdoptedByOther") = No
               => Field(patched, "isAdoptedByOther") = No
      <3> HIDE DEF old
      <3> QED BY <2>1, PatchedIsSound
    <2>4. n = IF patched = old THEN s ELSE WithDeviceMap(s, Key, With(s.maps[Key].at, id, patched), now)
      BY <1>2, <2>2, KeyIsNoNvr DEF PatchDevice, StateFits, Controls
    <2>5. StateFits(n) /\ Elsewhere(s, n, id) /\ Holds(n, id, patched)
      <3>1. CASE patched = old
        <4>1. n = s BY <2>4, <3>1
        <4> HIDE DEF n, patched
        <4> QED BY <1>2, <3>1, <4>1 DEF Elsewhere, Holds
      <3>2. CASE patched # old
        <4>1. n = WithDeviceMap(s, Key, With(s.maps[Key].at, id, patched), now) BY <2>4, <3>2
        <4>2. Sound(patched) BY <2>3
        <4> HIDE DEF n, patched
        <4> QED BY <4>1, <4>2, RecordWritten
      <3> QED BY <3>1, <3>2
    <2> HIDE DEF n, patched
    <2> QED BY <2>3, <2>5 DEF Corrected, Holds, n
  <1> QED BY <1>1, <1>2

LEMMA NvrPatchedKeeps ==
  ASSUME NEW s, StateFits(s), NEW p, IsPlainObject(p), "mac" \in DOMAIN p.at => p.at["mac"] = OwnMac, NEW id, NEW now
  PROVE  LET n == PatchDevice(s, "nvr", id, p, now) IN StateFits(n) /\ n.maps = s.maps
  <1> DEFINE n == PatchDevice(s, "nvr", id, p, now)
             named == NormalizeAdoptedByOther(s.nvr, p, OwnMac, now)
             patched == ApplyDevicePatch(s.nvr, named, now)
  <1>1. IsPlainObject(s.nvr) /\ Field(s.nvr, "mac") = OwnMac /\ s.nvr # Undefined
    BY LeavesAreBare DEF StateFits, Controls
  <1>2. n = s \/ n = [s EXCEPT !.nvr = patched]
    BY <1>1 DEF PatchDevice
  <1>3. IsPlainObject(named) /\ ("mac" \in DOMAIN named.at => named.at["mac"] = OwnMac)
    BY Corrects DEF Field
  <1>4. Controls(patched)
    <2> HIDE DEF named
    <2>1. /\ IsPlainObject(patched)
          /\ "mac" \in DOMAIN named.at => ReadsAs(Field(patched, "mac"), named.at["mac"])
          /\ "mac" \notin DOMAIN named.at => Field(patched, "mac") = Field(s.nvr, "mac")
      BY <1>1, <1>3, PatchReads
    <2> QED BY <1>1, <1>3, <2>1, ControllerAssumption DEF Controls, ReadsAs
  <1> HIDE DEF n, patched
  <1> QED BY <1>2, <1>4 DEF StateFits, n

LEMMA RemovedKeeps ==
  ASSUME NEW s, StateFits(s), NEW id, NEW now
  PROVE  LET n == RemoveDevice(s, Key, id, now) IN StateFits(n) /\ Elsewhere(s, n, id)
  <1> DEFINE n == RemoveDevice(s, Key, id, now)
             at == Without(s.maps[Key].at, id)
  <1>1. n = s \/ n = WithDeviceMap(s, Key, at, now)
    BY KeyIsNoNvr DEF RemoveDevice
  <1>2. CASE n = s
    <2> HIDE DEF n
    <2> QED BY <1>2 DEF Elsewhere, n
  <1>3. CASE n = WithDeviceMap(s, Key, at, now)
    <2>1. DOMAIN at = DOMAIN s.maps[Key].at \ {id} /\ \A x \in DOMAIN at : at[x] = s.maps[Key].at[x]
      BY DEF Without
    <2> HIDE DEF n, at
    <2>2. /\ DOMAIN n = {"nvr", "maps"} /\ DOMAIN n.maps = ModelKeys \cup BootstrapKeys
          /\ n.nvr = s.nvr /\ n.maps[Key].at = at
          /\ \A k \in ModelKeys \ {Key} : n.maps[k] = s.maps[k]
      BY <1>3, MapWritten
    <2>3. ASSUME NEW k \in ModelKeys, NEW x \in DOMAIN n.maps[k].at PROVE Sound(n.maps[k].at[x])
      BY <2>1, <2>2 DEF StateFits
    <2>4. StateFits(n) BY <2>2, <2>3 DEF StateFits
    <2>5. Elsewhere(s, n, id) BY <2>1, <2>2 DEF Elsewhere
    <2> QED BY <2>4, <2>5 DEF n
  <1> QED BY <1>1, <1>2, <1>3

-----------------------------------------------------------------------------
(* What a bootstrap leaves. *)
AllSound(at) == \A id \in DOMAIN at : Sound(at[id])

(* A collection after a bootstrap holds the bootstrap's records, each reading *)
(* as the bootstrap's does.                                                   *)
LEMMA ReconciledMapReads ==
  ASSUME NEW existing, AllSound(existing.at), NEW devices, AllSound(devices), NEW now, NEW n,
         n = ReconcileMap(existing, devices, now)
  PROVE  /\ AllSound(n.at)
         /\ \A id \in DOMAIN devices : Field(devices[id], "isAdoptedByOther") = No =>
              id \in DOMAIN n.at /\ Field(n.at[id], "isAdoptedByOther") = No
  <1> DEFINE Kept(id) == id \in DOMAIN existing.at /\ SameValue(existing.at[id], devices[id])
             Over(id) == IF id \notin DOMAIN existing.at THEN devices[id]
                         ELSE IF Kept(id) THEN existing.at[id]
                         ELSE ReconcileRecord(existing.at[id], devices[id], now)
             at == [id \in DOMAIN devices |-> Over(id)]
             Reads(r, d) == Field(d, "isAdoptedByOther") = No => Field(r, "isAdoptedByOther") = No
  <1>1. \/ n = existing /\ \A id \in DOMAIN devices : Kept(id)
        \/ n = Object(now, at)
    BY DEF ReconcileMap
  <1>2. ASSUME NEW id \in DOMAIN devices, Kept(id)
        PROVE  Sound(existing.at[id]) /\ Reads(existing.at[id], devices[id])
    <2>1. Sound(existing.at[id]) /\ Sound(devices[id]) /\ SameValue(existing.at[id], devices[id])
      BY <1>2 DEF AllSound
    <2>2. ReadsAs(Field(existing.at[id], "isAdoptedByOther"), Field(devices[id], "isAdoptedByOther"))
      BY <2>1, SameFieldsRead DEF Sound
    <2> QED BY <2>1, <2>2, LeavesAreBare DEF ReadsAs
  <1>3. ASSUME NEW id \in DOMAIN devices
        PROVE  Sound(Over(id)) /\ Reads(Over(id), devices[id])
    <2>1. CASE id \notin DOMAIN existing.at
      BY <2>1 DEF AllSound
    <2>2. CASE Kept(id)
      BY <1>2, <2>2
    <2>3. CASE id \in DOMAIN existing.at /\ ~Kept(id)
      <3>1. PICK after : after = ReconcileRecord(existing.at[id], devices[id], now)
        OBVIOUS
      <3>2. Sound(existing.at[id]) /\ Sound(devices[id])
        BY <2>3 DEF AllSound
      <3>3. IsPlainObject(after) /\ \A k \in AdoptionFields : ReadsAs(Field(after, k), Field(devices[id], k))
        BY <3>1, <3>2, ReconcileReads DEF Sound
      <3>4. Sound(after)
        BY <3>2, <3>3, AlikeContradict DEF Sound
      <3>5. Reads(after, devices[id])
        BY <3>3, LeavesAreBare DEF ReadsAs, AdoptionFields
      <3>6. Over(id) = after
        BY <2>3, <3>1
      <3> HIDE DEF Over, Kept
      <3> QED BY <3>4, <3>5, <3>6
    <2> HIDE DEF Over, Kept, Reads
    <2>4. id \notin DOMAIN existing.at \/ Kept(id) \/ (id \in DOMAIN existing.at /\ ~Kept(id))
      OBVIOUS
    <2> QED BY <2>1, <2>2, <2>3, <2>4
  <1>4. CASE n = existing /\ \A id \in DOMAIN devices : Kept(id)
    BY <1>2, <1>4
  <1>5. CASE n = Object(now, at)
    <2>1. n.at = at BY <1>5, ObjectsArePlain
    <2>2. DOMAIN at = DOMAIN devices /\ \A id \in DOMAIN at : at[id] = Over(id)
      OBVIOUS
    <2> HIDE DEF at, Over
    <2> QED BY <1>3, <2>1, <2>2 DEF AllSound
  <1> QED BY <1>1, <1>4, <1>5

(* The records of a bootstrap as they are folded. *)
LEMMA NormalizedBootstrap ==
  ASSUME NEW b, TruthFits(b), NEW now, NEW source, source = NormalizeBootstrapAdoption(b, now)
  PROVE  /\ DOMAIN source = {"nvr", "maps"} /\ DOMAIN source.maps = ModelKeys \cup BootstrapKeys
         /\ source.nvr = b.nvr
         /\ \A k \in ModelKeys : /\ DOMAIN source.maps[k] = DOMAIN b.maps[k]
                                 /\ AllSound(source.maps[k])
                                 /\ \A id \in DOMAIN b.maps[k] : Contradicts(b.maps[k][id], OwnMac) =>
                                      Field(source.maps[k][id], "isAdoptedByOther") = No
  <1> DEFINE Corr(r) == NormalizeAdoptedByOther(Undefined, r, OwnMac, now)
             Normalized(c) == [id \in DOMAIN c |-> Corr(c[id])]
             maps == [k \in DOMAIN b.maps |-> IF k \in ModelKeys THEN Normalized(b.maps[k]) ELSE b.maps[k]]
  <1>1. source = [b EXCEPT !.maps = maps]
    BY DEF NormalizeBootstrapAdoption, TruthFits, Controls
  <1>2. DOMAIN maps = ModelKeys \cup BootstrapKeys /\ \A k \in ModelKeys : maps[k] = Normalized(b.maps[k])
    BY DEF TruthFits
  <1>3. DOMAIN source = {"nvr", "maps"} /\ source.nvr = b.nvr /\ source.maps = maps
    <2> HIDE DEF maps
    <2> QED BY <1>1 DEF TruthFits
  <1>4. ASSUME NEW k \in ModelKeys
        PROVE  /\ DOMAIN source.maps[k] = DOMAIN b.maps[k]
               /\ AllSound(source.maps[k])
               /\ \A id \in DOMAIN b.maps[k] : Contradicts(b.maps[k][id], OwnMac) =>
                    Field(source.maps[k][id], "isAdoptedByOther") = No
    <2>1. source.maps[k] = Normalized(b.maps[k])
      BY <1>2, <1>3
    <2>2. /\ DOMAIN Normalized(b.maps[k]) = DOMAIN b.maps[k]
          /\ \A id \in DOMAIN b.maps[k] : Normalized(b.maps[k])[id] = Corr(b.maps[k][id])
      OBVIOUS
    <2>3. ASSUME NEW id \in DOMAIN b.maps[k]
          PROVE  /\ Sound(Corr(b.maps[k][id]))
                 /\ Contradicts(b.maps[k][id], OwnMac) => Field(Corr(b.maps[k][id]), "isAdoptedByOther") = No
      <3>1. IsPlainObject(b.maps[k][id]) BY DEF TruthFits, FullRecord
      <3> QED BY <3>1, CorrectedIsSound
    <2> HIDE DEF Normalized, Corr
    <2> QED BY <2>1, <2>2, <2>3 DEF AllSound
  <1> HIDE DEF maps
  <1> QED BY <1>2, <1>3, <1>4

LEMMA BootstrapKeeps ==
  ASSUME NEW s, s = InitialState \/ StateFits(s), NEW b, TruthFits(b), NEW now, NEW n, n = ApplyBootstrap(s, b, now)
  PROVE  /\ StateFits(n)
         /\ \A k \in ModelKeys : \A id \in DOMAIN b.maps[k] :
              Contradicts(b.maps[k][id], OwnMac) => Corrected(n, k, id)
  <1>1. PICK source : source = NormalizeBootstrapAdoption(b, now)
    OBVIOUS
  <1>2. PICK nvr : nvr = IF s.nvr = Undefined THEN source.nvr
                         ELSE IF SameValue(s.nvr, source.nvr) THEN s.nvr ELSE ReconcileRecord(s.nvr, source.nvr, now)
    OBVIOUS
  <1>3. n = [nvr |-> nvr, maps |-> [k \in DOMAIN s.maps |-> ReconcileMap(s.maps[k], source.maps[k], now)]]
    BY <1>1, <1>2 DEF ApplyBootstrap
  <1>4. /\ DOMAIN s.maps = ModelKeys \cup BootstrapKeys
        /\ s.nvr = Undefined \/ Controls(s.nvr)
        /\ \A k \in ModelKeys : AllSound(s.maps[k].at)
    <2>1. CASE s = InitialState
      <3>1. s.nvr = Undefined /\ DOMAIN s.maps = ModelKeys \cup BootstrapKeys
        BY <2>1 DEF InitialState
      <3>2. PICK none : none = <<>> OBVIOUS
      <3>3. DOMAIN none = {} BY <3>2
      <3>4. \A k \in ModelKeys : s.maps[k].at = none
        BY <2>1, <3>2, ObjectsArePlain DEF InitialState
      <3> QED BY <3>1, <3>3, <3>4 DEF AllSound
    <2>2. CASE StateFits(s)
      BY <2>2 DEF StateFits, AllSound
    <2> QED BY <2>1, <2>2
  <1>5. /\ Controls(source.nvr)
        /\ \A k \in ModelKeys : /\ DOMAIN source.maps[k] = DOMAIN b.maps[k]
                                /\ AllSound(source.maps[k])
                                /\ \A id \in DOMAIN b.maps[k] : Contradicts(b.maps[k][id], OwnMac) =>
                                     Field(source.maps[k][id], "isAdoptedByOther") = No
    BY <1>1, NormalizedBootstrap DEF TruthFits
  <1>6. Controls(nvr)
    <2>1. PICK after : after = ReconcileRecord(s.nvr, source.nvr, now)
      OBVIOUS
    <2>2. Controls(s.nvr) => Controls(after)
      <3> SUFFICES ASSUME Controls(s.nvr) PROVE Controls(after)
        OBVIOUS
      <3>1. IsPlainObject(after) /\ ReadsAs(Field(after, "mac"), Field(source.nvr, "mac"))
        BY <1>5, <2>1, ReconcileReads DEF Controls
      <3> QED BY <1>5, <3>1, ControllerAssumption DEF Controls, ReadsAs
    <2> QED BY <1>2, <1>4, <1>5, <2>1, <2>2
  <1>7. /\ DOMAIN n = {"nvr", "maps"} /\ DOMAIN n.maps = ModelKeys \cup BootstrapKeys /\ n.nvr = nvr
        /\ \A k \in ModelKeys : n.maps[k] = ReconcileMap(s.maps[k], source.maps[k], now)
    BY <1>3, <1>4
  <1>8. ASSUME NEW k \in ModelKeys
        PROVE  /\ AllSound(n.maps[k].at)
               /\ \A id \in DOMAIN b.maps[k] : Contradicts(b.maps[k][id], OwnMac) => Corrected(n, k, id)
    <2>1. PICK old, new, after : old = s.maps[k] /\ new = source.maps[k] /\ after = n.maps[k]
      OBVIOUS
    <2>2. AllSound(old.at) /\ AllSound(new) /\ after = ReconcileMap(old, new, now)
      BY <1>4, <1>5, <1>7, <2>1
    <2>3. /\ AllSound(after.at)
          /\ \A id \in DOMAIN new : Field(new[id], "isAdoptedByOther") = No =>
               id \in DOMAIN after.at /\ Field(after.at[id], "isAdoptedByOther") = No
      BY <2>2, ReconciledMapReads
    <2> QED BY <1>5, <2>1, <2>3 DEF Corrected
  <1> QED BY <1>6, <1>7, <1>8 DEF StateFits, AllSound

-----------------------------------------------------------------------------
(* What a dispatch leaves of the state and of the open episodes. *)
NvrPatchFits(p) == IsPlainObject(p) /\ ("mac" \in DOMAIN p.at => p.at["mac"] = OwnMac)

(* What the store is handed. *)
EventFits(e) ==
  \/ e.kind = "bootstrapLoaded" /\ TruthFits(e.data)
  \/ e.kind = "deviceAdded" /\ e.modelKey = Key /\ FullRecord(Key, e.data)
  \/ e.kind = "devicePatched" /\ e.modelKey = Key /\ PatchFits(e.patch)
  \/ e.kind = "devicePatched" /\ e.modelKey = "nvr" /\ NvrPatchFits(e.patch)
  \/ e.kind = "deviceRemoved" /\ e.modelKey = Key

LEMMA ViewOfFullRecord ==
  ASSUME NEW r, NEW stored
  PROVE  /\ AssertsAdoption(r) => AdoptionView(stored, r) = AdoptionView(Undefined, r)
         /\ SilentOnAdoption(r) => AdoptionView(stored, r) = AdoptionView(Undefined, stored)
  <1>1. \A k : /\ Field(r, k) # Undefined => MergedField(stored, r, k) = MergedField(Undefined, r, k)
               /\ Field(r, k) = Undefined => MergedField(stored, r, k) = MergedField(Undefined, stored, k)
    BY LeavesAreBare DEF MergedField, Field
  <1> QED BY <1>1, LeavesAreBare DEF AssertsAdoption, SilentOnAdoption, AdoptionView

(* Before the fold: what a full record contradicts is what it says itself. *)
LEMMA FullRecordContradicts ==
  ASSUME StateFits(state), NEW k \in ModelKeys, NEW id, NEW r, FullRecord(k, r),
         IsAdoptionContradiction(AdoptionView(Stored(k, id), r), OwnMac)
  PROVE  Contradicts(r, OwnMac)
  <1>1. CASE AssertsAdoption(r)
    BY <1>1, ViewOfFullRecord DEF Contradicts
  <1>2. CASE SilentOnAdoption(r)
    <2>1. Contradicts(Stored(k, id), OwnMac)
      BY <1>2, ViewOfFullRecord DEF Contradicts
    <2>2. ~Contradicts(Undefined, OwnMac)
      BY ContradictsReads, LeavesAreBare DEF Field
    <2>3. Stored(k, id) = Undefined \/ Sound(Stored(k, id))
      BY DEF Stored, StateFits
    <2> QED BY <2>1, <2>2, <2>3 DEF Sound
  <1> QED BY <1>1, <1>2 DEF FullRecord

LEMMA BootstrapEngages ==
  ASSUME StateFits(state), NEW b, TruthFits(b), NEW now, NEW n, n = ApplyBootstrap(state, b, now)
  PROVE  StateFits(n) /\ EngagedFits(ReconcileAdoptionFromBootstrap(b), n)
  <1>1. StateFits(n) /\ \A k \in ModelKeys : \A id \in DOMAIN b.maps[k] :
                          Contradicts(b.maps[k][id], OwnMac) => Corrected(n, k, id)
    BY BootstrapKeeps
  <1>2. ASSUME NEW e \in ReconcileAdoptionFromBootstrap(b)
        PROVE  e = <<e[1], e[2]>> /\ e[1] \in ModelKeys /\ Corrected(n, e[1], e[2])
    <2>1. PICK k \in ModelKeys : \E id \in DOMAIN b.maps[k] :
            e = <<k, id>> /\ IsAdoptionContradiction(AdoptionView(Stored(k, id), b.maps[k][id]), Field(b.nvr, "mac"))
      BY DEF ReconcileAdoptionFromBootstrap
    <2>2. PICK id \in DOMAIN b.maps[k] :
            e = <<k, id>> /\ IsAdoptionContradiction(AdoptionView(Stored(k, id), b.maps[k][id]), Field(b.nvr, "mac"))
      BY <2>1
    <2>3. IsAdoptionContradiction(AdoptionView(Stored(k, id), b.maps[k][id]), OwnMac) /\ FullRecord(k, b.maps[k][id])
      BY <2>2 DEF TruthFits, Controls
    <2>4. Contradicts(b.maps[k][id], OwnMac)
      BY <2>3, FullRecordContradicts
    <2>5. Corrected(n, k, id) BY <1>1, <2>4
    <2> QED BY <2>2, <2>5
  <1> QED BY <1>1, <1>2 DEF EngagedFits

LEMMA FoldKeeps ==
  ASSUME StateFits(state), EngagedFits(engaged, state), NEW e, EventFits(e), NEW now, NEW n, n = Reduce(state, e, now)
  PROVE  StateFits(n) /\ EngagedFits(TrackAdoptionContradiction(e), n)
  <1> DEFINE after == TrackAdoptionContradiction(e)
  <1>0. Field(state.nvr, "mac") = OwnMac /\ Key \in ModelKeys /\ Key # "nvr"
    BY KeyIsNoNvr DEF StateFits, Controls
  <1>g. ASSUME NEW id, Elsewhere(state, n, id),
               \/ after = engaged \ {<<Key, id>>}
               \/ after \in {engaged, engaged \cup {<<Key, id>>}} /\ (<<Key, id>> \in after => Corrected(n, Key, id))
        PROVE  EngagedFits(after, n)
    <2> HIDE DEF after
    <2>1. EngagedFits(engaged \ {<<Key, id>>}, n)
      BY <1>g, OthersStayEngaged
    <2>2. \A x \in after : x \in engaged \ {<<Key, id>>} \/ (x = <<Key, id>> /\ Corrected(n, Key, id))
      BY <1>g
    <2> QED BY <1>0, <2>1, <2>2 DEF EngagedFits
  <1>1. CASE e.kind = "bootstrapLoaded" /\ TruthFits(e.data)
    <2>1. n = ApplyBootstrap(state, e.data, now) /\ after = ReconcileAdoptionFromBootstrap(e.data)
      BY <1>1 DEF Reduce, TrackAdoptionContradiction
    <2> HIDE DEF after
    <2> QED BY <1>1, <2>1, BootstrapEngages DEF after
  <1>2. CASE e.kind = "deviceAdded" /\ e.modelKey = Key /\ FullRecord(Key, e.data)
    <2>1. n = UpsertDevice(state, Key, e.id, e.data, now) /\ after = TrackAdoptionForDevice(Key, e.id, e.data, FALSE)
      BY <1>2 DEF Reduce, TrackAdoptionContradiction
    <2>2. /\ StateFits(n) /\ Elsewhere(state, n, e.id)
          /\ Contradicts(e.data, OwnMac) => Corrected(n, Key, e.id)
      BY <1>2, <2>1, AddedKeeps
    <2>3. AdoptedByOtherAssertion(e.data) # Undefined
      BY <1>2, LeavesAreBare DEF FullRecord, AssertsAdoption, AdoptedByOtherAssertion
    <2>4. after = IF IsAdoptionContradiction(AdoptionView(Stored(Key, e.id), e.data), OwnMac)
                  THEN engaged \cup {<<Key, e.id>>} ELSE engaged \ {<<Key, e.id>>}
      BY <1>0, <2>1, <2>3 DEF TrackAdoptionForDevice
    <2>5. IsAdoptionContradiction(AdoptionView(Stored(Key, e.id), e.data), OwnMac) => Corrected(n, Key, e.id)
      BY <1>0, <1>2, <2>2, FullRecordContradicts
    <2> HIDE DEF after
    <2> QED BY <1>g, <2>2, <2>4, <2>5 DEF after
  <1>3. CASE e.kind = "devicePatched" /\ e.modelKey = Key /\ PatchFits(e.patch)
    <2>1. n = PatchDevice(state, Key, e.id, e.patch, now) /\ after = TrackAdoptionForDevice(Key, e.id, e.patch, TRUE)
      BY <1>3 DEF Reduce, TrackAdoptionContradiction
    <2>2. /\ StateFits(n) /\ Elsewhere(state, n, e.id)
          /\ e.id \in DOMAIN state.maps[Key].at
               /\ IsAdoptionContradiction(AdoptionView(state.maps[Key].at[e.id], e.patch), OwnMac) => Corrected(n, Key, e.id)
          /\ AdoptedByOtherAssertion(e.patch) = Undefined /\ Corrected(state, Key, e.id) => Corrected(n, Key, e.id)
      BY <1>3, <2>1, PatchedKeeps
    <2>3. <<Key, e.id>> \in engaged => Corrected(state, Key, e.id)
      BY DEF EngagedFits
    <2>4. CASE AdoptedByOtherAssertion(e.patch) = Undefined
      <3>1. after = engaged BY <2>1, <2>4 DEF TrackAdoptionForDevice
      <3> HIDE DEF after
      <3> QED BY <1>g, <2>2, <2>3, <2>4, <3>1 DEF after
    <2>5. CASE AdoptedByOtherAssertion(e.patch) # Undefined /\ e.id \notin DOMAIN state.maps[Key].at
      <3>1. Stored(Key, e.id) = Undefined BY <2>5 DEF Stored
      <3>2. after = engaged BY <2>1, <3>1 DEF TrackAdoptionForDevice
      <3>3. <<Key, e.id>> \notin engaged BY <2>3, <2>5 DEF Corrected
      <3> HIDE DEF after
      <3> QED BY <1>g, <2>2, <3>2, <3>3 DEF after
    <2>6. CASE AdoptedByOtherAssertion(e.patch) # Undefined /\ e.id \in DOMAIN state.maps[Key].at
      <3>1. Stored(Key, e.id) = state.maps[Key].at[e.id] BY <1>0, <2>6 DEF Stored
      <3>2. Stored(Key, e.id) # Undefined
        <4>1. Sound(state.maps[Key].at[e.id]) BY <1>0, <2>6 DEF StateFits
        <4> QED BY <3>1, <4>1, LeavesAreBare DEF Sound
      <3>3. after = IF IsAdoptionContradiction(AdoptionView(state.maps[Key].at[e.id], e.patch), OwnMac)
                    THEN engaged \cup {<<Key, e.id>>} ELSE engaged \ {<<Key, e.id>>}
        BY <1>0, <2>1, <2>6, <3>1, <3>2 DEF TrackAdoptionForDevice
      <3> HIDE DEF after
      <3> QED BY <1>g, <2>2, <2>6, <3>3 DEF after
    <2> QED BY <2>4, <2>5, <2>6
  <1>4. CASE e.kind = "devicePatched" /\ e.modelKey = "nvr" /\ NvrPatchFits(e.patch)
    <2>1. n = PatchDevice(state, "nvr", e.id, e.patch, now) /\ after = engaged
      BY <1>4 DEF Reduce, TrackAdoptionContradiction, TrackAdoptionForDevice
    <2>2. StateFits(n) /\ n.maps = state.maps
      BY <1>4, <2>1, NvrPatchedKeeps DEF NvrPatchFits
    <2> QED BY <2>1, <2>2 DEF EngagedFits, Corrected
  <1>5. CASE e.kind = "deviceRemoved" /\ e.modelKey = Key
    <2>1. n = RemoveDevice(state, Key, e.id, now) /\ after = engaged \ {<<Key, e.id>>}
      BY <1>5 DEF Reduce, TrackAdoptionContradiction
    <2>2. StateFits(n) /\ Elsewhere(state, n, e.id)
      BY <2>1, RemovedKeeps
    <2> HIDE DEF after
    <2> QED BY <1>g, <2>1, <2>2 DEF after
  <1> QED BY <1>1, <1>2, <1>3, <1>4, <1>5 DEF EventFits

LEMMA DispatchMirrors ==
  ASSUME StateFits(state), EngagedFits(engaged, state), NEW e, EventFits(e), NEW now, Dispatch(e, now)
  PROVE  StateFits(state') /\ EngagedFits(engaged', state')
  <1>1. CASE disposed
    BY <1>1 DEF Dispatch
  <1>2. CASE ~disposed
    <2>1. PICK next : next = Reduce(state, e, now) OBVIOUS
    <2>2. engaged' = TrackAdoptionContradiction(e) /\ state' = next
      BY <1>2, <2>1 DEF Dispatch
    <2> QED BY <2>1, <2>2, FoldKeeps
  <1> QED BY <1>1, <1>2

-----------------------------------------------------------------------------
(* What may be on the wire and in an answer. *)
(* A packet on its way, and the whole stream. *)
PacketFits(p) ==
  \/ p.modelKey = Key /\ p.action = "add" /\ FullRecord(Key, p.payload)
  \/ p.modelKey = Key /\ p.action = "update" /\ PatchFits(p.payload)
  \/ p.modelKey = "nvr" /\ p.action = "update" /\ NvrPatchFits(p.payload)
  \/ p.modelKey = Key /\ p.action = "remove"

WireFits(w) == \E S : w \in Seq(S) /\ \A p \in S : PacketFits(p)

FetchFits(g) ==
  /\ DOMAIN g = Fetchers
  /\ \A f \in Fetchers : DOMAIN g[f] = {"at", "carries"} /\ (g[f].at = "answering" => TruthFits(g[f].carries))

StoreInv ==
  TruthFits(truth) /\ WireFits(wire) /\ FetchFits(fetch) /\ StateFits(state) /\ EngagedFits(engaged, state)

LEMMA ParsedFullRecord ==
  ASSUME NEW k, NEW r, FullRecord(k, r), NEW now
  PROVE  FullRecord(k, Parsed(r, now))
  <1>1. IsPlainObject(r) /\ IsPlainObject(Parsed(r, now)) /\ \A f : ReadsAs(Field(Parsed(r, now), f), Field(r, f))
    BY ParsedReads DEF FullRecord
  <1>2. ASSUME NEW f PROVE /\ Field(r, f) \in {Yes, No} => Field(Parsed(r, now), f) \in {Yes, No}
                           /\ Field(r, f) = Undefined <=> Field(Parsed(r, now), f) = Undefined
    BY <1>1, LeavesAreBare DEF ReadsAs
  <1>3. AssertsAdoption(r) => AssertsAdoption(Parsed(r, now))
    BY <1>2 DEF AssertsAdoption
  <1>4. SilentOnAdoption(r) => SilentOnAdoption(Parsed(r, now))
    BY <1>2 DEF SilentOnAdoption
  <1> QED BY <1>1, <1>3, <1>4 DEF FullRecord

LEMMA ParsedControls ==
  ASSUME NEW r, Controls(r), NEW now
  PROVE  Controls(Parsed(r, now))
  BY ParsedReads, ControllerAssumption DEF Controls, ReadsAs

LEMMA ParsedFits ==
  ASSUME NEW t, TruthFits(t), NEW now
  PROVE  TruthFits(ParsedBootstrap(t, now))
  <1> DEFINE maps == [k \in DOMAIN t.maps |-> [id \in DOMAIN t.maps[k] |-> Parsed(t.maps[k][id], now)]]
             b == ParsedBootstrap(t, now)
  <1>1. DOMAIN b = {"nvr", "maps"} /\ b.nvr = Parsed(t.nvr, now) /\ b.maps = maps
    BY DEF ParsedBootstrap
  <1>2. /\ DOMAIN maps = ModelKeys \cup BootstrapKeys
        /\ \A k \in ModelKeys : /\ DOMAIN maps[k] = DOMAIN t.maps[k]
                                /\ \A id \in DOMAIN maps[k] : maps[k][id] = Parsed(t.maps[k][id], now)
    BY DEF TruthFits
  <1> HIDE DEF maps, b
  <1>3. \A k \in ModelKeys : \A id \in DOMAIN b.maps[k] : FullRecord(k, b.maps[k][id])
    BY <1>1, <1>2, ParsedFullRecord DEF TruthFits
  <1> QED BY <1>1, <1>2, <1>3, ParsedControls DEF TruthFits, b

(* The fields of a patch, read by the store. *)
LEMMA ParsedPatch ==
  ASSUME NEW p, NEW now
  PROVE  (PatchFits(p) => PatchFits(Parsed(p, now))) /\ (NvrPatchFits(p) => NvrPatchFits(Parsed(p, now)))
  <1>0. PICK q : q = Parsed(p, now) OBVIOUS
  <1> DEFINE next == [x \in DOMAIN p.at |-> ParsedObject(p.at[x], now)]
  <1>1. IsPlainObject(q) /\ q.at = next
    BY <1>0, ObjectsArePlain DEF Parsed
  <1>2. \A v : IsPlainObject(ParsedObject(v, now)) \/ ParsedObject(v, now) = v
    BY ObjectsArePlain DEF ParsedObject, IsPlainObject
  <1>3. \A v : ~IsPlainObject(v) => ParsedObject(v, now) = v
    BY DEF ParsedObject, IsPlainObject
  <1>4. DOMAIN next = DOMAIN p.at /\ \A k \in DOMAIN p.at : next[k] = ParsedObject(p.at[k], now)
    OBVIOUS
  <1> HIDE DEF next
  <1>5. PatchFits(p) => PatchFits(q)
    BY <1>1, <1>2, <1>4, LeavesAreBare DEF PatchFits
  <1>6. NvrPatchFits(p) => NvrPatchFits(q)
    BY <1>1, <1>3, <1>4, ControllerAssumption DEF NvrPatchFits
  <1> QED BY <1>0, <1>5, <1>6

(* A packet, classified and read, is what the store may be handed. *)
LEMMA ClassifiedFits ==
  ASSUME NEW p, PacketFits(p), ClassifyPacket(p) # None, NEW now
  PROVE  EventFits(ParsedEvent(ClassifyPacket(p), now))
  <1>1. p.modelKey \in {Key, "nvr"} /\ p.modelKey # "event" /\ p.modelKey \in STATE_MODEL_KEYS
    BY KeyAssumption DEF PacketFits, STATE_MODEL_KEYS, DEVICE_MODEL_KEYS, DEVICE_COLLECTION_KEYS
  <1>2. ClassifyPacket(p) = ClassifyStateTransition(p.action, p.modelKey, p.id, p.payload)
    BY <1>1 DEF ClassifyPacket
  <1>3. CASE p.modelKey = Key /\ p.action = "add" /\ FullRecord(Key, p.payload)
    <2>1. ClassifyPacket(p) = [kind |-> "deviceAdded", modelKey |-> Key, id |-> p.id, data |-> p.payload]
      BY <1>2, <1>3 DEF ClassifyStateTransition
    <2>2. PICK data : data = Parsed(p.payload, now) OBVIOUS
    <2>3. ParsedEvent(ClassifyPacket(p), now) = [kind |-> "deviceAdded", modelKey |-> Key, id |-> p.id, data |-> data]
      BY <2>1, <2>2 DEF ParsedEvent
    <2>4. FullRecord(Key, data) BY <1>3, <2>2, ParsedFullRecord
    <2> QED BY <2>3, <2>4 DEF EventFits
  <1>4. CASE p.action = "update" /\ ((p.modelKey = Key /\ PatchFits(p.payload)) \/ (p.modelKey = "nvr" /\ NvrPatchFits(p.payload)))
    <2>1. ClassifyPacket(p) = [kind |-> "devicePatched", modelKey |-> p.modelKey, id |-> p.id, patch |-> p.payload]
      BY <1>2, <1>4 DEF ClassifyStateTransition
    <2>2. PICK patch : patch = Parsed(p.payload, now) OBVIOUS
    <2>3. ParsedEvent(ClassifyPacket(p), now) = [kind |-> "devicePatched", modelKey |-> p.modelKey, id |-> p.id, patch |-> patch]
      BY <2>1, <2>2 DEF ParsedEvent
    <2>4. (PatchFits(p.payload) => PatchFits(patch)) /\ (NvrPatchFits(p.payload) => NvrPatchFits(patch))
      BY <2>2, ParsedPatch
    <2> QED BY <1>4, <2>3, <2>4 DEF EventFits
  <1>5. CASE p.modelKey = Key /\ p.action = "remove"
    <2>1. ClassifyPacket(p) = [kind |-> "deviceRemoved", modelKey |-> Key, id |-> p.id]
      BY <1>2, <1>5 DEF ClassifyStateTransition
    <2>2. ParsedEvent(ClassifyPacket(p), now) = [kind |-> "deviceRemoved", modelKey |-> Key, id |-> p.id]
      BY <2>1 DEF ParsedEvent
    <2> QED BY <2>2 DEF EventFits
  <1> QED BY <1>3, <1>4, <1>5 DEF PacketFits

-----------------------------------------------------------------------------
(* The controller's steps and the store's. *)
LEMMA WireSent ==
  ASSUME NEW w, WireFits(w), NEW p, PacketFits(p)
  PROVE  WireFits(Append(w, p))
  <1>1. PICK S : w \in Seq(S) /\ \A q \in S : PacketFits(q)
    BY DEF WireFits
  <1>2. w \in Seq(S \cup {p}) /\ \A q \in S \cup {p} : PacketFits(q)
    BY <1>1, SeqMonotonic
  <1>3. Append(w, p) \in Seq(S \cup {p})
    BY <1>2
  <1> QED BY <1>2, <1>3 DEF WireFits

LEMMA WireRead ==
  ASSUME NEW w, WireFits(w), w # <<>>
  PROVE  PacketFits(Head(w)) /\ WireFits(Tail(w))
  <1>1. PICK S : w \in Seq(S) /\ \A q \in S : PacketFits(q)
    BY DEF WireFits
  <1>2. Head(w) \in S /\ Tail(w) \in Seq(S)
    BY <1>1, HeadTailProperties
  <1> QED BY <1>1, <1>2 DEF WireFits

(* A patch names fields of the record it leads to. *)
LEMMA PatchIsNew ==
  ASSUME NEW old, NEW new
  PROVE  /\ FullRecord(Key, new) => PatchFits(Patch(old, new))
         /\ Controls(new) => NvrPatchFits(Patch(old, new))
  <1>0. PICK p : p = Patch(old, new) OBVIOUS
  <1> DEFINE named == {x \in DOMAIN new.at : x \notin DOMAIN old.at \/ old.at[x] # new.at[x]}
             at == [k \in named |-> new.at[k]]
  <1>1. p.at = at /\ IsPlainObject(p)
    BY <1>0 DEF Patch, IsPlainObject
  <1>2. \A k \in DOMAIN at : k \in DOMAIN new.at /\ at[k] = new.at[k]
    OBVIOUS
  <1> HIDE DEF at
  <1>3. FullRecord(Key, new) => \A k \in AdoptionFields : Field(new, k) # Undefined /\ IsPlainObject(new)
    BY LeavesAreBare DEF FullRecord, AssertsAdoption, AdoptionFields
  <1>4. FullRecord(Key, new) => PatchFits(p)
    BY <1>1, <1>2, <1>3 DEF PatchFits, Field
  <1>5. Controls(new) => NvrPatchFits(p)
    BY <1>1, <1>2 DEF NvrPatchFits, Controls, Field
  <1> QED BY <1>0, <1>4, <1>5

(* What the controller holds after a change of one collection. *)
LEMMA TruthWritten ==
  ASSUME NEW t, TruthFits(t), NEW k \in ModelKeys \cup BootstrapKeys, NEW c,
         k \in ModelKeys => \A id \in DOMAIN c : FullRecord(k, c[id]),
         NEW n, n = [t EXCEPT !.maps[k] = c]
  PROVE  TruthFits(n)
  <1>1. DOMAIN n = {"nvr", "maps"} /\ DOMAIN n.maps = ModelKeys \cup BootstrapKeys /\ n.nvr = t.nvr
    BY DEF TruthFits
  <1>2. \A j \in ModelKeys \cup BootstrapKeys : n.maps[j] = IF j = k THEN c ELSE t.maps[j]
    BY DEF TruthFits
  <1> QED BY <1>1, <1>2 DEF TruthFits

LEMMA ControllerActs == ASSUME TruthFits(truth), WireFits(wire), Controller PROVE TruthFits(truth') /\ WireFits(wire')
  <1>0. Key \in ModelKeys /\ Key \in ModelKeys \cup BootstrapKeys /\ \A id \in Devices : \A r \in Contents[id] : FullRecord(Key, r)
    BY KeyIsNoNvr, ControllerAssumption
  <1>1. ASSUME NEW id \in Devices, NEW r \in Contents[id], ControllerAdds(id, r)
        PROVE  TruthFits(truth') /\ WireFits(wire')
    <2>1. PICK c : c = With(truth.maps[Key], id, r) OBVIOUS
    <2>2. \A x \in DOMAIN c : FullRecord(Key, c[x])
      BY <1>0, <2>1 DEF With, TruthFits
    <2>3. truth' = [truth EXCEPT !.maps[Key] = c]
      BY <1>1, <2>1 DEF ControllerAdds
    <2>4. PICK p : p = Packet("add", Key, id, r) OBVIOUS
    <2>5. PacketFits(p)
      BY <1>0, <2>4 DEF Packet, PacketFits
    <2>6. wire' = Append(wire, p)
      BY <1>1, <2>4 DEF ControllerAdds, Changes
    <2> QED BY <1>0, <2>2, <2>3, <2>5, <2>6, TruthWritten, WireSent
  <1>2. ASSUME NEW id \in Devices, NEW r \in Contents[id], ControllerPatches(id, r)
        PROVE  TruthFits(truth') /\ WireFits(wire')
    <2>1. PICK c : c = [truth.maps[Key] EXCEPT ![id] = r] OBVIOUS
    <2>2. \A x \in DOMAIN c : FullRecord(Key, c[x])
      BY <1>0, <2>1 DEF TruthFits
    <2>3. truth' = [truth EXCEPT !.maps[Key] = c]
      BY <1>2, <2>1 DEF ControllerPatches
    <2>4. PICK payload : payload = Patch(truth.maps[Key][id], r) OBVIOUS
    <2>5. PICK p : p = Packet("update", Key, id, payload) OBVIOUS
    <2>6. PacketFits(p)
      <3>1. PatchFits(payload) BY <1>0, <2>4, PatchIsNew
      <3> QED BY <2>5, <3>1 DEF Packet, PacketFits
    <2>7. wire' = Append(wire, p)
      BY <1>2, <2>4, <2>5 DEF ControllerPatches, Changes
    <2> QED BY <1>0, <2>2, <2>3, <2>6, <2>7, TruthWritten, WireSent
  <1>3. ASSUME NEW id \in Devices, ControllerRemoves(id)
        PROVE  TruthFits(truth') /\ WireFits(wire')
    <2>1. PICK c : c = Without(truth.maps[Key], id) OBVIOUS
    <2>2. \A x \in DOMAIN c : FullRecord(Key, c[x])
      BY <1>0, <2>1 DEF Without, TruthFits
    <2>3. truth' = [truth EXCEPT !.maps[Key] = c]
      BY <1>3, <2>1 DEF ControllerRemoves
    <2>4. PICK p : p = Packet("remove", Key, id, NotRecord) OBVIOUS
    <2>5. PacketFits(p)
      BY <2>4 DEF Packet, PacketFits
    <2>6. wire' = Append(wire, p)
      BY <1>3, <2>4 DEF ControllerRemoves, Changes
    <2> QED BY <1>0, <2>2, <2>3, <2>5, <2>6, TruthWritten, WireSent
  <1>4. ASSUME NEW r \in Nvrs, ControllerPatchesNvr(r)
        PROVE  TruthFits(truth') /\ WireFits(wire')
    <2>1. Controls(r) BY ControllerAssumption
    <2>2. TruthFits(truth')
      BY <1>4, <2>1 DEF ControllerPatchesNvr, TruthFits
    <2>3. PICK payload : payload = Patch(truth.nvr, r) OBVIOUS
    <2>4. PICK p : p = Packet("update", "nvr", "nvr", payload) OBVIOUS
    <2>5. PacketFits(p)
      <3>1. NvrPatchFits(payload) BY <2>1, <2>3, PatchIsNew
      <3> QED BY <2>4, <3>1 DEF Packet, PacketFits
    <2>6. wire' = Append(wire, p)
      BY <1>4, <2>3, <2>4 DEF ControllerPatchesNvr, Changes
    <2> QED BY <2>2, <2>5, <2>6, WireSent
  <1>5. ASSUME NEW k \in BootstrapKeys, NEW c \in Rosters, ControllerEditsRoster(k, c)
        PROVE  TruthFits(truth') /\ WireFits(wire')
    <2>1. k \notin ModelKeys /\ k \in ModelKeys \cup BootstrapKeys BY KeysAssumption
    <2>2. truth' = [truth EXCEPT !.maps[k] = c] /\ wire' = wire
      BY <1>5 DEF ControllerEditsRoster, Changes
    <2> QED BY <2>1, <2>2, TruthWritten
  <1> QED BY <1>1, <1>2, <1>3, <1>4, <1>5 DEF Controller

LEMMA FetchActs ==
  ASSUME TruthFits(truth), FetchFits(fetch), NEW f \in Fetchers,
         \/ Ask(f) \/ ControllerSnapshots(f) \/ Settles(f) \/ AskFails(f)
  PROVE  FetchFits(fetch')
  <1>1. CASE Ask(f)
    BY <1>1 DEF Ask, FetchFits
  <1>2. CASE ControllerSnapshots(f)
    BY <1>2 DEF ControllerSnapshots, FetchFits
  <1>3. CASE Settles(f) \/ AskFails(f)
    BY <1>3 DEF Settles, AskFails, FetchFits, NoRequest
  <1> QED BY <1>1, <1>2, <1>3

LEMMA StoreInvKept == StoreInv /\ [Next]_vars => StoreInv'
  <1> SUFFICES ASSUME StoreInv, [Next]_vars PROVE StoreInv'
    OBVIOUS
  <1>0. TruthFits(truth) /\ WireFits(wire) /\ FetchFits(fetch) /\ StateFits(state) /\ EngagedFits(engaged, state)
    BY DEF StoreInv
  <1>1. CASE Controller
    <2>1. UNCHANGED <<fetch, state, engaged>>
      BY <1>1 DEF Controller, ControllerAdds, ControllerPatches, ControllerRemoves, ControllerPatchesNvr,
                  ControllerEditsRoster
    <2> QED BY <1>0, <1>1, <2>1, ControllerActs DEF StoreInv
  <1>2. CASE PacketArrives
    <2>1. wire # <<>> /\ wire' = Tail(wire) /\ UNCHANGED <<truth, fetch>>
      BY <1>2 DEF PacketArrives
    <2>2. PacketFits(Head(wire)) /\ WireFits(wire')
      BY <1>0, <2>1, WireRead
    <2>3. CASE ClassifyPacket(Head(wire)) = None
      BY <1>0, <1>2, <2>1, <2>2, <2>3 DEF PacketArrives, StoreInv
    <2>4. CASE ClassifyPacket(Head(wire)) # None
      <3>1. PICK now : Dispatch(ParsedEvent(ClassifyPacket(Head(wire)), now), now)
        BY <1>2, <2>4 DEF PacketArrives
      <3>2. EventFits(ParsedEvent(ClassifyPacket(Head(wire)), now))
        BY <2>2, <2>4, ClassifiedFits
      <3>3. StateFits(state') /\ EngagedFits(engaged', state')
        BY <1>0, <3>1, <3>2, DispatchMirrors
      <3> QED BY <1>0, <2>1, <2>2, <3>3 DEF StoreInv
    <2> QED BY <2>3, <2>4
  <1>3. CASE PacketLost
    <2>1. wire # <<>> /\ wire' = Tail(wire) /\ UNCHANGED <<truth, fetch, state, engaged>>
      BY <1>3 DEF PacketLost
    <2> QED BY <1>0, <2>1, WireRead DEF StoreInv
  <1>4. ASSUME NEW f \in Fetchers, Ask(f) \/ ControllerSnapshots(f) \/ AskFails(f)
        PROVE  StoreInv'
    <2>1. UNCHANGED <<truth, wire, state, engaged>>
      BY <1>4 DEF Ask, ControllerSnapshots, AskFails
    <2> QED BY <1>0, <1>4, <2>1, FetchActs DEF StoreInv
  <1>5. ASSUME NEW f \in Fetchers, Answered(f)
        PROVE  StoreInv'
    <2>1. Settles(f) /\ fetch[f].at = "answering" /\ UNCHANGED <<truth, wire>>
      BY <1>5 DEF Answered, Settles
    <2>2. PICK now : Dispatch([kind |-> "bootstrapLoaded", data |-> ParsedBootstrap(fetch[f].carries, now)], now)
      BY <1>5 DEF Answered
    <2>3. PICK b : b = ParsedBootstrap(fetch[f].carries, now) OBVIOUS
    <2>4. TruthFits(b) BY <1>0, <2>1, <2>3, ParsedFits DEF FetchFits
    <2>5. EventFits([kind |-> "bootstrapLoaded", data |-> b]) BY <2>4 DEF EventFits
    <2>6. StateFits(state') /\ EngagedFits(engaged', state')
      BY <1>0, <2>2, <2>3, <2>5, DispatchMirrors
    <2> QED BY <1>0, <2>1, <2>6, FetchActs DEF StoreInv
  <1>6. CASE (\E o \in Observers : Consumer(o)) \/ Dispose \/ UNCHANGED vars
    <2>1. UNCHANGED <<truth, wire, fetch, state, engaged>>
      BY <1>6 DEF Consumer, Observe, ObserveEnded, Pull, Wakes, Breaks, Aborts, Dispose, vars, world
    <2> QED BY <1>0, <2>1 DEF StoreInv
  <1> QED BY <1>1, <1>2, <1>3, <1>4, <1>5, <1>6 DEF Next

LEMMA StoreBegins == Init => StoreInv
  <1> SUFFICES ASSUME Init PROVE StoreInv
    OBVIOUS
  <1>1. TruthFits(truth)
    BY ControllerAssumption DEF Init, TruthFits
  <1>2. WireFits(wire)
    <2>1. wire \in Seq({}) BY DEF Init
    <2> QED BY <2>1 DEF WireFits
  <1>3. FetchFits(fetch)
    BY DEF Init, FetchFits, NoRequest
  <1>4. StateFits(state)
    <2>1. PICK b : b = ParsedBootstrap(truth, 1) OBVIOUS
    <2>2. state = ApplyBootstrap(InitialState, b, 1)
      BY <2>1 DEF Init, Reduce
    <2> QED BY <1>1, <2>1, <2>2, ParsedFits, BootstrapKeeps
  <1>5. EngagedFits(engaged, state)
    BY DEF Init, EngagedFits
  <1> QED BY <1>1, <1>2, <1>3, <1>4, <1>5 DEF StoreInv

(* Whichever of the packets, removals, stale snapshots and refreshes wrote   *)
(* it, and in whatever order, no device is kept as another controller's      *)
(* while it names this one, and an episode is open only for a device whose   *)
(* stored record was corrected.                                              *)
THEOREM ContradictionIsRefused == Spec => []ContradictionNeverStored
  <1>1. StoreInv => ContradictionNeverStored
    BY DEF StoreInv, StateFits, Controls, Sound, Contradicts, EngagedFits, Corrected, ContradictionNeverStored
  <1> QED BY <1>1, StoreBegins, StoreInvKept, PTL DEF Spec

-----------------------------------------------------------------------------
(* Identity.  A fold hands back the object it found, or one born in it whose *)
(* value differs; and what it takes in was born in it throughout.            *)
IsField(v) == IsPlainObject(v) => IsFlat(v)
Altered(a, b, now) == b = a \/ (Bare(b) # Bare(a) /\ (IsPlainObject(b) => b.born = now))
RecordRenewed(r, n, now) ==
  /\ Altered(r, n, now)
  /\ \A k \in DOMAIN r.at \cap DOMAIN n.at : Altered(r.at[k], n.at[k], now)

BornAt(v, now) == IsPlainObject(v) => v.born = now
NewlyBorn(r, now) == r.born = now /\ \A k \in DOMAIN r.at : BornAt(r.at[k], now)

Spelled(f) == [k \in DOMAIN f |-> BareObject(f[k])]

LEMMA BareRecord ==
  ASSUME NEW r, IsPlainObject(r)
  PROVE  Bare(r) = [at |-> Spelled(r.at)]
  BY DEF Bare, Spelled

LEMMA ObjectsOfOneField ==
  ASSUME NEW f, NEW g, [at |-> f] = [at |-> g]
  PROVE  f = g
  <1>1. [at |-> f].at = f /\ [at |-> g].at = g OBVIOUS
  <1> QED BY <1>1

LEMMA BareObjectIsFiner ==
  ASSUME NEW a, NEW b, BareObject(a) = BareObject(b)
  PROVE  Bare(a) = Bare(b)
  <1>1. ReadsAs(a, b) BY BareObjectReads
  <1>2. CASE ~IsPlainObject(b) BY <1>1, <1>2 DEF ReadsAs
  <1>3. CASE IsPlainObject(b)
    <2>1. IsPlainObject(a) /\ BareObject(a) = [at |-> a.at] /\ BareObject(b) = [at |-> b.at]
      BY <1>1, <1>3 DEF ReadsAs, BareObject
    <2>2. a.at = b.at BY <2>1, ObjectsOfOneField
    <2> QED BY <1>3, <2>1, <2>2, BareRecord
  <1> QED BY <1>2, <1>3

(* A field's value is told by its leaves. *)
LEMMA FieldIsBare ==
  ASSUME NEW v, IsField(v)
  PROVE  Bare(v) = BareObject(v)
  <1>1. CASE ~IsPlainObject(v) BY <1>1 DEF Bare, BareObject
  <1>2. CASE IsPlainObject(v)
    <2>1. IsFunction(v.at) /\ \A k \in DOMAIN v.at : BareObject(v.at[k]) = v.at[k]
      BY <1>2 DEF IsField, IsFlat, BareObject
    <2>2. Spelled(v.at) = v.at BY <2>1 DEF Spelled, IsFunction
    <2> QED BY <1>2, <2>2, BareRecord DEF BareObject
  <1> QED BY <1>1, <1>2

LEMMA LeavesKept ==
  ASSUME NEW a, NEW b, ~IsPlainObject(a), ~IsPlainObject(b), NEW now
  PROVE  KeepIfSame(a, b, now) = b
  BY DEF KeepIfSame, SameValue, Bare

(* An object of leaves rebuilt from leaves. *)
LEMMA FlatRebuilt ==
  ASSUME NEW a, IsPlainObject(a), IsFlat(a), NEW f, IsFunction(f), \A k \in DOMAIN f : ~IsPlainObject(f[k]), NEW now,
         NEW v, v = IF f = a.at THEN a ELSE Object(now, f)
  PROVE  IsPlainObject(v) /\ IsField(v) /\ Altered(a, v, now) /\ v.at = f
  <1>1. IsPlainObject(v) /\ v.at = f /\ (v # a => v.born = now /\ f # a.at) BY ObjectsArePlain
  <1>2. IsField(v) /\ IsField(a) BY <1>1 DEF IsField, IsFlat
  <1>3. BareObject(v) = [at |-> f] /\ BareObject(a) = [at |-> a.at] BY <1>1 DEF BareObject
  <1>4. f # a.at => Bare(v) # Bare(a) BY <1>2, <1>3, FieldIsBare, ObjectsOfOneField
  <1> QED BY <1>1, <1>2, <1>4 DEF Altered

LEMMA FieldMerged ==
  ASSUME NEW a, IsField(a), NEW b, IsField(b), NEW now, BornAt(b, now)
  PROVE  /\ IsField(MergeObjects(a, b, now)) /\ Altered(a, MergeObjects(a, b, now), now)
         /\ IsField(ReconcileObject(a, b, now)) /\ Altered(a, ReconcileObject(a, b, now), now)
         /\ BareObject(ReconcileObject(a, b, now)) = BareObject(b)
  <1>1. CASE IsPlainObject(a) /\ IsPlainObject(b)
    <2> DEFINE Merged(k) == IF k \notin DOMAIN b.at THEN a.at[k]
                            ELSE IF k \notin DOMAIN a.at THEN b.at[k]
                            ELSE KeepIfSame(a.at[k], b.at[k], now)
               f == [k \in DOMAIN a.at \cup DOMAIN b.at |-> Merged(k)]
               Over(k) == IF k \in DOMAIN a.at THEN KeepIfSame(a.at[k], b.at[k], now) ELSE b.at[k]
               g == [k \in DOMAIN b.at |-> Over(k)]
    <2>1. IsFlat(a) /\ IsFlat(b) BY <1>1 DEF IsField
    <2>2. /\ \A k \in DOMAIN a.at : ~IsPlainObject(a.at[k])
          /\ \A k \in DOMAIN b.at : ~IsPlainObject(b.at[k])
          /\ b.at = [k \in DOMAIN b.at |-> b.at[k]]
      BY <2>1 DEF IsFlat, IsFunction
    <2>3. \A k \in DOMAIN a.at \cup DOMAIN b.at : ~IsPlainObject(Merged(k)) BY <2>2, LeavesKept
    <2>4. \A k \in DOMAIN b.at : Over(k) = b.at[k] BY <2>2, LeavesKept
    <2>5. IsFunction(f) /\ \A k \in DOMAIN f : ~IsPlainObject(f[k]) BY <2>3 DEF IsFunction
    <2>6. g = b.at
      <3>1. g = [k \in DOMAIN b.at |-> b.at[k]] BY <2>4
      <3> QED BY <2>2, <3>1
    <2>7. IsFunction(g) /\ \A k \in DOMAIN g : ~IsPlainObject(g[k]) BY <2>2, <2>6 DEF IsFunction
    <2>8. MergeObjects(a, b, now) = IF f = a.at THEN a ELSE Object(now, f)
      BY <1>1 DEF MergeObjects, MergeWith
    <2>9. ReconcileObject(a, b, now) = IF g = a.at THEN a ELSE Object(now, g)
      BY <1>1 DEF ReconcileObject, ReconcileWith
    <2> HIDE DEF f, g
    <2>10. PICK m : m = MergeObjects(a, b, now) OBVIOUS
    <2>11. PICK r : r = ReconcileObject(a, b, now) OBVIOUS
    <2>12. IsField(m) /\ Altered(a, m, now) BY <1>1, <2>1, <2>5, <2>8, <2>10, FlatRebuilt
    <2>13. IsPlainObject(r) /\ IsField(r) /\ Altered(a, r, now) /\ r.at = b.at
      BY <1>1, <2>1, <2>6, <2>7, <2>9, <2>11, FlatRebuilt
    <2> QED BY <1>1, <2>10, <2>11, <2>12, <2>13 DEF BareObject
  <1>2. CASE ~(IsPlainObject(a) /\ IsPlainObject(b))
    <2>1. MergeObjects(a, b, now) = KeepIfSame(a, b, now) /\ ReconcileObject(a, b, now) = KeepIfSame(a, b, now)
      BY <1>2 DEF MergeObjects, ReconcileObject
    <2>2. PICK v : v = KeepIfSame(a, b, now) OBVIOUS
    <2>3. \/ v = a /\ Bare(a) = Bare(b)
          \/ v = b /\ Bare(a) # Bare(b)
      BY <2>2 DEF KeepIfSame, SameValue
    <2>4. IsField(v) /\ Altered(a, v, now) BY <2>3 DEF Altered, BornAt
    <2>5. BareObject(v) = BareObject(b) BY <2>3, FieldIsBare
    <2> QED BY <2>1, <2>2, <2>4, <2>5
  <1> QED BY <1>1, <1>2

(* A record rebuilt from such fields. *)
LEMMA RecordRebuilt ==
  ASSUME NEW r, IsDocument(r), NEW f, IsFunction(f), IsFiniteSet(DOMAIN f), NEW now,
         \A k \in DOMAIN f : IsField(f[k]), \A k \in DOMAIN r.at \cap DOMAIN f : Altered(r.at[k], f[k], now),
         NEW v, v = IF f = r.at THEN r ELSE Object(now, f)
  PROVE  IsDocument(v) /\ RecordRenewed(r, v, now) /\ v.at = f
  <1>1. IsPlainObject(v) /\ v.at = f /\ (v # r => v.born = now /\ f # r.at) BY ObjectsArePlain DEF IsDocument
  <1>2. IsDocument(v) BY <1>1 DEF IsDocument, IsField
  <1>3. ASSUME Bare(v) = Bare(r) PROVE f = r.at
    <2>1. Spelled(f) = Spelled(r.at)
      <3>1. Bare(v) = [at |-> Spelled(f)] /\ Bare(r) = [at |-> Spelled(r.at)] BY <1>1, BareRecord DEF IsDocument
      <3> QED BY <1>3, <3>1, ObjectsOfOneField
    <2>2. DOMAIN f = DOMAIN Spelled(f) /\ DOMAIN r.at = DOMAIN Spelled(r.at) BY DEF Spelled
    <2>3. ASSUME NEW k \in DOMAIN f PROVE f[k] = r.at[k]
      <3>1. k \in DOMAIN r.at BY <2>1, <2>2
      <3>2. Spelled(f)[k] = BareObject(f[k]) /\ Spelled(r.at)[k] = BareObject(r.at[k]) BY <3>1 DEF Spelled
      <3>3. Bare(f[k]) = Bare(r.at[k]) BY <2>1, <3>2, BareObjectIsFiner
      <3> QED BY <3>1, <3>3 DEF Altered
    <2>4. f = [k \in DOMAIN f |-> f[k]] /\ r.at = [k \in DOMAIN r.at |-> r.at[k]] BY DEF IsDocument, IsFunction
    <2>5. DOMAIN f = DOMAIN r.at BY <2>1, <2>2
    <2> QED BY <2>3, <2>4, <2>5
  <1>4. Altered(r, v, now) BY <1>1, <1>3 DEF Altered
  <1> QED BY <1>1, <1>2, <1>4 DEF RecordRenewed

LEMMA RecordPatched ==
  ASSUME NEW r, IsDocument(r), NEW p, IsDocument(p), NEW now, NewlyBorn(p, now), NEW v, v = ApplyDevicePatch(r, p, now)
  PROVE  IsDocument(v) /\ RecordRenewed(r, v, now)
  <1> DEFINE Merged(k) == IF k \notin DOMAIN p.at THEN r.at[k]
                          ELSE IF k \notin DOMAIN r.at THEN p.at[k]
                          ELSE MergeObjects(r.at[k], p.at[k], now)
             f == [k \in DOMAIN r.at \cup DOMAIN p.at |-> Merged(k)]
  <1>1. v = IF f = r.at THEN r ELSE Object(now, f) BY DEF ApplyDevicePatch, MergeWith
  <1>2. /\ \A k \in DOMAIN r.at : IsField(r.at[k])
        /\ \A k \in DOMAIN p.at : IsField(p.at[k]) /\ BornAt(p.at[k], now)
        /\ IsFiniteSet(DOMAIN r.at) /\ IsFiniteSet(DOMAIN p.at)
    BY DEF IsDocument, IsField, NewlyBorn
  <1>3. \A k \in DOMAIN r.at \cup DOMAIN p.at : IsField(Merged(k)) BY <1>2, FieldMerged
  <1>4. \A k \in DOMAIN r.at : Altered(r.at[k], Merged(k), now)
    <2>1. ASSUME NEW k \in DOMAIN r.at, k \in DOMAIN p.at PROVE Altered(r.at[k], MergeObjects(r.at[k], p.at[k], now), now)
      BY <1>2, <2>1, FieldMerged
    <2>2. ASSUME NEW k \in DOMAIN r.at PROVE Altered(r.at[k], r.at[k], now) BY DEF Altered
    <2> QED BY <2>1, <2>2
  <1>5. /\ DOMAIN f = DOMAIN r.at \cup DOMAIN p.at /\ IsFunction(f) /\ \A k \in DOMAIN f : f[k] = Merged(k)
    BY DEF IsFunction
  <1>6. IsFiniteSet(DOMAIN f) BY <1>2, <1>5, FS_Union
  <1> HIDE DEF Merged, f
  <1>7. \A k \in DOMAIN f : IsField(f[k]) BY <1>3, <1>5
  <1>8. \A k \in DOMAIN r.at \cap DOMAIN f : Altered(r.at[k], f[k], now) BY <1>4, <1>5
  <1> QED BY <1>1, <1>5, <1>6, <1>7, <1>8, RecordRebuilt

LEMMA RecordReconciled ==
  ASSUME NEW r, IsDocument(r), NEW p, IsDocument(p), NEW now, NewlyBorn(p, now), NEW v, v = ReconcileRecord(r, p, now)
  PROVE  IsDocument(v) /\ RecordRenewed(r, v, now) /\ SameValue(v, p)
  <1> DEFINE Over(k) == IF k \in DOMAIN r.at THEN ReconcileObject(r.at[k], p.at[k], now) ELSE p.at[k]
             f == [k \in DOMAIN p.at |-> Over(k)]
  <1>1. v = IF f = r.at THEN r ELSE Object(now, f) BY DEF ReconcileRecord, ReconcileWith
  <1>2. /\ \A k \in DOMAIN r.at : IsField(r.at[k])
        /\ \A k \in DOMAIN p.at : IsField(p.at[k]) /\ BornAt(p.at[k], now)
        /\ IsFiniteSet(DOMAIN p.at) /\ IsPlainObject(p)
    BY DEF IsDocument, IsField, NewlyBorn
  <1>3. \A k \in DOMAIN p.at : IsField(Over(k)) /\ BareObject(Over(k)) = BareObject(p.at[k]) BY <1>2, FieldMerged
  <1>4. \A k \in DOMAIN r.at \cap DOMAIN p.at : Altered(r.at[k], Over(k), now) BY <1>2, FieldMerged
  <1>5. DOMAIN f = DOMAIN p.at /\ IsFunction(f) /\ \A k \in DOMAIN f : f[k] = Over(k) BY DEF IsFunction
  <1> HIDE DEF Over, f
  <1>6. \A k \in DOMAIN f : IsField(f[k]) BY <1>3, <1>5
  <1>7. \A k \in DOMAIN r.at \cap DOMAIN f : Altered(r.at[k], f[k], now) BY <1>4, <1>5
  <1>8. IsDocument(v) /\ RecordRenewed(r, v, now) /\ v.at = f BY <1>1, <1>2, <1>5, <1>6, <1>7, RecordRebuilt
  <1>9. Spelled(f) = Spelled(p.at) BY <1>3, <1>5 DEF Spelled
  <1>10. Bare(v) = [at |-> Spelled(v.at)] /\ Bare(p) = [at |-> Spelled(p.at)] BY <1>2, <1>8, BareRecord DEF IsDocument
  <1> QED BY <1>8, <1>9, <1>10 DEF SameValue

LEMMA RecordNormalized ==
  ASSUME NEW p, IsDocument(p), NEW now, NewlyBorn(p, now), NEW stored, NEW mac, NEW v,
         v = NormalizeAdoptedByOther(stored, p, mac, now)
  PROVE  IsDocument(v) /\ NewlyBorn(v, now)
  <1> DEFINE f == [k \in DOMAIN p.at \cup {"isAdoptedByOther"} |-> IF k = "isAdoptedByOther" THEN No ELSE p.at[k]]
  <1>1. v = p \/ v = Object(now, f) BY DEF NormalizeAdoptedByOther
  <1>2. CASE v = Object(now, f)
    <2>1. IsPlainObject(v) /\ v.at = f /\ v.born = now BY <1>2, ObjectsArePlain
    <2>2. IsFunction(f) BY DEF IsFunction
    <2>3. DOMAIN f = DOMAIN p.at \cup {"isAdoptedByOther"}
          /\ \A k \in DOMAIN f : f[k] = No \/ (k \in DOMAIN p.at /\ f[k] = p.at[k])
      OBVIOUS
    <2> HIDE DEF f
    <2>4. IsFiniteSet(DOMAIN f) BY <2>3, FS_AddElement DEF IsDocument
    <2> QED BY <2>1, <2>2, <2>3, <2>4, LeavesAreBare DEF IsDocument, NewlyBorn, BornAt
  <1> QED BY <1>1, <1>2

LEMMA RecordParsed ==
  ASSUME NEW r, IsDocument(r), NEW now, NEW v, v = Parsed(r, now)
  PROVE  IsDocument(v) /\ NewlyBorn(v, now)
  <1> DEFINE f == [k \in DOMAIN r.at |-> ParsedObject(r.at[k], now)]
  <1>1. IsPlainObject(v) /\ v.at = f /\ v.born = now BY ObjectsArePlain DEF Parsed
  <1>2. DOMAIN f = DOMAIN r.at /\ IsFunction(f) /\ \A k \in DOMAIN f : f[k] = ParsedObject(r.at[k], now)
    BY DEF IsFunction
  <1>3. ASSUME NEW w, IsField(w) PROVE IsField(ParsedObject(w, now)) /\ BornAt(ParsedObject(w, now), now)
    <2>1. CASE IsPlainObject(w) BY <1>3, <2>1, ObjectsArePlain DEF ParsedObject, IsPlainObject, IsField, IsFlat, BornAt
    <2>2. CASE ~IsPlainObject(w) BY <2>2 DEF ParsedObject, IsPlainObject, IsField, BornAt
    <2> QED BY <2>1, <2>2
  <1> HIDE DEF f
  <1>4. \A k \in DOMAIN f : IsField(f[k]) /\ BornAt(f[k], now) BY <1>2, <1>3 DEF IsDocument, IsField
  <1> QED BY <1>1, <1>2, <1>4 DEF IsDocument, IsField, NewlyBorn

-----------------------------------------------------------------------------
(* Collections, and what each of the folds leaves of the state. *)
Values(at) == [id \in DOMAIN at |-> Bare(at[id])]
MapRenewed(c, d, now) ==
  /\ d = c \/ (d.born = now /\ Values(d.at) # Values(c.at))
  /\ \A id \in DOMAIN c.at \cap DOMAIN d.at : RecordRenewed(c.at[id], d.at[id], now)

StateShaped(s) == IsDocument(s.nvr) /\ \A k \in DOMAIN s.maps : IsCollection(s.maps[k].at)
StateRenewed(s, n, now) ==
  /\ DOMAIN n.maps = DOMAIN s.maps /\ RecordRenewed(s.nvr, n.nvr, now)
  /\ \A k \in DOMAIN s.maps : MapRenewed(s.maps[k], n.maps[k], now)

AllNew(c, now) == IsCollection(c) /\ \A id \in DOMAIN c : NewlyBorn(c[id], now)
BootstrapShaped(b, now) ==
  IsDocument(b.nvr) /\ NewlyBorn(b.nvr, now) /\ \A k \in DOMAIN b.maps : AllNew(b.maps[k], now)

LEMMA RecordKept == ASSUME NEW r, NEW now PROVE RecordRenewed(r, r, now)
  BY DEF RecordRenewed, Altered

LEMMA MapKept == ASSUME NEW c, NEW now PROVE MapRenewed(c, c, now)
  BY RecordKept DEF MapRenewed

LEMMA StateKept == ASSUME NEW s, NEW now PROVE StateRenewed(s, s, now)
  BY RecordKept, MapKept DEF StateRenewed

LEMMA CollectionReconciled ==
  ASSUME NEW c, IsCollection(c.at), NEW devices, NEW now, AllNew(devices, now), NEW d, d = ReconcileMap(c, devices, now)
  PROVE  IsCollection(d.at) /\ MapRenewed(c, d, now)
  <1> DEFINE Kept(id) == id \in DOMAIN c.at /\ SameValue(c.at[id], devices[id])
             Over(id) == IF id \notin DOMAIN c.at THEN devices[id]
                         ELSE IF Kept(id) THEN c.at[id]
                         ELSE ReconcileRecord(c.at[id], devices[id], now)
             at == [id \in DOMAIN devices |-> Over(id)]
             changed == \/ Cardinality(DOMAIN devices) # Cardinality(DOMAIN c.at)
                        \/ \E id \in DOMAIN devices : ~Kept(id)
  <1>1. d = IF changed THEN Object(now, at) ELSE c BY DEF ReconcileMap
  <1>2. DOMAIN at = DOMAIN devices /\ \A id \in DOMAIN devices : at[id] = Over(id) OBVIOUS
  <1>3. ASSUME NEW id \in DOMAIN devices
        PROVE  /\ IsDocument(Over(id)) /\ SameValue(Over(id), devices[id])
               /\ id \in DOMAIN c.at => RecordRenewed(c.at[id], Over(id), now)
    <2>1. IsDocument(devices[id]) /\ NewlyBorn(devices[id], now) BY DEF AllNew, IsCollection
    <2>2. CASE id \notin DOMAIN c.at BY <2>1, <2>2 DEF SameValue
    <2>3. CASE Kept(id)
      <3>1. Over(id) = c.at[id] /\ IsDocument(c.at[id]) BY <2>3 DEF IsCollection
      <3> QED BY <2>3, <3>1, RecordKept
    <2>4. CASE id \in DOMAIN c.at /\ ~Kept(id)
      <3>1. PICK v : v = ReconcileRecord(c.at[id], devices[id], now) OBVIOUS
      <3>2. IsDocument(c.at[id]) BY <2>4 DEF IsCollection
      <3>3. IsDocument(v) /\ RecordRenewed(c.at[id], v, now) /\ SameValue(v, devices[id])
        BY <2>1, <3>1, <3>2, RecordReconciled
      <3>4. Over(id) = v BY <2>4, <3>1
      <3> HIDE DEF Over
      <3> QED BY <3>3, <3>4
    <2> HIDE DEF Over
    <2> QED BY <2>2, <2>3, <2>4
  <1> HIDE DEF at, Over
  <1>4. ASSUME changed, Values(at) = Values(c.at) PROVE FALSE
    <2>1. DOMAIN devices = DOMAIN c.at
      <3>1. DOMAIN Values(at) = DOMAIN at /\ DOMAIN Values(c.at) = DOMAIN c.at BY DEF Values
      <3> QED BY <1>2, <1>4, <3>1
    <2>2. PICK id \in DOMAIN devices : ~Kept(id) BY <1>4, <2>1
    <2>3. Values(at)[id] = Bare(at[id]) /\ Values(c.at)[id] = Bare(c.at[id]) BY <1>2, <2>1 DEF Values
    <2>4. Bare(at[id]) = Bare(devices[id]) BY <1>2, <1>3 DEF SameValue
    <2> QED BY <1>4, <2>1, <2>2, <2>3, <2>4 DEF SameValue
  <1>5. CASE changed
    <2>1. d.at = at /\ d.born = now BY <1>1, <1>5, ObjectsArePlain
    <2>2. IsCollection(at) BY <1>2, <1>3 DEF IsCollection, AllNew
    <2>3. \A id \in DOMAIN c.at \cap DOMAIN at : RecordRenewed(c.at[id], at[id], now) BY <1>2, <1>3
    <2> HIDE DEF changed
    <2> QED BY <1>4, <1>5, <2>1, <2>2, <2>3 DEF MapRenewed
  <1>6. CASE ~changed
    <2>1. d = c BY <1>1, <1>6
    <2> QED BY <2>1, MapKept
  <1> QED BY <1>5, <1>6

(* The records of a bootstrap as they are folded. *)
LEMMA BootstrapNormalized ==
  ASSUME NEW b, TruthFits(b), NEW now, BootstrapShaped(b, now), NEW source, source = NormalizeBootstrapAdoption(b, now)
  PROVE  BootstrapShaped(source, now) /\ DOMAIN source.maps = ModelKeys \cup BootstrapKeys
  <1> DEFINE Corr(r) == NormalizeAdoptedByOther(Undefined, r, Field(b.nvr, "mac"), now)
             Normalized(c) == [id \in DOMAIN c |-> Corr(c[id])]
             maps == [k \in DOMAIN b.maps |-> IF k \in ModelKeys THEN Normalized(b.maps[k]) ELSE b.maps[k]]
  <1>1. source = [b EXCEPT !.maps = maps] BY DEF NormalizeBootstrapAdoption
  <1>2. /\ DOMAIN maps = ModelKeys \cup BootstrapKeys
        /\ \A k \in DOMAIN maps : k \in DOMAIN b.maps /\ (maps[k] = Normalized(b.maps[k]) \/ maps[k] = b.maps[k])
    BY DEF TruthFits
  <1>3. source.nvr = b.nvr /\ source.maps = maps
    <2> HIDE DEF maps
    <2> QED BY <1>1 DEF TruthFits
  <1>4. ASSUME NEW c, AllNew(c, now) PROVE AllNew(Normalized(c), now)
    <2>1. DOMAIN Normalized(c) = DOMAIN c /\ \A id \in DOMAIN c : Normalized(c)[id] = Corr(c[id]) OBVIOUS
    <2>2. \A id \in DOMAIN c : IsDocument(c[id]) /\ NewlyBorn(c[id], now) BY <1>4 DEF AllNew, IsCollection
    <2>3. \A id \in DOMAIN c : IsDocument(Corr(c[id])) /\ NewlyBorn(Corr(c[id]), now) BY <2>2, RecordNormalized
    <2> HIDE DEF Normalized, Corr
    <2> QED BY <1>4, <2>1, <2>3 DEF AllNew, IsCollection
  <1> HIDE DEF maps, Normalized
  <1>5. \A k \in DOMAIN maps : AllNew(maps[k], now) BY <1>2, <1>4 DEF BootstrapShaped
  <1> QED BY <1>2, <1>3, <1>5 DEF BootstrapShaped

LEMMA BootstrapRenews ==
  ASSUME NEW s, s = InitialState \/ (StateFits(s) /\ StateShaped(s)),
         NEW b, TruthFits(b), NEW now, BootstrapShaped(b, now), NEW n, n = ApplyBootstrap(s, b, now)
  PROVE  StateShaped(n) /\ (s # InitialState => StateRenewed(s, n, now))
  <1>1. PICK source : source = NormalizeBootstrapAdoption(b, now) OBVIOUS
  <1>2. PICK nvr : nvr = IF s.nvr = Undefined THEN source.nvr
                         ELSE IF SameValue(s.nvr, source.nvr) THEN s.nvr ELSE ReconcileRecord(s.nvr, source.nvr, now)
    OBVIOUS
  <1>3. n = [nvr |-> nvr, maps |-> [k \in DOMAIN s.maps |-> ReconcileMap(s.maps[k], source.maps[k], now)]]
    BY <1>1, <1>2 DEF ApplyBootstrap
  <1>4. /\ DOMAIN s.maps = ModelKeys \cup BootstrapKeys
        /\ \A k \in DOMAIN s.maps : IsCollection(s.maps[k].at)
        /\ s.nvr = Undefined \/ IsDocument(s.nvr)
        /\ s # InitialState => IsDocument(s.nvr)
    <2>1. CASE s = InitialState
      <3>1. s.nvr = Undefined /\ DOMAIN s.maps = ModelKeys \cup BootstrapKeys BY <2>1 DEF InitialState
      <3>2. PICK none : none = <<>> OBVIOUS
      <3>3. DOMAIN none = {} BY <3>2
      <3>4. \A k \in DOMAIN s.maps : s.maps[k].at = none
        BY <2>1, <3>2, ObjectsArePlain DEF InitialState
      <3> QED BY <2>1, <3>1, <3>3, <3>4, FS_EmptySet DEF IsCollection
    <2>2. CASE StateFits(s) /\ StateShaped(s)
      BY <2>2 DEF StateFits, StateShaped
    <2> QED BY <2>1, <2>2
  <1>5. BootstrapShaped(source, now) /\ DOMAIN source.maps = ModelKeys \cup BootstrapKeys
    BY <1>1, BootstrapNormalized
  <1>6. IsDocument(nvr) /\ (s # InitialState => RecordRenewed(s.nvr, nvr, now))
    <2>1. IsDocument(source.nvr) /\ NewlyBorn(source.nvr, now) BY <1>5 DEF BootstrapShaped
    <2>2. IsDocument(s.nvr) => s.nvr # Undefined BY LeavesAreBare DEF IsDocument
    <2>3. PICK v : v = ReconcileRecord(s.nvr, source.nvr, now) OBVIOUS
    <2>4. IsDocument(s.nvr) => IsDocument(v) /\ RecordRenewed(s.nvr, v, now) BY <2>1, <2>3, RecordReconciled
    <2> QED BY <1>2, <1>4, <2>1, <2>2, <2>3, <2>4, RecordKept
  <1>7. /\ DOMAIN n.maps = DOMAIN s.maps /\ n.nvr = nvr
        /\ \A k \in DOMAIN s.maps : n.maps[k] = ReconcileMap(s.maps[k], source.maps[k], now)
    BY <1>3
  <1>8. ASSUME NEW k \in DOMAIN s.maps PROVE IsCollection(n.maps[k].at) /\ MapRenewed(s.maps[k], n.maps[k], now)
    <2>1. PICK c : c = s.maps[k] OBVIOUS
    <2>2. PICK devices : devices = source.maps[k] OBVIOUS
    <2>3. PICK d : d = ReconcileMap(c, devices, now) OBVIOUS
    <2>4. AllNew(devices, now) /\ IsCollection(c.at) BY <1>4, <1>5, <2>1, <2>2 DEF BootstrapShaped
    <2>5. IsCollection(d.at) /\ MapRenewed(c, d, now) BY <2>3, <2>4, CollectionReconciled
    <2> QED BY <1>7, <2>1, <2>2, <2>3, <2>5
  <1> QED BY <1>6, <1>7, <1>8 DEF StateShaped, StateRenewed

(* One collection written. *)
LEMMA CollectionWritten ==
  ASSUME NEW s, StateFits(s), StateShaped(s), NEW at, IsCollection(at), NEW now,
         Values(at) # Values(s.maps[Key].at),
         \A id \in DOMAIN s.maps[Key].at \cap DOMAIN at : RecordRenewed(s.maps[Key].at[id], at[id], now),
         NEW n, n = WithDeviceMap(s, Key, at, now)
  PROVE  StateShaped(n) /\ StateRenewed(s, n, now)
  <1>1. PICK c : c = Object(now, at) OBVIOUS
  <1>2. c.at = at /\ c.born = now BY <1>1, ObjectsArePlain
  <1>3. n = [s EXCEPT !.maps[Key] = c] BY <1>1 DEF WithDeviceMap
  <1>4. /\ DOMAIN n.maps = DOMAIN s.maps /\ n.nvr = s.nvr /\ n.maps[Key] = c
        /\ \A k \in DOMAIN s.maps \ {Key} : n.maps[k] = s.maps[k]
    BY <1>3, KeyIsNoNvr DEF StateFits
  <1>5. StateShaped(n) BY <1>2, <1>4 DEF StateShaped
  <1>6. MapRenewed(s.maps[Key], c, now) BY <1>2 DEF MapRenewed
  <1> QED BY <1>4, <1>5, <1>6, RecordKept, MapKept DEF StateRenewed

LEMMA RecordPut ==
  ASSUME NEW s, StateFits(s), StateShaped(s), NEW id, NEW r, IsDocument(r), NEW now,
         id \in DOMAIN s.maps[Key].at => r # s.maps[Key].at[id] /\ RecordRenewed(s.maps[Key].at[id], r, now),
         NEW n, n = WithDeviceMap(s, Key, With(s.maps[Key].at, id, r), now)
  PROVE  StateShaped(n) /\ StateRenewed(s, n, now)
  <1>1. PICK old : old = s.maps[Key].at OBVIOUS
  <1>2. PICK at : at = With(old, id, r) OBVIOUS
  <1>3. /\ DOMAIN at = DOMAIN old \cup {id} /\ at[id] = r
        /\ \A x \in DOMAIN old : x # id => at[x] = old[x]
    BY <1>2 DEF With
  <1>4. IsCollection(old) BY <1>1, KeyIsNoNvr DEF StateShaped, StateFits
  <1>5. IsCollection(at) BY <1>3, <1>4, FS_AddElement DEF IsCollection
  <1>6. Values(at) # Values(old)
    <2>1. /\ DOMAIN Values(at) = DOMAIN at /\ DOMAIN Values(old) = DOMAIN old
          /\ Values(at)[id] = Bare(r) /\ (id \in DOMAIN old => Values(old)[id] = Bare(old[id]))
      BY <1>3 DEF Values
    <2>2. id \in DOMAIN old => Bare(r) # Bare(old[id]) BY <1>1 DEF RecordRenewed, Altered
    <2> QED BY <1>3, <2>1, <2>2
  <1>7. \A x \in DOMAIN old \cap DOMAIN at : RecordRenewed(old[x], at[x], now) BY <1>1, <1>3, RecordKept
  <1> QED BY <1>1, <1>2, <1>5, <1>6, <1>7, CollectionWritten

LEMMA AddedRenews ==
  ASSUME NEW s, StateFits(s), StateShaped(s), NEW id, NEW data, IsDocument(data), NEW now, NewlyBorn(data, now),
         NEW n, n = UpsertDevice(s, Key, id, data, now)
  PROVE  StateShaped(n) /\ StateRenewed(s, n, now)
  <1>1. PICK record : record = NormalizeAdoptedByOther(Undefined, data, Field(s.nvr, "mac"), now) OBVIOUS
  <1>2. PICK existing : existing = IF id \in DOMAIN s.maps[Key].at THEN s.maps[Key].at[id] ELSE Undefined OBVIOUS
  <1>3. PICK next : next = IF existing = Undefined THEN record ELSE ReconcileRecord(existing, record, now) OBVIOUS
  <1>4. n = IF existing # Undefined /\ SameValue(existing, record) THEN s
            ELSE WithDeviceMap(s, Key, With(s.maps[Key].at, id, next), now)
    BY <1>1, <1>2, <1>3, KeyIsNoNvr DEF UpsertDevice
  <1>5. IsDocument(record) /\ NewlyBorn(record, now) BY <1>1, RecordNormalized
  <1>6. id \in DOMAIN s.maps[Key].at => IsDocument(existing) /\ existing # Undefined /\ existing = s.maps[Key].at[id]
    BY <1>2, KeyIsNoNvr, LeavesAreBare DEF StateShaped, StateFits, IsCollection, IsDocument
  <1>7. CASE existing # Undefined /\ SameValue(existing, record)
    BY <1>4, <1>7, StateKept
  <1>8. CASE ~(existing # Undefined /\ SameValue(existing, record))
    <2>1. CASE id \in DOMAIN s.maps[Key].at
      <3>1. IsDocument(next) /\ RecordRenewed(existing, next, now) /\ SameValue(next, record)
        BY <1>3, <1>5, <1>6, <2>1, RecordReconciled
      <3>2. next # existing BY <1>6, <1>8, <2>1, <3>1
      <3> QED BY <1>4, <1>6, <1>8, <2>1, <3>1, <3>2, RecordPut
    <2>2. CASE id \notin DOMAIN s.maps[Key].at
      <3>1. next = record BY <1>2, <1>3, <2>2
      <3> QED BY <1>4, <1>5, <1>8, <2>2, <3>1, RecordPut
    <2> QED BY <2>1, <2>2
  <1> QED BY <1>7, <1>8

LEMMA PatchedRenews ==
  ASSUME NEW s, StateFits(s), StateShaped(s), NEW key \in {Key, "nvr"}, NEW id, NEW patch, IsDocument(patch), NEW now,
         NewlyBorn(patch, now), NEW n, n = PatchDevice(s, key, id, patch, now)
  PROVE  StateShaped(n) /\ StateRenewed(s, n, now)
  <1>1. PICK existing : existing = IF key = "nvr" THEN s.nvr
                                   ELSE IF id \in DOMAIN s.maps[key].at THEN s.maps[key].at[id] ELSE Undefined
    OBVIOUS
  <1>2. PICK p : p = NormalizeAdoptedByOther(existing, patch, Field(s.nvr, "mac"), now) OBVIOUS
  <1>3. PICK patched : patched = ApplyDevicePatch(existing, p, now) OBVIOUS
  <1>4. n = IF existing = Undefined \/ patched = existing THEN s
            ELSE IF key = "nvr" THEN [s EXCEPT !.nvr = patched]
            ELSE WithDeviceMap(s, key, With(s.maps[key].at, id, patched), now)
    BY <1>1, <1>2, <1>3 DEF PatchDevice
  <1>5. CASE existing = Undefined \/ patched = existing BY <1>4, <1>5, StateKept
  <1>6. CASE existing # Undefined /\ patched # existing
    <2>1. IsDocument(existing)
      BY <1>1, <1>6, KeyIsNoNvr DEF StateShaped, StateFits, IsCollection
    <2>2. IsDocument(p) /\ NewlyBorn(p, now) BY <1>2, RecordNormalized
    <2>3. IsDocument(patched) /\ RecordRenewed(existing, patched, now) BY <1>3, <2>1, <2>2, RecordPatched
    <2>4. CASE key = "nvr"
      <3>1. n = [s EXCEPT !.nvr = patched] /\ existing = s.nvr BY <1>1, <1>4, <1>6, <2>4
      <3>2. n.nvr = patched /\ n.maps = s.maps BY <3>1 DEF StateFits
      <3> QED BY <2>3, <3>1, <3>2, MapKept DEF StateShaped, StateRenewed
    <2>5. CASE key = Key
      <3>1. n = WithDeviceMap(s, Key, With(s.maps[Key].at, id, patched), now) BY <1>4, <1>6, <2>5, KeyIsNoNvr
      <3>2. existing = s.maps[Key].at[id] BY <1>1, <1>6, <2>5, KeyIsNoNvr
      <3> QED BY <1>6, <2>3, <3>1, <3>2, RecordPut
    <2> QED BY <2>4, <2>5
  <1> QED BY <1>5, <1>6

LEMMA RemovedRenews ==
  ASSUME NEW s, StateFits(s), StateShaped(s), NEW id, NEW now, NEW n, n = RemoveDevice(s, Key, id, now)
  PROVE  StateShaped(n) /\ StateRenewed(s, n, now)
  <1>1. PICK old : old = s.maps[Key].at OBVIOUS
  <1>2. PICK at : at = Without(old, id) OBVIOUS
  <1>3. n = IF id \notin DOMAIN old THEN s ELSE WithDeviceMap(s, Key, at, now)
    BY <1>1, <1>2, KeyIsNoNvr DEF RemoveDevice
  <1>4. CASE id \notin DOMAIN old BY <1>3, <1>4, StateKept
  <1>5. CASE id \in DOMAIN old
    <2>1. DOMAIN at = DOMAIN old \ {id} /\ \A x \in DOMAIN at : at[x] = old[x] BY <1>2 DEF Without
    <2>2. IsCollection(old) BY <1>1, KeyIsNoNvr DEF StateShaped, StateFits
    <2>3. IsCollection(at) BY <2>1, <2>2, FS_RemoveElement DEF IsCollection
    <2>4. DOMAIN Values(at) = DOMAIN at /\ DOMAIN Values(old) = DOMAIN old BY DEF Values
    <2>5. Values(at) # Values(old) BY <1>5, <2>1, <2>4
    <2>6. \A x \in DOMAIN old \cap DOMAIN at : RecordRenewed(old[x], at[x], now) BY <2>1, RecordKept
    <2> QED BY <1>1, <1>3, <1>5, <2>3, <2>5, <2>6, CollectionWritten
  <1> QED BY <1>4, <1>5

EventShaped(e, now) ==
  /\ e.kind = "bootstrapLoaded" => BootstrapShaped(e.data, now)
  /\ e.kind = "deviceAdded" => IsDocument(e.data) /\ NewlyBorn(e.data, now)
  /\ e.kind = "devicePatched" => IsDocument(e.patch) /\ NewlyBorn(e.patch, now)

LEMMA FoldRenews ==
  ASSUME NEW s, StateFits(s), StateShaped(s), NEW e, EventFits(e), NEW now, EventShaped(e, now),
         NEW n, n = Reduce(s, e, now)
  PROVE  StateShaped(n) /\ StateRenewed(s, n, now)
  <1>1. CASE e.kind = "bootstrapLoaded" /\ TruthFits(e.data)
    <2>1. n = ApplyBootstrap(s, e.data, now) BY <1>1 DEF Reduce
    <2>2. BootstrapShaped(e.data, now) BY <1>1 DEF EventShaped
    <2>3. s # InitialState BY LeavesAreBare DEF StateShaped, IsDocument, InitialState
    <2> QED BY <1>1, <2>1, <2>2, <2>3, BootstrapRenews
  <1>2. CASE e.kind = "deviceAdded" /\ e.modelKey = Key
    BY <1>2, AddedRenews DEF Reduce, EventShaped
  <1>3. CASE e.kind = "devicePatched" /\ e.modelKey \in {Key, "nvr"}
    BY <1>3, PatchedRenews DEF Reduce, EventShaped
  <1>4. CASE e.kind = "deviceRemoved" /\ e.modelKey = Key
    BY <1>4, RemovedRenews DEF Reduce
  <1> QED BY <1>1, <1>2, <1>3, <1>4 DEF EventFits

-----------------------------------------------------------------------------
(* The places of a state, and what a fold does to each. *)
Lies(s, path, v) ==
  \/ path = <<"nvr">> /\ v = s.nvr
  \/ \E f \in DOMAIN s.nvr.at : IsPlainObject(s.nvr.at[f]) /\ path = <<"nvr", f>> /\ v = s.nvr.at[f]
  \/ \E k \in DOMAIN s.maps : path = <<k>> /\ v = s.maps[k]
  \/ \E k \in DOMAIN s.maps : \E id \in DOMAIN s.maps[k].at : path = <<k, id>> /\ v = s.maps[k].at[id]
  \/ \E k \in DOMAIN s.maps : \E id \in DOMAIN s.maps[k].at : \E f \in DOMAIN s.maps[k].at[id].at :
       IsPlainObject(s.maps[k].at[id].at[f]) /\ path = <<k, id, f>> /\ v = s.maps[k].at[id].at[f]

LEMMA NestedReads ==
  ASSUME NEW path, NEW r, NEW p \in Nested(path, r)
  PROVE  \/ p = <<path, r>>
         \/ \E f \in DOMAIN r.at : IsPlainObject(r.at[f]) /\ p = <<Append(path, f), r.at[f]>>
  BY DEF Nested

LEMMA PathsGrow ==
  /\ \A a, f : Append(<<a>>, f) = <<a, f>>
  /\ \A a, b, f : Append(<<a, b>>, f) = <<a, b, f>>
  <1>1. ASSUME NEW a, NEW f PROVE Append(<<a>>, f) = <<a, f>>
    <2>1. PICK S : S = {a, f} OBVIOUS
    <2>2. f \in S /\ <<a>> \in Seq(S) /\ <<a, f>> \in Seq(S) BY <2>1
    <2>3. PICK t : t = Append(<<a>>, f) OBVIOUS
    <2>4. t \in Seq(S) /\ Len(t) = 2 /\ t[1] = a /\ t[2] = f BY <2>2, <2>3, AppendProperties
    <2>5. Len(<<a, f>>) = 2 /\ \A i \in 1..Len(t) : t[i] = <<a, f>>[i] BY <2>4
    <2> QED BY <2>2, <2>3, <2>4, <2>5, SeqEqual
  <1>2. ASSUME NEW a, NEW b, NEW f PROVE Append(<<a, b>>, f) = <<a, b, f>>
    <2>1. PICK S : S = {a, b, f} OBVIOUS
    <2>2. f \in S /\ <<a, b>> \in Seq(S) /\ <<a, b, f>> \in Seq(S) BY <2>1
    <2>3. PICK t : t = Append(<<a, b>>, f) OBVIOUS
    <2>4. t \in Seq(S) /\ Len(t) = 3 /\ t[1] = a /\ t[2] = b /\ t[3] = f BY <2>2, <2>3, AppendProperties
    <2>5. Len(<<a, b, f>>) = 3 /\ \A i \in 1..Len(t) : t[i] = <<a, b, f>>[i] BY <2>4
    <2> QED BY <2>2, <2>3, <2>4, <2>5, SeqEqual
  <1> QED BY <1>1, <1>2

LEMMA PlacesLie ==
  ASSUME NEW s, NEW p \in Places(s)
  PROVE  Lies(s, p[1], p[2])
  <1>1. ASSUME NEW f PROVE Append(<<"nvr">>, f) = <<"nvr", f>> BY PathsGrow
  <1>2. ASSUME NEW k, NEW id, NEW f PROVE Append(<<k, id>>, f) = <<k, id, f>> BY PathsGrow
  <1>3. CASE p \in Nested(<<"nvr">>, s.nvr)
    <2>1. \/ p = <<<<"nvr">>, s.nvr>>
          \/ \E f \in DOMAIN s.nvr.at : IsPlainObject(s.nvr.at[f]) /\ p = <<<<"nvr", f>>, s.nvr.at[f]>>
      BY <1>1, <1>3, NestedReads
    <2> QED BY <2>1 DEF Lies
  <1>4. CASE \E k \in DOMAIN s.maps : p = <<<<k>>, s.maps[k]>>
    BY <1>4 DEF Lies
  <1>5. CASE \E k \in DOMAIN s.maps : \E id \in DOMAIN s.maps[k].at : p \in Nested(<<k, id>>, s.maps[k].at[id])
    <2>1. PICK k \in DOMAIN s.maps : \E id \in DOMAIN s.maps[k].at : p \in Nested(<<k, id>>, s.maps[k].at[id]) BY <1>5
    <2>2. PICK id \in DOMAIN s.maps[k].at : p \in Nested(<<k, id>>, s.maps[k].at[id]) BY <2>1
    <2>3. PICK r : r = s.maps[k].at[id] OBVIOUS
    <2>4. CASE p = <<<<k, id>>, r>> BY <2>3, <2>4 DEF Lies
    <2>5. ASSUME NEW f \in DOMAIN r.at, IsPlainObject(r.at[f]), p = <<Append(<<k, id>>, f), r.at[f]>>
          PROVE  Lies(s, p[1], p[2])
      <3>1. p[1] = <<k, id, f>> /\ p[2] = r.at[f] BY <1>2, <2>5
      <3> QED BY <2>3, <2>5, <3>1 DEF Lies
    <2>6. PICK path : path = <<k, id>> OBVIOUS
    <2>7. \/ p = <<path, r>>
          \/ \E f \in DOMAIN r.at : IsPlainObject(r.at[f]) /\ p = <<Append(path, f), r.at[f]>>
      <3>1. p \in Nested(path, r) BY <2>2, <2>3, <2>6
      <3> QED BY <3>1, NestedReads
    <2> QED BY <2>4, <2>5, <2>6, <2>7
  <1>6. \/ p \in Nested(<<"nvr">>, s.nvr)
        \/ \E k \in DOMAIN s.maps : p = <<<<k>>, s.maps[k]>>
        \/ \E k \in DOMAIN s.maps : \E id \in DOMAIN s.maps[k].at : p \in Nested(<<k, id>>, s.maps[k].at[id])
    <2>1. CASE p \in (IF s.nvr = Undefined THEN {} ELSE Nested(<<"nvr">>, s.nvr)) BY <2>1
    <2>2. CASE p \in {<<<<k>>, s.maps[k]>> : k \in DOMAIN s.maps} BY <2>2
    <2>3. CASE p \in UNION {UNION {Nested(<<k, id>>, s.maps[k].at[id]) : id \in DOMAIN s.maps[k].at} : k \in DOMAIN s.maps}
      BY <2>3
    <2> QED BY <2>1, <2>2, <2>3 DEF Places
  <1> QED BY <1>3, <1>4, <1>5, <1>6

(* One path names one place. *)
LEMMA PathsTell ==
  /\ \A a, b : <<a>> = <<b>> => a = b
  /\ \A a, b, c : <<a>> # <<b, c>>
  /\ \A a, b, c, d : <<a>> # <<b, c, d>>
  /\ \A a, b, c, d : <<a, b>> = <<c, d>> => a = c /\ b = d
  /\ \A a, b, c, d, e : <<a, b>> # <<c, d, e>>
  /\ \A a, b, c, d, e, f : <<a, b, c>> = <<d, e, f>> => a = d /\ b = e /\ c = f
  OBVIOUS

MeansChange(p, q, now) == q[2] = p[2] \/ (q[2].born = now /\ Forgetting(p) # Forgetting(q))

LEMMA RecordMeansChange ==
  ASSUME NEW p, NEW q, p[1] = q[1], Len(p[1]) # 1 \/ p[1][1] = "nvr",
         NEW now, IsPlainObject(q[2]), Altered(p[2], q[2], now)
  PROVE  MeansChange(p, q, now)
  BY DEF MeansChange, Altered, Forgetting

LEMMA PlacesChange ==
  ASSUME NEW s, NEW n, DOMAIN s.maps = ModelKeys \cup BootstrapKeys, StateShaped(s), StateShaped(n),
         NEW now, StateRenewed(s, n, now), NEW p, NEW q, p[1] = q[1], Lies(s, p[1], p[2]), Lies(n, q[1], q[2])
  PROVE  MeansChange(p, q, now)
  <1>1. "nvr" \notin DOMAIN s.maps /\ DOMAIN n.maps = DOMAIN s.maps BY KeysAssumption DEF StateRenewed
  <1>2. CASE p[1] = <<"nvr">> /\ p[2] = s.nvr
    <2>1. q[2] = n.nvr BY <1>1, <1>2, PathsTell DEF Lies
    <2>2. p[1][1] = "nvr" BY <1>2
    <2>3. Altered(p[2], q[2], now) /\ IsPlainObject(q[2])
      BY <1>2, <2>1 DEF StateRenewed, RecordRenewed, StateShaped, IsDocument
    <2> QED BY <2>2, <2>3, RecordMeansChange
  <1>3. ASSUME NEW f \in DOMAIN s.nvr.at, p[1] = <<"nvr", f>>, p[2] = s.nvr.at[f]
        PROVE  MeansChange(p, q, now)
    <2>1. f \in DOMAIN n.nvr.at /\ IsPlainObject(n.nvr.at[f]) /\ q[2] = n.nvr.at[f] BY <1>1, <1>3, PathsTell DEF Lies
    <2>2. p[1][1] = "nvr" BY <1>3
    <2>3. Altered(p[2], q[2], now) BY <1>3, <2>1 DEF StateRenewed, RecordRenewed
    <2> QED BY <2>1, <2>2, <2>3, RecordMeansChange
  <1>4. ASSUME NEW k \in DOMAIN s.maps, p[1] = <<k>>, p[2] = s.maps[k]
        PROVE  MeansChange(p, q, now)
    <2>1. q[2] = n.maps[k] BY <1>1, <1>4, PathsTell DEF Lies
    <2>2. Len(p[1]) = 1 /\ p[1][1] # "nvr" /\ Len(q[1]) = 1 /\ q[1][1] # "nvr" BY <1>1, <1>4
    <2>3. Forgetting(p) = Values(p[2].at) /\ Forgetting(q) = Values(q[2].at) BY <2>2 DEF Forgetting, Values
    <2>4. MapRenewed(p[2], q[2], now) BY <1>4, <2>1 DEF StateRenewed
    <2> QED BY <2>3, <2>4 DEF MapRenewed, MeansChange
  <1>5. ASSUME NEW k \in DOMAIN s.maps, NEW id \in DOMAIN s.maps[k].at, p[1] = <<k, id>>, p[2] = s.maps[k].at[id]
        PROVE  MeansChange(p, q, now)
    <2>1. id \in DOMAIN n.maps[k].at /\ q[2] = n.maps[k].at[id] BY <1>1, <1>5, PathsTell DEF Lies
    <2>2. Len(p[1]) = 2 BY <1>5
    <2>3. RecordRenewed(p[2], q[2], now) BY <1>5, <2>1 DEF StateRenewed, MapRenewed
    <2>4. IsPlainObject(q[2]) BY <1>1, <2>1 DEF StateShaped, IsCollection, IsDocument
    <2> QED BY <2>2, <2>3, <2>4, RecordMeansChange DEF RecordRenewed
  <1>6. ASSUME NEW k \in DOMAIN s.maps, NEW id \in DOMAIN s.maps[k].at, NEW f \in DOMAIN s.maps[k].at[id].at,
               p[1] = <<k, id, f>>, p[2] = s.maps[k].at[id].at[f]
        PROVE  MeansChange(p, q, now)
    <2>1. PICK r : r = s.maps[k].at[id] OBVIOUS
    <2>2. PICK m : m = n.maps[k].at[id] OBVIOUS
    <2>3. /\ id \in DOMAIN n.maps[k].at /\ f \in DOMAIN m.at
          /\ IsPlainObject(m.at[f]) /\ q[2] = m.at[f]
      BY <1>1, <1>6, <2>2, PathsTell DEF Lies
    <2>4. Len(p[1]) = 3 BY <1>6
    <2>5. RecordRenewed(r, m, now) BY <2>1, <2>2, <2>3 DEF StateRenewed, MapRenewed
    <2>6. Altered(p[2], q[2], now) BY <1>6, <2>1, <2>3, <2>5 DEF RecordRenewed
    <2> QED BY <2>3, <2>4, <2>6, RecordMeansChange
  <1> QED BY <1>2, <1>3, <1>4, <1>5, <1>6 DEF Lies

-----------------------------------------------------------------------------
(* What a fold is born under: nothing at any place of the state was. *)
LEMMA PlacesAreLive ==
  ASSUME StateShaped(state), NEW path, NEW v, Lies(state, path, v)
  PROVE  v.born \in Live
  <1>1. state.nvr # Undefined BY LeavesAreBare DEF StateShaped, IsDocument
  <1>2. state.nvr \in LiveRecords BY <1>1 DEF LiveRecords
  <1>3. \A k \in DOMAIN state.maps : \A id \in DOMAIN state.maps[k].at : state.maps[k].at[id] \in LiveRecords
    BY DEF LiveRecords
  <1>4. \A r \in LiveRecords : BornIn(r) \subseteq Live BY DEF Live
  <1>5. \A r : /\ r.born \in BornIn(r)
               /\ \A f \in DOMAIN r.at : IsPlainObject(r.at[f]) => r.at[f].born \in BornIn(r)
    BY DEF BornIn
  <1>6. \A k \in DOMAIN state.maps : state.maps[k].born \in Live
    <2>1. {state.maps[k].born : k \in DOMAIN state.maps} \subseteq Live BY DEF Live
    <2> QED BY <2>1
  <1>7. CASE path = <<"nvr">> /\ v = state.nvr BY <1>2, <1>4, <1>5, <1>7
  <1>8. CASE \E f \in DOMAIN state.nvr.at : IsPlainObject(state.nvr.at[f]) /\ v = state.nvr.at[f]
    BY <1>2, <1>4, <1>5, <1>8
  <1>9. CASE \E k \in DOMAIN state.maps : v = state.maps[k] BY <1>6, <1>9
  <1>10. CASE \E k \in DOMAIN state.maps : \E id \in DOMAIN state.maps[k].at : v = state.maps[k].at[id]
    BY <1>3, <1>4, <1>5, <1>10
  <1>11. ASSUME NEW k \in DOMAIN state.maps, NEW id \in DOMAIN state.maps[k].at, NEW f \in DOMAIN state.maps[k].at[id].at,
                IsPlainObject(state.maps[k].at[id].at[f]), v = state.maps[k].at[id].at[f]
         PROVE  v.born \in Live
    <2>1. PICK r \in LiveRecords : r = state.maps[k].at[id] BY <1>3
    <2>2. f \in DOMAIN r.at /\ IsPlainObject(r.at[f]) /\ v = r.at[f] BY <1>11, <2>1
    <2> QED BY <1>4, <1>5, <2>1, <2>2
  <1> QED BY <1>7, <1>8, <1>9, <1>10, <1>11 DEF Lies

(* A set of naturals no larger than n leaves one of 0..n out. *)
LEMMA OneIsLeft ==
  ASSUME NEW S, IsFiniteSet(S)
  PROVE  \E n \in 0..Cardinality(S) : n \notin S /\ \A m \in 0..(n - 1) : m \in S
  <1>1. PICK c \in Nat : c = Cardinality(S) BY FS_CardinalityType
  <1>2. IsFiniteSet(0..c) /\ Cardinality(0..c) = c + 1 BY FS_Interval
  <1>3. PICK left : left = (0..c) \ S OBVIOUS
  <1>4. left # {}
    <2>1. SUFFICES ASSUME 0..c \in SUBSET S PROVE FALSE BY <1>3
    <2>2. Cardinality(0..c) <= Cardinality(S) BY <2>1, FS_Subset
    <2> QED BY <1>1, <1>2, <2>2
  <1> DEFINE R == {p \in Nat \X Nat : p[1] < p[2]}
  <1>5. left \in SUBSET Nat BY <1>3
  <1>6. PICK n \in left : \A m \in left : <<m, n>> \notin R
    <2>1. IsWellFoundedOn(R, Nat) BY NatLessThanWellFounded DEF OpToRel
    <2> HIDE DEF R
    <2> QED BY <1>4, <1>5, <2>1, WFMin
  <1>7. n \in 0..c /\ n \notin S BY <1>3
  <1>8. ASSUME NEW m \in 0..(n - 1) PROVE m \in S
    <2>1. m \in Nat /\ m < n /\ m \in 0..c BY <1>7
    <2>2. <<m, n>> \in R BY <1>7, <2>1
    <2> QED BY <1>3, <1>6, <2>1, <2>2
  <1> QED BY <1>1, <1>7, <1>8

LEMMA NowIsNew ==
  ASSUME IsFiniteSet(Live)
  PROVE  Now \notin Live
  BY OneIsLeft DEF Now

-----------------------------------------------------------------------------
(* What is alive is finite: the state's objects, and what each observer       *)
(* remembers.                                                                *)
QueuesFit(r) == \E S : r.queue \in Seq(S) /\ r.batch \in Seq(S)
RememberedFit == \A o \in Observers : QueuesFit(obs[o])

(* The image of a finite set. *)
LEMMA FiniteImage ==
  ASSUME NEW S, IsFiniteSet(S), NEW f, DOMAIN f = S
  PROVE  IsFiniteSet({f[x] : x \in S})
  <1>1. PICK T : T = {f[x] : x \in S} OBVIOUS
  <1>2. PICK g : g = [x \in S |-> f[x]] OBVIOUS
  <1>3. g \in [S -> T] /\ \A t \in T : \E x \in S : g[x] = t BY <1>1, <1>2
  <1>4. g \in Surjection(S, T) BY <1>3 DEF Surjection
  <1> QED BY <1>1, <1>4, FS_Surjection

LEMMA PairFinite == ASSUME NEW a, NEW b PROVE IsFiniteSet({a, b})
  <1>1. IsFiniteSet({a}) BY FS_Singleton
  <1>2. PICK S : S = {a} OBVIOUS
  <1>3. IsFiniteSet(S \cup {b}) BY <1>1, <1>2, FS_AddElement
  <1>4. {a, b} = S \cup {b} BY <1>2
  <1> QED BY <1>3, <1>4

LEMMA RecordBornFinite ==
  ASSUME NEW r, IsDocument(r)
  PROVE  IsFiniteSet(BornIn(r))
  <1>1. PICK S : S = {x \in DOMAIN r.at : IsPlainObject(r.at[x])} OBVIOUS
  <1>2. IsFiniteSet(S) BY <1>1, FS_Subset DEF IsDocument
  <1>3. PICK f : f = [k \in S |-> r.at[k].born] OBVIOUS
  <1>4. DOMAIN f = S /\ BornIn(r) = {r.born} \cup {f[k] : k \in S} BY <1>1, <1>3 DEF BornIn
  <1>5. IsFiniteSet({f[k] : k \in S}) BY <1>2, <1>4, FiniteImage
  <1> QED BY <1>4, <1>5, FS_AddElement

LEMMA QueueFinite ==
  ASSUME NEW S, NEW q \in Seq(S)
  PROVE  IsFiniteSet({q[i] : i \in DOMAIN q})
  <1>1. DOMAIN q = 1..Len(q) /\ Len(q) \in Nat BY LenProperties
  <1>2. IsFiniteSet(DOMAIN q) BY <1>1, FS_Interval
  <1> QED BY <1>2, FiniteImage

LEMMA RememberedFinite ==
  ASSUME NEW o \in Observers, QueuesFit(obs[o])
  PROVE  IsFiniteSet(Remembered(o))
  <1>1. PICK S : obs[o].queue \in Seq(S) /\ obs[o].batch \in Seq(S) BY DEF QueuesFit
  <1>2. PICK q : q = {obs[o].queue[i] : i \in DOMAIN obs[o].queue} OBVIOUS
  <1>3. PICK b : b = {obs[o].batch[i] : i \in DOMAIN obs[o].batch} OBVIOUS
  <1>4. IsFiniteSet(q) /\ IsFiniteSet(b) BY <1>1, <1>2, <1>3, QueueFinite
  <1>5. IsFiniteSet({obs[o].last, obs[o].held}) BY PairFinite
  <1>6. Remembered(o) = {obs[o].last, obs[o].held} \cup q \cup b BY <1>2, <1>3 DEF Remembered
  <1> QED BY <1>4, <1>5, <1>6, FS_Union

LEMMA RecordsFinite ==
  ASSUME StateFits(state), StateShaped(state)
  PROVE  IsFiniteSet(LiveRecords) /\ \A r \in LiveRecords : IsDocument(r)
  <1>1. PICK keys : keys = DOMAIN state.maps OBVIOUS
  <1>2. IsFiniteSet(keys) BY <1>1, KeysAssumption DEF StateFits
  <1>3. \A k \in keys : IsCollection(state.maps[k].at) BY <1>1 DEF StateShaped
  <1>4. PICK f : f = [k \in keys |-> {state.maps[k].at[i] : i \in DOMAIN state.maps[k].at}] OBVIOUS
  <1>5. ASSUME NEW k \in keys PROVE IsFiniteSet(f[k])
    <2>1. PICK at : at = state.maps[k].at OBVIOUS
    <2>2. IsFiniteSet(DOMAIN at) BY <1>3, <2>1 DEF IsCollection
    <2>3. PICK D : D = DOMAIN at OBVIOUS
    <2>4. IsFiniteSet({at[i] : i \in D}) BY <2>2, <2>3, FiniteImage
    <2>5. f[k] = {at[i] : i \in D} BY <1>4, <2>1, <2>3
    <2> QED BY <2>4, <2>5
  <1>6. IsFiniteSet({f[k] : k \in keys})
    <2>1. DOMAIN f = keys BY <1>4
    <2> QED BY <1>2, <2>1, FiniteImage
  <1>7. IsFiniteSet(UNION {f[k] : k \in keys}) BY <1>5, <1>6, FS_UNION
  <1>8. LiveRecords = {state.nvr} \cup UNION {f[k] : k \in keys}
    <2>1. state.nvr # Undefined BY LeavesAreBare DEF StateShaped, IsDocument
    <2>2. {f[k] : k \in keys} = {{state.maps[k].at[i] : i \in DOMAIN state.maps[k].at} : k \in DOMAIN state.maps}
      BY <1>1, <1>4
    <2> QED BY <2>1, <2>2 DEF LiveRecords
  <1>9. ASSUME NEW r \in LiveRecords PROVE IsDocument(r)
    <2>1. CASE r = state.nvr BY <2>1 DEF StateShaped
    <2>2. CASE r \in UNION {f[k] : k \in keys} BY <1>3, <1>4, <2>2 DEF IsCollection
    <2> QED BY <1>8, <2>1, <2>2
  <1> QED BY <1>7, <1>8, <1>9, FS_AddElement

LEMMA LiveFinite ==
  ASSUME StateFits(state), StateShaped(state), RememberedFit
  PROVE  IsFiniteSet(Live)
  <1>1. IsFiniteSet(UNION {BornIn(r) : r \in LiveRecords})
    <2>1. PICK f : f = [r \in LiveRecords |-> BornIn(r)] OBVIOUS
    <2>2. IsFiniteSet({f[r] : r \in LiveRecords}) BY <2>1, RecordsFinite, FiniteImage
    <2>3. \A r \in LiveRecords : IsFiniteSet(f[r]) BY <2>1, RecordsFinite, RecordBornFinite
    <2>4. {f[r] : r \in LiveRecords} = {BornIn(r) : r \in LiveRecords} BY <2>1
    <2> QED BY <2>2, <2>3, <2>4, FS_UNION
  <1>2. IsFiniteSet({state.maps[k].born : k \in DOMAIN state.maps})
    <2>1. PICK f : f = [k \in DOMAIN state.maps |-> state.maps[k].born] OBVIOUS
    <2>2. IsFiniteSet(DOMAIN state.maps) BY KeysAssumption DEF StateFits
    <2>3. IsFiniteSet({f[k] : k \in DOMAIN state.maps}) BY <2>1, <2>2, FiniteImage
    <2>4. {f[k] : k \in DOMAIN state.maps} = {state.maps[k].born : k \in DOMAIN state.maps} BY <2>1
    <2> QED BY <2>3, <2>4
  <1>3. IsFiniteSet(UNION {Remembered(o) : o \in Observers})
    <2>1. PICK f : f = [o \in Observers |-> Remembered(o)] OBVIOUS
    <2>2. IsFiniteSet({f[o] : o \in Observers}) BY <2>1, WatchesAssumption, FiniteImage
    <2>3. \A o \in Observers : IsFiniteSet(f[o]) BY <2>1, RememberedFinite DEF RememberedFit
    <2>4. {f[o] : o \in Observers} = {Remembered(o) : o \in Observers} BY <2>1
    <2> QED BY <2>2, <2>3, <2>4, FS_UNION
  <1>4. IsFiniteSet({0, memo.born}) BY PairFinite
  <1>5. PICK A : A = UNION {BornIn(r) : r \in LiveRecords} OBVIOUS
  <1>6. PICK B : B = {state.maps[k].born : k \in DOMAIN state.maps} OBVIOUS
  <1>7. PICK C : C = UNION {Remembered(o) : o \in Observers} OBVIOUS
  <1>8. Live = ({0, memo.born} \cup A) \cup B \cup C BY <1>5, <1>6, <1>7 DEF Live
  <1>9. IsFiniteSet(A) /\ IsFiniteSet(B) /\ IsFiniteSet(C) BY <1>1, <1>2, <1>3, <1>5, <1>6, <1>7
  <1> QED BY <1>4, <1>8, <1>9, FS_Union

-----------------------------------------------------------------------------
(* An observer's methods keep sequences of what it remembers. *)
LEMMA QueuesGrow ==
  ASSUME NEW r, ObserverFits(r), QueuesFit(r), NEW next
  PROVE  QueuesFit(Evaluate(r, next)) /\ QueuesFit(Iterate(r)) /\ QueuesFit(Close(r))
  <1>1. PICK S : r.queue \in Seq(S) /\ r.batch \in Seq(S) BY DEF QueuesFit
  <1>2. PICK T : T = S \cup {next} OBVIOUS
  <1>3. r.queue \in Seq(T) /\ r.batch \in Seq(T) /\ next \in T BY <1>1, <1>2, SeqMonotonic
  <1>4. Append(r.queue, next) \in Seq(T) BY <1>3
  <1>5. QueuesFit(Evaluate(r, next))
    <2>1. PICK m : m = [r EXCEPT !.last = next, !.queue = Append(r.queue, next)] OBVIOUS
    <2>2. m = [at |-> r.at, closed |-> r.closed, last |-> next, queue |-> Append(r.queue, next), batch |-> r.batch, held |-> r.held]
      BY <2>1 DEF ObserverFits
    <2>3. ObserverFits(m) /\ m.queue = Append(r.queue, next) /\ m.batch = r.batch BY <2>2 DEF ObserverFits
    <2>4. PICK n : n = Signal(m) OBVIOUS
    <2>5. SameTold(n, m) BY <2>3, <2>4, SignalLeaves
    <2>6. n.queue \in Seq(T) /\ n.batch \in Seq(T) BY <1>3, <1>4, <2>3, <2>5 DEF SameTold
    <2>7. Evaluate(r, next) = IF next = r.last THEN r ELSE n BY <2>1, <2>4 DEF Evaluate
    <2> QED BY <2>6, <2>7 DEF QueuesFit
  <1>6. QueuesFit(Close(r))
    <2>1. PICK n : n = Close(r) OBVIOUS
    <2>2. SameTold(n, r) BY <2>1, CloseLeaves
    <2> QED BY <2>1, <2>2, <1>1 DEF SameTold, QueuesFit
  <1>7. QueuesFit(Iterate(r))
    <2>1. PICK b : b = IF r.batch # <<>> THEN r.batch ELSE r.queue OBVIOUS
    <2>2. PICK q : q = IF r.batch # <<>> THEN r.queue ELSE <<>> OBVIOUS
    <2>3. b \in Seq(S) /\ q \in Seq(S) BY <1>1, <2>1, <2>2, EmptySeq
    <2>4. CASE b # <<>>
      <3>1. Iterate(r) = [r EXCEPT !.at = "yielded", !.held = Head(b), !.batch = Tail(b), !.queue = q]
        BY <2>1, <2>2, <2>4 DEF Iterate
      <3>2. Iterate(r) = [at |-> "yielded", closed |-> r.closed, last |-> r.last, queue |-> q, batch |-> Tail(b), held |-> Head(b)]
        BY <3>1 DEF ObserverFits
      <3>3. Tail(b) \in Seq(S) BY <2>3, <2>4, HeadTailProperties
      <3> QED BY <2>3, <3>2, <3>3 DEF QueuesFit
    <2>5. CASE b = <<>>
      <3>1. Iterate(r) = [r EXCEPT !.at = "over"] \/ Iterate(r) = [r EXCEPT !.at = "parked"]
        BY <2>1, <2>5 DEF Iterate
      <3>2. PICK n : n = Iterate(r) OBVIOUS
      <3>3. n.queue = r.queue /\ n.batch = r.batch BY <3>1, <3>2 DEF ObserverFits
      <3> QED BY <1>1, <3>2, <3>3 DEF QueuesFit
    <2> QED BY <2>4, <2>5
  <1> QED BY <1>5, <1>6, <1>7

LEMMA DispatchRemembers ==
  ASSUME WInv, RememberedFit, NEW e, NEW now, Dispatch(e, now)
  PROVE  RememberedFit'
  <1>1. CASE obs' = obs BY <1>1 DEF RememberedFit
  <1>2. CASE obs' # obs
    <2>1. PICK next : next = Reduce(state, e, now) OBVIOUS
    <2>2. obs' = [o \in Observers |-> IF o \in observers \ threw'
                                      THEN Evaluate(obs[o], Select(o, next, memo')) ELSE obs[o]]
      BY <1>2, <2>1 DEF Dispatch
    <2>3. ASSUME NEW o \in Observers PROVE QueuesFit(obs'[o])
      <3>1. PICK sel : sel = Select(o, next, memo') OBVIOUS
      <3>2. obs'[o] = Evaluate(obs[o], sel) \/ obs'[o] = obs[o] BY <2>2, <3>1
      <3>3. ObserverFits(obs[o]) /\ QueuesFit(obs[o]) BY DEF WInv, RememberedFit
      <3> QED BY <3>2, <3>3, QueuesGrow
    <2> QED BY <2>3 DEF RememberedFit
  <1> QED BY <1>1, <1>2

LEMMA OneRemembers ==
  ASSUME WInv, RememberedFit, NEW o \in Observers, NEW r, QueuesFit(r), obs' = [obs EXCEPT ![o] = r]
  PROVE  RememberedFit'
  <1>1. \A p \in Observers : obs'[p] = IF p = o THEN r ELSE obs[p] BY DEF WInv
  <1> QED BY <1>1 DEF RememberedFit

LEMMA ConsumerRemembers == ASSUME WInv, RememberedFit, NEW o \in Observers, Consumer(o) PROVE RememberedFit'
  <1>0. ObserverFits(obs[o]) /\ QueuesFit(obs[o]) BY DEF WInv, RememberedFit
  <1>1. CASE Observe(o)
    <2>1. PICK base : base = Select(o, state, memo') OBVIOUS
    <2>2. PICK m : m = [obs[o] EXCEPT !.last = base, !.held = base] OBVIOUS
    <2>3. m = [at |-> obs[o].at, closed |-> obs[o].closed, last |-> base, queue |-> obs[o].queue,
               batch |-> obs[o].batch, held |-> base]
      BY <1>0, <2>2 DEF ObserverFits
    <2>4. ObserverFits(m) /\ QueuesFit(m) BY <1>0, <2>3 DEF ObserverFits, QueuesFit
    <2>5. obs' = [obs EXCEPT ![o] = Iterate(m)] BY <1>1, <2>1, <2>2 DEF Observe
    <2> QED BY <2>4, <2>5, QueuesGrow, OneRemembers
  <1>2. ASSUME NEW at PROVE QueuesFit([obs[o] EXCEPT !.at = at])
    <2>1. PICK m : m = [obs[o] EXCEPT !.at = at] OBVIOUS
    <2>2. m.queue = obs[o].queue /\ m.batch = obs[o].batch BY <2>1 DEF ObserverFits
    <2> QED BY <1>0, <2>1, <2>2 DEF QueuesFit
  <1>3. CASE ObserveEnded(o)
    <2>1. obs' = [obs EXCEPT ![o] = [obs[o] EXCEPT !.at = "over"]] BY <1>3 DEF ObserveEnded
    <2> QED BY <1>2, <2>1, OneRemembers
  <1>4. CASE Pull(o) \/ Wakes(o)
    <2>1. obs' = [obs EXCEPT ![o] = Iterate(obs[o])] BY <1>4 DEF Pull, Wakes, Runs
    <2> QED BY <1>0, <2>1, QueuesGrow, OneRemembers
  <1>5. CASE Breaks(o)
    <2>1. obs' = [obs EXCEPT ![o] = [obs[o] EXCEPT !.at = "over"]] BY <1>5 DEF Breaks, Runs
    <2> QED BY <1>2, <2>1, OneRemembers
  <1>6. CASE Aborts(o)
    <2>1. obs' = [obs EXCEPT ![o] = Close(obs[o])] BY <1>6 DEF Aborts
    <2> QED BY <1>0, <2>1, QueuesGrow, OneRemembers
  <1> QED BY <1>1, <1>3, <1>4, <1>5, <1>6 DEF Consumer

LEMMA DisposeRemembers == ASSUME WInv, RememberedFit, Dispose PROVE RememberedFit'
  <1>1. ASSUME NEW o \in Observers PROVE QueuesFit(obs'[o])
    <2>1. ObserverFits(obs[o]) /\ QueuesFit(obs[o]) BY DEF WInv, RememberedFit
    <2>2. obs'[o] = Close(obs[o]) \/ obs'[o] = obs[o] BY DEF Dispose
    <2> QED BY <2>1, <2>2, QueuesGrow
  <1> QED BY <1>1 DEF RememberedFit

-----------------------------------------------------------------------------
(* What the controller holds, and what is on the wire and in an answer, is   *)
(* made of documents.                                                        *)
TruthShaped(t) == IsDocument(t.nvr) /\ \A k \in DOMAIN t.maps : IsCollection(t.maps[k])
PacketShaped(p) == p.action \in {"add", "update"} => IsDocument(p.payload)
WireShaped(w) == \E S : w \in Seq(S) /\ \A p \in S : PacketShaped(p)
FetchShaped(g) == \A f \in Fetchers : g[f].at = "answering" => TruthShaped(g[f].carries)

IdInv == StateShaped(state) /\ TruthShaped(truth) /\ WireShaped(wire) /\ FetchShaped(fetch) /\ RememberedFit

LEMMA ShapeSent ==
  ASSUME NEW w, WireShaped(w), NEW p, PacketShaped(p)
  PROVE  WireShaped(Append(w, p))
  <1>1. PICK S : w \in Seq(S) /\ \A q \in S : PacketShaped(q) BY DEF WireShaped
  <1>2. w \in Seq(S \cup {p}) /\ \A q \in S \cup {p} : PacketShaped(q) BY <1>1, SeqMonotonic
  <1>3. Append(w, p) \in Seq(S \cup {p}) BY <1>2
  <1> QED BY <1>2, <1>3 DEF WireShaped

LEMMA ShapeRead ==
  ASSUME NEW w, WireShaped(w), w # <<>>
  PROVE  PacketShaped(Head(w)) /\ WireShaped(Tail(w))
  <1>1. PICK S : w \in Seq(S) /\ \A q \in S : PacketShaped(q) BY DEF WireShaped
  <1>2. Head(w) \in S /\ Tail(w) \in Seq(S) BY <1>1, HeadTailProperties
  <1> QED BY <1>1, <1>2 DEF WireShaped

LEMMA PatchShaped ==
  ASSUME NEW old, NEW new, IsDocument(new)
  PROVE  IsDocument(Patch(old, new))
  <1>0. PICK p : p = Patch(old, new) OBVIOUS
  <1> DEFINE named == {x \in DOMAIN new.at : x \notin DOMAIN old.at \/ old.at[x] # new.at[x]}
             at == [k \in named |-> new.at[k]]
  <1>1. p.at = at /\ IsPlainObject(p) BY <1>0 DEF Patch, IsPlainObject
  <1>2. /\ DOMAIN at = named /\ named \in SUBSET DOMAIN new.at /\ IsFunction(at)
        /\ \A k \in DOMAIN at : at[k] = new.at[k]
    BY DEF IsFunction
  <1> HIDE DEF at, named
  <1>3. IsFiniteSet(DOMAIN at) BY <1>2, FS_Subset DEF IsDocument
  <1> QED BY <1>0, <1>1, <1>2, <1>3 DEF IsDocument

LEMMA CollectionShaped ==
  ASSUME NEW c, IsCollection(c), NEW id
  PROVE  /\ \A r : IsDocument(r) => IsCollection(With(c, id, r)) /\ IsCollection([c EXCEPT ![id] = r])
         /\ IsCollection(Without(c, id))
  <1>1. ASSUME NEW r, IsDocument(r) PROVE IsCollection(With(c, id, r))
    <2>1. PICK d : d = With(c, id, r) OBVIOUS
    <2>2. DOMAIN d = DOMAIN c \cup {id} /\ \A x \in DOMAIN d : d[x] = IF x = id THEN r ELSE c[x] BY <2>1 DEF With
    <2>3. IsFiniteSet(DOMAIN d) BY <2>2, FS_AddElement DEF IsCollection
    <2> QED BY <1>1, <2>1, <2>2, <2>3 DEF IsCollection
  <1>2. ASSUME NEW r, IsDocument(r) PROVE IsCollection([c EXCEPT ![id] = r])
    <2>1. PICK d : d = [c EXCEPT ![id] = r] OBVIOUS
    <2>2. DOMAIN d = DOMAIN c /\ \A x \in DOMAIN d : d[x] = IF x = id THEN r ELSE c[x] BY <2>1
    <2> QED BY <1>2, <2>1, <2>2 DEF IsCollection
  <1>3. IsCollection(Without(c, id))
    <2>1. PICK d : d = Without(c, id) OBVIOUS
    <2>2. DOMAIN d = DOMAIN c \ {id} /\ \A x \in DOMAIN d : d[x] = c[x] BY <2>1 DEF Without
    <2>3. IsFiniteSet(DOMAIN d) BY <2>2, FS_RemoveElement DEF IsCollection
    <2> QED BY <2>1, <2>2, <2>3 DEF IsCollection
  <1> QED BY <1>1, <1>2, <1>3

LEMMA ShapeWritten ==
  ASSUME NEW t, TruthFits(t), TruthShaped(t), NEW k \in ModelKeys \cup BootstrapKeys, NEW c, IsCollection(c),
         NEW n, n = [t EXCEPT !.maps[k] = c]
  PROVE  TruthShaped(n)
  <1>1. n.nvr = t.nvr /\ DOMAIN n.maps = DOMAIN t.maps /\ \A j \in DOMAIN t.maps : n.maps[j] = IF j = k THEN c ELSE t.maps[j]
    BY DEF TruthFits
  <1> QED BY <1>1 DEF TruthShaped

LEMMA ControllerShapes ==
  ASSUME TruthFits(truth), TruthShaped(truth), WireShaped(wire), Controller
  PROVE  TruthShaped(truth') /\ WireShaped(wire')
  <1>0. Key \in ModelKeys \cup BootstrapKeys /\ IsCollection(truth.maps[Key])
    BY KeyIsNoNvr DEF TruthFits, TruthShaped
  <1>1. ASSUME NEW id \in Devices, NEW r \in Contents[id], ControllerAdds(id, r)
        PROVE  TruthShaped(truth') /\ WireShaped(wire')
    <2>1. IsDocument(r) BY DocumentsAssumption
    <2>2. PICK c : c = With(truth.maps[Key], id, r) OBVIOUS
    <2>3. IsCollection(c) BY <1>0, <2>1, <2>2, CollectionShaped
    <2>4. truth' = [truth EXCEPT !.maps[Key] = c] BY <1>1, <2>2 DEF ControllerAdds
    <2>5. PICK p : p = Packet("add", Key, id, r) OBVIOUS
    <2>6. PacketShaped(p) BY <2>1, <2>5 DEF Packet, PacketShaped
    <2>7. wire' = Append(wire, p) BY <1>1, <2>5 DEF ControllerAdds, Changes
    <2> QED BY <1>0, <2>3, <2>4, <2>6, <2>7, ShapeWritten, ShapeSent
  <1>2. ASSUME NEW id \in Devices, NEW r \in Contents[id], ControllerPatches(id, r)
        PROVE  TruthShaped(truth') /\ WireShaped(wire')
    <2>1. IsDocument(r) BY DocumentsAssumption
    <2>2. PICK c : c = [truth.maps[Key] EXCEPT ![id] = r] OBVIOUS
    <2>3. IsCollection(c) BY <1>0, <2>1, <2>2, CollectionShaped
    <2>4. truth' = [truth EXCEPT !.maps[Key] = c] BY <1>2, <2>2 DEF ControllerPatches
    <2>5. PICK payload : payload = Patch(truth.maps[Key][id], r) OBVIOUS
    <2>6. PICK p : p = Packet("update", Key, id, payload) OBVIOUS
    <2>7. PacketShaped(p)
      <3>1. IsDocument(payload) BY <2>1, <2>5, PatchShaped
      <3> QED BY <2>6, <3>1 DEF Packet, PacketShaped
    <2>8. wire' = Append(wire, p) BY <1>2, <2>5, <2>6 DEF ControllerPatches, Changes
    <2> QED BY <1>0, <2>3, <2>4, <2>7, <2>8, ShapeWritten, ShapeSent
  <1>3. ASSUME NEW id \in Devices, ControllerRemoves(id)
        PROVE  TruthShaped(truth') /\ WireShaped(wire')
    <2>1. PICK c : c = Without(truth.maps[Key], id) OBVIOUS
    <2>2. IsCollection(c) BY <1>0, <2>1, CollectionShaped
    <2>3. truth' = [truth EXCEPT !.maps[Key] = c] BY <1>3, <2>1 DEF ControllerRemoves
    <2>4. PICK p : p = Packet("remove", Key, id, NotRecord) OBVIOUS
    <2>5. PacketShaped(p) BY <2>4 DEF Packet, PacketShaped
    <2>6. wire' = Append(wire, p) BY <1>3, <2>4 DEF ControllerRemoves, Changes
    <2> QED BY <1>0, <2>2, <2>3, <2>5, <2>6, ShapeWritten, ShapeSent
  <1>4. ASSUME NEW r \in Nvrs, ControllerPatchesNvr(r)
        PROVE  TruthShaped(truth') /\ WireShaped(wire')
    <2>1. IsDocument(r) BY DocumentsAssumption
    <2>2. truth'.nvr = r /\ truth'.maps = truth.maps BY <1>4 DEF ControllerPatchesNvr, TruthFits
    <2>3. PICK payload : payload = Patch(truth.nvr, r) OBVIOUS
    <2>4. PICK p : p = Packet("update", "nvr", "nvr", payload) OBVIOUS
    <2>5. PacketShaped(p)
      <3>1. IsDocument(payload) BY <2>1, <2>3, PatchShaped
      <3> QED BY <2>4, <3>1 DEF Packet, PacketShaped
    <2>6. wire' = Append(wire, p) BY <1>4, <2>3, <2>4 DEF ControllerPatchesNvr, Changes
    <2>7. TruthShaped(truth') BY <2>1, <2>2 DEF TruthShaped
    <2> QED BY <2>5, <2>6, <2>7, ShapeSent
  <1>5. ASSUME NEW k \in BootstrapKeys, NEW c \in Rosters, ControllerEditsRoster(k, c)
        PROVE  TruthShaped(truth') /\ WireShaped(wire')
    <2>1. IsCollection(c) BY DocumentsAssumption
    <2>2. k \in ModelKeys \cup BootstrapKeys OBVIOUS
    <2>3. truth' = [truth EXCEPT !.maps[k] = c] /\ wire' = wire BY <1>5 DEF ControllerEditsRoster, Changes
    <2> QED BY <2>1, <2>2, <2>3, ShapeWritten
  <1> QED BY <1>1, <1>2, <1>3, <1>4, <1>5 DEF Controller

LEMMA FetchKeepsShape ==
  ASSUME TruthShaped(truth), FetchFits(fetch), FetchShaped(fetch), NEW f \in Fetchers,
         \/ Ask(f) \/ ControllerSnapshots(f) \/ Settles(f) \/ AskFails(f)
  PROVE  FetchShaped(fetch')
  <1>1. CASE Ask(f) BY <1>1 DEF Ask, FetchFits, FetchShaped
  <1>2. CASE ControllerSnapshots(f) BY <1>2 DEF ControllerSnapshots, FetchFits, FetchShaped
  <1>3. CASE Settles(f) \/ AskFails(f) BY <1>3 DEF Settles, AskFails, FetchFits, FetchShaped, NoRequest
  <1> QED BY <1>1, <1>2, <1>3

-----------------------------------------------------------------------------
(* What the store is handed was newly born. *)
LEMMA BootstrapParsed ==
  ASSUME NEW t, TruthFits(t), TruthShaped(t), NEW now, NEW b, b = ParsedBootstrap(t, now)
  PROVE  BootstrapShaped(b, now)
  <1> DEFINE maps == [k \in DOMAIN t.maps |-> [id \in DOMAIN t.maps[k] |-> Parsed(t.maps[k][id], now)]]
  <1>1. b.nvr = Parsed(t.nvr, now) /\ b.maps = maps BY DEF ParsedBootstrap
  <1>2. DOMAIN maps = DOMAIN t.maps
        /\ \A k \in DOMAIN maps : /\ DOMAIN maps[k] = DOMAIN t.maps[k]
                                  /\ \A id \in DOMAIN maps[k] : maps[k][id] = Parsed(t.maps[k][id], now)
    OBVIOUS
  <1> HIDE DEF maps
  <1>3. ASSUME NEW k \in DOMAIN maps PROVE AllNew(maps[k], now)
    <2>1. PICK c : c = maps[k] OBVIOUS
    <2>2. IsFiniteSet(DOMAIN c) BY <1>2, <2>1 DEF TruthShaped, IsCollection
    <2>3. ASSUME NEW id \in DOMAIN c PROVE IsDocument(c[id]) /\ NewlyBorn(c[id], now)
      <3>1. PICK r : r = t.maps[k][id] OBVIOUS
      <3>2. IsDocument(r) BY <1>2, <2>1, <3>1 DEF TruthShaped, IsCollection
      <3>3. c[id] = Parsed(r, now) BY <1>2, <2>1, <3>1
      <3> QED BY <3>2, <3>3, RecordParsed
    <2> QED BY <2>1, <2>2, <2>3 DEF AllNew, IsCollection
  <1>4. IsDocument(b.nvr) /\ NewlyBorn(b.nvr, now) BY <1>1, RecordParsed DEF TruthShaped
  <1> QED BY <1>1, <1>3, <1>4 DEF BootstrapShaped

LEMMA ClassifiedShaped ==
  ASSUME NEW p, PacketFits(p), PacketShaped(p), ClassifyPacket(p) # None, NEW now
  PROVE  EventShaped(ParsedEvent(ClassifyPacket(p), now), now)
  <1>1. p.modelKey # "event" /\ p.modelKey \in STATE_MODEL_KEYS /\ p.action \in {"add", "update", "remove"}
    BY KeyAssumption DEF PacketFits, STATE_MODEL_KEYS, DEVICE_MODEL_KEYS, DEVICE_COLLECTION_KEYS
  <1>2. ClassifyPacket(p) = ClassifyStateTransition(p.action, p.modelKey, p.id, p.payload)
    BY <1>1 DEF ClassifyPacket
  <1>3. PICK r : r = Parsed(p.payload, now) OBVIOUS
  <1>4. CASE p.action = "add"
    <2>1. ClassifyPacket(p) = [kind |-> "deviceAdded", modelKey |-> p.modelKey, id |-> p.id, data |-> p.payload]
      BY <1>2, <1>4 DEF ClassifyStateTransition
    <2>2. ParsedEvent(ClassifyPacket(p), now) = [kind |-> "deviceAdded", modelKey |-> p.modelKey, id |-> p.id, data |-> r]
      BY <1>3, <2>1 DEF ParsedEvent
    <2>3. IsDocument(r) /\ NewlyBorn(r, now) BY <1>3, <1>4, RecordParsed DEF PacketShaped
    <2> QED BY <2>2, <2>3 DEF EventShaped
  <1>5. CASE p.action = "update"
    <2>1. ClassifyPacket(p) = [kind |-> "devicePatched", modelKey |-> p.modelKey, id |-> p.id, patch |-> p.payload]
      BY <1>2, <1>5 DEF ClassifyStateTransition
    <2>2. ParsedEvent(ClassifyPacket(p), now) = [kind |-> "devicePatched", modelKey |-> p.modelKey, id |-> p.id, patch |-> r]
      BY <1>3, <2>1 DEF ParsedEvent
    <2>3. IsDocument(r) /\ NewlyBorn(r, now) BY <1>3, <1>5, RecordParsed DEF PacketShaped
    <2> QED BY <2>2, <2>3 DEF EventShaped
  <1>6. CASE p.action = "remove"
    <2>1. ClassifyPacket(p) = [kind |-> "deviceRemoved", modelKey |-> p.modelKey, id |-> p.id]
      BY <1>2, <1>6 DEF ClassifyStateTransition
    <2>2. ParsedEvent(ClassifyPacket(p), now) = [kind |-> "deviceRemoved", modelKey |-> p.modelKey, id |-> p.id]
      BY <2>1 DEF ParsedEvent
    <2> QED BY <2>2 DEF EventShaped
  <1> QED BY <1>1, <1>4, <1>5, <1>6

-----------------------------------------------------------------------------
(* The steps.  What a step does to the state is a fold under a number that   *)
(* nothing alive holds, or nothing at all.                                   *)
Renewed == StateShaped(state') /\ StateRenewed(state, state', Now)

LEMMA DispatchRenews ==
  ASSUME StateFits(state), StateShaped(state), NEW e, EventFits(e), EventShaped(e, Now), Dispatch(e, Now)
  PROVE  Renewed
  <1>1. PICK now : now = Now OBVIOUS
  <1>2. CASE state' = state BY <1>2, StateKept DEF Renewed
  <1>3. CASE state' # state
    <2>1. PICK next : next = Reduce(state, e, now) OBVIOUS
    <2>2. state' = next BY <1>1, <1>3, <2>1 DEF Dispatch
    <2>3. StateShaped(next) /\ StateRenewed(state, next, now) BY <1>1, <2>1, FoldRenews
    <2> QED BY <1>1, <2>2, <2>3 DEF Renewed
  <1> QED BY <1>2, <1>3

LEMMA StillRenewed == ASSUME StateShaped(state), UNCHANGED state PROVE Renewed
  BY StateKept DEF Renewed

LEMMA IdentitiesKept == WInv /\ StoreInv /\ IdInv /\ [Next]_vars => IdInv' /\ Renewed
  <1> SUFFICES ASSUME WInv, StoreInv, IdInv, [Next]_vars PROVE IdInv' /\ Renewed
    OBVIOUS
  <1>0. /\ TruthFits(truth) /\ WireFits(wire) /\ FetchFits(fetch) /\ StateFits(state)
        /\ StateShaped(state) /\ TruthShaped(truth) /\ WireShaped(wire) /\ FetchShaped(fetch) /\ RememberedFit
    BY DEF StoreInv, IdInv
  <1>1. UNCHANGED obs => RememberedFit' BY <1>0 DEF RememberedFit
  <1>2. CASE Controller
    <2>1. UNCHANGED <<fetch, state, obs>>
      BY <1>2 DEF Controller, ControllerAdds, ControllerPatches, ControllerRemoves, ControllerPatchesNvr,
                  ControllerEditsRoster
    <2>2. TruthShaped(truth') /\ WireShaped(wire') BY <1>0, <1>2, ControllerShapes
    <2> QED BY <1>0, <1>1, <2>1, <2>2, StillRenewed DEF IdInv
  <1>3. CASE PacketArrives
    <2>1. wire # <<>> /\ wire' = Tail(wire) /\ UNCHANGED <<truth, fetch>> BY <1>3 DEF PacketArrives
    <2>2. PacketFits(Head(wire)) BY <1>0, <2>1, WireRead
    <2>3. PacketShaped(Head(wire)) /\ WireShaped(wire') BY <1>0, <2>1, ShapeRead
    <2>4. CASE ClassifyPacket(Head(wire)) = None
      <3>1. UNCHANGED <<state, obs>> BY <1>3, <2>4 DEF PacketArrives
      <3> QED BY <1>0, <1>1, <2>1, <2>3, <3>1, StillRenewed DEF IdInv
    <2>5. CASE ClassifyPacket(Head(wire)) # None
      <3>1. Dispatch(ParsedEvent(ClassifyPacket(Head(wire)), Now), Now) BY <1>3, <2>5 DEF PacketArrives
      <3>2. PICK e : e = ParsedEvent(ClassifyPacket(Head(wire)), Now) OBVIOUS
      <3>3. EventFits(e) /\ EventShaped(e, Now) BY <2>2, <2>3, <2>5, <3>2, ClassifiedFits, ClassifiedShaped
      <3>4. Renewed BY <1>0, <3>1, <3>2, <3>3, DispatchRenews
      <3>5. RememberedFit' BY <1>0, <3>1, <3>2, DispatchRemembers
      <3> QED BY <1>0, <2>1, <2>3, <3>4, <3>5 DEF IdInv, Renewed
    <2> QED BY <2>4, <2>5
  <1>4. CASE PacketLost
    <2>1. wire # <<>> /\ wire' = Tail(wire) /\ UNCHANGED <<truth, fetch, state, obs>> BY <1>4 DEF PacketLost
    <2> QED BY <1>0, <1>1, <2>1, ShapeRead, StillRenewed DEF IdInv
  <1>5. ASSUME NEW f \in Fetchers, Ask(f) \/ ControllerSnapshots(f) \/ AskFails(f)
        PROVE  IdInv' /\ Renewed
    <2>1. UNCHANGED <<truth, wire, state, obs>> BY <1>5 DEF Ask, ControllerSnapshots, AskFails
    <2> QED BY <1>0, <1>1, <1>5, <2>1, FetchKeepsShape, StillRenewed DEF IdInv
  <1>6. ASSUME NEW f \in Fetchers, Answered(f)
        PROVE  IdInv' /\ Renewed
    <2>1. Settles(f) /\ fetch[f].at = "answering" /\ UNCHANGED <<truth, wire>> BY <1>6 DEF Answered, Settles
    <2>2. Dispatch([kind |-> "bootstrapLoaded", data |-> ParsedBootstrap(fetch[f].carries, Now)], Now)
      BY <1>6 DEF Answered
    <2>3. PICK b : b = ParsedBootstrap(fetch[f].carries, Now) OBVIOUS
    <2>4. PICK e : e = [kind |-> "bootstrapLoaded", data |-> b] OBVIOUS
    <2>5. TruthFits(fetch[f].carries) /\ TruthShaped(fetch[f].carries)
      BY <1>0, <2>1 DEF FetchFits, FetchShaped
    <2>6. TruthFits(b) /\ BootstrapShaped(b, Now) BY <2>3, <2>5, ParsedFits, BootstrapParsed
    <2>7. EventFits(e) /\ EventShaped(e, Now) BY <2>4, <2>6 DEF EventFits, EventShaped
    <2>8. Renewed BY <1>0, <2>2, <2>3, <2>4, <2>7, DispatchRenews
    <2>9. RememberedFit' BY <1>0, <2>2, DispatchRemembers
    <2>10. FetchShaped(fetch') BY <1>0, <2>1, FetchKeepsShape
    <2> QED BY <1>0, <2>1, <2>8, <2>9, <2>10 DEF IdInv, Renewed
  <1>7. CASE (\E o \in Observers : Consumer(o)) \/ Dispose
    <2>1. UNCHANGED <<truth, wire, fetch, state>>
      BY <1>7 DEF Consumer, Observe, ObserveEnded, Pull, Wakes, Breaks, Aborts, Dispose, world
    <2>2. RememberedFit' BY <1>0, <1>7, ConsumerRemembers, DisposeRemembers
    <2> QED BY <1>0, <2>1, <2>2, StillRenewed DEF IdInv
  <1>8. CASE UNCHANGED vars
    <2>1. UNCHANGED <<truth, wire, fetch, state, obs>> BY <1>8 DEF vars
    <2> QED BY <1>0, <1>1, <2>1, StillRenewed DEF IdInv
  <1> QED BY <1>2, <1>3, <1>4, <1>5, <1>6, <1>7, <1>8 DEF Next

LEMMA IdentitiesBegin == Init => IdInv
  <1> SUFFICES ASSUME Init PROVE IdInv
    OBVIOUS
  <1>1. TruthFits(truth) BY ControllerAssumption DEF Init, TruthFits
  <1>2. TruthShaped(truth) BY DocumentsAssumption DEF Init, TruthShaped
  <1>3. WireShaped(wire)
    <2>1. wire \in Seq({}) BY DEF Init
    <2> QED BY <2>1 DEF WireShaped
  <1>4. FetchShaped(fetch) BY DEF Init, FetchShaped, NoRequest
  <1>5. StateShaped(state)
    <2>1. PICK b : b = ParsedBootstrap(truth, 1) OBVIOUS
    <2>2. state = ApplyBootstrap(InitialState, b, 1) BY <2>1 DEF Init, Reduce
    <2>3. TruthFits(b) /\ BootstrapShaped(b, 1) BY <1>1, <1>2, <2>1, ParsedFits, BootstrapParsed
    <2> QED BY <2>2, <2>3, BootstrapRenews
  <1>6. RememberedFit
    <2>1. NewObserver.queue \in Seq({}) /\ NewObserver.batch \in Seq({}) BY DEF NewObserver
    <2> QED BY <2>1 DEF Init, RememberedFit, QueuesFit
  <1> QED BY <1>2, <1>3, <1>4, <1>5, <1>6 DEF IdInv

(* A renewal read as its consumers read it: by the references they hold. *)
IdentityKept ==
  \A p \in Places(state), q \in Places(state') :
    p[1] = q[1] => (p[2].born = q[2].born <=> Forgetting(p) = Forgetting(q))

LEMMA RenewalTells == StoreInv /\ IdInv /\ Renewed => IdentityKept
  <1> SUFFICES ASSUME StoreInv, IdInv, Renewed, NEW p \in Places(state), NEW q \in Places(state'), p[1] = q[1]
               PROVE  p[2].born = q[2].born <=> Forgetting(p) = Forgetting(q)
    BY DEF IdentityKept
  <1>1. PICK now : now = Now OBVIOUS
  <1>2. StateFits(state) /\ StateShaped(state) /\ RememberedFit BY DEF StoreInv, IdInv
  <1>3. now \notin Live BY <1>1, <1>2, LiveFinite, NowIsNew
  <1>4. PICK n : n = state' OBVIOUS
  <1>5. StateShaped(n) /\ StateRenewed(state, n, now) BY <1>1, <1>4 DEF Renewed
  <1>6. Lies(state, p[1], p[2]) /\ Lies(n, q[1], q[2]) BY <1>4, PlacesLie
  <1>7. DOMAIN state.maps = ModelKeys \cup BootstrapKeys BY <1>2 DEF StateFits
  <1>8. MeansChange(p, q, now) BY <1>2, <1>5, <1>6, <1>7, PlacesChange
  <1>9. p[2].born \in Live BY <1>2, <1>6, PlacesAreLive
  <1>10. q[2] = p[2] => Forgetting(p) = Forgetting(q) BY DEF Forgetting
  <1> QED BY <1>3, <1>8, <1>9, <1>10 DEF MeansChange

(* A refresh, a packet and a stale answer alike: whatever the state held     *)
(* before a step and holds after it is, at every depth, a new object exactly *)
(* when its value differs, whatever the records, their fields and their      *)
(* number; so a consumer that compares references misses no change and wakes *)
(* for nothing.                                                              *)
THEOREM IdentityIsTheSignal == Spec => IdentityIsChange
  <1>1. WInv /\ StoreInv /\ IdInv /\ [Next]_vars => [IdentityKept]_vars
    BY IdentitiesKept, RenewalTells
  <1>2. Spec => [][IdentityKept]_vars
    BY <1>1, ObserversBegin, StoreKeeps, StoreBegins, StoreInvKept, IdentitiesBegin, IdentitiesKept, PTL DEF Spec
  <1> QED BY <1>2 DEF IdentityIsChange, IdentityKept
=============================================================================
