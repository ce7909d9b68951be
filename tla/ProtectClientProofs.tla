------------------------ MODULE ProtectClientProofs ------------------------
(***************************************************************************)
(* Proofs about the composition root: in whatever stage connect fails and  *)
(* however many disposals overlap, the parts stand and fall in order, the  *)
(* pool keeps one session to a stream and leaves none behind, the          *)
(* firehoses tell every frame they listened to, and a capture that reads   *)
(* two of them keeps the evidence they carry.                              *)
(***************************************************************************)
EXTENDS ProtectClient, CaptureWindow, PoolSubscriptionsProofs, WellFoundedInduction

LEMMA Places ==
  /\ AllDown = 5 /\ DOMAIN DisposalOrder = 1..4
  /\ DisposalOrder[1] = "monitor" /\ DisposalOrder[2] = "pool"
  /\ DisposalOrder[3] = "store" /\ DisposalOrder[4] = "transport"
  BY DEF AllDown, DisposalOrder

LEMMA PlacesApart ==
  \A place \in DOMAIN DisposalOrder :
    /\ DisposalOrder[place] = "monitor" <=> place = 1
    /\ DisposalOrder[place] = "pool" <=> place = 2
    /\ DisposalOrder[place] = "store" <=> place = 3
    /\ DisposalOrder[place] = "transport" <=> place = 4
  <1>1. SUFFICES ASSUME NEW place \in {1, 2, 3, 4}
                 PROVE  /\ DisposalOrder[place] = "monitor" <=> place = 1
                        /\ DisposalOrder[place] = "pool" <=> place = 2
                        /\ DisposalOrder[place] = "store" <=> place = 3
                        /\ DisposalOrder[place] = "transport" <=> place = 4
    BY Places
  <1> QED BY Places

(* A disposal under way left nothing standing behind it. *)
Cleared(place) ==
  /\ place > 1 => "monitor" \notin standing
  /\ place > 2 => "pool" \notin standing
  /\ place > 3 => "store" \notin standing

TearingFits ==
  /\ tearing \in [Disposers -> 1..AllDown]
  /\ \A d \in Disposers : tearing[d] # AllDown => Cleared(tearing[d])
  /\ \A d \in Callers : tearing[d] # AllDown => stage = "connected"
  /\ tearing[Nobody] # AllDown <=> stage = "rejecting"

(* What stands in each stage of connect. *)
StageFits ==
  /\ standing \subseteq Parts
  /\ stage = "idle" => standing = {}
  /\ stage \in {"login", "fetch"} => standing = {"transport"}
  /\ stage \in {"idle", "login", "fetch"} => stream = "none" /\ refresh = "off"
  /\ stage = "opening" => standing = Parts

LifeInv == TearingFits /\ StageFits /\ StandsInOrder

-----------------------------------------------------------------------------
LEMMA InitFits == ClientInit => LifeInv
  BY Places, NobodyAssumption
     DEF ClientInit, LifeInv, TearingFits, Cleared, StageFits, StandsInOrder, Disposers, Parts

(* The steps of connect and of the running client, which dispose nothing. *)
LEMMA StageKeeps ==
  ASSUME LifeInv, UNCHANGED tearing,
         Refuses \/ Begins \/ Authenticated \/ Assembles \/ StreamOpens \/ StreamLost \/ Relaunches
         \/ RefreshDue \/ RefreshSettles
  PROVE  LifeInv'
  <1> USE Places, NobodyAssumption
      DEF LifeInv, TearingFits, Cleared, StageFits, StandsInOrder, Disposers, Parts, RefreshLoop
  <1>1. CASE Refuses BY <1>1 DEF Refuses
  <1>2. CASE Begins BY <1>2 DEF Begins
  <1>3. CASE Authenticated BY <1>3 DEF Authenticated
  <1>4. CASE Assembles BY <1>4 DEF Assembles
  <1>5. CASE StreamOpens BY <1>5 DEF StreamOpens
  <1>6. CASE StreamLost BY <1>6 DEF StreamLost
  <1>7. CASE Relaunches BY <1>7 DEF Relaunches
  <1>8. CASE RefreshDue BY <1>8 DEF RefreshDue
  <1>9. CASE RefreshSettles BY <1>9 DEF RefreshSettles
  <1> QED BY <1>1, <1>2, <1>3, <1>4, <1>5, <1>6, <1>7, <1>8, <1>9

(* A failure of connect: nothing else is being disposed, and the part its    *)
(* disposal begins with is the first of the order that was built.            *)
LEMMA RejectionFits ==
  ASSUME LifeInv, stage \in {"login", "fetch", "opening"}, NEW place \in 1..4,
         stage' = "rejecting", tearing' = [tearing EXCEPT ![Nobody] = place], Cleared(place)'
  PROVE  TearingFits'
  <1>1. tearing' \in [Disposers -> 1..AllDown]
    BY Places DEF LifeInv, TearingFits, Disposers
  <1>2. \A d \in Callers : tearing'[d] = AllDown
    BY NobodyAssumption DEF LifeInv, TearingFits, Disposers
  <1>3. tearing'[Nobody] = place
    BY DEF LifeInv, TearingFits, Disposers
  <1> QED BY Places, <1>1, <1>2, <1>3 DEF TearingFits, Disposers

LEMMA FailureKeeps ==
  ASSUME LifeInv, LoginOrFetchFails \/ ApplyFails \/ OpenFails
  PROVE  LifeInv'
  <1>1. CASE LoginOrFetchFails
    <2>1. stage' = "rejecting" /\ tearing' = [tearing EXCEPT ![Nobody] = 4]
      <3>1. RejectsDisposingFrom("transport") BY <1>1 DEF LoginOrFetchFails
      <3> QED BY <3>1, PlacesApart DEF RejectsDisposingFrom
    <2>2. Cleared(4)'
      BY <1>1 DEF LoginOrFetchFails, LifeInv, StageFits, Cleared
    <2>3. TearingFits' BY <1>1, <2>1, <2>2, RejectionFits DEF LoginOrFetchFails
    <2> QED BY <1>1, <2>1, <2>3 DEF LoginOrFetchFails, LifeInv, StageFits, StandsInOrder
  <1>2. CASE ApplyFails
    <2>1. stage' = "rejecting" /\ tearing' = [tearing EXCEPT ![Nobody] = 3]
      <3>1. RejectsDisposingFrom("store") BY <1>2 DEF ApplyFails
      <3> QED BY <3>1, PlacesApart DEF RejectsDisposingFrom
    <2>2. Cleared(3)'
      BY <1>2 DEF ApplyFails, LifeInv, StageFits, Cleared
    <2>3. TearingFits' BY <1>2, <2>1, <2>2, RejectionFits DEF ApplyFails
    <2> QED BY <1>2, <2>1, <2>3 DEF ApplyFails, LifeInv, StageFits, StandsInOrder, Parts
  <1>3. CASE OpenFails
    <2>1. stage' = "rejecting" /\ tearing' = [tearing EXCEPT ![Nobody] = 1]
      <3>1. RejectsDisposingFrom("monitor") BY <1>3 DEF OpenFails
      <3> QED BY <3>1, PlacesApart DEF RejectsDisposingFrom
    <2>2. Cleared(1)' BY DEF Cleared
    <2>3. TearingFits' BY <1>3, <2>1, <2>2, RejectionFits DEF OpenFails
    <2> QED BY <1>3, <2>1, <2>3 DEF OpenFails, LifeInv, StageFits, StandsInOrder, Parts
  <1> QED BY <1>1, <1>2, <1>3

LEMMA DisposeKeeps ==
  ASSUME LifeInv, NEW d \in Disposers, Dispose(d)
  PROVE  LifeInv'
  BY Places, NobodyAssumption
     DEF Dispose, LifeInv, TearingFits, Cleared, StageFits, StandsInOrder, Disposers, Parts

(* One part of a disposal, whatever the others have come to. *)
LEMMA TearsDownKeeps ==
  ASSUME LifeInv, NEW d \in Disposers, TearsDown(d)
  PROVE  LifeInv'
  <1> DEFINE place == tearing[d]
  <1>1. place \in 1..4 /\ Cleared(place)
    BY Places DEF LifeInv, TearingFits, TearsDown
  <1>2. /\ tearing' = [tearing EXCEPT ![d] = place + 1]
        /\ standing' = standing \ {DisposalOrder[place]}
        /\ stage' = IF d = Nobody /\ tearing'[d] = AllDown THEN "rejected" ELSE stage
        /\ stream' = IF DisposalOrder[place] = "monitor" THEN "lost" ELSE stream
        /\ refresh' = IF DisposalOrder[place] = "store" /\ refresh = "waiting" THEN "off" ELSE refresh
    BY DEF TearsDown, StandDown
  <1>3. stage \in {"connected", "rejecting"}
    BY Places, <1>1, NobodyAssumption DEF LifeInv, TearingFits, Disposers
  <1>4. TearingFits'
    <2>1. tearing' \in [Disposers -> 1..AllDown]
      BY Places, <1>1, <1>2 DEF LifeInv, TearingFits
    <2>2. \A e \in Disposers : tearing'[e] = IF e = d THEN place + 1 ELSE tearing[e]
      BY <1>2 DEF LifeInv, TearingFits
    <2>3. (\A e \in Disposers : tearing[e] # AllDown => Cleared(tearing[e]))'
      <3> SUFFICES ASSUME NEW e \in Disposers, tearing'[e] # AllDown PROVE Cleared(tearing[e])'
        OBVIOUS
      <3>1. CASE e = d
        <4>1. tearing'[e] = place + 1 BY <3>1, <2>2
        <4> QED BY Places, <4>1, <1>1, <1>2 DEF Cleared
      <3>2. CASE e # d
        <4>1. tearing'[e] = tearing[e] /\ Cleared(tearing[e]) BY <3>2, <2>2 DEF LifeInv, TearingFits
        <4> QED BY <4>1, <1>2 DEF Cleared
      <3> QED BY <3>1, <3>2
    <2>4. CASE d = Nobody
      <3>1. stage = "rejecting" /\ \A c \in Callers : tearing[c] = AllDown
        BY Places, <1>1, <2>4 DEF LifeInv, TearingFits
      <3>2. \A c \in Callers : tearing'[c] = AllDown
        BY <2>2, <2>4, <3>1, NobodyAssumption DEF Disposers
      <3>3. tearing'[Nobody] # AllDown <=> stage' = "rejecting"
        BY <1>2, <2>4, <3>1
      <3> QED BY <2>1, <2>3, <3>2, <3>3 DEF TearingFits
    <2>5. CASE d # Nobody
      <3>1. d \in Callers /\ stage = "connected" /\ stage' = stage
        BY Places, <1>1, <1>2, <2>5 DEF LifeInv, TearingFits, Disposers
      <3>2. tearing'[Nobody] = AllDown
        BY <2>2, <2>5, <3>1 DEF LifeInv, TearingFits, Disposers
      <3> QED BY <2>1, <2>3, <3>1, <3>2 DEF TearingFits
    <2> QED BY <2>4, <2>5
  <1>5. StageFits'
    BY Places, <1>1, <1>2, <1>3 DEF LifeInv, StageFits, Parts
  <1>6. StandsInOrder'
    <2>1. stage' = "rejected" => place = 4
      BY Places, <1>1, <1>2, <1>3 DEF LifeInv, TearingFits
    <2>2. CASE place = 1
      BY Places, <1>2, <1>3, <2>1, <2>2 DEF LifeInv, StandsInOrder
    <2>3. CASE place = 2
      BY Places, <1>1, <1>2, <1>3, <2>1, <2>3 DEF LifeInv, StandsInOrder, Cleared
    <2>4. CASE place = 3
      BY Places, <1>1, <1>2, <1>3, <2>1, <2>4 DEF LifeInv, StandsInOrder, Cleared
    <2>5. CASE place = 4
      <3>1. DisposalOrder[place] = "transport" /\ standing \cap {"monitor", "pool", "store"} = {}
        BY Places, <1>1, <2>5 DEF Cleared
      <3>2. standing' = {}
        BY <3>1, <1>2 DEF LifeInv, StageFits, Parts
      <3>3. refresh' # "waiting" /\ stream' # "open"
        BY <3>1, <1>2 DEF LifeInv, StandsInOrder
      <3> QED BY <3>2, <3>3 DEF StandsInOrder
    <2> QED BY <1>1, <2>2, <2>3, <2>4, <2>5
  <1> QED BY <1>4, <1>5, <1>6 DEF LifeInv

-----------------------------------------------------------------------------
LEMMA LifeUnchanged ==
  ASSUME LifeInv, UNCHANGED lifeVars
  PROVE  LifeInv'
  BY DEF lifeVars, LifeInv, TearingFits, Cleared, StageFits, StandsInOrder

LEMMA LifeStep ==
  ASSUME LifeInv, [ClientNext]_clientVars
  PROVE  LifeInv'
  <1>1. CASE Refuses \/ Begins \/ Authenticated \/ Assembles \/ StreamOpens \/ StreamLost \/ Relaunches
             \/ RefreshDue \/ RefreshSettles
    BY <1>1, StageKeeps
       DEF Refuses, Begins, Authenticated, Assembles, StreamOpens, StreamLost, Relaunches, RefreshDue, RefreshSettles
  <1>2. CASE LoginOrFetchFails \/ ApplyFails \/ OpenFails BY <1>2, FailureKeeps
  <1>3. CASE \E d \in Disposers : Dispose(d) \/ TearsDown(d)
    BY <1>3, DisposeKeeps, TearsDownKeeps
  <1>4. CASE UNCHANGED lifeVars BY <1>4, LifeUnchanged
  <1> QED BY <1>1, <1>2, <1>3, <1>4 DEF ClientNext, Frame, clientVars

(* However connect ends and however disposals overlap, what stands stands on *)
(* something: no part outlives the transport, no ingestion the store, and a  *)
(* connect that was rejected left nothing behind (src/client/client.ts).     *)
THEOREM PartsStandInOrder == Spec => []StandsInOrder
  <1>1. LifeInv => StandsInOrder BY DEF LifeInv
  <1> QED BY InitFits, LifeStep, <1>1, PTL DEF Spec

-----------------------------------------------------------------------------
(* The sessions there were at a pool's disposal are down for good. *)
Retired == retired \in 0..Len(managed) /\ \A s \in 1..retired : managed[s].torndown

PoolLifeInv == PoolInv /\ Retired

LEMMA PoolLifeInit == ClientInit => PoolLifeInv
  <1> SUFFICES ASSUME ClientInit PROVE PoolLifeInv OBVIOUS
  <1>1. PoolInv BY PoolInitFits DEF ClientInit
  <1>2. retired = 0 /\ managed = <<>> BY DEF ClientInit, PoolInit
  <1>3. Len(managed) = 0 BY <1>2, EmptySeq
  <1> QED BY <1>1, <1>2, <1>3 DEF PoolLifeInv, Retired

LEMMA RetiredStays ==
  ASSUME PoolLifeInv, PoolInv', StaysDown(managed, managed'), retired' = retired
  PROVE  PoolLifeInv'
  <1>1. Len(managed) \in Nat /\ Len(managed') \in Nat BY LenProperties DEF PoolLifeInv, PoolInv, MapFits
  <1> QED BY <1>1 DEF PoolLifeInv, Retired, StaysDown

(* The pool's turn of a disposal retires every session there is. *)
LEMMA PoolTurn ==
  ASSUME PoolLifeInv, Becomes(PoolDisposed(PoolState)), retired' = Len(managed), UNCHANGED fanned
  PROVE  PoolLifeInv'
  <1> DEFINE after == PoolDisposed(PoolState)
  <1>1. /\ MapFits(after.pool, after.managed) /\ HeldBut(after.managed, NoSession)
        /\ Len(after.managed) = Len(managed) /\ \A s \in DOMAIN after.managed : after.managed[s].torndown
    BY PoolDisposedFits DEF PoolLifeInv
  <1>2. managed' = after.managed /\ pool' = after.pool BY DEF Becomes
  <1> HIDE DEF after
  <1>3. PoolInv' BY <1>1, <1>2 DEF PoolLifeInv, PoolInv
  <1>4. Len(managed) \in Nat /\ DOMAIN managed' = 1..Len(managed)
    BY <1>1, <1>2, <1>3, LenProperties DEF PoolLifeInv, PoolInv, MapFits
  <1>5. retired' \in 0..Len(managed') BY <1>1, <1>2, <1>4
  <1>6. \A s \in 1..retired' : managed'[s].torndown BY <1>1, <1>2, <1>4
  <1> QED BY <1>3, <1>5, <1>6 DEF PoolLifeInv, Retired

LEMMA PoolLifeUnchanged ==
  ASSUME PoolLifeInv, UNCHANGED <<pool, managed, fanned, retired>>
  PROVE  PoolLifeInv'
  BY PoolUnchanged DEF PoolLifeInv, Retired

LEMMA PoolLifeStep ==
  ASSUME PoolLifeInv, [ClientNext]_clientVars
  PROVE  PoolLifeInv'
  <1>1. CASE PoolSteps /\ UNCHANGED lifeVars
    <2>1. PoolInv' BY <1>1, PoolStepFits DEF PoolLifeInv
    <2> QED BY <1>1, <2>1, PoolStepStaysDown, RetiredStays DEF PoolLifeInv, lifeVars
  <1>2. ASSUME NEW d \in Disposers, TearsDown(d) PROVE PoolLifeInv'
    <2>1. CASE DisposalOrder[tearing[d]] = "pool"
      BY <1>2, <2>1, PoolTurn DEF TearsDown, StandDown
    <2>2. CASE DisposalOrder[tearing[d]] # "pool"
      BY <1>2, <2>2, PoolLifeUnchanged DEF TearsDown, StandDown
    <2> QED BY <2>1, <2>2
  <1>3. ASSUME NEW d \in Disposers, Dispose(d) PROVE PoolLifeInv'
    BY <1>3, PoolLifeUnchanged DEF Dispose, Rests, poolVars
  <1>4. CASE Refuses \/ Begins \/ Authenticated \/ LoginOrFetchFails \/ ApplyFails \/ Assembles \/ StreamOpens
             \/ OpenFails \/ StreamLost \/ Relaunches \/ RefreshDue \/ RefreshSettles
    BY <1>4, PoolLifeUnchanged
       DEF Refuses, Begins, Authenticated, LoginOrFetchFails, ApplyFails, Assembles, StreamOpens, OpenFails,
           StreamLost, Relaunches, RefreshDue, RefreshSettles, Rests, poolVars
  <1>5. CASE UNCHANGED <<lifeVars, poolVars>>
    BY <1>5, PoolLifeUnchanged DEF lifeVars, poolVars
  <1> QED BY <1>1, <1>2, <1>3, <1>4, <1>5 DEF ClientNext, Frame, clientVars

(* Whatever order subscribers join, leave, fail and close a stream in, one   *)
(* session is in force for it, at its key and held (livestream-pool.ts).     *)
THEOREM SubscribersShareASession == Spec => []OneSessionPerStream
  <1>1. PoolLifeInv => OneSessionPerStream BY InForceIsOnePerStream DEF PoolLifeInv
  <1> QED BY PoolLifeInit, PoolLifeStep, <1>1, PTL DEF Spec

LEMMA DeliveryClientStep ==
  ASSUME PoolLifeInv, DeliveryInv, [ClientNext]_clientVars
  PROVE  DeliveryInv'
  <1>1. CASE PoolSteps BY <1>1, DeliveryStep DEF PoolLifeInv
  <1>2. ASSUME NEW d \in Disposers, TearsDown(d) PROVE DeliveryInv'
    <2>1. CASE DisposalOrder[tearing[d]] = "pool"
      BY <1>2, <2>1, PoolDisposedDelivers DEF TearsDown, StandDown, PoolLifeInv
    <2>2. CASE DisposalOrder[tearing[d]] # "pool"
      BY <1>2, <2>2, DeliveryUnchanged DEF TearsDown, StandDown, poolVars
    <2> QED BY <2>1, <2>2
  <1>3. ASSUME NEW d \in Disposers, Dispose(d) PROVE DeliveryInv'
    BY <1>3, DeliveryUnchanged DEF Dispose, Rests, poolVars
  <1>4. CASE Refuses \/ Begins \/ Authenticated \/ LoginOrFetchFails \/ ApplyFails \/ Assembles \/ StreamOpens
             \/ OpenFails \/ StreamLost \/ Relaunches \/ RefreshDue \/ RefreshSettles
    BY <1>4, DeliveryUnchanged
       DEF Refuses, Begins, Authenticated, LoginOrFetchFails, ApplyFails, Assembles, StreamOpens, OpenFails,
           StreamLost, Relaunches, RefreshDue, RefreshSettles, Rests, poolVars
  <1>5. CASE UNCHANGED poolVars BY <1>5, DeliveryUnchanged
  <1> QED BY <1>1, <1>2, <1>3, <1>4, <1>5 DEF ClientNext, Frame, clientVars

(* However segments, late joins, failures, breaks and disposals interleave,  *)
(* a consumer is given the init its session last saw when it joined and all  *)
(* its session fanned out until it left, in order, and told of no end before *)
(* it has what was queued (livestream-pool.ts, #drain, attach, push).        *)
THEOREM SubscribersGetAllTheyAreDue == Spec => []DeliveredInFull
  <1>1. ClientInit => DeliveryInv BY DeliveryInitFits DEF ClientInit
  <1>2. PoolLifeInv /\ DeliveryInv => DeliveredInFull BY InFull DEF PoolLifeInv
  <1> QED BY PoolLifeInit, PoolLifeStep, DeliveryClientStep, <1>1, <1>2, PTL DEF Spec

(* However connect ends and disposals overlap, no part outlives what it      *)
(* stands on and no session the pool's disposal (client.ts, asyncDispose).   *)
THEOREM NothingIsLeftBehind == Spec => []NothingOutlivesTheClient
  <1>1. LifeInv /\ PoolLifeInv => NothingOutlivesTheClient
    <2> SUFFICES ASSUME PoolLifeInv, NEW s \in DOMAIN managed, s <= retired PROVE managed[s].torndown
      BY DEF LifeInv, NothingOutlivesTheClient
    <2>1. s \in 1..Len(managed) BY LenProperties DEF PoolLifeInv, PoolInv, MapFits
    <2>2. s \in 1..retired BY <2>1, LenProperties DEF PoolLifeInv, Retired
    <2> QED BY <2>2 DEF PoolLifeInv, Retired
  <1> QED BY InitFits, LifeStep, PoolLifeInit, PoolLifeStep, <1>1, PTL DEF Spec

-----------------------------------------------------------------------------
LEMMA TellsAppended ==
  ASSUME NEW told \in Seq(Nat), NEW f \in Nat
  PROVE  ToSet(Append(told, f)) = ToSet(told) \cup {f}
  <1> DEFINE more == Append(told, f)
  <1>1. /\ Len(told) \in Nat /\ DOMAIN told = 1..Len(told) /\ DOMAIN more = 1..(Len(told) + 1)
        /\ more[Len(told) + 1] = f /\ \A i \in 1..Len(told) : more[i] = told[i]
    BY AppendProperties, LenProperties
  <1> HIDE DEF more
  <1>2. ToSet(more) = ToSet(told) \cup {f} BY <1>1 DEF ToSet
  <1> QED BY <1>2 DEF more

(* Delivers, as a firehose is handed a frame more, hands one out, drops what *)
(* is queued, and no longer listens.                                         *)
LEMMA TellsOneMore ==
  ASSUME NEW given \in Seq(Nat), NEW due \in SUBSET Nat, NEW f \in Nat, Delivers(given, due, FALSE), \A g \in due : g < f
  PROVE  Delivers(Append(given, f), due \cup {f}, FALSE)
  <1> DEFINE more == Append(given, f)
  <1>1. /\ Len(given) \in Nat /\ DOMAIN given = 1..Len(given) /\ DOMAIN more = 1..(Len(given) + 1)
        /\ more[Len(given) + 1] = f /\ \A i \in 1..Len(given) : more[i] = given[i] /\ given[i] \in Nat
    BY AppendProperties, LenProperties
  <1> HIDE DEF more
  <1>2. \A i \in 1..Len(given) : given[i] \in due BY <1>1 DEF Delivers, ToSet
  <1>3. ToSet(more) = ToSet(given) \cup {f} BY <1>1 DEF ToSet
  <1>4. \A i, j \in DOMAIN more : i < j => more[i] < more[j]
    <2> SUFFICES ASSUME NEW i \in DOMAIN more, NEW j \in DOMAIN more, i < j PROVE more[i] < more[j] OBVIOUS
    <2>1. CASE j = Len(given) + 1
      <3>1. i \in 1..Len(given) BY <2>1, <1>1
      <3> QED BY <3>1, <2>1, <1>1, <1>2
    <2>2. CASE j # Len(given) + 1
      <3>1. i \in DOMAIN given /\ j \in DOMAIN given BY <2>2, <1>1
      <3> QED BY <3>1, <1>1 DEF Delivers
    <2> QED BY <2>1, <2>2
  <1>5. Delivers(more, due \cup {f}, FALSE) BY <1>3, <1>4 DEF Delivers
  <1> QED BY <1>5 DEF more

LEMMA DropsTheRest ==
  ASSUME NEW handed \in Seq(Nat), NEW queue \in Seq(Nat), NEW due \in SUBSET Nat, Delivers(handed \o queue, due, FALSE)
  PROVE  Delivers(handed, due, TRUE)
  <1> DEFINE given == handed \o queue
  <1>1. /\ given \in Seq(Nat) /\ Len(handed) \in Nat /\ DOMAIN handed = 1..Len(handed)
        /\ \A i \in 1..Len(handed) : given[i] = handed[i] /\ i \in DOMAIN given
    BY ConcatProperties, LenProperties
  <1> HIDE DEF given
  <1>2. \A i \in DOMAIN given : i \in Nat /\ given[i] \in Nat BY <1>1, LenProperties, ElementOfSeq
  <1>3. Delivers(given, due, FALSE) BY DEF given
  <1>4. \A i, j \in DOMAIN handed : i < j => handed[i] < handed[j] BY <1>1, <1>3 DEF Delivers
  <1>5. ToSet(handed) \subseteq ToSet(given) BY <1>1 DEF ToSet
  <1>6. ASSUME NEW f \in due, f \notin ToSet(handed), NEW g \in ToSet(handed) PROVE g < f
    <2>1. PICK i \in DOMAIN given : given[i] = f BY <1>3, <1>6 DEF Delivers, ToSet
    <2>2. PICK j \in DOMAIN handed : handed[j] = g BY DEF ToSet
    <2>3. i \notin 1..Len(handed) BY <2>1, <1>1, <1>6 DEF ToSet
    <2>4. j \in DOMAIN given /\ given[j] = g /\ j < i BY <2>2, <2>3, <1>1, <1>2
    <2> QED BY <2>1, <2>4, <1>3 DEF Delivers
  <1> QED BY <1>3, <1>4, <1>5, <1>6 DEF Delivers

LEMMA DueLater ==
  ASSUME NEW given, NEW due, NEW f, Delivers(given, due, TRUE), \A g \in ToSet(given) : g < f
  PROVE  Delivers(given, due \cup {f}, TRUE)
  BY DEF Delivers

-----------------------------------------------------------------------------
Hoses ==
  [at : {"none", "body", "parked", "over", "left"}, queue : Seq(Nat), aborted : BOOLEAN, handed : Seq(Nat),
   beside : Seq([Raw -> Nat]), from : Nat, until : Int]

Given(hose) == hose.handed \o hose.queue
DueOf(h, hose) == Carried(h, hose.from, IF hose.aborted THEN hose.until ELSE Len(frames))

(* A firehose that listens has been handed all it is due. *)
HoseFits(h, hose) ==
  /\ hose.at = "none" => hose = Unopened
  /\ hose.at = "over" => hose.aborted
  /\ hose.at \in {"over", "left"} => hose.queue = <<>>
  /\ hose.at # "none" => hose.from <= Len(frames) /\ (hose.aborted => hose.until <= Len(frames))
  /\ hose.at # "none" => Delivers(Given(hose), DueOf(h, hose), hose.at = "left")

RailsInv ==
  /\ frames \in Seq(Packets) /\ applied \in Seq(Nat)
  /\ ToSet(applied) = {f \in 1..Len(frames) : frames[f].rail = "event"}
  /\ heard = [i \in DOMAIN applied |-> <<applied[i], i>>]
  /\ hoses \in [Firehoses -> Hoses]
  /\ \A h \in Firehoses : HoseFits(h, hoses[h])

LEMMA DueFits ==
  ASSUME RailsInv, NEW h \in Firehoses, hoses[h].at # "none"
  PROVE  DueOf(h, hoses[h]) \in SUBSET (1..Len(frames))
  <1>1. hoses[h] \in Hoses /\ HoseFits(h, hoses[h]) /\ Len(frames) \in Nat BY LenProperties DEF RailsInv
  <1>2. PICK last \in Int : DueOf(h, hoses[h]) = Carried(h, hoses[h].from, last) /\ last <= Len(frames)
    BY <1>1 DEF DueOf, HoseFits, Hoses
  <1>3. hoses[h].from \in Nat BY <1>1 DEF Hoses
  <1> QED BY <1>1, <1>2, <1>3 DEF Carried

(* Every event there was is one the store applied first. *)
LEMMA RailsFollow == RailsInv => FirehoseFollowsState
  <1> SUFFICES ASSUME RailsInv, NEW h \in Firehoses
               PROVE  /\ hoses[h].at # "none" => Delivers(Given(hoses[h]), DueOf(h, hoses[h]), hoses[h].at = "left")
                      /\ h \notin Raw => ToSet(Given(hoses[h])) \subseteq ToSet(applied)
    BY DEF RailsInv, FirehoseFollowsState, Given, DueOf
  <1>1. CASE hoses[h].at = "none"
    <2>1. Given(hoses[h]) = <<>> BY <1>1, ConcatEmptySeq, EmptySeq DEF RailsInv, HoseFits, Unopened, Given
    <2>2. ToSet(<<>>) = {} BY DEF ToSet
    <2> QED BY <1>1, <2>1, <2>2
  <1>2. CASE hoses[h].at # "none"
    <2>1. Delivers(Given(hoses[h]), DueOf(h, hoses[h]), hoses[h].at = "left") BY <1>2 DEF RailsInv, HoseFits
    <2>2. h \notin Raw => DueOf(h, hoses[h]) \subseteq ToSet(applied)
      <3> SUFFICES ASSUME h \notin Raw, NEW f \in DueOf(h, hoses[h]) PROVE f \in ToSet(applied) OBVIOUS
      <3>1. f \in 1..Len(frames) BY <1>2, DueFits
      <3>2. frames[f].rail = "event" BY DEF DueOf, Carried
      <3> QED BY <3>1, <3>2 DEF RailsInv
    <2> QED BY <2>1, <2>2 DEF Delivers
  <1> QED BY <1>1, <1>2

LEMMA UnopenedFits == Unopened \in Hoses
  <1>1. <<>> \in Seq(Nat) /\ <<>> \in Seq([Raw -> Nat]) BY EmptySeq
  <1> QED BY <1>1 DEF Unopened, Hoses

LEMMA RailsInitFits == RailsInit => RailsInv
  <1> SUFFICES ASSUME RailsInit PROVE RailsInv OBVIOUS
  <1>1. frames \in Seq(Packets) /\ applied \in Seq(Nat) /\ Len(frames) = 0 /\ DOMAIN applied = {}
    BY EmptySeq, LenProperties DEF RailsInit
  <1>2. Unopened \in Hoses BY UnopenedFits
  <1>3. heard = [i \in DOMAIN applied |-> <<applied[i], i>>] BY <1>1 DEF RailsInit
  <1>4. \A h \in Firehoses : hoses[h] = Unopened /\ hoses[h].at = "none" BY DEF RailsInit, Unopened
  <1>5. \A h \in Firehoses : HoseFits(h, hoses[h]) BY <1>4 DEF HoseFits
  <1>6. hoses \in [Firehoses -> Hoses] BY <1>2 DEF RailsInit
  <1>7. ToSet(applied) = {f \in 1..Len(frames) : frames[f].rail = "event"} BY <1>1 DEF ToSet
  <1> QED BY <1>1, <1>3, <1>5, <1>6, <1>7 DEF RailsInv

(* A step of one firehose. *)
LEMMA OneHoseSets ==
  ASSUME RailsInv, NEW h \in Firehoses, NEW hose \in Hoses, Sets(h, hose), HoseFits(h, hose)
  PROVE  RailsInv'
  <1>1. hoses' \in [Firehoses -> Hoses] /\ \A g \in Firehoses : hoses'[g] = IF g = h THEN hose ELSE hoses[g]
    BY DEF Sets, RailsInv
  <1>2. \A g \in Firehoses : HoseFits(g, hoses'[g]) BY <1>1 DEF RailsInv
  <1>3. UNCHANGED <<frames, applied, heard>> BY DEF Sets
  <1>4. \A g \in Firehoses : HoseFits(g, hoses[g])' BY <1>2, <1>3 DEF HoseFits, DueOf, Carried
  <1> QED BY <1>1, <1>3, <1>4 DEF RailsInv

LEMMA HoseStepFits ==
  ASSUME RailsInv, HoseSteps
  PROVE  RailsInv'
  <1>1. PICK h \in Firehoses : Opens(h) \/ AsksMore(h) \/ Hands(h) \/ SignalAborts(h) \/ EndsQuietly(h) \/ Breaks(h)
    BY DEF HoseSteps
  <1> DEFINE hose == hoses[h]
  <1>2. hose \in Hoses /\ HoseFits(h, hose) /\ Len(frames) \in Nat BY LenProperties DEF RailsInv
  <1>3. CASE Opens(h)
    <2> DEFINE new == [Unopened EXCEPT !.at = "parked", !.from = Len(frames)]
    <2>1. <<>> \in Seq(Nat) /\ <<>> \in Seq([Raw -> Nat]) BY EmptySeq
    <2>2. new \in Hoses /\ new.at = "parked" /\ new.from = Len(frames) /\ ~new.aborted /\ new.handed = <<>>
          /\ new.queue = <<>>
      <3>1. Unopened \in Hoses BY UnopenedFits
      <3>2. ~Unopened.aborted /\ Unopened.handed = <<>> /\ Unopened.queue = <<>> BY DEF Unopened
      <3> QED BY <3>1, <3>2, <1>2 DEF Hoses
    <2> HIDE DEF new
    <2>3. Given(new) = <<>> BY <2>1, <2>2, ConcatEmptySeq DEF Given
    <2>4. DueOf(h, new) = {} BY <1>2, <2>2 DEF DueOf, Carried
    <2>5. Delivers(<<>>, {}, FALSE)
      <3>1. DOMAIN <<>> = {} OBVIOUS
      <3>2. ToSet(<<>>) = {} BY DEF ToSet
      <3> QED BY <3>2 DEF Delivers
    <2>6. HoseFits(h, new)
      <3>1. Len(frames) <= Len(frames) BY <1>2
      <3> QED BY <3>1, <2>2, <2>3, <2>4, <2>5 DEF HoseFits
    <2>7. Sets(h, new) BY <1>3 DEF Opens, new
    <2> QED BY <2>2, <2>6, <2>7, OneHoseSets
  <1>4. CASE AsksMore(h)
    <2> DEFINE new == [hose EXCEPT !.at = "parked"]
    <2>1. new \in Hoses BY <1>2 DEF Hoses
    <2>2. Given(new) = Given(hose) /\ DueOf(h, new) = DueOf(h, hose) BY <1>2 DEF Given, DueOf, Hoses
    <2>3. HoseFits(h, new) BY <1>2, <1>4, <2>2 DEF AsksMore, HoseFits, Hoses
    <2> QED BY <1>4, <2>1, <2>3, OneHoseSets DEF AsksMore
  <1>5. CASE Hands(h)
    <2> DEFINE lens == [r \in Raw |-> Len(hoses[r].handed)]
               new == [hose EXCEPT !.at = "body", !.queue = Tail(@), !.handed = Append(@, Head(hose.queue)),
                                   !.beside = Append(@, lens)]
    <2>1. lens \in [Raw -> Nat] BY LenProperties, FirehoseAssumption DEF RailsInv, Hoses
    <2> HIDE DEF lens
    <2>2. hose.queue \in Seq(Nat) /\ hose.handed \in Seq(Nat) /\ hose.beside \in Seq([Raw -> Nat]) /\ hose.queue # <<>>
      BY <1>2, <1>5 DEF Hoses, Hands
    <2>3. Head(hose.queue) \in Nat /\ Tail(hose.queue) \in Seq(Nat) BY <2>2, HeadTailProperties
    <2>4. Append(hose.handed, Head(hose.queue)) \in Seq(Nat) /\ Append(hose.beside, lens) \in Seq([Raw -> Nat])
      BY <2>1, <2>2, <2>3, AppendProperties
    <2>5. new \in Hoses BY <1>2, <2>3, <2>4 DEF Hoses
    <2>6. Given(new) = Given(hose)
      <3>1. new.handed = Append(hose.handed, Head(hose.queue)) /\ new.queue = Tail(hose.queue) BY <1>2 DEF Hoses
      <3> QED BY <3>1, <2>2, HandsTheFirst DEF Given
    <2>7. DueOf(h, new) = DueOf(h, hose) BY <1>2 DEF DueOf, Hoses
    <2>8. HoseFits(h, new) BY <1>2, <1>5, <2>6, <2>7 DEF Hands, HoseFits, Hoses
    <2> QED BY <1>5, <2>5, <2>8, OneHoseSets DEF Hands, lens
  <1>6. CASE SignalAborts(h)
    <2> DEFINE new == [hose EXCEPT !.aborted = TRUE, !.until = Len(frames)]
    <2>1. new \in Hoses
      <3>1. PICK n \in Int : n = Len(frames) BY <1>2
      <3>2. [hose EXCEPT !.aborted = TRUE, !.until = n] \in Hoses BY <1>2 DEF Hoses
      <3> QED BY <3>1, <3>2
    <2>2. Given(new) = Given(hose) /\ DueOf(h, new) = DueOf(h, hose)
      BY <1>2, <1>6 DEF Given, DueOf, Hoses, SignalAborts, Listening
    <2>3. HoseFits(h, new) BY <1>2, <1>6, <2>2 DEF SignalAborts, Listening, HoseFits, Hoses
    <2> QED BY <1>6, <2>1, <2>3, OneHoseSets DEF SignalAborts
  <1>7. CASE EndsQuietly(h)
    <2> DEFINE new == [hose EXCEPT !.at = "over"]
    <2>1. new \in Hoses BY <1>2 DEF Hoses
    <2>2. Given(new) = Given(hose) /\ DueOf(h, new) = DueOf(h, hose) BY <1>2 DEF Given, DueOf, Hoses
    <2>3. HoseFits(h, new) BY <1>2, <1>7, <2>2 DEF EndsQuietly, HoseFits, Hoses
    <2> QED BY <1>7, <2>1, <2>3, OneHoseSets DEF EndsQuietly
  <1>8. CASE Breaks(h)
    <2> DEFINE new == [hose EXCEPT !.at = "left", !.queue = <<>>]
    <2>1. <<>> \in Seq(Nat) BY EmptySeq
    <2>2. new \in Hoses BY <1>2, <2>1 DEF Hoses
    <2>3. Given(new) = hose.handed BY <1>2, <2>1, ConcatEmptySeq DEF Given, Hoses
    <2>4. DueOf(h, new) = DueOf(h, hose) BY <1>2 DEF DueOf, Hoses
    <2>5. hose.at = "body" BY <1>8 DEF Breaks
    <2>6. Delivers(Given(hose), DueOf(h, hose), FALSE) /\ DueOf(h, hose) \in SUBSET Nat
      <3>1. DueOf(h, hose) \in SUBSET (1..Len(frames))
        <4>1. hoses[h].at # "none" BY <2>5
        <4> QED BY <4>1, DueFits
      <3>2. (hose.at = "left") = FALSE /\ hose.at # "none" BY <2>5
      <3>3. Delivers(Given(hose), DueOf(h, hose), hose.at = "left") BY <1>2, <3>2 DEF HoseFits
      <3>4. Delivers(Given(hose), DueOf(h, hose), FALSE) BY <3>2, <3>3
      <3>5. Len(frames) \in Nat BY <1>2
      <3>6. DueOf(h, hose) \in SUBSET Nat BY <3>1, <3>5
      <3> QED BY <3>4, <3>6
    <2>7. Delivers(hose.handed, DueOf(h, hose), TRUE) BY <1>2, <2>6, DropsTheRest DEF Given, Hoses
    <2>8. HoseFits(h, new) BY <1>2, <2>3, <2>4, <2>5, <2>7 DEF HoseFits, Hoses
    <2> QED BY <1>8, <2>2, <2>8, OneHoseSets DEF Breaks
  <1> QED BY <1>1, <1>3, <1>4, <1>5, <1>6, <1>7, <1>8

ToldBehindState(all, told) == all = [i \in DOMAIN told |-> <<told[i], i>>]

LEMMA HeardWithState ==
  ASSUME NEW told \in Seq(Nat), NEW f \in Nat, NEW after, NEW all, ToldBehindState(all, told), after = Append(told, f)
  PROVE  ToldBehindState(Append(all, <<f, Len(after)>>), after)
  <1> DEFINE pair == <<f, Len(after)>>
             n == Len(told)
             left == Append(all, pair)
             right == [i \in DOMAIN after |-> <<after[i], i>>]
  <1>1. n \in Nat /\ DOMAIN told = 1..n BY LenProperties
  <1>2. after \in Seq(Nat) /\ Len(after) = n + 1 /\ DOMAIN after = 1..n + 1 /\ after[n + 1] = f
        /\ \A i \in 1..n : after[i] = told[i]
    BY <1>1, AppendProperties, LenProperties
  <1> HIDE DEF n
  <1>3. all \in Seq(Nat \X Nat) /\ Len(all) = n
    <2>1. all = [i \in 1..n |-> <<told[i], i>>] BY <1>1 DEF ToldBehindState
    <2>2. \A i \in 1..n : <<told[i], i>> \in Nat \X Nat BY <1>1, ElementOfSeq DEF n
    <2> QED BY <1>1, <2>1, <2>2, IsASeq
  <1>4. pair \in Nat \X Nat /\ pair = <<f, n + 1>> BY <1>1, <1>2
  <1>5. /\ left \in Seq(Nat \X Nat) /\ Len(left) = n + 1 /\ DOMAIN left = 1..n + 1 /\ left[n + 1] = pair
        /\ \A i \in 1..n : left[i] = all[i]
    BY <1>1, <1>3, <1>4, AppendProperties, LenProperties
  <1> HIDE DEF pair, left
  <1>6. \A i \in 1..n : left[i] = <<after[i], i>>
    <2>1. \A i \in 1..n : all[i] = <<told[i], i>> BY <1>1 DEF ToldBehindState
    <2> QED BY <2>1, <1>2, <1>5
  <1>7. left[n + 1] = <<after[n + 1], n + 1>> BY <1>2, <1>4, <1>5
  <1>8. \A i \in 1..n + 1 : left[i] = <<after[i], i>>
    <2> SUFFICES ASSUME NEW i \in 1..n + 1 PROVE left[i] = <<after[i], i>> OBVIOUS
    <2>1. i \in 1..n \/ i = n + 1 BY <1>1
    <2> QED BY <2>1, <1>6, <1>7
  <1>9. left = [i \in 1..n + 1 |-> left[i]]
    BY <1>5, LenProperties, IsASeq
  <1>10. [i \in 1..n + 1 |-> left[i]] = [i \in 1..n + 1 |-> <<after[i], i>>] BY <1>8
  <1>11. left = right BY <1>2, <1>9, <1>10
  <1> QED BY <1>11 DEF left, pair, ToldBehindState

(* A frame: told to every firehose of its kind that listens, and the store   *)
(* has applied an event before anybody hears of it.                          *)
LEMMA FrameFits ==
  ASSUME RailsInv, NEW p \in Packets, FrameArrives(p)
  PROVE  RailsInv'
  <1> DEFINE f == Len(frames) + 1
             event == p.rail = "event"
             to == IF event THEN Firehoses ELSE Raw
  <1>1. /\ Len(frames) \in Nat /\ frames' = Append(frames, p) /\ frames' \in Seq(Packets) /\ Len(frames') = f
        /\ frames'[f] = p /\ \A g \in 1..Len(frames) : frames'[g] = frames[g]
    BY AppendProperties, LenProperties DEF RailsInv, FrameArrives
  <1>2. /\ applied' = IF event THEN Append(applied, f) ELSE applied
        /\ hoses' = Emitted(to, f)
        /\ heard' = IF event THEN Append(heard, <<f, Len(applied')>>) ELSE heard
    BY <1>1 DEF FrameArrives, PacketSink
  <1>3. f \in Nat /\ f > 0 /\ \A g \in 1..Len(frames) : g < f BY <1>1
  <1> HIDE DEF f
  <1>4. applied' \in Seq(Nat) /\ ToSet(applied') = {g \in 1..Len(frames') : frames'[g].rail = "event"}
    <2>1. 1..Len(frames') = (1..Len(frames)) \cup {f} BY <1>1, <1>3 DEF f
    <2>2. CASE event
      <3>1. ToSet(applied') = ToSet(applied) \cup {f}
        BY <1>2, <1>3, <2>2, TellsAppended DEF RailsInv
      <3> QED BY <1>1, <1>2, <1>3, <2>1, <2>2, <3>1, AppendProperties DEF RailsInv
    <2>3. CASE ~event BY <1>1, <1>2, <1>3, <2>1, <2>3 DEF RailsInv
    <2> QED BY <2>2, <2>3
  <1>5. ToldBehindState(heard', applied')
    <2>1. CASE event
      <3>1. heard' = Append(heard, <<f, Len(applied')>>) /\ applied' = Append(applied, f) BY <1>2, <2>1
      <3>2. ToldBehindState(heard, applied) /\ applied \in Seq(Nat) BY DEF RailsInv, ToldBehindState
      <3> QED BY <3>1, <3>2, <1>3, HeardWithState
    <2>2. CASE ~event BY <1>2, <2>2 DEF RailsInv, ToldBehindState
    <2> QED BY <2>1, <2>2
  <1>6. ASSUME NEW h \in Firehoses PROVE hoses'[h] \in Hoses /\ HoseFits(h, hoses[h])'
    <2> DEFINE hose == hoses[h]
               new == [hose EXCEPT !.queue = Append(@, f)]
               for == h \in Raw \/ event
    <2>1. hose \in Hoses /\ HoseFits(h, hose) BY DEF RailsInv
    <2>2. hoses'[h] = IF h \in to /\ Listening(hose) THEN new ELSE hose BY <1>2 DEF Emitted
    <2>3. h \in to <=> for OBVIOUS
    <2>4. ASSUME NEW from \in Nat, NEW until \in Int, until <= Len(frames)
          PROVE  Carried(h, from, until)' = Carried(h, from, until)
      <3>1. \A g \in from + 1..until : frames'[g] = frames[g] BY <1>1, <2>4
      <3> QED BY <3>1 DEF Carried
    <2>5. ASSUME NEW from \in Nat, from <= Len(frames)
          PROVE  Carried(h, from, Len(frames))' = Carried(h, from, Len(frames)) \cup (IF for THEN {f} ELSE {})
      <3>1. \A g \in from + 1..Len(frames) : frames'[g] = frames[g] BY <1>1
      <3>2. from + 1..Len(frames') = (from + 1..Len(frames)) \cup {f} /\ f \notin from + 1..Len(frames)
        BY <1>1, <2>5 DEF f
      <3> QED BY <1>1, <3>1, <3>2 DEF Carried
    <2>6. PICK old, now : old = hose /\ now = hoses'[h] OBVIOUS
    <2>7. /\ old \in Hoses /\ HoseFits(h, old) /\ old.from \in Nat /\ old.until \in Int
          /\ old.handed \in Seq(Nat) /\ old.queue \in Seq(Nat)
      BY <2>1, <2>6 DEF Hoses
    <2>8. Append(old.queue, f) \in Seq(Nat) BY <2>7, <1>3, AppendProperties
    <2>9. CASE ~(for /\ Listening(old))
      <3>1. now = old BY <2>2, <2>3, <2>6, <2>9
      <3>2. CASE old.at = "none" BY <3>1, <3>2, <2>6, <2>7 DEF HoseFits
      <3>3. CASE old.at # "none"
        <4>1. old.from <= Len(frames') /\ (old.aborted => old.until <= Len(frames'))
          BY <1>1, <1>3, <2>7, <3>3 DEF HoseFits, f
        <4>2. Delivers(Given(old), DueOf(h, old), old.at = "left") BY <2>7, <3>3 DEF HoseFits
        <4>3. CASE old.aborted \/ ~for
          <5>1. DueOf(h, old)' = DueOf(h, old) BY <2>4, <2>5, <2>7, <3>3, <4>3 DEF HoseFits, DueOf
          <5>2. Delivers(Given(old), DueOf(h, old)', old.at = "left") BY <4>2, <5>1
          <5>3. HoseFits(h, old)' BY <2>7, <3>3, <4>1, <5>2 DEF HoseFits
          <5> QED BY <5>3, <3>1, <2>6, <2>7
        <4>4. CASE ~old.aborted /\ for
          <5>1. old.at = "left" BY <2>7, <2>9, <3>3, <4>4 DEF HoseFits, Hoses, Listening
          <5>2. (old.at = "left") = TRUE BY <5>1
          <5>3. DueOf(h, old)' = DueOf(h, old) \cup {f} BY <2>5, <2>7, <3>3, <4>4 DEF HoseFits, DueOf
          <5>4. \A g \in DueOf(h, old) : g < f
            <6>1. DueOf(h, old) \in SUBSET (1..Len(frames)) BY <2>6, <3>3, DueFits
            <6> QED BY <6>1, <1>3
          <5>5. Delivers(Given(old), DueOf(h, old), TRUE) BY <4>2, <5>2
          <5>6. \A g \in ToSet(Given(old)) : g < f BY <5>4, <5>5 DEF Delivers
          <5>7. Delivers(Given(old), DueOf(h, old) \cup {f}, TRUE) BY <5>5, <5>6, DueLater
          <5>8. Delivers(Given(old), DueOf(h, old)', old.at = "left") BY <5>2, <5>3, <5>7
          <5>9. HoseFits(h, old)' BY <2>7, <3>3, <4>1, <5>8 DEF HoseFits
          <5> QED BY <5>9, <3>1, <2>6, <2>7
        <4> QED BY <4>3, <4>4, <2>7 DEF Hoses
      <3> QED BY <3>2, <3>3
    <2>10. CASE for /\ Listening(old)
      <3>1. now = [old EXCEPT !.queue = Append(@, f)] BY <2>2, <2>3, <2>6, <2>10
      <3>2. now \in Hoses BY <3>1, <2>7, <2>8 DEF Hoses
      <3>3. /\ now.at = old.at /\ now.handed = old.handed /\ now.queue = Append(old.queue, f)
            /\ now.from = old.from /\ now.until = old.until /\ now.aborted = old.aborted
        BY <3>1, <2>7 DEF Hoses
      <3>4. now.at \in {"body", "parked"} /\ ~now.aborted BY <2>10, <3>3 DEF Listening
      <3>5. (now.at = "left") = FALSE /\ now.at # "none" /\ now.at # "over" /\ now.at # "left" BY <3>4
      <3>6. Delivers(Given(old), DueOf(h, old), FALSE)
        <4>1. Delivers(Given(old), DueOf(h, old), old.at = "left") BY <2>7, <3>3, <3>5 DEF HoseFits
        <4>2. (old.at = "left") = FALSE BY <3>3, <3>5
        <4> QED BY <4>1, <4>2
      <3>7. DueOf(h, now)' = DueOf(h, old) \cup {f} BY <2>5, <2>7, <2>10, <3>3, <3>4, <3>5 DEF HoseFits, DueOf
      <3>8. DueOf(h, old) \in SUBSET (1..Len(frames)) BY <2>6, <3>3, <3>5, DueFits
      <3>9. DueOf(h, old) \in SUBSET Nat /\ \A g \in DueOf(h, old) : g < f BY <3>8, <1>1, <1>3
      <3>10. Given(now) = Append(Given(old), f) /\ Given(old) \in Seq(Nat)
        <4>1. PICK d \in Seq(Nat), q \in Seq(Nat) : d = old.handed /\ q = old.queue BY <2>7, <3>3 DEF Hoses
        <4>2. d \o Append(q, f) = Append(d \o q, f) BY <1>3, QueuesBehind
        <4> QED BY <3>3, <4>1, <4>2, ConcatProperties DEF Given
      <3>11. Delivers(Given(now), DueOf(h, now)', FALSE) BY <3>6, <3>7, <3>9, <3>10, <1>3, TellsOneMore
      <3>12. Delivers(Given(now), DueOf(h, now)', now.at = "left") BY <3>5, <3>11
      <3>13. now.from <= Len(frames') BY <1>1, <1>3, <2>7, <3>3, <3>5 DEF HoseFits, f
      <3>14. HoseFits(h, now)' BY <3>4, <3>5, <3>12, <3>13 DEF HoseFits
      <3> QED BY <3>2, <3>14, <2>6
    <2> QED BY <2>9, <2>10
  <1>7. hoses' \in [Firehoses -> Hoses] BY <1>2, <1>6 DEF Emitted
  <1> QED BY <1>1, <1>4, <1>5, <1>6, <1>7 DEF RailsInv, ToldBehindState

LEMMA RailsUnchanged ==
  ASSUME RailsInv, UNCHANGED railVars
  PROVE  RailsInv'
  BY DEF RailsInv, railVars, HoseFits, DueOf, Carried

LEMMA RailsStep ==
  ASSUME RailsInv, [ClientNext]_clientVars
  PROVE  RailsInv'
  <1>1. CASE HoseSteps BY <1>1, HoseStepFits
  <1>2. CASE Frame BY <1>2, FrameFits DEF Frame
  <1>3. CASE UNCHANGED railVars BY <1>3, RailsUnchanged
  <1>4. CASE Refuses \/ Begins \/ Authenticated \/ LoginOrFetchFails \/ ApplyFails \/ Assembles \/ StreamOpens
             \/ OpenFails \/ StreamLost \/ Relaunches \/ RefreshDue \/ RefreshSettles
    <2>1. UNCHANGED railVars
      BY <1>4 DEF Refuses, Begins, Authenticated, LoginOrFetchFails, ApplyFails, Assembles, StreamOpens, OpenFails,
                  StreamLost, Relaunches, RefreshDue, RefreshSettles, Rests, railVars
    <2> QED BY <2>1, RailsUnchanged
  <1>5. ASSUME NEW d \in Disposers, Dispose(d) \/ TearsDown(d) PROVE UNCHANGED railVars
    BY <1>5 DEF Dispose, TearsDown, Rests, railVars
  <1> QED BY <1>1, <1>2, <1>3, <1>4, <1>5, RailsUnchanged DEF ClientNext, clientVars

(* However often the stream is relaunched and however firehoses are aborted  *)
(* and left, each was told every frame of its kind that came while it        *)
(* listened, in order, and of no event before the state (src/client/         *)
(* client.ts, the packet sinks and #firehose).                               *)
THEOREM FirehosesMissNothing == Spec => []FirehoseFollowsState
  <1>1. ClientInit => RailsInv BY RailsInitFits DEF ClientInit
  <1> QED BY <1>1, RailsStep, RailsFollow, PTL DEF Spec

-----------------------------------------------------------------------------
(* Of some naturals one is the least. *)
LEMMA LeastOfNaturals ==
  ASSUME NEW S, S \subseteq Nat, S # {}
  PROVE  \E n \in S : \A m \in S : n <= m
  <1> DEFINE R == {p \in Nat \X Nat : p[1] < p[2]}
  <1>1. PICK n \in S : \A m \in S : <<m, n>> \notin R
    <2>1. IsWellFoundedOn(R, Nat) BY NatLessThanWellFounded DEF OpToRel
    <2> HIDE DEF R
    <2> QED BY <2>1, WFMin
  <1>2. ASSUME NEW m \in S PROVE n <= m
    <2>1. m \in Nat /\ n \in Nat /\ <<m, n>> \notin R BY <1>1
    <2>2. ~(m < n) BY <2>1
    <2> QED BY <2>1, <2>2
  <1> QED BY <1>2

(* A function over the first naturals is a sequence, and a sequence is one. *)
LEMMA SeqsAre ==
  ASSUME NEW n \in Nat, NEW s, s = [i \in 1..n |-> s[i]]
  PROVE  IsSeq(s) /\ Len(s) = n /\ DOMAIN s = 1..n
  <1>1. DOMAIN s = 1..n OBVIOUS
  <1>2. \A i \in 1..n : s[i] \in ToSet(s) BY <1>1 DEF ToSet
  <1>3. s \in [1..n -> ToSet(s)] BY <1>1, <1>2
  <1>4. s \in Seq(ToSet(s)) BY <1>3, SeqDef
  <1> QED BY <1>1, <1>4, LenProperties DEF IsSeq

LEMMA SeqHas ==
  ASSUME NEW s, IsSeq(s)
  PROVE  Len(s) \in Nat /\ DOMAIN s = 1..Len(s) /\ s = [i \in 1..Len(s) |-> s[i]]
  BY LenProperties DEF IsSeq

(* Two sequences joined hold what both hold. *)
LEMMA SeqsJoin ==
  ASSUME NEW s, NEW t, IsSeq(s), IsSeq(t)
  PROVE  IsSeq(s \o t) /\ ToSet(s \o t) = ToSet(s) \cup ToSet(t)
  <1> DEFINE S == ToSet(s) \cup ToSet(t)
             n == Len(s)
             m == Len(t)
             st == s \o t
  <1>1. s \in Seq(S) /\ t \in Seq(S) BY SeqMonotonic DEF IsSeq
  <1>2. /\ st \in Seq(S) /\ Len(st) = n + m /\ n \in Nat /\ m \in Nat
        /\ \A i \in 1..n : st[i] = s[i]
        /\ \A i \in 1..m : st[n + i] = t[i]
    BY <1>1, ConcatProperties, LenProperties
  <1>3. DOMAIN s = 1..n /\ DOMAIN t = 1..m /\ DOMAIN st = 1..(n + m) /\ st = [i \in 1..(n + m) |-> st[i]]
    BY <1>1, <1>2, LenProperties
  <1> HIDE DEF st, n, m
  <1>4. n + m \in Nat BY <1>2
  <1>5. IsSeq(st) BY <1>3, <1>4, SeqsAre
  <1>6. ToSet(st) \subseteq S
    <2> SUFFICES ASSUME NEW i \in 1..(n + m) PROVE st[i] \in S BY <1>3 DEF ToSet
    <2>1. CASE i \in 1..n BY <2>1, <1>2, <1>3 DEF ToSet
    <2>2. CASE i \notin 1..n
      <3>1. i - n \in 1..m /\ n + (i - n) = i BY <2>2, <1>2
      <3>2. st[i] = t[i - n] BY <3>1, <1>2
      <3> QED BY <3>1, <3>2, <1>3 DEF ToSet
    <2> QED BY <2>1, <2>2
  <1>7. ToSet(s) \subseteq ToSet(st)
    <2>1. \A i \in 1..n : i \in 1..(n + m) BY <1>2
    <2> QED BY <2>1, <1>2, <1>3 DEF ToSet
  <1>8. ToSet(t) \subseteq ToSet(st)
    <2>1. \A i \in 1..m : n + i \in 1..(n + m) BY <1>2
    <2> QED BY <2>1, <1>2, <1>3 DEF ToSet
  <1> QED BY <1>5, <1>6, <1>7, <1>8 DEF st

(* FlattenSeq's recursive function; there is one of every length. *)
FlatRule(flat, parts, n) ==
  flat = [i \in 1..n |-> IF i = 1 THEN parts[i] ELSE flat[i - 1] \o parts[i]]

LEMMA FlatGrows ==
  ASSUME NEW parts, NEW n \in Nat, n > 1, NEW flat, FlatRule(flat, parts, n - 1)
  PROVE  \E more : FlatRule(more, parts, n)
  <1> DEFINE more == [i \in 1..n |-> IF i = n THEN flat[n - 1] \o parts[n] ELSE flat[i]]
  <1>1. \A i \in 1..n : i # n => flat[i] = IF i = 1 THEN parts[i] ELSE flat[i - 1] \o parts[i]
    <2> SUFFICES ASSUME NEW i \in 1..n, i # n PROVE flat[i] = IF i = 1 THEN parts[i] ELSE flat[i - 1] \o parts[i] OBVIOUS
    <2>1. i \in 1..n - 1 OBVIOUS
    <2> QED BY <2>1 DEF FlatRule
  <1>2. ASSUME NEW i \in 1..n PROVE more[i] = IF i = 1 THEN parts[i] ELSE more[i - 1] \o parts[i]
    <2>1. CASE i = n
      <3>1. i - 1 \in 1..n /\ i - 1 # n /\ i # 1 BY <2>1
      <3>2. more[i - 1] = flat[n - 1] BY <2>1, <3>1
      <3> QED BY <2>1, <3>1, <3>2
    <2>2. CASE i # n /\ i # 1
      <3>1. i - 1 \in 1..n /\ i - 1 # n BY <2>2
      <3> QED BY <1>1, <2>2, <3>1
    <2>3. CASE i # n /\ i = 1 BY <1>1, <2>3
    <2> QED BY <2>1, <2>2, <2>3
  <1>3. more = [i \in 1..n |-> more[i]] OBVIOUS
  <1> HIDE DEF more
  <1>4. FlatRule(more, parts, n) BY <1>2, <1>3 DEF FlatRule
  <1> QED BY <1>4

LEMMA FlatBuilt ==
  ASSUME NEW parts, NEW n \in Nat, n > 0
  PROVE  \E flat : FlatRule(flat, parts, n)
  <1> DEFINE Bad == {m \in Nat : m > 0 /\ ~\E flat : FlatRule(flat, parts, m)}
  <1> SUFFICES ASSUME Bad # {} PROVE FALSE OBVIOUS
  <1>1. PICK m \in Bad : \A k \in Bad : m <= k BY LeastOfNaturals
  <1>2. CASE m = 1
    <2>1. FlatRule([i \in 1..1 |-> parts[i]], parts, 1) BY DEF FlatRule
    <2> QED BY <1>1, <1>2, <2>1
  <1>3. CASE m # 1
    <2>1. m - 1 \in Nat /\ m - 1 > 0 /\ m - 1 \notin Bad /\ m > 1 BY <1>1, <1>3
    <2>2. PICK flat : FlatRule(flat, parts, m - 1) BY <2>1
    <2> QED BY <1>1, <2>1, <2>2, FlatGrows
  <1> QED BY <1>2, <1>3

(* What a flattened sequence of sequences is made of. *)
LEMMA FlattenedIs ==
  ASSUME NEW parts, IsSeq(parts), \A i \in DOMAIN parts : IsSeq(parts[i])
  PROVE  IsSeq(FlattenSeq(parts)) /\ ToSet(FlattenSeq(parts)) = UNION {ToSet(parts[i]) : i \in DOMAIN parts}
  <1>1. Len(parts) \in Nat /\ DOMAIN parts = 1..Len(parts) /\ parts = [i \in 1..Len(parts) |-> parts[i]] BY SeqHas
  <1>2. CASE Len(parts) = 0
    <2>1. FlattenSeq(parts) = parts BY <1>2 DEF FlattenSeq
    <2>2. DOMAIN parts = {} BY <1>1, <1>2
    <2> QED BY <2>1, <2>2 DEF ToSet
  <1>3. CASE Len(parts) # 0
    <2> DEFINE n == Len(parts)
               flat == CHOOSE f : FlatRule(f, parts, n)
    <2>1. FlattenSeq(parts) = flat[n] BY <1>3 DEF FlattenSeq, FlatRule
    <2>2. n \in Nat /\ n > 0 BY <1>1, <1>3
    <2>3. FlatRule(flat, parts, n) BY <2>2, FlatBuilt
    <2>4. DOMAIN parts = 1..n BY <1>1
    <2> HIDE DEF flat, n
    <2>5. \A i \in 1..n : flat[i] = IF i = 1 THEN parts[i] ELSE flat[i - 1] \o parts[i] BY <2>3 DEF FlatRule
    <2> DEFINE Good(m) == IsSeq(flat[m]) /\ ToSet(flat[m]) = UNION {ToSet(parts[i]) : i \in 1..m}
               Bad == {m \in 1..n : ~Good(m)}
    <2>6. ASSUME Bad # {} PROVE FALSE
      <3>0. Bad \subseteq Nat BY <2>2
      <3>1. PICK m \in Bad : \A k \in Bad : m <= k BY <3>0, <2>6, LeastOfNaturals
      <3>2. m \in 1..n /\ IsSeq(parts[m]) BY <2>4
      <3>3. CASE m = 1
        <4>1. flat[m] = parts[1] BY <2>5, <3>2, <3>3
        <4>2. 1..1 = {1} OBVIOUS
        <4> QED BY <3>1, <3>2, <3>3, <4>1, <4>2
      <3>4. CASE m # 1
        <4>1. m - 1 \in 1..n /\ ~(m <= m - 1) BY <2>2, <3>2, <3>4
        <4>2. Good(m - 1) BY <3>1, <4>1
        <4>3. flat[m] = flat[m - 1] \o parts[m] BY <2>5, <3>2, <3>4
        <4>4. IsSeq(flat[m]) /\ ToSet(flat[m]) = ToSet(flat[m - 1]) \cup ToSet(parts[m]) BY <3>2, <4>2, <4>3, SeqsJoin
        <4>5. 1..m = (1..(m - 1)) \cup {m} BY <2>2, <3>2
        <4>6. UNION {ToSet(parts[i]) : i \in 1..m} = (UNION {ToSet(parts[i]) : i \in 1..(m - 1)}) \cup ToSet(parts[m])
          <5> DEFINE A(i) == ToSet(parts[i])
          <5> HIDE DEF A
          <5>1. UNION {A(i) : i \in 1..m} = (UNION {A(i) : i \in 1..(m - 1)}) \cup A(m)
            <6>1. PICK I, J : I = 1..m /\ J = 1..(m - 1) OBVIOUS
            <6>2. UNION {A(i) : i \in J \cup {m}} = (UNION {A(i) : i \in J}) \cup A(m) OBVIOUS
            <6> QED BY <4>5, <6>1, <6>2
          <5> QED BY <5>1 DEF A
        <4>7. Good(m) BY <4>2, <4>4, <4>6
        <4> QED BY <3>1, <4>7
      <3> QED BY <3>3, <3>4
    <2>7. n \in 1..n BY <2>2
    <2>8. Good(n) BY <2>6, <2>7
    <2> QED BY <2>1, <2>4, <2>8
  <1> QED BY <1>2, <1>3

(* A window is a record of its own fields. *)
IsWindow(w) ==
  w = [cadence |-> w.cadence, novelty |-> w.novelty, subjects |-> w.subjects, raw |-> w.raw, rawSeen |-> w.rawSeen]

Kinds == {"unknownCollection", "unknownEventType", "unknownField", "unknownModelKey"}

(* A finding of a field of this record. *)
FieldFound(finding, id) == finding.kind = "unknownField" /\ finding.recordId = id

(* The records whose fields a window's findings are of. *)
FieldHeld(w, id) == \E key \in DOMAIN w.novelty : key[1] = "unknownField" /\ w.novelty[key].finding.recordId = id
KeysFit(w) == \A key \in DOMAIN w.novelty : key[1] = "unknownField" => w.novelty[key].finding.recordId = key[3]

(* A window holds a field finding of those it selected as novel. *)
NovelAreFound(w) == \A id : (id \in DOMAIN w.subjects /\ "novelty" \in w.subjects[id]) <=> FieldHeld(w, id)

WindowSound(w) == IsWindow(w) /\ KeysFit(w) /\ NovelAreFound(w)

(* A finding's key says its kind, and of a field whose it is. *)
LEMMA KeysTell ==
  ASSUME NEW finding, finding.kind \in Kinds
  PROVE  /\ NoveltyKey(finding)[1] = finding.kind
         /\ finding.kind = "unknownField" => NoveltyKey(finding)[3] = finding.recordId
  <1>1. CASE finding.kind = "unknownCollection"
    <2>1. NoveltyKey(finding) = <<finding.kind, finding.collection>> BY <1>1 DEF NoveltyKey
    <2> QED BY <2>1, <1>1
  <1>2. CASE finding.kind = "unknownEventType"
    <2>1. NoveltyKey(finding) = <<finding.kind, finding.eventType>> BY <1>2 DEF NoveltyKey
    <2> QED BY <2>1, <1>2
  <1>3. CASE finding.kind = "unknownField"
    <2>1. NoveltyKey(finding) = <<finding.kind, finding.collection, finding.recordId, finding.path>> BY <1>3 DEF NoveltyKey
    <2> QED BY <2>1, <1>3
  <1>4. CASE finding.kind = "unknownModelKey"
    <2>1. NoveltyKey(finding) = <<finding.kind, finding.modelKey, finding.recordId>> BY <1>4 DEF NoveltyKey
    <2> QED BY <2>1, <1>4
  <1> QED BY <1>1, <1>2, <1>3, <1>4 DEF Kinds

AllElse(w, more) ==
  w.cadence = more.cadence /\ w.subjects = more.subjects /\ w.raw = more.raw /\ w.rawSeen = more.rawSeen

(* What accumulating findings adds to what a window holds. *)
Accumulated(w, more, findings) ==
  /\ IsWindow(more) /\ AllElse(w, more) /\ KeysFit(more)
  /\ \A id : FieldHeld(more, id) <=> (FieldHeld(w, id) \/ \E i \in DOMAIN findings : FieldFound(findings[i], id))

(* The first place of a key is one of its places. *)
LEMMA FirstThere ==
  ASSUME NEW S, S \subseteq Nat, S # {}
  PROVE  (CHOOSE i \in S : \A j \in S : i <= j) \in S
  BY LeastOfNaturals

(* Accumulating findings: what is held keeps its record, and what is new is  *)
(* held under a key that names its own.                                      *)
LEMMA AccumulateFits ==
  ASSUME NEW w, NEW findings, IsWindow(w), KeysFit(w), IsSeq(findings),
         \A i \in DOMAIN findings : findings[i].kind \in Kinds
  PROVE  Accumulated(w, Accumulate(w, findings), findings)
  <1> DEFINE Of(key) == {i \in DOMAIN findings : NoveltyKey(findings[i]) = key}
             First(key) == findings[CHOOSE i \in Of(key) : \A j \in Of(key) : i <= j]
             keys == {NoveltyKey(findings[i]) : i \in DOMAIN findings}
             Entry(key) == Known(w.novelty, key, [finding |-> First(key), occurrenceCount |-> 0])
             Count(key) == Entry(key).occurrenceCount + Cardinality(Of(key))
             held == [key \in DOMAIN w.novelty \cup keys |-> [finding |-> Entry(key).finding, occurrenceCount |-> Count(key)]]
             more == Accumulate(w, findings)
  <1>1. more = [w EXCEPT !.novelty = held] BY DEF Accumulate
  <1>2. IsWindow(more) /\ AllElse(w, more) /\ more.novelty = held
    <2> HIDE DEF more, held
    <2> QED BY <1>1 DEF IsWindow, AllElse
  <1>3. DOMAIN more.novelty = DOMAIN w.novelty \cup keys /\ \A key \in DOMAIN more.novelty : more.novelty[key].finding = Entry(key).finding
    <2> HIDE DEF more, Count, Entry
    <2> QED BY <1>2
  <1>4. ASSUME NEW key \in DOMAIN w.novelty PROVE Entry(key) = w.novelty[key]
    <2> HIDE DEF First
    <2> QED BY DEF Known
  <1>5. ASSUME NEW key \in keys, key \notin DOMAIN w.novelty
        PROVE  \E i \in DOMAIN findings : Entry(key).finding = findings[i] /\ NoveltyKey(findings[i]) = key
    <2>1. Of(key) # {} /\ Of(key) \subseteq Nat BY SeqHas
    <2>2. PICK i \in Of(key) : First(key) = findings[i]
      <3> HIDE DEF Of
      <3> QED BY <2>1, FirstThere
    <2>3. Entry(key) = [finding |-> First(key), occurrenceCount |-> 0]
      <3> HIDE DEF First
      <3> QED BY <1>5 DEF Known
    <2>4. Entry(key).finding = First(key)
      <3> HIDE DEF First, Entry
      <3> QED BY <2>3
    <2> QED BY <2>2, <2>4
  <1> HIDE DEF Of, First, Entry, held, more
  <1>6. \A i \in DOMAIN findings :
          /\ NoveltyKey(findings[i])[1] = findings[i].kind
          /\ findings[i].kind = "unknownField" => NoveltyKey(findings[i])[3] = findings[i].recordId
    BY KeysTell
  <1>7. KeysFit(more)
    <2> SUFFICES ASSUME NEW key \in DOMAIN more.novelty, key[1] = "unknownField"
                 PROVE  more.novelty[key].finding.recordId = key[3]
      BY DEF KeysFit
    <2>1. CASE key \in DOMAIN w.novelty BY <2>1, <1>3, <1>4 DEF KeysFit
    <2>2. CASE key \notin DOMAIN w.novelty
      <3>1. key \in keys BY <2>2, <1>3
      <3>2. PICK i \in DOMAIN findings : Entry(key).finding = findings[i] /\ NoveltyKey(findings[i]) = key
        BY <2>2, <3>1, <1>5
      <3> QED BY <3>2, <1>3, <1>6
    <2> QED BY <2>1, <2>2
  <1>8. \A id : FieldHeld(more, id) <=> (FieldHeld(w, id) \/ \E i \in DOMAIN findings : FieldFound(findings[i], id))
    <2> TAKE id
    <2>1. FieldHeld(more, id) <=> \E key \in DOMAIN more.novelty : key[1] = "unknownField" /\ key[3] = id
      BY <1>7 DEF KeysFit, FieldHeld
    <2>2. FieldHeld(w, id) <=> \E key \in DOMAIN w.novelty : key[1] = "unknownField" /\ key[3] = id
      BY DEF KeysFit, FieldHeld
    <2>3. (\E i \in DOMAIN findings : FieldFound(findings[i], id)) <=> \E key \in keys : key[1] = "unknownField" /\ key[3] = id
      BY <1>6 DEF FieldFound
    <2> QED BY <1>3, <2>1, <2>2, <2>3
  <1> QED BY <1>2, <1>7, <1>8 DEF Accumulated, more

(* follow: one reason more for one device. *)
LEMMA FollowFits ==
  ASSUME NEW w, IsWindow(w), NEW id, NEW reason
  PROVE  LET more == Follow(w, id, reason)
         IN  /\ IsWindow(more) /\ more.novelty = w.novelty /\ more.raw = w.raw
             /\ DOMAIN more.subjects = DOMAIN w.subjects \cup {id}
             /\ reason \in more.subjects[id]
             /\ \A d, other : (d \in DOMAIN more.subjects /\ other \in more.subjects[d]) <=>
                                \/ d \in DOMAIN w.subjects /\ other \in w.subjects[d]
                                \/ d = id /\ other = reason
  <1> DEFINE told == [d \in DOMAIN w.subjects \cup {id} |-> IF d = id THEN Known(w.subjects, id, {}) \cup {reason} ELSE w.subjects[d]]
             more == Follow(w, id, reason)
  <1>1. more = [w EXCEPT !.subjects = told] BY DEF Follow
  <1>2. IsWindow(more) /\ more.novelty = w.novelty /\ more.raw = w.raw /\ more.subjects = told
    <2> HIDE DEF more, told
    <2> QED BY <1>1 DEF IsWindow
  <1> HIDE DEF more
  <1>3. \A d \in DOMAIN w.subjects \cup {id} : told[d] = IF d = id THEN Known(w.subjects, id, {}) \cup {reason} ELSE w.subjects[d]
    OBVIOUS
  <1>4. DOMAIN told = DOMAIN w.subjects \cup {id} OBVIOUS
  <1> HIDE DEF told
  <1>5. \A d, other : (d \in DOMAIN told /\ other \in told[d]) <=>
                        \/ d \in DOMAIN w.subjects /\ other \in w.subjects[d]
                        \/ d = id /\ other = reason
    BY <1>3, <1>4 DEF Known
  <1>6. reason \in told[id] BY <1>3
  <1> QED BY <1>2, <1>4, <1>5, <1>6 DEF more

EntryRecords(i) == RecordsOf(Bootstrap.entries[i][2])
EntryFindings(i) == MemberFindings(Manifest, Bootstrap.entries[i][1], Bootstrap.entries[i][2])

(* What a member of the bootstrap says that is not declared. *)
LEMMA EntryDiffed ==
  ASSUME NEW i \in DOMAIN Bootstrap.entries
  PROVE  /\ IsSeq(EntryFindings(i))
         /\ \A f \in ToSet(EntryFindings(i)) : f.kind \in Kinds
         /\ \A id : (\E f \in ToSet(EntryFindings(i)) : FieldFound(f, id)) <=>
              /\ Bootstrap.entries[i][1] \in DOMAIN Manifest.records
              /\ \E n \in DOMAIN EntryRecords(i) :
                   /\ RecordIdOf(EntryRecords(i)[n]) = id
                   /\ WalkRecord(Manifest.records[Bootstrap.entries[i][1]], EntryRecords(i)[n], Bootstrap.entries[i][1]) # <<>>
  <1> DEFINE key == Bootstrap.entries[i][1]
             value == Bootstrap.entries[i][2]
             records == EntryRecords(i)
             findings == EntryFindings(i)
             Walks(n) == WalkRecord(Manifest.records[key], records[n], key)
  <1>1. CASE key \notin DOMAIN Manifest.records
    <2> DEFINE only == UnknownCollection(key, value)
    <2>1. findings = <<only>> BY <1>1 DEF EntryFindings, MemberFindings
    <2>2. only.kind = "unknownCollection" BY DEF UnknownCollection
    <2> HIDE DEF only, findings
    <2>3. <<only>> = [j \in 1..1 |-> only] OBVIOUS
    <2>4. findings = [j \in 1..1 |-> findings[j]] BY <2>1, <2>3
    <2>5. IsSeq(findings) /\ DOMAIN findings = 1..1 BY <2>4, SeqsAre
    <2>6. ToSet(findings) = {only} BY <2>1, <2>5 DEF ToSet
    <2>7. \A id : ~FieldFound(only, id) BY <2>2 DEF FieldFound
    <2> QED BY <1>1, <2>2, <2>5, <2>6, <2>7 DEF findings, Kinds
  <1>2. CASE key \in DOMAIN Manifest.records
    <2> DEFINE parts == [n \in DOMAIN records |-> Walks(n)]
    <2>1. findings = FlattenSeq(parts) BY <1>2 DEF EntryFindings, EntryRecords, MemberFindings
    <2>2. IsSeq(records) BY BootstrapAssumption DEF EntryRecords
    <2>3. Len(records) \in Nat /\ DOMAIN records = 1..Len(records) BY <2>2, SeqHas
    <2>4. \A n \in DOMAIN records : FieldsOf(Walks(n), RecordIdOf(records[n]))
      BY <1>2, WalkAssumption DEF EntryRecords
    <2> HIDE DEF Walks, findings, records
    <2>5. parts = [n \in 1..Len(records) |-> parts[n]] BY <2>3
    <2>6. DOMAIN parts = DOMAIN records /\ \A n \in DOMAIN records : parts[n] = Walks(n) OBVIOUS
    <2> HIDE DEF parts
    <2>7. IsSeq(parts) BY <2>3, <2>5, SeqsAre
    <2>8. \A n \in DOMAIN parts : IsSeq(parts[n]) BY <2>4, <2>6 DEF FieldsOf
    <2>9. IsSeq(findings) /\ ToSet(findings) = UNION {ToSet(parts[n]) : n \in DOMAIN parts} BY <2>1, <2>7, <2>8, FlattenedIs
    <2>10. \A n \in DOMAIN records : \A f \in ToSet(Walks(n)) : f.kind = "unknownField" /\ f.recordId = RecordIdOf(records[n])
      BY <2>4 DEF FieldsOf, ToSet
    <2>11. \A n \in DOMAIN records : Walks(n) # <<>> <=> ToSet(Walks(n)) # {}
      <3> SUFFICES ASSUME NEW n \in DOMAIN records PROVE Walks(n) # <<>> <=> ToSet(Walks(n)) # {} OBVIOUS
      <3>1. PICK s : s = Walks(n) OBVIOUS
      <3>2. IsSeq(s) BY <3>1, <2>4 DEF FieldsOf
      <3>3. Len(s) \in Nat /\ DOMAIN s = 1..Len(s) /\ s \in Seq(ToSet(s)) BY <3>2, SeqHas DEF IsSeq
      <3>4. s # <<>> <=> Len(s) # 0 BY <3>3, EmptySeq
      <3>5. ToSet(s) # {} <=> Len(s) # 0 BY <3>3 DEF ToSet
      <3> QED BY <3>1, <3>4, <3>5
    <2>12. \A id : (\E f \in ToSet(findings) : FieldFound(f, id)) <=>
                     \E n \in DOMAIN records : RecordIdOf(records[n]) = id /\ Walks(n) # <<>>
      <3> TAKE id
      <3>1. \A f \in ToSet(findings) : \E n \in DOMAIN records : f \in ToSet(Walks(n)) BY <2>6, <2>9
      <3>2. \A n \in DOMAIN records : ToSet(Walks(n)) \subseteq ToSet(findings) BY <2>6, <2>9
      <3>3. ASSUME NEW f \in ToSet(findings), FieldFound(f, id)
            PROVE  \E n \in DOMAIN records : RecordIdOf(records[n]) = id /\ Walks(n) # <<>>
        <4>1. PICK n \in DOMAIN records : f \in ToSet(Walks(n)) BY <3>1
        <4> QED BY <3>3, <4>1, <2>10, <2>11 DEF FieldFound
      <3>4. ASSUME NEW n \in DOMAIN records, RecordIdOf(records[n]) = id, Walks(n) # <<>>
            PROVE  \E f \in ToSet(findings) : FieldFound(f, id)
        <4>1. PICK f : f \in ToSet(Walks(n)) BY <3>4, <2>11
        <4> QED BY <3>2, <3>4, <4>1, <2>10 DEF FieldFound
      <3> QED BY <3>3, <3>4
    <2>13. \A f \in ToSet(findings) : f.kind \in Kinds
      <3>1. \A f \in ToSet(findings) : \E n \in DOMAIN records : f \in ToSet(Walks(n)) BY <2>6, <2>9
      <3> QED BY <3>1, <2>10 DEF Kinds
    <2> QED BY <1>2, <2>9, <2>12, <2>13 DEF findings, records, Walks
  <1> QED BY <1>1, <1>2

(* The bootstrap's diff finds a field of exactly the records it is novel in. *)
LEMMA BootstrapDiffed ==
  /\ IsSeq(DiffBootstrap(Manifest, Bootstrap))
  /\ \A f \in ToSet(DiffBootstrap(Manifest, Bootstrap)) : f.kind \in Kinds
  /\ \A id : (\E f \in ToSet(DiffBootstrap(Manifest, Bootstrap)) : FieldFound(f, id)) <=> NovelInBootstrap(id)
  <1> DEFINE findings == DiffBootstrap(Manifest, Bootstrap)
             entries == Bootstrap.entries
             parts == [i \in DOMAIN entries |-> EntryFindings(i)]
  <1>1. findings = FlattenSeq(parts) BY BootstrapAssumption DEF DiffBootstrap, OverMembers, EntryFindings
  <1>2. IsSeq(entries) BY BootstrapAssumption
  <1>3. Len(entries) \in Nat /\ DOMAIN entries = 1..Len(entries) BY <1>2, SeqHas
  <1>4. DOMAIN parts = DOMAIN entries /\ \A i \in DOMAIN entries : parts[i] = EntryFindings(i) OBVIOUS
  <1>5. parts = [i \in 1..Len(entries) |-> parts[i]] BY <1>3
  <1> HIDE DEF parts, findings, entries
  <1>6. IsSeq(parts) BY <1>3, <1>5, SeqsAre
  <1>7. \A i \in DOMAIN parts : IsSeq(parts[i]) BY <1>4, EntryDiffed DEF entries
  <1>8. IsSeq(findings) /\ ToSet(findings) = UNION {ToSet(parts[i]) : i \in DOMAIN parts} BY <1>1, <1>6, <1>7, FlattenedIs
  <1>9. \A f : f \in ToSet(findings) <=> \E i \in DOMAIN entries : f \in ToSet(EntryFindings(i)) BY <1>4, <1>8
  <1>10. \A f \in ToSet(findings) : f.kind \in Kinds BY <1>9, EntryDiffed DEF entries
  <1>11. \A id : (\E f \in ToSet(findings) : FieldFound(f, id)) <=> NovelInBootstrap(id)
    <2> TAKE id
    <2>1. (\E f \in ToSet(findings) : FieldFound(f, id)) <=>
            \E i \in DOMAIN entries : \E f \in ToSet(EntryFindings(i)) : FieldFound(f, id)
      BY <1>9
    <2>2. NovelInBootstrap(id) <=> \E i \in DOMAIN entries : \E f \in ToSet(EntryFindings(i)) : FieldFound(f, id)
      BY EntryDiffed DEF NovelInBootstrap, EntryRecords, entries
    <2> QED BY <2>1, <2>2
  <1> QED BY <1>8, <1>10, <1>11 DEF findings

(* Before its rails start a window follows what the bootstrap earns. *)
LEMMA SeedFits ==
  ASSUME NEW axis \in Axes
  PROVE  /\ WindowSound(Seeded[axis]) /\ Seeded[axis].raw = <<>>
         /\ \A id : id \in DOMAIN Seeded[axis].subjects <=> (NovelInBootstrap(id) \/ NamedInBootstrap(id, axis))
  <1> DEFINE findings == DiffBootstrap(Manifest, Bootstrap)
             w == Accumulate(NewWindow, findings)
             novel == {w.novelty[key].finding.recordId : key \in {k \in DOMAIN w.novelty : k[1] = "unknownField"}}
             described == {Bootstrap.entries[i][2] :
                             i \in {j \in DOMAIN Bootstrap.entries : Bootstrap.entries[j][1] \in DOMAIN Manifest.records}}
             records == UNION {ToSet(value.items) : value \in {v \in described : IsArray(v)}}
             named == {RecordIdOf(record) :
                         record \in {r \in records : RecordIdOf(r) # Word("") /\ AxisMatches(axis, IdentityOf(r))}}
             chosen == [id \in novel \cup named |->
                          {reason \in {"novelty", "deviceFlag"} : IF reason = "novelty" THEN id \in novel ELSE id \in named}]
             seeded == Seeded[axis]
  <1>1. seeded = [w EXCEPT !.subjects = chosen] BY DEF Seeded, SeedSubjects
  <1>2. IsWindow(NewWindow) /\ DOMAIN NewWindow.novelty = {} /\ NewWindow.raw = <<>>
    BY DEF NewWindow, IsWindow
  <1>3. KeysFit(NewWindow) /\ \A id : ~FieldHeld(NewWindow, id) BY <1>2 DEF KeysFit, FieldHeld
  <1>4. IsSeq(findings) /\ (\A i \in DOMAIN findings : findings[i].kind \in Kinds)
        /\ \A id : (\E i \in DOMAIN findings : FieldFound(findings[i], id)) <=> NovelInBootstrap(id)
    <2> HIDE DEF findings
    <2>1. \A f : f \in ToSet(findings) <=> \E i \in DOMAIN findings : f = findings[i] BY DEF ToSet
    <2>2. /\ IsSeq(findings) /\ \A f \in ToSet(findings) : f.kind \in Kinds
          /\ \A id : (\E f \in ToSet(findings) : FieldFound(f, id)) <=> NovelInBootstrap(id)
      BY BootstrapDiffed DEF findings
    <2> QED BY <2>1, <2>2
  <1> HIDE DEF findings
  <1>5. Accumulated(NewWindow, w, findings) BY <1>2, <1>3, <1>4, AccumulateFits
  <1> HIDE DEF w, seeded, chosen, novel, named
  <1>6. IsWindow(seeded) /\ seeded.subjects = chosen /\ seeded.novelty = w.novelty /\ seeded.raw = <<>>
    BY <1>1, <1>2, <1>5 DEF Accumulated, IsWindow, AllElse
  <1>7. \A id : FieldHeld(seeded, id) <=> FieldHeld(w, id) BY <1>6 DEF FieldHeld
  <1>8. \A id : FieldHeld(w, id) <=> NovelInBootstrap(id) BY <1>3, <1>4, <1>5 DEF Accumulated
  <1>9. \A id : id \in novel <=> FieldHeld(w, id) BY DEF novel, FieldHeld
  <1>10. \A id : id \in named <=> NamedInBootstrap(id, axis)
    <2> TAKE id
    <2>1. \A record : record \in records <=>
            \E i \in DOMAIN Bootstrap.entries :
              /\ Bootstrap.entries[i][1] \in DOMAIN Manifest.records /\ IsArray(Bootstrap.entries[i][2])
              /\ \E n \in DOMAIN Bootstrap.entries[i][2].items : record = Bootstrap.entries[i][2].items[n]
      <3> TAKE record
      <3>1. record \in records <=> \E i \in DOMAIN Bootstrap.entries :
              /\ Bootstrap.entries[i][1] \in DOMAIN Manifest.records /\ IsArray(Bootstrap.entries[i][2])
              /\ record \in ToSet(Bootstrap.entries[i][2].items)
        OBVIOUS
      <3> QED BY <3>1 DEF ToSet
    <2>2. NamedInBootstrap(id, axis) <=>
            \E i \in DOMAIN Bootstrap.entries :
              /\ Bootstrap.entries[i][1] \in DOMAIN Manifest.records /\ IsArray(Bootstrap.entries[i][2]) /\ id # Word("")
              /\ \E n \in DOMAIN Bootstrap.entries[i][2].items :
                   /\ RecordIdOf(Bootstrap.entries[i][2].items[n]) = id
                   /\ AxisMatches(axis, IdentityOf(Bootstrap.entries[i][2].items[n]))
      BY DEF NamedInBootstrap, RecordsOf
    <2>3. id \in named <=> \E record \in records : RecordIdOf(record) = id /\ id # Word("") /\ AxisMatches(axis, IdentityOf(record))
      <3> HIDE DEF records
      <3> QED BY DEF named
    <2> HIDE DEF records
    <2>4. ASSUME id \in named PROVE NamedInBootstrap(id, axis)
      <3>1. PICK record \in records : RecordIdOf(record) = id /\ id # Word("") /\ AxisMatches(axis, IdentityOf(record))
        BY <2>3, <2>4
      <3>2. PICK i \in DOMAIN Bootstrap.entries :
              /\ Bootstrap.entries[i][1] \in DOMAIN Manifest.records /\ IsArray(Bootstrap.entries[i][2])
              /\ \E n \in DOMAIN Bootstrap.entries[i][2].items : record = Bootstrap.entries[i][2].items[n]
        BY <2>1
      <3> QED BY <2>2, <3>1, <3>2
    <2>5. ASSUME NamedInBootstrap(id, axis) PROVE id \in named
      <3>1. PICK i \in DOMAIN Bootstrap.entries :
              /\ Bootstrap.entries[i][1] \in DOMAIN Manifest.records /\ IsArray(Bootstrap.entries[i][2]) /\ id # Word("")
              /\ \E n \in DOMAIN Bootstrap.entries[i][2].items :
                   /\ RecordIdOf(Bootstrap.entries[i][2].items[n]) = id
                   /\ AxisMatches(axis, IdentityOf(Bootstrap.entries[i][2].items[n]))
        BY <2>2, <2>5
      <3>2. PICK n \in DOMAIN Bootstrap.entries[i][2].items :
              /\ RecordIdOf(Bootstrap.entries[i][2].items[n]) = id
              /\ AxisMatches(axis, IdentityOf(Bootstrap.entries[i][2].items[n]))
        BY <3>1
      <3>3. PICK record : record = Bootstrap.entries[i][2].items[n] OBVIOUS
      <3>4. record \in records BY <2>1, <3>1, <3>3
      <3> QED BY <2>3, <3>1, <3>2, <3>3, <3>4
    <2> QED BY <2>4, <2>5
  <1>11. DOMAIN chosen = novel \cup named /\ \A id \in novel \cup named : "novelty" \in chosen[id] <=> id \in novel
    BY DEF chosen
  <1>12. KeysFit(seeded) BY <1>5, <1>6 DEF Accumulated, KeysFit
  <1>13. NovelAreFound(seeded) BY <1>6, <1>7, <1>9, <1>11 DEF NovelAreFound
  <1> QED BY <1>6, <1>8, <1>9, <1>10, <1>11, <1>12, <1>13 DEF WindowSound, seeded

(* A frame of a class the reducer folds is diffed by a walk of its record. *)
LEMMA CarriedIsWalked ==
  ASSUME NEW p \in Packets, CarriesRecord(p)
  PROVE  DiffRecord(Manifest, p.modelKey, p.payload, p.id) = Walked(p) /\ ~UnknownKey(p) /\ FieldsOf(Walked(p), p.id)
  <1>1. p.modelKey \in Manifest.modelKeys.known /\ p.modelKey \in DOMAIN Manifest.recordKeys
    BY VocabularyAssumption DEF CarriesRecord
  <1> QED BY <1>1, WalkAssumption DEF DiffRecord, Walked, UnknownKey

(* Whom a frame gives the window a reason to follow. *)
Tells(p, axis) == ShowsNovelty(p) \/ Addresses(axis, p)

(* What the diff of a frame adds to a window. *)
Follows(w, more, p, axis) ==
  DOMAIN more.subjects = DOMAIN w.subjects \cup (IF Tells(p, axis) THEN {p.id} ELSE {})

LEMMA DiffedFits ==
  ASSUME NEW axis, NEW p \in Packets, NEW w, WindowSound(w)
  PROVE  WindowSound(Diffed(w, p, axis)) /\ Diffed(w, p, axis).raw = w.raw /\ Follows(w, Diffed(w, p, axis), p, axis)
  <1> DEFINE findings == IF CarriesRecord(p) THEN DiffRecord(Manifest, p.modelKey, p.payload, p.id) ELSE <<>>
             held == Accumulate(w, findings)
             novel == IF findings = <<>> THEN w ELSE Follow(held, p.id, "novelty")
             more == Diffed(w, p, axis)
  <1>1. more = IF Addresses(axis, p) THEN Follow(novel, p.id, "deviceFlag") ELSE novel BY DEF Diffed
  <1>2. findings # <<>> <=> ShowsNovelty(p) BY CarriedIsWalked DEF ShowsNovelty
  <1>3. CASE findings = <<>>
    <2>1. novel = w BY <1>3
    <2> HIDE DEF novel, more
    <2>2. CASE ~Addresses(axis, p) BY <2>1, <2>2, <1>1, <1>2, <1>3 DEF Tells, Follows, more
    <2>3. CASE Addresses(axis, p)
      <3>1. more = Follow(w, p.id, "deviceFlag") BY <1>1, <2>1, <2>3
      <3>2. /\ IsWindow(more) /\ more.novelty = w.novelty /\ more.raw = w.raw
            /\ DOMAIN more.subjects = DOMAIN w.subjects \cup {p.id}
            /\ \A d : (d \in DOMAIN more.subjects /\ "novelty" \in more.subjects[d]) <=>
                       d \in DOMAIN w.subjects /\ "novelty" \in w.subjects[d]
        BY <3>1, FollowFits DEF WindowSound
      <3>3. KeysFit(more) /\ \A id : FieldHeld(more, id) <=> FieldHeld(w, id) BY <3>2 DEF WindowSound, KeysFit, FieldHeld
      <3>4. NovelAreFound(more) BY <3>2, <3>3 DEF WindowSound, NovelAreFound
      <3> QED BY <2>3, <3>2, <3>3, <3>4 DEF WindowSound, Tells, Follows, more
    <2> QED BY <2>2, <2>3
  <1>4. CASE findings # <<>>
    <2>1. CarriesRecord(p) /\ findings = Walked(p) /\ FieldsOf(findings, p.id) BY <1>4, CarriedIsWalked
    <2>2. novel = Follow(held, p.id, "novelty") /\ ShowsNovelty(p) BY <1>2, <1>4
    <2>3. findings # <<>> BY <1>4
    <2> HIDE DEF findings
    <2>4. IsSeq(findings) /\ \A i \in DOMAIN findings : findings[i].kind \in Kinds /\ FieldFound(findings[i], p.id)
      BY <2>1 DEF FieldsOf, Kinds, FieldFound
    <2>5. Accumulated(w, held, findings) BY <2>4, AccumulateFits DEF WindowSound
    <2>6. \E i : i \in DOMAIN findings
      <3>1. Len(findings) \in Nat /\ DOMAIN findings = 1..Len(findings) /\ findings \in Seq(ToSet(findings))
        BY <2>4, SeqHas DEF IsSeq
      <3>2. Len(findings) # 0 BY <2>3, <3>1, EmptySeq
      <3>3. 1 \in 1..Len(findings) BY <3>1, <3>2
      <3> QED BY <3>1, <3>3
    <2>7. \A id : FieldHeld(held, id) <=> FieldHeld(w, id) \/ id = p.id
      BY <2>4, <2>5, <2>6 DEF Accumulated, FieldFound
    <2> HIDE DEF held, novel, more
    <2>8. /\ IsWindow(novel) /\ novel.novelty = held.novelty /\ novel.raw = held.raw
          /\ DOMAIN novel.subjects = DOMAIN held.subjects \cup {p.id}
          /\ \A d : (d \in DOMAIN novel.subjects /\ "novelty" \in novel.subjects[d]) <=>
                     \/ d \in DOMAIN held.subjects /\ "novelty" \in held.subjects[d]
                     \/ d = p.id
      BY <2>2, <2>5, FollowFits DEF Accumulated
    <2>9. \A id : FieldHeld(novel, id) <=> FieldHeld(w, id) \/ id = p.id BY <2>7, <2>8 DEF FieldHeld
    <2>10. KeysFit(novel) BY <2>5, <2>8 DEF KeysFit, Accumulated
    <2>11. w.subjects = held.subjects /\ w.raw = held.raw BY <2>5 DEF Accumulated, AllElse
    <2>12. NovelAreFound(novel) BY <2>8, <2>9, <2>11 DEF WindowSound, NovelAreFound
    <2>13. WindowSound(novel) /\ novel.raw = w.raw /\ DOMAIN novel.subjects = DOMAIN w.subjects \cup {p.id}
      BY <2>8, <2>10, <2>11, <2>12 DEF WindowSound
    <2>14. CASE ~Addresses(axis, p) BY <2>2, <2>13, <2>14, <1>1 DEF Tells, Follows, more
    <2>15. CASE Addresses(axis, p)
      <3>1. more = Follow(novel, p.id, "deviceFlag") BY <1>1, <2>15
      <3>2. /\ IsWindow(more) /\ more.novelty = novel.novelty /\ more.raw = novel.raw
            /\ DOMAIN more.subjects = DOMAIN novel.subjects \cup {p.id}
            /\ \A d : (d \in DOMAIN more.subjects /\ "novelty" \in more.subjects[d]) <=>
                       d \in DOMAIN novel.subjects /\ "novelty" \in novel.subjects[d]
        BY <3>1, <2>13, FollowFits DEF WindowSound
      <3>3. KeysFit(more) /\ \A id : FieldHeld(more, id) <=> FieldHeld(novel, id)
        BY <3>2, <2>13 DEF WindowSound, KeysFit, FieldHeld
      <3>4. NovelAreFound(more) BY <3>2, <3>3, <2>13 DEF WindowSound, NovelAreFound
      <3> QED BY <2>13, <2>15, <3>2, <3>3, <3>4 DEF WindowSound, Tells, Follows, more
    <2> QED BY <2>14, <2>15
  <1> QED BY <1>3, <1>4

(* Findings that are of no field make no device novel. *)
LEMMA OtherFindingsKeep ==
  ASSUME NEW w, WindowSound(w), NEW findings, IsSeq(findings),
         \A i \in DOMAIN findings : findings[i].kind \in {"unknownModelKey", "unknownEventType"}
  PROVE  LET more == Accumulate(w, findings)
         IN  WindowSound(more) /\ more.raw = w.raw /\ more.subjects = w.subjects
  <1> DEFINE more == Accumulate(w, findings)
  <1>1. Accumulated(w, more, findings) BY AccumulateFits DEF WindowSound, Kinds
  <1> HIDE DEF more
  <1>2. \A id : FieldHeld(more, id) <=> FieldHeld(w, id) BY <1>1 DEF Accumulated, FieldFound
  <1> QED BY <1>1, <1>2 DEF Accumulated, AllElse, WindowSound, NovelAreFound, more

(* A class or an event type nobody knows makes no device one to follow. *)
LEMMA NamedFits ==
  ASSUME NEW p, NEW w, WindowSound(w)
  PROVE  WindowSound(Named(w, p)) /\ Named(w, p).raw = w.raw /\ Named(w, p).subjects = w.subjects
  <1> DEFINE unknown == DiffRecord(Manifest, p.modelKey, p.payload, p.id)
             keyed == IF UnknownKey(p) THEN Accumulate(w, unknown) ELSE w
             typed == DiffEventType(Manifest, p)
  <1>1. WindowSound(keyed) /\ keyed.raw = w.raw /\ keyed.subjects = w.subjects
    <2>1. CASE UnknownKey(p)
      <3> DEFINE only == UnknownModelKey(p.modelKey, p.id)
      <3>1. unknown = <<only>> BY <2>1 DEF UnknownKey, DiffRecord
      <3>2. only.kind = "unknownModelKey" BY DEF UnknownModelKey
      <3> HIDE DEF only, unknown
      <3>3. unknown = [i \in 1..1 |-> only] BY <3>1
      <3>4. IsSeq(unknown) /\ \A i \in DOMAIN unknown : unknown[i].kind = "unknownModelKey"
        <4>1. unknown = [i \in 1..1 |-> unknown[i]] BY <3>3
        <4>2. IsSeq(unknown) /\ DOMAIN unknown = 1..1 BY <4>1, SeqsAre
        <4> QED BY <3>2, <3>3, <4>2
      <3> QED BY <2>1, <3>4, OtherFindingsKeep
    <2>2. CASE ~UnknownKey(p) BY <2>2
    <2> QED BY <2>1, <2>2
  <1>2. IsSeq(typed) /\ \A i \in DOMAIN typed : typed[i].kind = "unknownEventType"
    <2> DEFINE types == UnknownEventTypes(Manifest, p)
    <2>1. PICK n \in {0, 1} : DOMAIN types = 1..n
      <3>1. types = <<>> \/ \E x : types = <<x>> BY DEF UnknownEventTypes, EventTypeOf
      <3> HIDE DEF types
      <3>2. DOMAIN <<>> = 1..0 /\ \A x : DOMAIN <<x>> = 1..1 OBVIOUS
      <3> QED BY <3>1, <3>2
    <2>2. typed = [i \in DOMAIN types |-> UnknownEventType(types[i])] BY DEF DiffEventType
    <2>3. \A x : UnknownEventType(x).kind = "unknownEventType" BY DEF UnknownEventType
    <2> HIDE DEF types, typed
    <2>4. typed = [i \in 1..n |-> typed[i]] BY <2>1, <2>2
    <2>5. IsSeq(typed) /\ DOMAIN typed = 1..n BY <2>4, SeqsAre
    <2> QED BY <2>1, <2>2, <2>3, <2>5
  <1> HIDE DEF keyed, typed
  <1>3. Named(w, p) = Accumulate(keyed, typed) BY DEF Named, keyed, typed
  <1> QED BY <1>1, <1>2, <1>3, OtherFindingsKeep

(* A tally is only counted. *)
LEMMA TallyKeeps ==
  ASSUME NEW w, WindowSound(w), NEW id, NEW payload
  PROVE  LET more == TallyCadence(w, id, payload)
         IN  WindowSound(more) /\ more.raw = w.raw /\ more.subjects = w.subjects
  <1> DEFINE more == TallyCadence(w, id, payload)
  <1>1. PICK tallied : more = w \/ more = [w EXCEPT !.cadence = tallied]
    <2> DEFINE names == {payload.entries[i][1] : i \in DOMAIN payload.entries}
               fields == Known(w.cadence, id, <<>>)
               tally == [name \in DOMAIN fields \cup names |-> Known(fields, name, 0) + IF name \in names THEN 1 ELSE 0]
    <2> QED BY DEF TallyCadence
  <1> HIDE DEF more
  <1>2. /\ IsWindow(more) /\ more.novelty = w.novelty /\ more.subjects = w.subjects /\ more.raw = w.raw
    BY <1>1 DEF WindowSound, IsWindow
  <1>3. KeysFit(more) /\ NovelAreFound(more) BY <1>2 DEF WindowSound, KeysFit, NovelAreFound, FieldHeld
  <1> QED BY <1>2, <1>3 DEF WindowSound, more

(* Whether a frame is kept, by whom the window follows once it is diffed. *)
Keeps(w, more, f) ==
  more.raw = IF frames[f].id \in DOMAIN more.subjects \/ UnknownKey(frames[f]) \/ OfUnknownType(frames[f])
             THEN Append(w.raw, f) ELSE w.raw

(* A frame consumed: what it shows of its device counts for itself. *)
LEMMA ConsumeFits ==
  ASSUME NEW axis, NEW f, frames[f] \in Packets, NEW w, WindowSound(w)
  PROVE  WindowSound(ConsumeRaw(w, f, axis)) /\ Follows(w, ConsumeRaw(w, f, axis), frames[f], axis)
         /\ Keeps(w, ConsumeRaw(w, f, axis), f)
  <1> DEFINE p == frames[f]
             counted == [w EXCEPT !.rawSeen = @ + 1]
             diffed == Diffed(counted, p, axis)
             followed == p.id \in DOMAIN diffed.subjects
             seen == Named(diffed, p)
             tallied == IF followed /\ p.action = "update" THEN TallyCadence(seen, p.id, p.payload) ELSE seen
             kept == [tallied EXCEPT !.raw = Append(@, f)]
             more == ConsumeRaw(w, f, axis)
  <1>1. more = IF followed \/ UnknownKey(p) \/ OfUnknownType(p) THEN kept ELSE seen
    BY DEF ConsumeRaw, Decided, KeptWhen, Arrived
  <1>2. WindowSound(counted) /\ counted.raw = w.raw /\ counted.subjects = w.subjects
    <2>1. PICK n : counted = [w EXCEPT !.rawSeen = n] OBVIOUS
    <2> HIDE DEF counted
    <2>2. IsWindow(counted) /\ counted.raw = w.raw /\ counted.subjects = w.subjects /\ counted.novelty = w.novelty
      BY <2>1 DEF WindowSound, IsWindow
    <2>3. KeysFit(counted) /\ NovelAreFound(counted) BY <2>2 DEF WindowSound, KeysFit, NovelAreFound, FieldHeld
    <2> QED BY <2>2, <2>3 DEF WindowSound
  <1>3. p \in Packets OBVIOUS
  <1> HIDE DEF p, counted, more
  <1>4. /\ WindowSound(diffed) /\ diffed.raw = w.raw
        /\ DOMAIN diffed.subjects = DOMAIN w.subjects \cup (IF Tells(p, axis) THEN {p.id} ELSE {})
    <2>1. PICK q, c : q = p /\ c = counted OBVIOUS
    <2>2. q \in Packets /\ WindowSound(c) BY <1>2, <1>3, <2>1
    <2>3. /\ WindowSound(Diffed(c, q, axis)) /\ Diffed(c, q, axis).raw = c.raw
          /\ Follows(c, Diffed(c, q, axis), q, axis)
      BY <2>2, DiffedFits
    <2>4. diffed = Diffed(c, q, axis) BY <2>1
    <2> HIDE DEF diffed
    <2> QED BY <1>2, <2>1, <2>3, <2>4 DEF Follows
  <1> HIDE DEF diffed
  <1>5. WindowSound(seen) /\ seen.raw = diffed.raw /\ seen.subjects = diffed.subjects BY <1>4, NamedFits
  <1> HIDE DEF seen
  <1>6. WindowSound(tallied) /\ tallied.raw = seen.raw /\ tallied.subjects = seen.subjects
    <2>1. CASE followed /\ p.action = "update"
      <3>1. tallied = TallyCadence(seen, p.id, p.payload) BY <2>1
      <3> QED BY <3>1, <1>5, TallyKeeps
    <2>2. CASE ~(followed /\ p.action = "update") BY <2>2, <1>5
    <2> QED BY <2>1, <2>2
  <1> HIDE DEF tallied
  <1>7. WindowSound(kept) /\ kept.raw = Append(tallied.raw, f) /\ kept.subjects = tallied.subjects
    <2>1. PICK raw : raw = Append(tallied.raw, f) OBVIOUS
    <2>2. kept = [tallied EXCEPT !.raw = raw] BY <2>1
    <2> HIDE DEF kept
    <2>3. IsWindow(kept) /\ kept.raw = raw /\ kept.subjects = tallied.subjects /\ kept.novelty = tallied.novelty
      BY <2>2, <1>6 DEF WindowSound, IsWindow
    <2>4. KeysFit(kept) /\ NovelAreFound(kept) BY <2>3, <1>6 DEF WindowSound, KeysFit, NovelAreFound, FieldHeld
    <2> QED BY <2>1, <2>3, <2>4 DEF WindowSound
  <1> HIDE DEF kept
  <1>8. more.subjects = diffed.subjects /\ WindowSound(more) BY <1>1, <1>5, <1>6, <1>7
  <1>9. more.raw = IF followed \/ UnknownKey(p) \/ OfUnknownType(p) THEN Append(w.raw, f) ELSE w.raw
    BY <1>1, <1>4, <1>5, <1>6, <1>7
  <1> QED BY <1>4, <1>8, <1>9 DEF p, more, Follows, Keeps

-----------------------------------------------------------------------------
(* What the recursive functions of the window are, and that they are there. *)
TakenRule(taken, handed, positions, last) ==
  taken = [n \in 0..last |-> IF n = 0 THEN <<>>
                             ELSE IF n \in positions THEN Append(taken[n - 1], handed[n]) ELSE taken[n - 1]]

LEMMA TakenBuilt ==
  ASSUME NEW handed, NEW positions, NEW last \in Nat
  PROVE  \E taken : TakenRule(taken, handed, positions, last)
  <1> DEFINE Bad == {m \in Nat : ~\E taken : TakenRule(taken, handed, positions, m)}
  <1> SUFFICES ASSUME Bad # {} PROVE FALSE OBVIOUS
  <1>1. PICK m \in Bad : \A k \in Bad : m <= k BY LeastOfNaturals
  <1>2. CASE m = 0
    <2>1. TakenRule([n \in 0..0 |-> <<>>], handed, positions, 0) BY DEF TakenRule
    <2> QED BY <1>1, <1>2, <2>1
  <1>3. CASE m # 0
    <2>1. m \in Nat /\ m - 1 \in Nat /\ m - 1 \notin Bad BY <1>1, <1>3
    <2>2. PICK taken : TakenRule(taken, handed, positions, m - 1) BY <2>1
    <2> DEFINE Next1(n, before) == IF n \in positions THEN Append(before, handed[n]) ELSE before
               more == [n \in 0..m |-> IF n = m THEN Next1(m, taken[m - 1]) ELSE taken[n]]
    <2>3. \A n \in 0..m - 1 : taken[n] = IF n = 0 THEN <<>> ELSE Next1(n, taken[n - 1]) BY <2>2 DEF TakenRule
    <2>4. ASSUME NEW n \in 0..m PROVE more[n] = IF n = 0 THEN <<>> ELSE Next1(n, more[n - 1])
      <3> HIDE DEF Next1
      <3>1. CASE n = m
        <4>1. m - 1 \in 0..m /\ m - 1 # m /\ n # 0 BY <1>3, <2>1, <3>1
        <4>2. more[n - 1] = taken[m - 1] BY <3>1, <4>1
        <4> QED BY <3>1, <4>1, <4>2
      <3>2. CASE n # m
        <4>1. n \in 0..m - 1 BY <2>1, <3>2
        <4>2. n # 0 => n - 1 \in 0..m /\ n - 1 # m BY <2>1, <4>1
        <4> QED BY <2>3, <3>2, <4>1, <4>2
      <3> QED BY <3>1, <3>2
    <2>5. more = [n \in 0..m |-> more[n]] OBVIOUS
    <2> HIDE DEF more
    <2>6. TakenRule(more, handed, positions, m) BY <2>4, <2>5 DEF TakenRule
    <2> QED BY <1>1, <2>6
  <1> QED BY <1>2, <1>3

(* The frames at some positions, one position at a time. *)
LEMMA FramesTaken ==
  ASSUME NEW handed, NEW positions, Len(handed) \in Nat
  PROVE  \E taken : TakenRule(taken, handed, positions, Len(handed)) /\ FramesAt(handed, positions) = taken[Len(handed)]
  <1> DEFINE taken == CHOOSE t : TakenRule(t, handed, positions, Len(handed))
  <1>1. FramesAt(handed, positions) = taken[Len(handed)] BY DEF FramesAt, TakenRule
  <1>2. TakenRule(taken, handed, positions, Len(handed)) BY TakenBuilt
  <1> QED BY <1>1, <1>2

AfterRule(after, handed, axis, last) ==
  after = [m \in 0..last |-> IF m = 0 THEN Seeded[axis] ELSE ConsumeRaw(after[m - 1], handed[m], axis)]

LEMMA AfterBuilt ==
  ASSUME NEW handed, NEW axis, NEW last \in Nat
  PROVE  \E after : AfterRule(after, handed, axis, last)
  <1> DEFINE Bad == {m \in Nat : ~\E after : AfterRule(after, handed, axis, m)}
  <1> SUFFICES ASSUME Bad # {} PROVE FALSE OBVIOUS
  <1>1. PICK m \in Bad : \A k \in Bad : m <= k BY LeastOfNaturals
  <1>2. CASE m = 0
    <2>1. AfterRule([n \in 0..0 |-> Seeded[axis]], handed, axis, 0) BY DEF AfterRule
    <2> QED BY <1>1, <1>2, <2>1
  <1>3. CASE m # 0
    <2>1. m \in Nat /\ m - 1 \in Nat /\ m - 1 \notin Bad BY <1>1, <1>3
    <2>2. PICK after : AfterRule(after, handed, axis, m - 1) BY <2>1
    <2> DEFINE more == [n \in 0..m |-> IF n = m THEN ConsumeRaw(after[m - 1], handed[m], axis) ELSE after[n]]
    <2>3. \A n \in 0..m - 1 : after[n] = IF n = 0 THEN Seeded[axis] ELSE ConsumeRaw(after[n - 1], handed[n], axis)
      BY <2>2 DEF AfterRule
    <2>4. ASSUME NEW n \in 0..m PROVE more[n] = IF n = 0 THEN Seeded[axis] ELSE ConsumeRaw(more[n - 1], handed[n], axis)
      <3>1. CASE n = m
        <4>1. m - 1 \in 0..m /\ m - 1 # m /\ n # 0 BY <1>3, <2>1, <3>1
        <4>2. more[n - 1] = after[m - 1] BY <3>1, <4>1
        <4> QED BY <3>1, <4>1, <4>2
      <3>2. CASE n # m
        <4>1. n \in 0..m - 1 BY <2>1, <3>2
        <4>2. n # 0 => n - 1 \in 0..m /\ n - 1 # m BY <2>1, <4>1
        <4> QED BY <2>3, <3>2, <4>1, <4>2
      <3> QED BY <3>1, <3>2
    <2>5. more = [n \in 0..m |-> more[n]] OBVIOUS
    <2> HIDE DEF more
    <2>6. AfterRule(more, handed, axis, m) BY <2>4, <2>5 DEF AfterRule
    <2> QED BY <1>1, <2>6
  <1> QED BY <1>2, <1>3

(* The windows of a rail, one frame at a time. *)
LEMMA WindowsAfter ==
  ASSUME NEW r, NEW axis, Len(hoses[r].handed) \in Nat
  PROVE  \E after : /\ AfterRule(after, hoses[r].handed, axis, Len(hoses[r].handed))
                    /\ \A n : WindowAfter(r, n, axis) = after[n]
  <1> DEFINE after == CHOOSE a : AfterRule(a, hoses[r].handed, axis, Len(hoses[r].handed))
  <1>1. \A n : WindowAfter(r, n, axis) = after[n] BY DEF WindowAfter, AfterRule
  <1>2. AfterRule(after, hoses[r].handed, axis, Len(hoses[r].handed)) BY AfterBuilt
  <1> QED BY <1>1, <1>2

-----------------------------------------------------------------------------
DueFrames(handed, axis) ==
  {i \in DOMAIN handed : \/ Earned(frames[handed[i]].id, handed, i, axis)
                         \/ UnknownKey(frames[handed[i]]) \/ OfUnknownType(frames[handed[i]])}

(* A window follows whom the first frames, or the bootstrap, earned it to. *)
FollowsEarned(w, handed, n, axis) == \A id : id \in DOMAIN w.subjects <=> Earned(id, handed, n, axis)

(* What every frame leaves of a window: it follows those that earned it so   *)
(* far, and has kept the frames due so far.                                  *)
LEMMA WindowsFit ==
  ASSUME NEW axis \in Axes, NEW handed, IsSeq(handed), \A i \in DOMAIN handed : frames[handed[i]] \in Packets,
         NEW after, AfterRule(after, handed, axis, Len(handed)),
         NEW taken, TakenRule(taken, handed, DueFrames(handed, axis), Len(handed))
  PROVE  \A n \in 0..Len(handed) :
           WindowSound(after[n]) /\ FollowsEarned(after[n], handed, n, axis) /\ after[n].raw = taken[n]
  <1> DEFINE Good(n) == WindowSound(after[n]) /\ FollowsEarned(after[n], handed, n, axis) /\ after[n].raw = taken[n]
             Bad == {n \in 0..Len(handed) : ~Good(n)}
  <1> SUFFICES ASSUME Bad # {} PROVE FALSE OBVIOUS
  <1>1. Len(handed) \in Nat /\ DOMAIN handed = 1..Len(handed) BY SeqHas
  <1>2. Bad \subseteq Nat BY <1>1
  <1>3. PICK n \in Bad : \A k \in Bad : n <= k BY <1>2, LeastOfNaturals
  <1>4. n \in 0..Len(handed) /\ n \in Nat BY <1>1, <1>2
  <1>5. CASE n = 0
    <2>1. after[n] = Seeded[axis] /\ taken[n] = <<>> BY <1>4, <1>5 DEF AfterRule, TakenRule
    <2>2. \A id : Earned(id, handed, n, axis) <=> NovelInBootstrap(id) \/ NamedInBootstrap(id, axis)
      BY <1>5 DEF Earned
    <2>3. Good(n) BY <2>1, <2>2, SeedFits DEF FollowsEarned
    <2> QED BY <1>3, <2>3
  <1>6. CASE n # 0
    <2> DEFINE w == after[n - 1]
               f == handed[n]
               p == frames[f]
               more == ConsumeRaw(w, f, axis)
    <2>1. n \in 1..Len(handed) /\ n - 1 \in 0..Len(handed) /\ ~(n <= n - 1) BY <1>1, <1>4, <1>6
    <2>2. Good(n - 1) BY <1>3, <2>1
    <2>3. after[n] = more BY <1>4, <1>6 DEF AfterRule
    <2>4. p \in Packets BY <1>1, <2>1
    <2>5. WindowSound(w) BY <2>2
    <2>6. WindowSound(more) /\ Follows(w, more, p, axis) /\ Keeps(w, more, f)
      <3>1. PICK x, g : x = w /\ g = f OBVIOUS
      <3>2. WindowSound(x) /\ frames[g] \in Packets BY <2>4, <2>5, <3>1
      <3>3. WindowSound(ConsumeRaw(x, g, axis)) /\ Follows(x, ConsumeRaw(x, g, axis), frames[g], axis)
            /\ Keeps(x, ConsumeRaw(x, g, axis), g)
        BY <3>2, ConsumeFits
      <3> QED BY <3>1, <3>3
    <2> HIDE DEF more
    <2>7. FollowsEarned(more, handed, n, axis)
      <3> SUFFICES ASSUME NEW id PROVE id \in DOMAIN more.subjects <=> Earned(id, handed, n, axis) BY DEF FollowsEarned
      <3>1. id \in DOMAIN more.subjects <=> id \in DOMAIN w.subjects \/ (Tells(p, axis) /\ id = p.id)
        BY <2>6 DEF Follows
      <3>2. id \in DOMAIN w.subjects <=> Earned(id, handed, n - 1, axis) BY <2>2 DEF FollowsEarned
      <3>3. 1..n = (1..(n - 1)) \cup {n} BY <2>1, <1>4
      <3>4. Earned(id, handed, n, axis) <=> Earned(id, handed, n - 1, axis) \/ (p.id = id /\ Tells(p, axis))
        <4> DEFINE Shows(j) == frames[handed[j]].id = id /\ Tells(frames[handed[j]], axis)
        <4>1. Earned(id, handed, n, axis) <=>
                NovelInBootstrap(id) \/ NamedInBootstrap(id, axis) \/ \E j \in 1..n : Shows(j)
          BY DEF Earned, Tells
        <4>2. Earned(id, handed, n - 1, axis) <=>
                NovelInBootstrap(id) \/ NamedInBootstrap(id, axis) \/ \E j \in 1..(n - 1) : Shows(j)
          BY DEF Earned, Tells
        <4>3. Shows(n) <=> (p.id = id /\ Tells(p, axis)) OBVIOUS
        <4> HIDE DEF Shows, p
        <4> QED BY <3>3, <4>1, <4>2, <4>3
      <3> QED BY <3>1, <3>2, <3>4
    <2>8. more.raw = taken[n]
      <3>1. n \in DueFrames(handed, axis) <=> p.id \in DOMAIN more.subjects \/ UnknownKey(p) \/ OfUnknownType(p)
        BY <1>1, <2>1, <2>7 DEF DueFrames, FollowsEarned
      <3>2. taken[n] = IF n \in DueFrames(handed, axis) THEN Append(taken[n - 1], f) ELSE taken[n - 1]
        BY <1>4, <1>6 DEF TakenRule
      <3>3. w.raw = taken[n - 1] BY <2>2
      <3> QED BY <2>6, <3>1, <3>2, <3>3 DEF Keeps
    <2>9. Good(n) BY <2>3, <2>6, <2>7, <2>8
    <2> QED BY <1>3, <2>9
  <1> QED BY <1>5, <1>6

-----------------------------------------------------------------------------
(* An occurrence was judged after no more raw frames than have been handed   *)
(* out by now.                                                               *)
BesideFits ==
  \A e \in Firehoses, r \in Raw :
    /\ Len(hoses[e].beside) = Len(hoses[e].handed)
    /\ \A i \in 1..Len(hoses[e].handed) : hoses[e].beside[i][r] <= Len(hoses[r].handed)

CaptureInv == RailsInv /\ BesideFits

(* Nothing is handed out yet. *)
LEMMA BesideInit == RailsInit => BesideFits
  <1> SUFFICES ASSUME RailsInit PROVE BesideFits OBVIOUS
  <1>1. \A h \in Firehoses : hoses[h].handed = <<>> /\ hoses[h].beside = <<>> BY DEF RailsInit, Unopened
  <1>2. Len(<<>>) = 0 /\ 1..0 = {} OBVIOUS
  <1> QED BY <1>1, <1>2, FirehoseAssumption DEF BesideFits

(* A step that hands out nothing. *)
LEMMA BesideSame ==
  ASSUME BesideFits, \A h \in Firehoses : hoses'[h].handed = hoses[h].handed /\ hoses'[h].beside = hoses[h].beside
  PROVE  BesideFits'
  BY FirehoseAssumption DEF BesideFits

(* An event handed out notes how far every raw rail is, and a raw frame only *)
(* takes its rail further.                                                   *)
LEMMA BesideHands ==
  ASSUME RailsInv, BesideFits, NEW h \in Firehoses, Hands(h)
  PROVE  BesideFits'
  <1> DEFINE hose == hoses[h]
             lens == [r \in Raw |-> Len(hoses[r].handed)]
             f == Head(hose.queue)
             new == [hose EXCEPT !.at = "body", !.queue = Tail(@), !.handed = Append(@, f), !.beside = Append(@, lens)]
  <1>1. hoses' = [hoses EXCEPT ![h] = new] BY DEF Hands, Sets
  <1>2. hose \in Hoses /\ hoses \in [Firehoses -> Hoses] BY DEF RailsInv
  <1>3. \A r \in Raw : hoses[r].handed \in Seq(Nat) BY <1>2, FirehoseAssumption DEF Hoses
  <1>4. lens \in [Raw -> Nat] /\ \A r \in Raw : lens[r] = Len(hoses[r].handed) BY <1>3, LenProperties
  <1> HIDE DEF lens
  <1>5. hose.handed \in Seq(Nat) /\ hose.queue \in Seq(Nat) /\ hose.beside \in Seq([Raw -> Nat]) /\ hose.queue # <<>>
    BY <1>2 DEF Hoses, Hands
  <1>6. f \in Nat BY <1>5, HeadTailProperties
  <1>7. new.handed = Append(hose.handed, f) /\ new.beside = Append(hose.beside, lens) BY <1>2 DEF Hoses
  <1> HIDE DEF f, new
  <1>8. /\ Len(new.handed) = Len(hose.handed) + 1 /\ Len(new.beside) = Len(hose.beside) + 1
        /\ Len(hose.handed) \in Nat /\ Len(hose.beside) \in Nat
        /\ new.beside[Len(hose.beside) + 1] = lens
        /\ \A i \in 1..Len(hose.beside) : new.beside[i] = hose.beside[i]
    BY <1>4, <1>5, <1>6, <1>7, AppendProperties, LenProperties
  <1>9. \A g \in Firehoses : hoses'[g] = IF g = h THEN new ELSE hoses[g] BY <1>1, <1>2
  <1>10. \A r \in Raw : Len(hoses[r].handed) \in Nat /\ Len(hoses'[r].handed) \in Nat /\ Len(hoses[r].handed) <= Len(hoses'[r].handed)
    <2> SUFFICES ASSUME NEW r \in Raw
                 PROVE  Len(hoses[r].handed) \in Nat /\ Len(hoses'[r].handed) \in Nat /\ Len(hoses[r].handed) <= Len(hoses'[r].handed)
      OBVIOUS
    <2>1. Len(hoses[r].handed) \in Nat BY <1>3, LenProperties
    <2>2. CASE r = h BY <2>1, <2>2, <1>8, <1>9
    <2>3. CASE r # h BY <2>1, <2>3, <1>9, FirehoseAssumption
    <2> QED BY <2>2, <2>3
  <1>11. ASSUME NEW e \in Firehoses, NEW r \in Raw
         PROVE  /\ Len(hoses'[e].beside) = Len(hoses'[e].handed)
                /\ \A i \in 1..Len(hoses'[e].handed) : hoses'[e].beside[i][r] <= Len(hoses'[r].handed)
    <2>1. Len(hoses[e].beside) = Len(hoses[e].handed)
          /\ \A i \in 1..Len(hoses[e].handed) : hoses[e].beside[i][r] <= Len(hoses[r].handed)
      BY DEF BesideFits
    <2>2. hoses[e].beside \in Seq([Raw -> Nat]) /\ hoses[e].handed \in Seq(Nat) BY <1>2 DEF Hoses
    <2>3. \A i \in 1..Len(hoses[e].beside) : hoses[e].beside[i] \in [Raw -> Nat] BY <2>2, ElementOfSeq
    <2>4. \A i \in 1..Len(hoses[e].handed) : hoses[e].beside[i][r] <= Len(hoses'[r].handed)
      <3> SUFFICES ASSUME NEW i \in 1..Len(hoses[e].handed) PROVE hoses[e].beside[i][r] <= Len(hoses'[r].handed) OBVIOUS
      <3>1. PICK x, y, z : x = hoses[e].beside[i][r] /\ y = Len(hoses[r].handed) /\ z = Len(hoses'[r].handed) OBVIOUS
      <3>2. x \in Nat /\ x <= y BY <2>1, <2>3, <3>1
      <3>3. y \in Nat /\ z \in Nat /\ y <= z BY <1>10, <3>1
      <3> QED BY <3>1, <3>2, <3>3
    <2>5. CASE e # h BY <2>1, <2>4, <2>5, <1>9
    <2>6. CASE e = h
      <3>1. hoses'[e] = new /\ Len(new.beside) = Len(new.handed) BY <2>1, <2>6, <1>8, <1>9
      <3>2. ASSUME NEW i \in 1..Len(new.handed) PROVE new.beside[i][r] <= Len(hoses'[r].handed)
        <4>1. CASE i = Len(hose.handed) + 1
          <5>1. new.beside[i] = lens BY <4>1, <2>1, <2>6, <1>8
          <5> QED BY <5>1, <1>4, <1>10
        <4>2. CASE i # Len(hose.handed) + 1
          <5>1. i \in 1..Len(hose.handed) BY <4>2, <1>8
          <5>2. new.beside[i] = hoses[e].beside[i] BY <5>1, <2>1, <2>6, <1>8
          <5> QED BY <5>1, <5>2, <2>4, <2>6
        <4> QED BY <4>1, <4>2
      <3> QED BY <3>1, <3>2
    <2> QED BY <2>5, <2>6
  <1> QED BY <1>11 DEF BesideFits

(* Of a client's steps one alone hands a frame out. *)
LEMMA BesideStep ==
  ASSUME CaptureInv, [ClientNext]_clientVars
  PROVE  BesideFits'
  <1>1. RailsInv /\ BesideFits /\ hoses \in [Firehoses -> Hoses] BY DEF CaptureInv, RailsInv
  <1>2. CASE UNCHANGED railVars BY <1>1, <1>2, BesideSame DEF railVars
  <1>3. ASSUME NEW h \in Firehoses, NEW new, Sets(h, new), new.handed = hoses[h].handed, new.beside = hoses[h].beside
        PROVE  BesideFits'
    <2>1. \A g \in Firehoses : hoses'[g] = IF g = h THEN new ELSE hoses[g] BY <1>1, <1>3 DEF Sets
    <2> QED BY <1>1, <1>3, <2>1, BesideSame
  <1>4. CASE HoseSteps
    <2>1. PICK h \in Firehoses : Opens(h) \/ AsksMore(h) \/ Hands(h) \/ SignalAborts(h) \/ EndsQuietly(h) \/ Breaks(h)
      BY <1>4 DEF HoseSteps
    <2>2. hoses[h] \in Hoses /\ HoseFits(h, hoses[h]) BY <1>1 DEF RailsInv
    <2>3. CASE Hands(h) BY <1>1, <2>3, BesideHands
    <2>4. CASE Opens(h)
      <3> DEFINE new == [Unopened EXCEPT !.at = "parked", !.from = Len(frames)]
      <3>1. hoses[h] = Unopened BY <2>2, <2>4 DEF Opens, HoseFits
      <3>2. new.handed = hoses[h].handed /\ new.beside = hoses[h].beside BY <3>1 DEF Unopened
      <3>3. Sets(h, new) BY <2>4 DEF Opens
      <3> QED BY <3>2, <3>3, <1>3
    <2>5. CASE AsksMore(h)
      <3>1. PICK new : new = [hoses[h] EXCEPT !.at = "parked"] OBVIOUS
      <3>2. Sets(h, new) /\ new.handed = hoses[h].handed /\ new.beside = hoses[h].beside
        BY <2>2, <2>5, <3>1 DEF AsksMore, Hoses
      <3> QED BY <3>2, <1>3
    <2>6. CASE SignalAborts(h)
      <3>1. PICK new : new = [hoses[h] EXCEPT !.aborted = TRUE, !.until = Len(frames)] OBVIOUS
      <3>2. Sets(h, new) /\ new.handed = hoses[h].handed /\ new.beside = hoses[h].beside
        BY <2>2, <2>6, <3>1 DEF SignalAborts, Hoses
      <3> QED BY <3>2, <1>3
    <2>7. CASE EndsQuietly(h)
      <3>1. PICK new : new = [hoses[h] EXCEPT !.at = "over"] OBVIOUS
      <3>2. Sets(h, new) /\ new.handed = hoses[h].handed /\ new.beside = hoses[h].beside
        BY <2>2, <2>7, <3>1 DEF EndsQuietly, Hoses
      <3> QED BY <3>2, <1>3
    <2>8. CASE Breaks(h)
      <3>1. PICK new : new = [hoses[h] EXCEPT !.at = "left", !.queue = <<>>] OBVIOUS
      <3>2. Sets(h, new) /\ new.handed = hoses[h].handed /\ new.beside = hoses[h].beside
        BY <2>2, <2>8, <3>1 DEF Breaks, Hoses
      <3> QED BY <3>2, <1>3
    <2> QED BY <2>1, <2>3, <2>4, <2>5, <2>6, <2>7, <2>8
  <1>5. CASE Frame
    <2>1. PICK to, f : hoses' = Emitted(to, f)
      <3>1. PICK p \in Packets : FrameArrives(p) BY <1>5 DEF Frame
      <3> QED BY <3>1 DEF FrameArrives, PacketSink
    <2>2. ASSUME NEW h \in Firehoses PROVE hoses'[h].handed = hoses[h].handed /\ hoses'[h].beside = hoses[h].beside
      <3>1. PICK old, new : old = hoses[h] /\ new = [old EXCEPT !.queue = Append(@, f)] OBVIOUS
      <3>2. old \in Hoses BY <1>1, <3>1
      <3>3. new.handed = old.handed /\ new.beside = old.beside BY <3>1, <3>2 DEF Hoses
      <3>4. hoses'[h] = old \/ hoses'[h] = new BY <2>1, <3>1 DEF Emitted
      <3> QED BY <3>1, <3>3, <3>4
    <2> QED BY <1>1, <2>2, BesideSame
  <1>6. CASE Refuses \/ Begins \/ Authenticated \/ LoginOrFetchFails \/ ApplyFails \/ Assembles \/ StreamOpens
             \/ OpenFails \/ StreamLost \/ Relaunches \/ RefreshDue \/ RefreshSettles
    <2>1. UNCHANGED railVars
      BY <1>6 DEF Refuses, Begins, Authenticated, LoginOrFetchFails, ApplyFails, Assembles, StreamOpens, OpenFails,
                  StreamLost, Relaunches, RefreshDue, RefreshSettles, Rests, railVars
    <2> QED BY <2>1, <1>2
  <1>7. ASSUME NEW d \in Disposers, Dispose(d) \/ TearsDown(d) PROVE UNCHANGED railVars
    BY <1>7 DEF Dispose, TearsDown, Rests, railVars
  <1> QED BY <1>2, <1>4, <1>5, <1>6, <1>7 DEF ClientNext, clientVars

-----------------------------------------------------------------------------
(* What a firehose handed out are frames that came. *)
LEMMA HandedCame ==
  ASSUME RailsInv, NEW h \in Firehoses
  PROVE  IsSeq(hoses[h].handed) /\ \A i \in DOMAIN hoses[h].handed : frames[hoses[h].handed[i]] \in Packets
  <1> DEFINE hose == hoses[h]
  <1>1. hose \in Hoses /\ HoseFits(h, hose) BY DEF RailsInv
  <1>2. hose.handed \in Seq(Nat) /\ hose.queue \in Seq(Nat) BY <1>1 DEF Hoses
  <1>3. Len(hose.handed) \in Nat /\ DOMAIN hose.handed = 1..Len(hose.handed) BY <1>2, LenProperties
  <1>4. IsSeq(hose.handed)
    <2>1. PICK s \in Seq(Nat) : s = hose.handed BY <1>2
    <2>2. s = [i \in 1..Len(s) |-> s[i]] BY LenProperties
    <2> QED BY <1>3, <2>1, <2>2, SeqsAre
  <1>5. CASE hose.at = "none"
    <2>1. hose.handed = <<>> BY <1>1, <1>5 DEF HoseFits, Unopened
    <2>2. DOMAIN hose.handed = {} BY <2>1
    <2> QED BY <1>4, <2>2
  <1>6. CASE hose.at # "none"
    <2>1. Delivers(Given(hose), DueOf(h, hose), hose.at = "left") BY <1>1, <1>6 DEF HoseFits
    <2>2. ToSet(Given(hose)) \subseteq 1..Len(frames) BY <1>6, <2>1, DueFits DEF Delivers
    <2>3. \A i \in DOMAIN hose.handed : hose.handed[i] \in ToSet(Given(hose))
      <3>1. PICK a \in Seq(Nat), b \in Seq(Nat) : a = hose.handed /\ b = hose.queue BY <1>2
      <3>2. /\ a \o b \in Seq(Nat) /\ Len(a \o b) = Len(a) + Len(b) /\ Len(a) \in Nat /\ Len(b) \in Nat
            /\ \A i \in 1..Len(a) : (a \o b)[i] = a[i]
        BY ConcatProperties, LenProperties
      <3>3. DOMAIN (a \o b) = 1..(Len(a) + Len(b)) /\ DOMAIN a = 1..Len(a) BY <3>2, LenProperties
      <3>4. \A i \in DOMAIN a : i \in DOMAIN (a \o b) /\ (a \o b)[i] = a[i] BY <3>2, <3>3
      <3> QED BY <3>1, <3>4 DEF Given, ToSet
    <2>4. \A i \in DOMAIN hose.handed : hose.handed[i] \in 1..Len(frames) BY <2>2, <2>3
    <2>5. \A f \in 1..Len(frames) : frames[f] \in Packets BY ElementOfSeq DEF RailsInv
    <2> QED BY <1>4, <2>4, <2>5
  <1> QED BY <1>5, <1>6

(* Whatever two rails were handed, the window of the one and the occurrences *)
(* of the other are what was due.                                            *)
LEMMA WindowKeepsEvidence ==
  ASSUME CaptureInv, NEW r \in Raw, NEW e \in Firehoses, NEW axis \in Axes
  PROVE  EvidenceKept(r, e, axis)
  <1> DEFINE handed == hoses[r].handed
             told == hoses[e].handed
             window == WindowAfter(r, Len(handed), axis)
             judged == {i \in DOMAIN told : \E id \in frames[told[i]].subjects : Earned(id, handed, hoses[e].beside[i][r], axis)}
             Followed(i) == DOMAIN WindowAfter(r, hoses[e].beside[i][r], axis).subjects
             seen == {i \in DOMAIN told : frames[told[i]].subjects \cap Followed(i) # {}}
  <1>1. r \in Firehoses BY FirehoseAssumption
  <1>2. IsSeq(handed) /\ \A i \in DOMAIN handed : frames[handed[i]] \in Packets BY <1>1, HandedCame DEF CaptureInv
  <1>3. Len(handed) \in Nat BY <1>2, SeqHas
  <1>4. PICK after : AfterRule(after, handed, axis, Len(handed)) /\ \A n : WindowAfter(r, n, axis) = after[n]
    BY <1>3, WindowsAfter
  <1>5. PICK taken : /\ TakenRule(taken, handed, DueFrames(handed, axis), Len(handed))
                     /\ FramesAt(handed, DueFrames(handed, axis)) = taken[Len(handed)]
    BY <1>3, FramesTaken
  <1>6. \A n \in 0..Len(handed) :
          WindowSound(after[n]) /\ FollowsEarned(after[n], handed, n, axis) /\ after[n].raw = taken[n]
    <2>1. PICK given : given = handed OBVIOUS
    <2> QED BY <1>2, <1>4, <1>5, <2>1, WindowsFit
  <1> HIDE DEF handed
  <1>7. window = after[Len(handed)] /\ Len(handed) \in 0..Len(handed) BY <1>3, <1>4
  <1>8. window.raw = FramesAt(handed, DueFrames(handed, axis)) BY <1>5, <1>6, <1>7
  <1>9. seen = judged
    <2>1. ASSUME NEW i \in DOMAIN told PROVE i \in seen <=> i \in judged
      <3> DEFINE n == hoses[e].beside[i][r]
      <3>1. n \in 0..Len(handed)
        <4>1. hoses[e] \in Hoses BY DEF CaptureInv, RailsInv
        <4>2. hoses[e].beside \in Seq([Raw -> Nat]) /\ hoses[e].handed \in Seq(Nat) BY <4>1 DEF Hoses
        <4>3. i \in 1..Len(told) BY <4>2, LenProperties
        <4>4. Len(hoses[e].beside) = Len(told) /\ n <= Len(handed) BY <4>3 DEF CaptureInv, BesideFits, handed
        <4>5. hoses[e].beside[i] \in [Raw -> Nat] BY <4>2, <4>3, <4>4, ElementOfSeq
        <4>6. n \in Nat BY <4>5
        <4> HIDE DEF n
        <4> QED BY <4>4, <4>6, <1>3
      <3>2. Followed(i) = DOMAIN after[n].subjects BY <1>4
      <3> HIDE DEF n, Followed, told
      <3>3. \A id : id \in Followed(i) <=> Earned(id, handed, n, axis) BY <1>6, <3>1, <3>2 DEF FollowsEarned
      <3>4. i \in seen <=> \E id \in frames[told[i]].subjects : id \in Followed(i) OBVIOUS
      <3>5. i \in judged <=> \E id \in frames[told[i]].subjects : Earned(id, handed, n, axis) BY DEF n
      <3> QED BY <3>3, <3>4, <3>5
    <2> QED BY <2>1
  <1>10. Occurrences(r, e, axis) = FramesAt(told, seen) BY DEF Occurrences
  <1>11. \A id \in DOMAIN window.subjects : "novelty" \in window.subjects[id] <=> FieldHeld(window, id)
    BY <1>6, <1>7 DEF WindowSound, NovelAreFound
  <1> HIDE DEF window, judged, seen, told
  <1>12. Occurrences(r, e, axis) = FramesAt(told, judged) BY <1>9, <1>10
  <1> QED BY <1>8, <1>11, <1>12 DEF EvidenceKept, window, judged, told, handed, DueFrames, FieldHeld

(* A capture's bundle has every frame its rails were given a reason for, and *)
(* no device is selected as novel without the finding that says of what, in  *)
(* whatever order the two rails are handed their frames (src/util/cli/       *)
(* commands/capture.ts, consumeRaw and consumeEvents).                       *)
THEOREM CaptureKeepsItsEvidence == Spec => []EvidenceIsKept
  <1>1. ClientInit => CaptureInv BY RailsInitFits, BesideInit DEF ClientInit, CaptureInv
  <1>2. CaptureInv => EvidenceIsKept BY WindowKeepsEvidence DEF EvidenceIsKept
  <1>3. CaptureInv /\ [ClientNext]_clientVars => CaptureInv' BY RailsStep, BesideStep DEF CaptureInv
  <1> QED BY <1>1, <1>2, <1>3, PTL DEF Spec
=============================================================================
