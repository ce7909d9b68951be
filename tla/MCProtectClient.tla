--------------------------- MODULE MCProtectClient ---------------------------
(***************************************************************************)
(* Instances of ProtectClient, and of a capture that watches its firehoses. *)
(***************************************************************************)
EXTENDS ProtectClient, CaptureBundle

(* The pool, the rails and the store's failsafe share no variable, and what  *)
(* a disposal takes down after the pool touches no subscription, and after   *)
(* the monitor no rail: a state in which two of these are under way is not   *)
(* explored further, nor one disposed of once a bound of its surface is      *)
(* reached, or twice unless the pool is gone and what it held said nothing.  *)
Tearing == {c \in Callers : tearing[c] # AllDown}
PoolUnused == \A s \in Subscriptions : ~Held(s)
RailsUnused == frames = <<>> /\ \A h \in Firehoses : hoses[h].at = "none"
OneSurfaceUsed ==
  \/ PoolUnused /\ RailsUnused
  \/ /\ PoolUnused /\ refresh = "waiting" /\ {"pool", "store", "transport"} \subseteq standing
     /\ Cardinality(Tearing) <= 1 /\ (Len(frames) = MaxFrames => stream = "open" /\ Tearing = {})
  \/ /\ RailsUnused /\ refresh = "waiting" /\ ("monitor" \in standing => stream = "open")
     /\ {"store", "transport"} \subseteq standing
     /\ Cardinality(Tearing) <= IF "pool" \notin standing /\ FlattenSeq(fanned) = <<>> THEN 2 ELSE 1
     /\ (Len(managed) = MaxSessions /\ Len(FlattenSeq(fanned)) = MaxSegments => Tearing = {})

Alike == Permutations(Subscriptions) \cup Permutations(Callers)

-----------------------------------------------------------------------------
(* One address in the spellings the wire has for it, and another's.          *)
Mac(of, style) == Spelled("mac", of, style)
Pair(key, value) == <<Word(key), value>>
Said(key, w) == Pair(key, Str(Word(w)))

Text == [kind |-> "primitive", types |-> {"string"}]
Flag == [kind |-> "primitive", types |-> {"boolean", "number"}]
Opaque == [kind |-> "opaque"]
Fields(names, inner) == [kind |-> "object", open |-> FALSE, fields |-> [key \in {Word(n) : n \in names} |-> inner]]

Camera == [Fields({"id", "name", "mac", "hosts"}, Text) EXCEPT
             !.fields = (Word("isOn") :> Flag) @@ (Word("lcdMessage") :> Fields({"text"}, Text))
                        @@ (Word("wifiState") :> Fields({"strength"}, Flag))
                        @@ (Word("links") :> [kind |-> "dictionary", values |-> Fields({"strength"}, Flag)]) @@ @]

Shipped ==
  [records |-> (Word("cameras") :> Camera) @@ (Word("users") :> Fields({"id", "name", "localUsername"}, Text))
               @@ (Word("groups") :> Opaque),
   recordKeys |-> ("camera" :> Word("cameras")) @@ ("user" :> Word("users")),
   modelKeys |-> [state |-> {"camera", "user"}, device |-> {"camera"}, known |-> {"camera", "user", "event", "bridge"}],
   eventTypes |-> {Word("ring"), Word("motion")}]
Candidates ==
  {Shipped, [Shipped EXCEPT !.recordKeys = ("camera" :> Word("cameras"))], [Shipped EXCEPT !.recordKeys = ("user" :> Word("users"))],
   [Shipped EXCEPT !.recordKeys = ("camera" :> Word("chimes")) @@ @]}

Known1 == Obj(<<Said("id", "d1"), Said("name", "Front"), Pair("mac", Str(Mac("A", "plain"))),
                Pair("lcdMessage", Obj(<<Said("text", "Front")>>)),
                Pair("links", Obj(<<<<Mac("B", "colon"), Obj(<<Pair("strength", Num(7))>>)>>>>))>>)
Novel(id, name, spelled, more) ==
  Obj(<<Said("id", id), Said("name", name), Pair("mac", Str(Mac("A", spelled))), Pair("lensHeater", Num(1))>> \o more)
Document ==
  Obj(<<Said("accessKey", "K"),
        Pair("cameras", Arr(<<Known1, Novel("d2", "Side", "hyphen", <<>>), Novel("d3", "Back", "colon", <<>>),
                              Novel("d4", "Front", "colon",
                                <<Pair("lcdMessage", Obj(<<Said("text", "Hello")>>)),
                                  Pair("links", Obj(<<<<Mac("C", "hyphen"), Obj(<<Pair("strength", Num(1))>>)>>,
                                                      <<Mac("C", "plain"), Obj(<<Pair("strength", Num(2))>>)>>>>)),
                                  Pair("wifiState", Obj(<<<<Mac("B", "colon"), Num(1)>>>>)),
                                  Pair("peer", Obj(<<Pair("host", Str(Spelled("ipv4", "I", "plain")))>>))>>)>>)),
        Pair("users", Arr(<<Obj(<<Said("id", "u1"), Said("name", "Air"), Said("localUsername", "root")>>)>>)),
        Pair("groups", Arr(<<>>)),
        Pair("gadgets", Arr(<<Obj(<<Said("id", "g1"), Said("displayName", "Front"), Pair("mac", Str(Mac("B", "plain"))),
                                     Pair("owner", Str(Spelled("email", "E", "plain"))),
                                     Pair("wifi", Obj(<<Said("psk", "P"), Said("ssid", "")>>)),
                                     Pair("secret", Arr(<<Obj(<<Said("left", "P")>>), Str(Word("Q"))>>)),
                                     Said("sharedByUser", "root"), Said("localUsername", "root"), Said("userName", "Air"),
                                     Said("timezone", "Europe/Paris"), Pair("latitude", Num(48)), Pair("channel", Num(48)),
                                     Pair("version", Str(Spelled("ipv4", "I", "plain"))),
                                     Pair("snapshot", Str(Spelled("urlAddress", "I", "plain"))),
                                     Pair("dns", Arr(<<Str(Spelled("mapped", "I", "plain")), Str(Spelled("ipv4", "J", "plain"))>>)),
                                     Pair("update", Str(Spelled("urlHost", "U", "login")))>>)>>))>>)

Packet(rail, action, modelKey, id, payload, subjects) ==
  [rail |-> rail, action |-> action, modelKey |-> modelKey, id |-> Word(id), payload |-> payload,
   subjects |-> {Word(s) : s \in subjects}]

(* A patch of what is declared, then one that is not; an addition of a       *)
(* device by a name asked for; a class and an event type nobody knows; and   *)
(* a document no store can fold.                                             *)
Traffic == {
  Packet("event", "update", "camera", "d1", Obj(<<Pair("isOn", Num(1))>>), {"d1"}),
  Packet("event", "update", "camera", "d1", Obj(<<Pair("airQuality", Obj(<<Pair("mac", Str(Mac("A", "colon")))>>))>>), {"d1"}),
  Packet("event", "add", "camera", "d9", Obj(<<Said("id", "d9"), Said("name", "Air")>>), {"d9"}),
  Packet("unmodeled", "add", "toaster", "d8", Bytes, {}),
  Packet("event", "add", "event", "e1", Obj(<<Said("type", "levitate"), Said("camera", "d1")>>), {"d1"}),
  Packet("unfoldable", "add", "user", "u9", Obj(<<Said("id", "u9"), Said("airQuality", "none")>>), {})}
Plain == {Packet("event", "remove", "camera", "d1", Null, {"d1"})}

AnyName == {{}, {{Word("Air"), Word("d3")}}}
NoAxis == {{}}

Sees == ManifestSees(Candidates, Word("airQuality"))

(* What a capture writes depends on what its rails handed out alone: it is   *)
(* looked at where nothing else is under way and no frame has come since.    *)
JustOver(r, e) ==
  /\ IsCapture(r, e) /\ hoses[r].until = Len(frames)
  /\ stream = "open" /\ Tearing = {} /\ PoolUnused /\ refresh = "waiting"

(* What ufp capture writes, of what two rails handed it, tells things apart  *)
(* by stand-ins, is of a manifest that sees, and counts every undeclared     *)
(* member; the last two depend on the bootstrap alone and are looked at as   *)
(* the client starts.                                                        *)
BundleIsPseudonymous ==
  /\ \A r \in Raw, e \in Firehoses \ Raw : JustOver(r, e) => \A axis \in Axes :
       Pseudonymous(AssembleBundle(WindowAfter(r, Len(hoses[r].handed), axis), Occurrences(r, e, axis), Len(hoses[e].handed)))
  /\ stage = "idle" => Sees /\ EveryNoveltyCounted
=============================================================================
