-------------------------------- MODULE Scrub --------------------------------
(***************************************************************************)
(* The scrub of src/util/cli/scrub.ts: every identifying string of a       *)
(* document is replaced by a stand-in, the same one wherever it appears.   *)
(* A string's shape is one of word, mac, ipv4, mapped (an IPv4 address in  *)
(* an IPv6 literal), ipv6, uuid, email, urlAddress and urlHost (a URL,     *)
(* named by its host, in style login when it carries credentials), or path *)
(* (keys joined, which no guard recognizes, whatever it joins).            *)
(***************************************************************************)
EXTENDS Json, FiniteSets, SequencesExt

SECRET_KEYS == {
  "accessKey", "anonymousDeviceId", "credentials", "hardwareId", "hashedPassword", "homekitSetupCode", "homekitSetupPayload",
  "internalRtspAlias", "macTouched", "pairingCode", "password", "pin", "privateKey", "psk", "publicKey", "rtspAlias", "secret",
  "shareLink", "ssoToken", "tlsCertificate", "tlsKey", "token", "wifiPassword"}
NAME_KEYS == {
  "AI_SEARCH_RECENT_SEARCHES", "allMessages", "apName", "cameraName", "content", "controllerName", "customMessages",
  "defaultMessageText", "displayName", "doorName", "firstName", "foreignPgDumpConsoleName", "fullName",
  "globalAlarmManagerScopeNames", "greetingBroadcastName", "label", "lastName", "lcdMessage", "localStreamName", "loginName",
  "name", "sensorName", "ssid", "supportFileName"}
DEVICE_NAME_KEYS == {"apName", "cameraName", "controllerName", "name", "sensorName"}
USERNAME_KEYS == {"localUsername", "sharedByUser", "userName", "username"}
HOST_KEYS == {
  "connectionHost", "externalHost", "host", "hostShortname", "hosts", "internalHost", "lastMotionCameraAddress", "publicIp",
  "rtspHost"}
MAC_KEYS == {"anonymousId", "bridgeMac", "mac"}
HASH_KEYS == {"checksum", "fingerprint", "md5", "serial", "serialNumber", "sha1", "sha256"}
LOCALE_KEYS == [countryCode |-> "ZZ", timezone |-> "Etc/UTC"]
COORDINATE_KEYS == {"latitude", "longitude"}
VERSION_KEYS == {
  "accessVersion", "actualVersion", "firmwareVersion", "latestFirmwareVersion", "mediaVersion", "minFirmwareVersion",
  "previousFirmwareVersion", "softwareVersion", "swaiVersion", "ucoreVersion", "uiVersion", "ulpVersion", "updateVersion",
  "version"}

(* scrubString asks the catalogs in an order; no key is in two of them. *)
Catalogs == <<SECRET_KEYS, NAME_KEYS, USERNAME_KEYS, HOST_KEYS, MAC_KEYS, HASH_KEYS, DOMAIN LOCALE_KEYS, COORDINATE_KEYS,
              VERSION_KEYS>>
ASSUME CatalogAssumption ==
  /\ DEVICE_NAME_KEYS \subseteq NAME_KEYS
  /\ \A i, j \in DOMAIN Catalogs : i # j => Catalogs[i] \cap Catalogs[j] = {}

(* The name a key carries, for the catalogs; nothing at the root.            *)
NoKey == Spelled("root", "", "plain")
In(key, catalog) == key.shape = "word" /\ key.of \in catalog

-----------------------------------------------------------------------------
(* remember: a category's memory lists what it has replaced, in order, and   *)
(* the place of a thing in it is its stand-in.                               *)
Categories == {"email", "hash", "host", "ip", "ipv6", "mac", "name", "token", "uuid"}
CreateScrubContext == [category \in Categories |-> <<>>]

Kept(memory, out) == [out |-> out, memory |-> memory]

Replaced(memory, category, what, shape, style) ==
  LET seen == memory[category]
      known == IF Contains(seen, what) THEN seen ELSE Append(seen, what)
      index == CHOOSE i \in DOMAIN known : known[i] = what
  IN  Kept([memory EXCEPT ![category] = known], Spelled(shape, category \o "#" \o ToString(index), style))

(* Mutant: an address is remembered as it arrived. *)
ScrubMacAsSpelled(memory, s) ==
  Replaced(memory, "mac", s.of \o s.style, "mac", IF s.style = "hyphen" THEN "plain" ELSE s.style)

(* scrubMac: the memory is of the address, the answer in the occurrence's    *)
(* own letter case and separators, as far as the wire has them.              *)
ScrubMac(memory, s) == Replaced(memory, "mac", s.of, "mac", IF s.style = "hyphen" THEN "plain" ELSE s.style)

IsAddress(s) == s.shape \in {"ipv4", "mapped", "ipv6"}
ScrubAddress(memory, s) == Replaced(memory, IF s.shape = "ipv6" THEN "ipv6" ELSE "ip", s.of, s.shape, "plain")

(* scrubName: the spellings of a login share a hint, and those of a device's *)
(* own name; any other key is its own.                                       *)
Hint(key) ==
  CASE key.of \in USERNAME_KEYS -> "username" [] key.of \in DEVICE_NAME_KEYS -> "Device" [] OTHER -> key.of

(* scrubUrl: credentials go, an address takes its stand-in, a name stays. *)
ScrubUrl(memory, s) ==
  CASE s.shape = "urlAddress" -> Replaced(memory, "ip", s.of, s.shape, "plain")
    [] s.shape = "urlHost" -> Kept(memory, [s EXCEPT !.style = "plain"])
    [] OTHER -> Kept(memory, s)

(* scrubShape, of what scrubUrl left; also scrubKey. *)
ScrubShape(memory, s) ==
  CASE s.shape = "mac" -> ScrubMac(memory, s)
    [] IsAddress(s) -> ScrubAddress(memory, s)
    [] s.shape \in {"uuid", "email"} -> Replaced(memory, s.shape, s.of, s.shape, "plain")
    [] OTHER -> ScrubUrl(memory, s)

(* scrubString: the key decides first, and the shape what no key does. *)
ScrubString(memory, s, key) ==
  CASE s = Word("") -> Kept(memory, s)
    [] s # Word("") /\ In(key, SECRET_KEYS) -> Replaced(memory, "token", s, "word", "plain")
    [] s # Word("") /\ In(key, NAME_KEYS \cup USERNAME_KEYS) -> Replaced(memory, "name", <<Hint(key), s>>, "word", "plain")
    [] s # Word("") /\ In(key, MAC_KEYS) -> ScrubMac(memory, s)
    [] s # Word("") /\ In(key, HOST_KEYS) ->
         IF IsAddress(s) THEN ScrubAddress(memory, s) ELSE Replaced(memory, "host", s, "word", "plain")
    [] s # Word("") /\ In(key, HASH_KEYS) -> Replaced(memory, "hash", s, "word", "plain")
    [] s # Word("") /\ In(key, DOMAIN LOCALE_KEYS) -> Kept(memory, Word(LOCALE_KEYS[key.of]))
    [] s # Word("") /\ In(key, VERSION_KEYS) -> ScrubUrl(memory, s)
    [] OTHER -> ScrubShape(memory, s)

-----------------------------------------------------------------------------
(* A walk over parts that threads the memory from each to the next. *)
Threaded(memory, parts, Step(_, _)) ==
  FoldLeft(LAMBDA done, part :
             LET next == Step(done.memory, part) IN Kept(next.memory, Append(done.out, next.out)),
           Kept(memory, <<>>), parts)

(* Object.fromEntries: of two entries whose keys became one, the later stays. *)
FromEntries(entries) ==
  LET LastOf(key) == CHOOSE i \in DOMAIN entries :
                       entries[i][1] = key /\ \A j \in i+1..Len(entries) : entries[j][1] # key
      firsts == SelectSeq([i \in DOMAIN entries |-> i], LAMBDA i : \A j \in 1..i-1 : entries[j][1] # entries[i][1])
  IN  [n \in DOMAIN firsts |-> entries[LastOf(entries[firsts[n]][1])]]

Entry(memory, key, Inner(_)) ==
  LET name == ScrubShape(memory, key)
      inner == Inner(name.memory)
  IN  Kept(inner.memory, <<name.out, inner.out>>)

(* clearSecrets: every string beneath a secret container. *)
RECURSIVE ClearSecrets(_, _)
ClearSecrets(memory, value) ==
  CASE value.json = "string" ->
         LET text == IF value.text = Word("") THEN Kept(memory, value.text) ELSE Replaced(memory, "token", value.text, "word", "plain")
         IN  Kept(text.memory, Str(text.out))
    [] IsArray(value) -> LET items == Threaded(memory, value.items, ClearSecrets) IN Kept(items.memory, Arr(items.out))
    [] IsObject(value) ->
         LET Member1(m, entry) == Entry(m, entry[1], LAMBDA known : ClearSecrets(known, entry[2]))
             all == Threaded(memory, value.entries, Member1)
         IN  Kept(all.memory, Obj(FromEntries(all.out)))
    [] OTHER -> Kept(memory, value)

IsBase64Wrapper(value) ==
  HasText(value, Word("encoding")) /\ Member(value, Word("encoding")).text = Word("base64") /\ HasText(value, Word("bytes"))

(* Mutant: an envelope's text stands under its own key. *)
MemberKeyOwn(key, entry) == entry[1]

(* A { text } envelope's text inherits the envelope's key. *)
MemberKey(key, entry) ==
  IF entry[1] = Word("text") /\ entry[2].json = "string" /\ key # NoKey THEN key ELSE entry[1]

(* scrubValue: an array's elements inherit its key. *)
RECURSIVE ScrubValue(_, _, _)
ScrubValue(memory, value, key) ==
  CASE value.json = "string" ->
         LET text == ScrubString(memory, value.text, key) IN Kept(text.memory, Str(text.out))
    [] value.json = "number" /\ In(key, COORDINATE_KEYS) -> Kept(memory, Num(0))
    [] (IsArray(value) \/ IsObject(value)) /\ In(key, SECRET_KEYS) -> ClearSecrets(memory, value)
    [] IsArray(value) /\ ~In(key, SECRET_KEYS) ->
         LET Element(m, item) == ScrubValue(m, item, key)
             items == Threaded(memory, value.items, Element)
         IN  Kept(items.memory, Arr(items.out))
    [] IsObject(value) /\ ~In(key, SECRET_KEYS) ->
         LET Inner(m, entry) ==
               IF IsBase64Wrapper(value) /\ entry[1] = Word("bytes") THEN Kept(m, entry[2])
               ELSE ScrubValue(m, entry[2], MemberKey(key, entry))
             Member1(m, entry) == Entry(m, entry[1], LAMBDA known : Inner(known, entry))
             all == Threaded(memory, value.entries, Member1)
         IN  Kept(all.memory, Obj(FromEntries(all.out)))
    [] OTHER -> Kept(memory, value)

ScrubDocument(value) == ScrubValue(CreateScrubContext, value, NoKey).out
=============================================================================
