----------------------------- MODULE MCStateStore -----------------------------
(***************************************************************************)
(* Small instances of StateStore.  d1 is ours, claimed by a glitching      *)
(* controller to be another's, or really another's, with a counter that    *)
(* moves or not; d2 comes and goes; the roster is written by bootstraps    *)
(* only.                                                                   *)
(***************************************************************************)
EXTENDS StateStore

CONSTANTS d1, d2, o1, o2, o3

MCMacOf == [ours |-> "ours", OURS |-> "ours", theirs |-> "theirs"]

Adopted(by, mac, seen) ==
  [at |-> [isAdopted |-> Yes, isAdoptedByOther |-> by, nvrMac |-> Leaf(mac), stats |-> [at |-> [seen |-> Leaf(seen)]]]]

MCContents ==
  d1 :> {Adopted(No, "OURS", 0), Adopted(No, "OURS", 1), Adopted(Yes, "ours", 0), Adopted(Yes, "theirs", 0)}
  @@ d2 :> {Adopted(No, "ours", 0)}

(* The same without the contradiction. *)
MCFewContents ==
  d1 :> {Adopted(No, "OURS", 0), Adopted(No, "OURS", 1), Adopted(Yes, "theirs", 0)}
  @@ d2 :> {Adopted(No, "ours", 0)}

MCNvr == [at |-> [mac |-> Leaf("ours"), name |-> Leaf("den")]]
MCNvrs == {MCNvr, [at |-> [mac |-> Leaf("ours"), name |-> Leaf("attic")]]}
MCRosters == {<<>>, ("ring" :> [at |-> [name |-> Leaf("bell")]])}

MCFirstTruth ==
  [nvr |-> MCNvr, maps |-> [camera |-> (d1 :> Adopted(No, "OURS", 0)), ringtone |-> <<>>]]

MCModelKeys == {"camera"}
MCBootstrapKeys == {"ringtone"}
MCWatches == o1 :> <<"byId", d1>> @@ o2 :> <<"adoptedIds">> @@ o3 :> <<"all">>
=============================================================================
