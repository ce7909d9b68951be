------------------------ MODULE MCConnectionMonitor ------------------------
(* The instance of ConnectionMonitor TLC checks: the schedules keep the     *)
(* shape of settings.ts (a known track that opens high and a prompt one     *)
(* that opens at zero, a shared network floor, a slower refusal schedule)   *)
(* with fewer rungs and small delays.                                       *)
EXTENDS ConnectionMonitor

MCKnownLadder == <<9, 4>>
MCUnknownLadder == <<0, 1>>
MCRefusalLadder == <<2, 5>>
(* The liveness instance needs only the alternation of schedules. *)
MCShortLadder == <<1>>
MCBootTimes == {0, 1, 5}
MCTwoBoots == {0, 5}
=============================================================================
