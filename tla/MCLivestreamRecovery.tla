------------------------ MODULE MCLivestreamRecovery ------------------------
(* The instance of LivestreamRecovery TLC checks, in seconds: the curves and *)
(* bounds of settings.ts, with a poll coarse enough for few silences.       *)
EXTENDS LivestreamRecovery

MCEstablishCurve == <<5, 8, 10>>
MCRecoveryCurve == <<3, 5, 10>>
=============================================================================
