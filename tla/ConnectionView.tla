--------------------------- MODULE ConnectionView ---------------------------
(***************************************************************************)
(* What a consumer of client.connection may rely on: the connection-state  *)
(* edges stateChanged announces, and the controllerLost, controllerRebooted *)
(* and controllerRecovered events, as ConnectionEvents and the isLost and  *)
(* isRebooting getters document them.  ConnectionMonitor implements it.    *)
(***************************************************************************)
CONSTANTS LossClass,  (* the classes a loss is announced as *)
          None        (* no loss announced, which is none of the classes *)

VARIABLES state,      (* the state the last stateChanged edge announced *)
          loss,       (* the class of the loss in progress, None outside one *)
          rebooting,  (* whether the episode in progress is an anticipated reboot *)
          emitted,    (* the lifecycle events the last step announced *)
          over        (* whether the monitor was disposed *)

viewVars == <<state, loss, rebooting, emitted, over>>

Steady == {"healthy", "throttled"}
Outage == {"degraded", "reconnecting", "lost"}
LifecycleEvent == {"controllerLost", "controllerRebooted", "controllerRecovered"}

ViewInit ==
  /\ state \in Steady
  /\ loss = None
  /\ rebooting = FALSE
  /\ emitted = {}
  /\ over = FALSE

(* The breaker's verdict is the only thing that moves a connection with no *)
(* outage in progress between its two steady readings.                     *)
Throttle ==
  /\ ~over /\ state \in Steady
  /\ state' \in Steady
  /\ emitted' = {}
  /\ UNCHANGED <<loss, rebooting, over>>

OpenOutage ==
  /\ ~over /\ state \in Steady
  /\ state' = "degraded"
  /\ rebooting' \in BOOLEAN
  /\ emitted' = {}
  /\ UNCHANGED <<loss, over>>

Reconnect ==
  /\ ~over /\ state \in {"degraded", "lost"}
  /\ state' = "reconnecting"
  /\ emitted' = {}
  /\ UNCHANGED <<loss, rebooting, over>>

(* A loss is announced at the first loss of an outage and whenever its     *)
(* class changes, never for a repeat of the class already announced.       *)
Lose(c) ==
  /\ ~over /\ state \in Outage
  /\ state' = "lost"
  /\ loss' = c
  /\ emitted' = IF c = loss THEN {} ELSE {"controllerLost"}
  /\ UNCHANGED <<rebooting, over>>

Recover ==
  /\ ~over /\ state = "reconnecting"
  /\ state' \in Steady
  /\ loss' = None
  /\ rebooting' = FALSE
  /\ emitted' = IF loss = None THEN {} ELSE {"controllerRecovered"}
  /\ UNCHANGED over

(* A reboot observed before the disposal may still be announced after it. *)
AnnounceReboot ==
  /\ emitted' = {"controllerRebooted"}
  /\ UNCHANGED <<state, loss, rebooting, over>>

(* A step the consumer sees nothing of, disposal among them. *)
Silent ==
  /\ over => over'
  /\ over' \in BOOLEAN
  /\ emitted' = {}
  /\ UNCHANGED <<state, loss, rebooting>>

ViewNext ==
  \/ Throttle \/ OpenOutage \/ Reconnect \/ Recover
  \/ AnnounceReboot \/ Silent
  \/ \E c \in LossClass : Lose(c)

ViewSpec == ViewInit /\ [][ViewNext]_viewVars
=============================================================================
