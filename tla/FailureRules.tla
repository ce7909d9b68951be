---------------------------- MODULE FailureRules ----------------------------
(***************************************************************************)
(* How a failure is read: the walk of its cause chain, the classification  *)
(* of src/transport/failure.ts, the level table of connection-fault.ts and *)
(* the typed error and line ws.ts makes of a socket's failure.             *)
(* A chain is the sequence of its links, [name, code], outermost first.    *)
(***************************************************************************)
EXTENDS Integers, Sequences

CONSTANT NoCode  (* a link without a string-valued code *)

Link(name, code) == [name |-> name, code |-> code]

(* What undici's WebSocket reports for every failure: a bare TypeError. *)
Blank == <<Link("TypeError", NoCode)>>

(* A verdict of CERTIFICATE_VERIFICATION_CODES stands for them all. *)
CERTIFICATE_VERIFICATION_CODES == {"DEPTH_ZERO_SELF_SIGNED_CERT", "CERT_HAS_EXPIRED"}
UnreachableCodes == {"EHOSTDOWN", "EHOSTUNREACH", "ENETDOWN", "ENETUNREACH", "ETIMEDOUT"}
SystemCodes == UnreachableCodes \cup {"ECONNREFUSED", "ECONNRESET", "EAI_AGAIN", "ENOTFOUND"}

-----------------------------------------------------------------------------
(* walkCauses: the names count at any depth, the nearest code wins. *)
TimedOut(chain) == \E i \in DOMAIN chain : chain[i].name = "TimeoutError"
AbortNamed(chain) == \E i \in DOMAIN chain : chain[i].name = "AbortError"
NearestCode(chain) ==
  LET coded == {i \in DOMAIN chain : chain[i].code # NoCode}
  IN  IF coded = {} THEN NoCode
      ELSE chain[CHOOSE i \in coded : \A j \in coded : i <= j].code

KindOfCode(code) ==
  CASE code = "UND_ERR_CONNECT_TIMEOUT" -> "connect-timeout"
    [] code \in {"UND_ERR_BODY_TIMEOUT", "UND_ERR_HEADERS_TIMEOUT"} -> "timeout"
    [] code = "UND_ERR_REQ_RETRY" -> "retries-exhausted"
    [] code = "UND_ERR_DESTROYED" -> "destroyed"
    [] code = "ECONNREFUSED" -> "refused"
    [] code = "ECONNRESET" -> "reset"
    [] code \in UnreachableCodes -> "unreachable"
    [] code \in {"EAI_AGAIN", "ENOTFOUND"} -> "dns"
    [] code \in CERTIFICATE_VERIFICATION_CODES -> "certificate"
    [] OTHER -> "transport"

(* classifyTransportError, without a lifetime signal: nobody hands one in. *)
ClassifyTransportError(chain) ==
  LET code == NearestCode(chain)
      kind == IF TimedOut(chain) \/ AbortNamed(chain) \/ code = "UND_ERR_ABORTED" THEN "timeout"
              ELSE KindOfCode(code)
  IN  [kind |-> kind, code |-> code]

(* connectionFaultLevel *)
ConnectionFaultLevel(failure, open) ==
  CASE failure.kind \in {"aborted", "destroyed"} -> "quiet"
    [] failure.kind = "certificate" -> "error"
    [] failure.kind = "dns" -> IF failure.code = "ENOTFOUND" THEN "error" ELSE "warning"
    [] failure.kind = "timeout" -> IF open THEN "quiet" ELSE "warning"
    [] failure.kind = "transport" -> IF failure.code = NoCode /\ open THEN "quiet" ELSE "warning"
    [] OTHER -> "warning"

(* classifySocketFailure: the class of the typed error. *)
ClassifySocketFailure(failure) ==
  CASE failure.kind = "certificate" -> "certificate"
    [] failure.kind \in {"connect-timeout", "timeout"} -> "timeout"
    [] OTHER -> "network"

(* isSocketOwnError: an errno, or a TLS-layer code. *)
IsSocketOwnError(chain) == chain[1].code \in SystemCodes \cup {"ERR_SSL_BAD_RECORD_MAC"}

-----------------------------------------------------------------------------
(* SocketTeardown: why a socket's one teardown runs.  An error is the      *)
(* class it is reported as and the chain it carries; a line is the level   *)
(* it is logged at, or "quiet".                                            *)
Failure(class, cause) == [class |-> class, cause |-> cause]

CallerSignal == [kind |-> "callerSignal", error |-> Failure("aborted", <<>>), line |-> "quiet"]
ExplicitClose == [kind |-> "close", error |-> Failure("closed", <<>>), line |-> "quiet"]
PeerClose == [kind |-> "peer", error |-> Failure("peerClosed", <<>>), line |-> "quiet"]
Fault(error, line) == [kind |-> "fault", error |-> error, line |-> line]

(* socketFault: only a socket that had opened logs a line. *)
SocketFault(cause, open) ==
  LET failure == ClassifyTransportError(cause)
  IN  Fault(Failure(ClassifySocketFailure(failure), cause),
            IF open THEN ConnectionFaultLevel(failure, open) ELSE "quiet")

(* teardownCode; a peer's own code is "frame". *)
TeardownCode(teardown) ==
  CASE teardown.kind \in {"callerSignal", "close"} -> "normal"
    [] teardown.kind = "fault" -> "abnormal"
    [] teardown.kind = "peer" -> "frame"
=============================================================================
