----------------------------- MODULE Transport -----------------------------
(***************************************************************************)
(* The transport layer of the E2E runner (src/e2e/runner/runner.py):       *)
(* _request and request_json.  It has no state of its own; it fixes how   *)
(* the outcome of one HTTP call is turned into a return or an exception,   *)
(* which every other module uses.                                          *)
(*                                                                         *)
(* An exception is a record [kind, status, code]:                          *)
(*   kind   "HTTPFailure" for a non-2xx reply (urllib.error.HTTPError),    *)
(*          "RuntimeError" for one the runner raises itself (network       *)
(*          error, a failed check), "TimeoutError" for a reply that never  *)
(*          arrives after the request reached the server;                  *)
(*   status the HTTP status of an HTTPFailure, 0 otherwise;                *)
(*   code   HTTPFailure.error_code, parsed from the error envelope.        *)
(***************************************************************************)
EXTENDS Naturals

\* error_code = None.
NoCode == "none"

\* An error body as the server sends it: a JSON object with an "error"
\* object carrying a code, or anything else (a proxy page, plain text).
ErrorBody(isEnvelope, c) == [envelope |-> isEnvelope, code |-> c]

\* The JSON parse of lines 118-128: error.code when the body is an error
\* envelope, None when json.loads fails or the shape does not match.
ParseErrorCode(body) == IF body.envelope THEN body.code ELSE NoCode

\* The exception _request raises for a non-2xx reply (lines 103-155).
HTTPFailure(status, body) ==
    [kind |-> "HTTPFailure", status |-> status, code |-> ParseErrorCode(body)]

\* A RuntimeError raised by the runner; it has no status and no error code.
RuntimeErr == [kind |-> "RuntimeError", status |-> 0, code |-> NoCode]

\* urllib.error.URLError is re-raised as RuntimeError (lines 156-157).
NetworkError == RuntimeErr

\* A read timeout after the request was sent is not a URLError and leaves
\* _request unchanged (urlopen(timeout=30), line 99).
ReadTimeout == [kind |-> "TimeoutError", status |-> 0, code |-> NoCode]

\* The transient server failure the model injects: a 503 whose envelope
\* carries a code other than the ones the runner compares with.
TransientFailure == HTTPFailure(503, ErrorBody(TRUE, "upstream_unavailable"))

(***************************************************************************)
(* The ways one request can go wrong.                                      *)
(*   "http" the server answers non-2xx and does nothing;                   *)
(*   "net"  the connection fails before the server sees the request;       *)
(*   "lost" the server performs the request, the reply never arrives.      *)
(***************************************************************************)
FaultKinds == {"http", "net", "lost"}

\* Did the server perform the request despite the failure?
Performed(f) == f = "lost"

\* The exception the caller of request_json sees for a fault.
ExcOf(f) == CASE f = "http" -> TransientFailure
              [] f = "net"  -> NetworkError
              [] f = "lost" -> ReadTimeout

\* Every exception any request of the runner can raise.
Exceptions == {TransientFailure, NetworkError, ReadTimeout}
=============================================================================
