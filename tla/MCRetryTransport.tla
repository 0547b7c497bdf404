-------------------------- MODULE MCRetryTransport --------------------------
(***************************************************************************)
(* Instances of RetryTransport: every body kind with lengths around a      *)
(* buffer limit of 2, announced and chunked, under policies that retry     *)
(* statuses, transport errors, both or nothing, with and without a delay.  *)
(***************************************************************************)
EXTENDS RetryTransport

MCPolicies ==
    [MaxAttempts : {0, 2, 3}, InitialBackoff : {-1, 5}, MaxBackoff : {1}, Methods : {{"GET", ""}},
     StatusCodes : {{}, {500, 700}}, RetryOnTransportErrors : BOOLEAN, BodyBufferBytes : {0, 2}]

MCRequests ==
    {r \in [method : {"GET", "POST"}, connect : BOOLEAN, body : {"none", "getBody", "stream"},
            length : 0 .. 4, declared : -1 .. 4] :
        /\ r.declared \in {-1, r.length}
        /\ r.body = "none" => r.length = 0
        /\ r.body = "stream" => r.declared # 0}
=============================================================================
