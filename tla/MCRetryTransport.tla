-------------------------- MODULE MCRetryTransport --------------------------
(***************************************************************************)
(* RetryTransport with the backoff of wait_exponential(multiplier=1):      *)
(* 1, 2, 4, ... capped at the ceiling of a Retry-After.                    *)
(***************************************************************************)
EXTENDS RetryTransport

MCBackoff == [n \in 1 .. MaxAttempts |->
                 IF 2 ^ (n - 1) < MaxSleep THEN 2 ^ (n - 1) ELSE MaxSleep]
=============================================================================
