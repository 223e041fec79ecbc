------------------------------- MODULE MCConfig -------------------------------
(* Files people write for Config: a minimal one, one whose numbers are below *)
(* every range, one above them with no key of its own, and one whose token    *)
(* limit is negative, which is no limit.                                    *)
EXTENDS Config

MCTyped == {0, 40, 128000}

MCHandWritten ==
    {[api_key |-> "key", max_tokens_per_run |-> 1000],
     [provider |-> "azure", api_key |-> "YOUR_API_KEY_HERE", default_model |-> "",
      max_tokens |-> 32, worker_threads |-> 0, request_timeout |-> 5,
      supervisor_stuck_timeout_ms |-> 20500],
     [provider |-> "ollama", worker_threads |-> 80,
      supervisor_model |-> [model |-> "sonnet", max_tokens |-> 64]],
     [provider |-> "custom", default_model |-> "sonnet", max_tokens_per_run |-> -1]}
=============================================================================
