------------------------------ MODULE Outcome -------------------------------
\* What a Go function that returns (value, error) returns.

Ok(v)  == [ok |-> TRUE, value |-> v]
Err(e) == [ok |-> FALSE, error |-> e]

=============================================================================
