----------------------------- MODULE EventLedger -----------------------------
(***************************************************************************)
(* What a pipeline promises, whatever happens inside it: every datagram it *)
(* accepts is accounted under exactly one outcome, exactly once; nothing   *)
(* is accepted after it was closed; and it only reports itself drained     *)
(* when nothing is left unaccounted.  Abstracts routing.go's trySend and   *)
(* drain together with the counters of stats.go.                           *)
(***************************************************************************)
EXTENDS Naturals

CONSTANTS
  MaxSends,    \* datagrams offered
  Rejections,  \* outcomes decided at the door of an open pipeline
  Outcomes     \* all final outcomes

VARIABLES
  fate,        \* datagram -> "unsent", "pending" or an outcome
  open,        \* the pipeline still accepts
  drained      \* drain has returned

ledgerVars == <<fate, open, drained>>

Offered == {d \in 1 .. MaxSends : fate[d] # "unsent"}
Pending == {d \in 1 .. MaxSends : fate[d] = "pending"}

LedgerInit ==
  /\ fate = [d \in 1 .. MaxSends |-> "unsent"]
  /\ open = TRUE
  /\ drained = FALSE

(* Datagrams are offered in order; acceptance needs an open pipeline.      *)
Offer(d) ==
  /\ Offered = 1 .. (d - 1)
  /\ \E o \in {"pending", "routing_closed"} \cup Rejections :
       /\ open <=> o # "routing_closed"
       /\ fate' = [fate EXCEPT ![d] = o]
  /\ UNCHANGED <<open, drained>>

(* A non-empty set of pending datagrams gets its outcome.                  *)
Decide(S, o) ==
  /\ S # {}
  /\ fate' = [d \in 1 .. MaxSends |-> IF d \in S THEN o ELSE fate[d]]
  /\ UNCHANGED <<open, drained>>

Close ==
  /\ open
  /\ open' = FALSE
  /\ UNCHANGED <<fate, drained>>

Finish ==
  /\ ~open
  /\ ~drained
  /\ Pending = {}
  /\ drained' = TRUE
  /\ UNCHANGED <<fate, open>>

LedgerNext ==
  \/ \E d \in 1 .. MaxSends : Offer(d)
  \/ \E S \in SUBSET Pending, o \in Outcomes \ Rejections : Decide(S, o)
  \/ Close
  \/ Finish

LedgerSpec == LedgerInit /\ [][LedgerNext]_ledgerVars
=============================================================================
