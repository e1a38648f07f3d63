----------------------------- MODULE Accounting -----------------------------
(***************************************************************************)
(* Registry with the counters of stats.go.  Each counter is an atomic of   *)
(* the process (selfStats) or of one pipeline (pipelineStats); a handler   *)
(* that counts at both levels does so in two Adds, between which every     *)
(* other goroutine may run.  Inside a pipeline only the points where       *)
(* batcher and flusher count are kept: module Pipeline has the rest.       *)
(***************************************************************************)
EXTENDS Registry

CONSTANTS
  Refusals,  \* reasons for which a batcher drops
  Answers    \* outcomes of send other than shutdown

ASSUME AccountingAssumption ==
  /\ Refusals \subseteq {"oversize", "parse_error"}
  /\ Answers \subseteq {"sent", "flush_failed"}

VARIABLES
  counts,  \* the bag of all Adds so far: <<owner, counter>> -> how many
  todo,    \* goroutine -> the Adds it is about to make, in order
  inside   \* datagram -> "out", "batched" or "settled" in its pipeline

accountingVars == <<counts, todo, inside>>
allVars == <<vars, accountingVars>>

Process == <<"process">>
Listener == <<"listener">>
DemuxerG == <<"demuxer">>
BatcherOf(r) == <<"batcher", r>>
FlusherOf(r) == <<"flusher", r>>

(* The bag with one more Add a.                                            *)
BagAdd(bag, a) ==
  [b \in DOMAIN bag \cup {a} |->
     (IF b \in DOMAIN bag THEN bag[b] ELSE 0) + (IF b = a THEN 1 ELSE 0)]

(* The Adds in a bag to these counters of these owners, each one told from *)
(* its copies by a number.                                                 *)
AddsIn(bag, owners, counters) ==
  UNION {{a} \X (1 .. bag[a]) : a \in {b \in DOMAIN bag : /\ b[1] \in owners
                                                       /\ b[2] \in counters}}

(* The sum of these counters over these owners.                            *)
Total(owners, counters) == Cardinality(AddsIn(counts, owners, counters))

(* The datagrams at this stage in pipeline r.                              *)
In(r, stage) == {d \in 1 .. MaxDatagrams :
                   fate[d] = "handed" /\ home[d] = r /\ inside[d] = stage}

Busy(g) == g \in DOMAIN todo

(* Goroutine g makes these Adds, in order.  The first belongs to the step  *)
(* that decides on it: in between no other goroutine could tell.           *)
Post(g, adds) ==
  /\ counts' = IF adds = <<>> THEN counts ELSE BagAdd(counts, Head(adds))
  /\ todo' = IF Len(adds) <= 1 THEN todo
             ELSE [h \in DOMAIN todo \cup {g} |-> IF h = g THEN Tail(adds) ELSE todo[h]]

(* One more atomic Add.                                                    *)
MakeAdd(g) ==
  LET rest == Tail(todo[g])
  IN /\ counts' = BagAdd(counts, Head(todo[g]))
     /\ todo' = IF rest = <<>> THEN Restrict(todo, DOMAIN todo \ {g})
                ELSE [todo EXCEPT ![g] = rest]
     /\ UNCHANGED <<vars, inside>>

(* The Adds for datagram d, if this step drops it, at the given levels.    *)
DropAdds(d, owners) ==
  IF fate'[d] \in Drops THEN [i \in DOMAIN owners |-> <<owners[i], fate'[d]>>]
  ELSE <<>>

(* listen counts what it read and what dispatch reports as queue_full;     *)
(* dispatch counts its drops, those that have a pipeline there as well.    *)
ListenerAdds ==
  IF received' # received
  THEN <<<<Process, "received">>>> \o DropAdds(received', <<Process>>)
  ELSE IF ldg.id = 0 THEN <<>>
  ELSE DropAdds(ldg.id, IF fate'[ldg.id] \in {"missing_token", "routing_closed"}
                        THEN <<lp, Process>> ELSE <<Process>>)

(* Mutant of DemuxAdds: a full handoff channel is not counted.             *)
DemuxAddsSilent ==
  IF xpc = "send"
  THEN IF fate'[xdg.id] = "queue_full" THEN <<>>
       ELSE DropAdds(xdg.id, <<xp, Process>>)
  ELSE IF xpc = "lookup" THEN DropAdds(xdg.id, <<Process>>)
  ELSE <<>>

(* demux: a project that has gone is counted process-wide only, a full     *)
(* handoff channel per project only, a closed pipeline at both levels.     *)
DemuxAdds ==
  IF xpc = "send"
  THEN DropAdds(xdg.id, IF fate'[xdg.id] = "queue_full" THEN <<xp>>
                        ELSE <<xp, Process>>)
  ELSE IF xpc = "lookup" THEN DropAdds(xdg.id, <<Process>>)
  ELSE <<>>

CountedDispatching ==
  /\ ~Busy(Listener)
  /\ Dispatching
  /\ Post(Listener, ListenerAdds)
  /\ UNCHANGED inside

CountedDemuxing ==
  /\ ~Busy(DemuxerG)
  /\ Demuxing
  /\ Post(DemuxerG, DemuxAdds)
  /\ UNCHANGED inside

(* The batcher of r takes its next datagram and validates it: an event it  *)
(* appends is counted per project, one it drops at both levels.            *)
BatcherValidates(r) ==
  /\ ~Busy(BatcherOf(r))
  /\ \E d \in In(r, "out") :
       /\ \A e \in In(r, "out") : d <= e
       /\ \/ /\ inside' = [inside EXCEPT ![d] = "batched"]
             /\ Post(BatcherOf(r), <<<<r, "received">>>>)
          \/ \E reason \in Refusals :
               /\ inside' = [inside EXCEPT ![d] = "settled"]
               /\ Post(BatcherOf(r), <<<<Process, reason>>, <<r, reason>>>>)
  /\ UNCHANGED vars

(* Mutant of Outcomes: a batch that is cancelled at shutdown is counted    *)
(* as a gateway failure as well.                                           *)
OutcomesTwice(r) ==
  {<<answer>> : answer \in Answers}
    \cup IF At(r).stage = "closed" THEN {<<"shutdown", "flush_failed">>} ELSE {}

(* What a batch of r is counted as: shutdown only once drain may have      *)
(* cancelled the pipeline's context.                                       *)
Outcomes(r) ==
  {<<answer>> : answer \in Answers}
    \cup IF At(r).stage = "closed" THEN {<<"shutdown">>} ELSE {}

(* send counts the events of a batch, process-wide first; a batch that the *)
(* context overtakes before the flusher takes it is counted by flush, in   *)
(* the batcher.  Each event is followed by itself: Add(len(batch.Events))  *)
(* is the sum of such Adds.                                                *)
BatchSettles(r) ==
  /\ \E d \in In(r, "batched"), outcome \in Outcomes(r),
        g \in {BatcherOf(r), FlusherOf(r)} :
       /\ ~Busy(g)
       /\ g = BatcherOf(r) => outcome[1] = "shutdown"
       /\ inside' = [inside EXCEPT ![d] = "settled"]
       /\ Post(g, [i \in DOMAIN outcome |-> <<Process, outcome[i]>>]
                     \o [i \in DOMAIN outcome |-> <<r, outcome[i]>>])
  /\ UNCHANGED vars

(* drain returns when batcher and flusher have, so with everything counted *)
(* (Pipeline!KeepsLedger).                                                 *)
Emptied(r) ==
  /\ \A d \in 1 .. MaxDatagrams : home[d] = r => inside[d] = "settled"
  /\ ~Busy(BatcherOf(r)) /\ ~Busy(FlusherOf(r))

CountedDraining ==
  /\ Draining
  /\ \A r \in Made : At(r).stage = "closed" /\ pipes'[r[1]][r[2]].stage = "drained" => Emptied(r)
  /\ UNCHANGED accountingVars

InPipelines ==
  /\ ~Exited
  /\ \E r \in Made : BatcherValidates(r) \/ BatchSettles(r)

AccountingInit ==
  /\ Init
  /\ counts = [a \in {} |-> 0]
  /\ todo = [g \in {} |-> <<>>]
  /\ inside = [d \in 1 .. MaxDatagrams |-> "out"]

AccountingNext ==
  \/ CountedDispatching
  \/ CountedDemuxing
  \/ CountedDraining
  \/ InPipelines
  \/ ~Exited /\ \E g \in DOMAIN todo : MakeAdd(g)
  \/ (Reloading \/ Expiring \/ Maining \/ Environment) /\ UNCHANGED accountingVars
  \/ Exited /\ UNCHANGED allVars

AccountingSpec == AccountingInit /\ [][AccountingNext]_allVars
-----------------------------------------------------------------------------
(* Nothing is on its way: every datagram received so far is dropped or     *)
(* settled in its pipeline, and no goroutine has an Add to make.           *)
AtRest ==
  /\ DOMAIN todo = {}
  /\ \A d \in 1 .. received : \/ fate[d] \in Drops
                              \/ fate[d] = "handed" /\ inside[d] # "out"

(* Every received datagram is counted as exactly one other thing: accepted *)
(* by one pipeline, refused by its handoff channel, or dropped under one   *)
(* process-wide reason.  The other counters never run ahead of             *)
(* events_received, and have caught up whenever nothing is on its way      *)
(* (stats.go, the intent of the reconciliation).                           *)
Reconciles ==
  LET arrived == Total({Process}, {"received"})
      accounted == Total(Made, {"received", "queue_full"})
                     + Total({Process}, Drops \cup {"oversize"})
  IN /\ accounted <= arrived
     /\ AtRest => accounted = arrived

Settled == {"sent", "flush_failed", "shutdown"}

(* An event a pipeline accepted has one outcome, counted once per project  *)
(* and once process-wide, across the drain that retires the pipeline: a    *)
(* drained pipeline has accounted for all it accepted, and the projects'   *)
(* outcomes add up to the process's, except while one is being counted     *)
(* (events.go flush, flusher.go send, routing.go drain).                   *)
PipelineBalances ==
  /\ \A r \in Made :
       LET accepted == Total({r}, {"received"})
       IN /\ Total({r}, Settled) <= accepted
          /\ At(r).stage = "drained" => Total({r}, Settled) = accepted
  /\ \A c \in Settled :
       /\ Total(Made, {c}) <= Total({Process}, {c})
       /\ DOMAIN todo = {} => Total(Made, {c}) = Total({Process}, {c})

(* stats.go: "The reconciliation invariant is ...", term by term, when     *)
(* nothing is on its way.                                                  *)
DocumentedReconciliation ==
  AtRest =>
    Total({Process}, {"received"})
      = Total(Made, {"received", "parse_error", "oversize", "queue_full",
                     "routing_closed", "missing_token"})
          + Total({Process}, {"parse_error", "unrouted_missing",
                              "unrouted_unknown", "bad_token"})
=============================================================================
