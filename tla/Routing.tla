------------------------------ MODULE Routing ------------------------------
(***************************************************************************)
(* The state every goroutine around the registry of routing.go shares: the *)
(* live routing table, the pipelines behind it, the shared queue, and what *)
(* became of each datagram; with the pure operations on routing tables.    *)
(*                                                                         *)
(* A pipeline is named by <<project, g>>: the g-th one made for a project. *)
(* What happens inside it is module Pipeline; here it only is "fresh"      *)
(* (made by newPipeline), "running" (start), "closed" (drain has closed    *)
(* rawCh) or "drained" (drain has returned).                               *)
(***************************************************************************)
EXTENDS Naturals, Sequences, FiniteSets, Functions

CONSTANTS
  Projects,        \* project names, Default among them
  Default,         \* DefaultProject
  NoProject,       \* no `_project` on the wire
  NoKey,           \* the empty credential
  ApiKey,          \* cfg.APIKey, NoKey if unset
  InlineTokens,    \* cfg.InlineTokens
  RequireProject,  \* cfg.RequireProject
  MaxProjects,     \* cfg.MaxProjects, 0 for no cap
  QueueSize,       \* capacity of sharedRawCh
  MaxDatagrams     \* bound: datagrams received in a behaviour

ASSUME RoutingAssumption ==
  /\ Default \in Projects
  /\ NoProject \notin Projects
  /\ InlineTokens \in BOOLEAN
  /\ RequireProject \in BOOLEAN
  /\ MaxProjects \in Nat
  /\ QueueSize \in Nat \ {0}
  /\ MaxDatagrams \in Nat

VARIABLES
  cur,           \* registry.cur, the published table
  pipes,         \* project -> its pipelines, oldest first
  sharedQ,       \* sharedRawCh
  sharedClosed,  \* sharedClosed, set together with close(sharedRawCh)
  inlineMu,      \* who holds inlineMu: "free", "dispatch" or "expiry"
  fate,          \* datagram -> where it is or was accounted
  home,          \* datagram -> the pipeline that took it, NoPipe if none
  ctxDone,       \* the SIGINT/SIGTERM context
  panicked       \* close of a closed channel: the process is gone

routingVars == <<cur, pipes, sharedQ, sharedClosed, inlineMu, fate, home,
                 ctxDone, panicked>>

NoPipe == <<>>
Made == UNION {{<<p, g>> : g \in DOMAIN pipes[p]} : p \in Projects}
At(r) == pipes[r[1]][r[2]]

(* newPipeline: no pending drain, freshly seen.                            *)
NewPipeline(key, inline) ==
  [key |-> key, inline |-> inline, stage |-> "fresh", idle |-> FALSE,
   drains |-> 0]

(* A routingTable and the pipelines in it.                                 *)
Table(map, hasDefault) == [map |-> map, hasDefault |-> hasDefault]
InTable(t) == Range(t.map)
EmptyTable == Table([p \in {} |-> NoPipe], FALSE)

(* lookup(project) in table t.                                             *)
Lookup(t, project) ==
  IF project = NoProject
  THEN IF t.hasDefault /\ ~RequireProject THEN t.map[Default] ELSE NoPipe
  ELSE IF project \in DOMAIN t.map THEN t.map[project] ELSE NoPipe

(* The keys map of install and reload: MESH0_API_KEY, overridden by the    *)
(* entries of the keys file.                                               *)
WithApiKey(fileKeys) ==
  [p \in DOMAIN fileKeys \cup (IF ApiKey # NoKey THEN {Default} ELSE {}) |->
     IF p \in DOMAIN fileKeys THEN fileKeys[p] ELSE ApiKey]

TooMany(count) == MaxProjects > 0 /\ count > MaxProjects

(* Mutant of KeysUnchanged: only the project names are compared.           *)
NamesUnchanged(t, keys) == DOMAIN t.map = DOMAIN keys

(* keysUnchanged(t, keys)                                                  *)
KeysUnchanged(t, keys) ==
  /\ DOMAIN t.map = DOMAIN keys
  /\ \A p \in DOMAIN keys : At(t.map[p]).key = keys[p]

(* buildTable(keys, prev) keeps a pipeline whose key is the same and names *)
(* a new one otherwise; Spawned are the projects that need a new one.      *)
Spawned(keys, prev) ==
  {p \in DOMAIN keys :
     p \notin DOMAIN prev.map \/ At(prev.map[p]).key # keys[p]}

BuildTable(keys, prev) ==
  Table([p \in DOMAIN keys |-> IF p \in Spawned(keys, prev)
                               THEN <<p, Len(pipes[p]) + 1>>
                               ELSE prev.map[p]],
        Default \in DOMAIN keys)

(* One more call of drain for each of the pipelines rs, each in its own    *)
(* goroutine that has yet to run.                                          *)
SpawnDrains(rs) ==
  pipes' = [p \in Projects |->
              [g \in DOMAIN pipes[p] |->
                 IF <<p, g>> \in rs
                 THEN [pipes[p][g] EXCEPT !.drains = @ + 1]
                 ELSE pipes[p][g]]]

SetStage(rs, stage) ==
  pipes' = [p \in Projects |->
              [g \in DOMAIN pipes[p] |->
                 IF <<p, g>> \in rs
                 THEN [pipes[p][g] EXCEPT !.stage = stage]
                 ELSE pipes[p][g]]]

Settle(id, outcome) == fate' = [fate EXCEPT ![id] = outcome]

(* The state install leaves behind for the given initial keys file.        *)
RoutingInit(fileKeys) ==
  LET keys == WithApiKey(fileKeys)
  IN /\ ~TooMany(Cardinality(DOMAIN keys))
     /\ cur = Table([p \in DOMAIN keys |-> <<p, 1>>], Default \in DOMAIN keys)
     /\ pipes = [p \in Projects |->
                   IF p \in DOMAIN keys
                   THEN <<[NewPipeline(keys[p], FALSE)
                             EXCEPT !.stage = "running"]>>
                   ELSE <<>>]
     /\ sharedQ = <<>>
     /\ sharedClosed = FALSE
     /\ inlineMu = "free"
     /\ fate = [d \in 1 .. MaxDatagrams |-> "unsent"]
     /\ home = [d \in 1 .. MaxDatagrams |-> NoPipe]
     /\ ctxDone = FALSE
     /\ panicked = FALSE
=============================================================================
