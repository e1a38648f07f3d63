--------------------------- MODULE RegistryProofs ---------------------------
(***************************************************************************)
(* The routing tables, for all values of the constants: types, the project *)
(* budget and the fallback route.                                          *)
(*                                                                         *)
(* A published table is computed from one loaded earlier, so none of this  *)
(* is inductive for cur alone.  The inductive invariant says of every      *)
(* table under construction (registerInline's, reload's, expireInline's)   *)
(* what it says of cur; and that the pipelines a table names, once made,   *)
(* keep their project, credential and kind (Evolves).                      *)
(***************************************************************************)
EXTENDS Registry, FiniteSetTheorems, SequenceTheorems, TLAPS

(* The credentials there are.                                              *)
Keys == {NoKey, ApiKey} \cup UNION {Range(f.entries) : f \in KeysFiles}

(* What a pipeline, a datagram and a fate can be.                          *)
Stages == {"fresh", "running", "closed", "drained"}
Pipelines == [key : Keys, inline : BOOLEAN, stage : Stages, idle : BOOLEAN,
              drains : Nat]
Datagrams == [id : 0 .. MaxDatagrams, project : Projects \cup {NoProject},
              token : BOOLEAN]
Fates == Drops \cup {"unsent", "dispatching", "queued", "demuxing", "handed"}

PipesOK == pipes \in [Projects -> Seq(Pipelines)]

(* The types of what the goroutines share.                                 *)
SharedOK ==
  /\ sharedQ \in Seq(Datagrams)
  /\ Len(sharedQ) <= QueueSize
  /\ inlineMu \in {"free", "dispatch", "expiry"}
  /\ fate \in [1 .. MaxDatagrams -> Fates]
  /\ received \in 0 .. MaxDatagrams
  /\ ldg \in Datagrams
  /\ xdg \in Datagrams
  /\ mpc \in {"run", "stopping", "demux", "wait", "done"}
  /\ keysFile \in KeysFiles

(* Table t, whose pipelines are among ps: project p is routed to one of    *)
(* p's own pipelines, and the fallback is MESH0_API_KEY's first pipeline.  *)
TableOK(t, ps) ==
  /\ DOMAIN t.map \subseteq Projects
  /\ IsFiniteSet(DOMAIN t.map)
  /\ \A p \in DOMAIN t.map : \E g \in DOMAIN ps[p] : t.map[p] = <<p, g>>
  /\ t.hasDefault = (ApiKey # NoKey)
  /\ ApiKey # NoKey => Default \in DOMAIN t.map /\ t.map[Default] = <<Default, 1>>

(* A count, and a table, within MESH0_MAX_PROJECTS.                        *)
Within(count) == MaxProjects > 0 => count <= MaxProjects
Budget(t) == Within(Cardinality(DOMAIN t.map))

(* The keys reload has read are fit for a table.                           *)
KeysOK(keys) ==
  /\ DOMAIN keys \subseteq Projects
  /\ IsFiniteSet(DOMAIN keys)
  /\ \A p \in DOMAIN keys : keys[p] \in Keys
  /\ Within(Cardinality(DOMAIN keys))
  /\ Default \in DOMAIN keys <=> ApiKey # NoKey
  /\ ApiKey # NoKey => keys[Default] = ApiKey

(* The first pipeline of Default, when there is a MESH0_API_KEY, has it.   *)
FallbackOK ==
  ApiKey # NoKey => /\ 1 \in DOMAIN pipes[Default]
                    /\ pipes[Default][1].key = ApiKey
                    /\ ~pipes[Default][1].inline

(* The tables that are published or will be.                               *)
TablesOK ==
  /\ TableOK(cur, pipes) /\ Budget(cur)
  /\ lpc = "register_store" => /\ TableOK(lprev, pipes)
                               /\ Within(Cardinality(DOMAIN lprev.map) + 1)
  /\ rpc = "build" => KeysOK(newKeys)
  /\ rpc \in {"start", "store"} => TableOK(rtbl, pipes) /\ Budget(rtbl)
  /\ epc = "store" => TableOK(enext, pipes) /\ Budget(enext)

(* r is a pipeline among ps.                                               *)
IsPipe(r, ps) == \E p \in Projects : \E g \in DOMAIN ps[p] : r = <<p, g>>

(* The pipelines goroutines hold; only projects without a route and never  *)
(* the fallback are registered.                                            *)
HoldersOK ==
  /\ lpc \in {"register", "register_load", "register_store"} =>
       ldg.project \in Projects /\ (ApiKey # NoKey => ldg.project # Default)
  /\ lpc = "register_store" =>
       \E g \in DOMAIN pipes[ldg.project] : lp = <<ldg.project, g>>
  /\ lpc \in {"check", "enqueue"} => IsPipe(lp, pipes)
  /\ xpc = "send" => IsPipe(xp, pipes)
  /\ \A d \in 1 .. MaxDatagrams : home[d] = NoPipe \/ IsPipe(home[d], pipes)
  /\ home = [d \in 1 .. MaxDatagrams |-> home[d]]

(* The inductive invariant of the tables.                                  *)
TableInv == PipesOK /\ SharedOK /\ FallbackOK /\ TablesOK /\ HoldersOK

(* Pipelines are added, never removed, and keep credential and kind.       *)
Grown(ps, qs) ==
  \A p \in Projects : \A g \in DOMAIN ps[p] :
    /\ g \in DOMAIN qs[p]
    /\ qs[p][g].key = ps[p][g].key
    /\ qs[p][g].inline = ps[p][g].inline

(* What every step does to the pipelines.                                  *)
Evolves == PipesOK' /\ Grown(pipes, pipes')
-----------------------------------------------------------------------------
(* A pipeline is a record of its own.                                      *)
LEMMA PipelineType ==
  ASSUME NEW ps \in [Projects -> Seq(Pipelines)], NEW p \in Projects,
         NEW g \in DOMAIN ps[p]
  PROVE  /\ DOMAIN ps[p] = 1 .. Len(ps[p])
         /\ Len(ps[p]) \in Nat
         /\ ps[p][g] \in Pipelines
OBVIOUS

(* newPipeline makes a pipeline.                                           *)
LEMMA NewPipelineType ==
  ASSUME NEW key \in Keys, NEW inline \in BOOLEAN, NEW stage \in Stages
  PROVE  /\ NewPipeline(key, inline) \in Pipelines
         /\ [NewPipeline(key, inline) EXCEPT !.stage = stage] \in Pipelines
BY DEF NewPipeline, Pipelines, Stages

(* A drain that closes a pipeline.                                         *)
LEMMA ClosedType ==
  ASSUME NEW p \in Pipelines, p.drains > 0
  PROVE  /\ Closed(p) \in Pipelines
         /\ Closed(p).key = p.key /\ Closed(p).inline = p.inline
         /\ Closed(p).stage = "closed" /\ Closed(p).drains = p.drains - 1
<1>1. p.drains \in Nat /\ p.drains - 1 \in Nat
  BY DEF Pipelines
<1>2. \A y : y = [p EXCEPT !.stage = "closed", !.drains = @ - 1]
        => y \in Pipelines /\ y.key = p.key /\ y.inline = p.inline
           /\ y.stage = "closed" /\ y.drains = p.drains - 1
  <2> SUFFICES ASSUME NEW y, y = [p EXCEPT !.stage = "closed", !.drains = @ - 1]
               PROVE  y \in Pipelines /\ y.key = p.key /\ y.inline = p.inline
                      /\ y.stage = "closed" /\ y.drains = p.drains - 1
    OBVIOUS
  <2> QED BY <1>1 DEF Pipelines, Stages
<1> QED BY <1>2 DEF Closed

(* A change of one pipeline other than of its credential and kind.         *)
LEMMA ChangeOne ==
  ASSUME NEW ps \in [Projects -> Seq(Pipelines)], NEW p \in Projects,
         NEW g \in DOMAIN ps[p], NEW x \in Pipelines,
         x.key = ps[p][g].key, x.inline = ps[p][g].inline
  PROVE  /\ [ps EXCEPT ![p][g] = x] \in [Projects -> Seq(Pipelines)]
         /\ Grown(ps, [ps EXCEPT ![p][g] = x])
<1> DEFINE s == [ps[p] EXCEPT ![g] = x]
           qs == [ps EXCEPT ![p] = s]
<1>1. s \in Seq(Pipelines) /\ DOMAIN s = DOMAIN ps[p]
      /\ \A h \in DOMAIN s : s[h] = IF h = g THEN x ELSE ps[p][h]
  BY ExceptSeq
<1> HIDE DEF s
<1>2. qs \in [Projects -> Seq(Pipelines)]
  BY <1>1
<1>3. Grown(ps, qs)
  BY <1>1 DEF Grown
<1> QED BY <1>2, <1>3 DEF s

(* A change of several pipelines at once.                                  *)
LEMMA ChangeSome ==
  ASSUME NEW ps \in [Projects -> Seq(Pipelines)], NEW qs,
         qs = [p \in Projects |-> [g \in DOMAIN ps[p] |-> qs[p][g]]],
         \A p \in Projects : \A g \in DOMAIN ps[p] :
           /\ qs[p][g] \in Pipelines
           /\ qs[p][g].key = ps[p][g].key
           /\ qs[p][g].inline = ps[p][g].inline
  PROVE  qs \in [Projects -> Seq(Pipelines)] /\ Grown(ps, qs)
<1>1. ASSUME NEW p \in Projects
      PROVE  qs[p] \in Seq(Pipelines) /\ DOMAIN qs[p] = DOMAIN ps[p]
  <2>1. qs[p] = [g \in 1 .. Len(ps[p]) |-> qs[p][g]] /\ Len(ps[p]) \in Nat
        /\ DOMAIN ps[p] = 1 .. Len(ps[p])
    OBVIOUS
  <2>2. \A g \in 1 .. Len(ps[p]) : qs[p][g] \in Pipelines
    BY <2>1
  <2> QED BY <2>1, <2>2
<1>2. qs \in [Projects -> Seq(Pipelines)]
  BY <1>1
<1>3. Grown(ps, qs)
  BY <1>1 DEF Grown
<1> QED BY <1>2, <1>3

(* New pipelines for some of the projects.                                 *)
LEMMA AddSome ==
  ASSUME NEW ps \in [Projects -> Seq(Pipelines)], NEW qs,
         NEW new, new \in [DOMAIN new -> Pipelines],
         qs = [p \in Projects |-> IF p \in DOMAIN new THEN Append(ps[p], new[p])
                                                      ELSE ps[p]]
  PROVE  qs \in [Projects -> Seq(Pipelines)] /\ Grown(ps, qs)
<1>1. ASSUME NEW p \in Projects
      PROVE  /\ qs[p] \in Seq(Pipelines)
             /\ DOMAIN ps[p] \subseteq DOMAIN qs[p]
             /\ \A g \in DOMAIN ps[p] : qs[p][g] = ps[p][g]
  <2>1. CASE p \in DOMAIN new
    <3>1. new[p] \in Pipelines /\ qs[p] = Append(ps[p], new[p])
      BY <2>1
    <3> QED BY <3>1, AppendProperties
  <2>2. CASE p \notin DOMAIN new
    BY <2>2
  <2> QED BY <2>1, <2>2
<1> QED BY <1>1 DEF Grown

(* What names pipelines keeps naming pipelines.                            *)
LEMMA TableKept ==
  ASSUME NEW t, NEW ps, NEW qs, TableOK(t, ps), Grown(ps, qs)
  PROVE  TableOK(t, qs)
BY DEF TableOK, Grown

(* A pipeline remains one.                                                 *)
LEMMA PipeKept ==
  ASSUME NEW r, NEW ps, NEW qs, IsPipe(r, ps), Grown(ps, qs)
  PROVE  IsPipe(r, qs)
BY DEF IsPipe, Grown

(* What lookup finds is a pipeline of the table; what it does not find has *)
(* no entry and is not the fallback.                                       *)
LEMMA LookupFinds ==
  ASSUME NEW t, NEW ps, TableOK(t, ps), NEW project \in Projects \cup {NoProject},
         Lookup(t, project) # NoPipe
  PROVE  IsPipe(Lookup(t, project), ps) /\ Lookup(t, project) \in InTable(t)
<1>1. CASE project = NoProject
  <2>1. t.hasDefault /\ Lookup(t, project) = t.map[Default]
    BY <1>1 DEF Lookup
  <2>2. Default \in DOMAIN t.map
    BY <2>1 DEF TableOK
  <2> QED BY <2>1, <2>2 DEF TableOK, IsPipe, InTable, Range
<1>2. CASE project # NoProject
  BY <1>2 DEF Lookup, TableOK, IsPipe, InTable, Range
<1> QED BY <1>1, <1>2

(* What lookup does not find may be registered: see HoldersOK.             *)
LEMMA LookupMisses ==
  ASSUME NEW t, NEW ps, TableOK(t, ps), NEW project \in Projects,
         Lookup(t, project) = NoPipe
  PROVE  project \notin DOMAIN t.map /\ (ApiKey # NoKey => project # Default)
<1>1. project # NoProject
  BY RoutingAssumption
<1>2. project \notin DOMAIN t.map
  <2> SUFFICES ASSUME project \in DOMAIN t.map PROVE FALSE
    OBVIOUS
  <2>1. PICK g \in DOMAIN ps[project] : t.map[project] = <<project, g>>
    BY DEF TableOK
  <2> QED BY <1>1, <2>1 DEF Lookup, NoPipe
<1> QED BY <1>2 DEF TableOK

(* The marking of pipelines rs by SpawnDrains and by SetStage.             *)
LEMMA SpawnDrainsEvolves ==
  ASSUME PipesOK, NEW rs, SpawnDrains(rs)
  PROVE  Evolves
<1> DEFINE mark(p, g) == IF <<p, g>> \in rs
                         THEN [pipes[p][g] EXCEPT !.drains = @ + 1]
                         ELSE pipes[p][g]
<1>1. pipes' = [p \in Projects |-> [g \in DOMAIN pipes[p] |-> mark(p, g)]]
  BY DEF SpawnDrains
<1>2. ASSUME NEW p \in Projects, NEW g \in DOMAIN pipes[p]
      PROVE  /\ mark(p, g) \in Pipelines
             /\ mark(p, g).key = pipes[p][g].key
             /\ mark(p, g).inline = pipes[p][g].inline
  <2>1. pipes[p][g] \in Pipelines
    BY PipelineType DEF PipesOK
  <2> QED BY <2>1 DEF Pipelines
<1> HIDE DEF mark
<1>3. \A p \in Projects : \A g \in DOMAIN pipes[p] : pipes'[p][g] = mark(p, g)
  BY <1>1
<1>4. pipes' = [p \in Projects |-> [g \in DOMAIN pipes[p] |-> pipes'[p][g]]]
  BY <1>1, <1>3
<1>5. \A p \in Projects : \A g \in DOMAIN pipes[p] :
        /\ pipes'[p][g] \in Pipelines
        /\ pipes'[p][g].key = pipes[p][g].key
        /\ pipes'[p][g].inline = pipes[p][g].inline
  BY <1>2, <1>3
<1> QED BY <1>4, <1>5, ChangeSome DEF PipesOK, Evolves

(* Starting pipelines keeps what they are.                                 *)
LEMMA SetStageEvolves ==
  ASSUME PipesOK, NEW rs, NEW stage \in Stages, SetStage(rs, stage)
  PROVE  Evolves
<1> DEFINE mark(p, g) == IF <<p, g>> \in rs
                         THEN [pipes[p][g] EXCEPT !.stage = stage]
                         ELSE pipes[p][g]
<1>1. pipes' = [p \in Projects |-> [g \in DOMAIN pipes[p] |-> mark(p, g)]]
  BY DEF SetStage
<1>2. ASSUME NEW p \in Projects, NEW g \in DOMAIN pipes[p]
      PROVE  /\ mark(p, g) \in Pipelines
             /\ mark(p, g).key = pipes[p][g].key
             /\ mark(p, g).inline = pipes[p][g].inline
  <2>1. pipes[p][g] \in Pipelines
    BY PipelineType DEF PipesOK
  <2> QED BY <2>1 DEF Pipelines
<1> HIDE DEF mark
<1>3. \A p \in Projects : \A g \in DOMAIN pipes[p] : pipes'[p][g] = mark(p, g)
  BY <1>1
<1>4. pipes' = [p \in Projects |-> [g \in DOMAIN pipes[p] |-> pipes'[p][g]]]
  BY <1>1, <1>3
<1>5. \A p \in Projects : \A g \in DOMAIN pipes[p] :
        /\ pipes'[p][g] \in Pipelines
        /\ pipes'[p][g].key = pipes[p][g].key
        /\ pipes'[p][g].inline = pipes[p][g].inline
  BY <1>2, <1>3
<1> QED BY <1>4, <1>5, ChangeSome DEF PipesOK, Evolves

(* A change of the one pipeline r.                                         *)
LEMMA ChangeEvolves ==
  ASSUME PipesOK, NEW r, IsPipe(r, pipes), NEW x \in Pipelines,
         x.key = At(r).key, x.inline = At(r).inline,
         pipes' = [pipes EXCEPT ![r[1]][r[2]] = x]
  PROVE  Evolves
<1>1. PICK p \in Projects : \E g \in DOMAIN pipes[p] : r = <<p, g>>
  BY DEF IsPipe
<1>2. PICK g \in DOMAIN pipes[p] : r = <<p, g>>
  BY <1>1
<1>3. At(r) = pipes[p][g] /\ pipes' = [pipes EXCEPT ![p][g] = x]
  BY <1>2 DEF At
<1>4. /\ [pipes EXCEPT ![p][g] = x] \in [Projects -> Seq(Pipelines)]
      /\ Grown(pipes, [pipes EXCEPT ![p][g] = x])
  <2>1. pipes \in [Projects -> Seq(Pipelines)]
    BY DEF PipesOK
  <2>2. x.key = pipes[p][g].key /\ x.inline = pipes[p][g].inline
    BY <1>3
  <2> QED BY <1>1, <1>2, <2>1, <2>2, ChangeOne
<1> QED BY <1>3, <1>4 DEF PipesOK, Evolves

(* So does leaving them alone.                                             *)
LEMMA SamePipes ==
  ASSUME PipesOK, UNCHANGED pipes
  PROVE  Evolves
BY DEF PipesOK, Evolves, Grown

(* A step that leaves the fallback, the tables or the holders alone keeps  *)
(* what is said of them, whatever it does to pipelines.                    *)
LEMMA FallbackKept ==
  ASSUME FallbackOK, Evolves
  PROVE  FallbackOK'
BY RoutingAssumption DEF FallbackOK, Evolves, Grown

(* The tables: none is stored, built or loaded.                            *)
LEMMA TablesKept ==
  ASSUME TablesOK, Evolves, UNCHANGED cur,
         lpc' = "register_store" => lpc = "register_store" /\ lprev' = lprev,
         rpc' = "build" => rpc = "build" /\ newKeys' = newKeys,
         rpc' \in {"start", "store"} => rpc \in {"start", "store"} /\ rtbl' = rtbl,
         epc' = "store" => epc = "store" /\ enext' = enext
  PROVE  TablesOK'
<1>1. Grown(pipes, pipes')
  BY DEF Evolves
<1>2. TableOK(cur', pipes') /\ Budget(cur')
  BY <1>1, TableKept DEF TablesOK
<1>3. lpc' = "register_store" => /\ TableOK(lprev', pipes')
                                 /\ Within(Cardinality(DOMAIN lprev'.map) + 1)
  BY <1>1, TableKept DEF TablesOK
<1>4. rpc' = "build" => KeysOK(newKeys')
  BY DEF TablesOK
<1>5. rpc' \in {"start", "store"} => TableOK(rtbl', pipes') /\ Budget(rtbl')
  BY <1>1, TableKept DEF TablesOK
<1>6. epc' = "store" => TableOK(enext', pipes') /\ Budget(enext')
  BY <1>1, TableKept DEF TablesOK
<1> QED BY <1>2, <1>3, <1>4, <1>5, <1>6 DEF TablesOK

(* Where dispatch is while it registers a project.                         *)
Registering == {"register", "register_load", "register_store"}

(* The holders: no project starts to be registered, and the pipelines a    *)
(* goroutine comes to hold exist.                                          *)
LEMMA HoldersKept ==
  ASSUME HoldersOK, Evolves, UNCHANGED home,
         lpc' \in Registering => lpc \in Registering /\ ldg' = ldg,
         lpc' = "register_store" => lpc = "register_store" /\ lp' = lp,
         lpc' \in {"check", "enqueue"} => IsPipe(lp', pipes),
         xpc' = "send" => IsPipe(xp', pipes)
  PROVE  HoldersOK'
<1>1. Grown(pipes, pipes')
  BY DEF Evolves
<1>2. lpc' \in Registering =>
        ldg'.project \in Projects /\ (ApiKey # NoKey => ldg'.project # Default)
  BY DEF HoldersOK, Registering
<1>3. lpc' = "register_store" =>
        \E g \in DOMAIN pipes'[ldg'.project] : lp' = <<ldg'.project, g>>
  BY <1>1 DEF HoldersOK, Registering, Grown
<1>4. /\ lpc' \in {"check", "enqueue"} => IsPipe(lp', pipes')
      /\ xpc' = "send" => IsPipe(xp', pipes')
  BY <1>1, PipeKept
<1>5. \A d \in 1 .. MaxDatagrams : home'[d] = NoPipe \/ IsPipe(home'[d], pipes')
  BY <1>1, PipeKept DEF HoldersOK
<1>6. home' = [d \in 1 .. MaxDatagrams |-> home'[d]]
  BY DEF HoldersOK
<1> QED BY <1>2, <1>3, <1>4, <1>5, <1>6 DEF HoldersOK, Registering

(* Accounting a datagram keeps the type of fate.                           *)
LEMMA SettleType ==
  ASSUME fate \in [1 .. MaxDatagrams -> Fates], NEW d, NEW o \in Fates, Settle(d, o)
  PROVE  fate' \in [1 .. MaxDatagrams -> Fates]
BY DEF Settle

(* The value of ldg and xdg before the first datagram.                     *)
LEMMA NoDatagramType == NoDatagram \in Datagrams
BY RoutingAssumption DEF NoDatagram, Datagrams

(* The listener's steps keep the invariant.                                *)
LEMMA DispatchingStep ==
  ASSUME TableInv, Dispatching
  PROVE  TableInv' /\ Evolves
<1> USE DEF TableInv
<1>0. UNCHANGED <<keysFile, edits, rpc, newKeys, rprev, rtbl, epc, enext, retired, mpc>>
  BY DEF Dispatching, reloadVars
<1>a. ldg.project \in Projects \cup {NoProject} /\ ldg.token \in BOOLEAN
  BY DEF SharedOK, Datagrams
<1>1. CASE \E w \in Payloads : Receive(w)
  <2>1. PICK w \in Payloads : Receive(w)
    BY <1>1
  <2>2. Evolves
    BY <2>1, SamePipes DEF Receive
  <2>3. received' \in 1 .. MaxDatagrams
    BY <2>1, RoutingAssumption DEF Receive, SharedOK
  <2>4. fate' \in [1 .. MaxDatagrams -> Fates]
    <3>1. EarlyDrop(w) \in Fates \cup {"none"} /\ "dispatching" \in Fates
      BY DEF EarlyDrop, Fates, Drops
    <3> QED BY <2>1, <3>1, SettleType DEF Receive, SharedOK
  <2>5. ldg' \in Datagrams
    <3>1. w.project \in Projects \cup {NoProject} /\ w.token \in BOOLEAN
      BY <2>1, DispatchAssumption
    <3>2. [id |-> received', project |-> w.project, token |-> InlineTokens /\ w.token]
            \in Datagrams
      BY <2>3, <3>1, RoutingAssumption DEF Datagrams
    <3> QED BY <2>1, <3>2 DEF Receive, SharedOK
  <2>6. SharedOK'
    BY <1>0, <2>1, <2>3, <2>4, <2>5 DEF Receive, SharedOK
  <2>7. TablesOK'
    BY <1>0, <2>1, <2>2, TablesKept DEF Receive
  <2>8. HoldersOK'
    <3>1. lpc' \in {"read", "lookup"} /\ lp' = lp /\ home' = home /\ xpc' = xpc /\ xp' = xp
      BY <2>1 DEF Receive
    <3>2. lpc' \notin Registering
      BY <3>1 DEF Registering
    <3> QED BY <2>2, <3>1, <3>2, HoldersKept DEF HoldersOK
  <2> QED BY <2>2, <2>6, <2>7, <2>8, FallbackKept DEF Evolves
<1>2. CASE DispatchLookup
  <2>1. Evolves
    BY <1>2, SamePipes DEF DispatchLookup
  <2>2. SharedOK'
    <3>1. Unrouted(ldg.project) \in Fates
      BY DEF Unrouted, Fates, Drops
    <3>2. fate' \in [1 .. MaxDatagrams -> Fates] /\ ldg' \in Datagrams
      BY <1>2, <3>1, SettleType, NoDatagramType DEF DispatchLookup, Return, SharedOK
    <3> QED BY <1>0, <1>2, <3>2 DEF DispatchLookup, SharedOK
  <2>3. TablesOK'
    <3>1. lpc' \in {"check", "register", "read"}
      BY <1>2 DEF DispatchLookup, Return
    <3> QED BY <1>0, <1>2, <2>1, <3>1, TablesKept DEF DispatchLookup
  <2>4. HoldersOK'
    <3>1. CASE lpc' = "register"
      <4>1. ldg' = ldg /\ ldg.project # NoProject /\ Lookup(cur, ldg.project) = NoPipe
        BY <1>2, <3>1 DEF DispatchLookup, Return
      <4>2. ldg.project \in Projects
        BY <1>a, <4>1
      <4>3. ApiKey # NoKey => ldg.project # Default
        BY <4>1, <4>2, LookupMisses DEF TablesOK
      <4> QED BY <1>2, <3>1, <4>1, <4>2, <4>3 DEF DispatchLookup, HoldersOK
    <3>2. CASE lpc' # "register"
      <4>1. lpc' \in {"check", "read"}
        BY <1>2, <3>2 DEF DispatchLookup, Return
      <4>2. lpc' = "check" => IsPipe(lp', pipes)
        BY <1>a, <1>2, LookupFinds DEF DispatchLookup, Return, TablesOK
      <4>3. lpc' \notin Registering
        BY <4>1 DEF Registering
      <4>4. UNCHANGED <<home, xpc, xp>>
        BY <1>2 DEF DispatchLookup
      <4> QED BY <2>1, <4>1, <4>2, <4>3, <4>4, HoldersKept DEF HoldersOK
    <3> QED BY <3>1, <3>2
  <2> QED BY <2>1, <2>2, <2>3, <2>4, FallbackKept DEF Evolves
<1>3. CASE RegisterRecheck
  <2>1. Evolves
    BY <1>3, SamePipes DEF RegisterRecheck
  <2>2. SharedOK'
    BY <1>0, <1>3 DEF RegisterRecheck, SharedOK
  <2>3. lpc' \in {"check", "register_load"} /\ lpc = "register"
    BY <1>3 DEF RegisterRecheck
  <2>4. TablesOK'
    BY <1>0, <1>3, <2>1, <2>3, TablesKept DEF RegisterRecheck
  <2>5. HoldersOK'
    <3>1. lpc' = "check" => IsPipe(lp', pipes)
      BY <1>a, <1>3, LookupFinds DEF RegisterRecheck, TablesOK
    <3>2. lpc \in Registering /\ UNCHANGED <<home, xpc, xp, ldg>>
      BY <1>3, <2>3 DEF RegisterRecheck, Registering
    <3> QED BY <2>1, <2>3, <3>1, <3>2, HoldersKept DEF HoldersOK
  <2> QED BY <2>1, <2>2, <2>4, <2>5, FallbackKept DEF Evolves
<1>4. CASE RegisterLoad
  <2> DEFINE q == ldg.project
             x == [NewPipeline(NoKey, TRUE) EXCEPT !.stage = "running"]
  <2>0. q \in Projects /\ (ApiKey # NoKey => q # Default) /\ lpc = "register_load"
    BY <1>4 DEF RegisterLoad, HoldersOK
  <2>1. CASE pipes' = pipes /\ Return("unrouted_unknown") /\ inlineMu' = "free"
    <3>1. Evolves
      BY <2>1, SamePipes
    <3>2. "unrouted_unknown" \in Fates
      BY DEF Fates, Drops
    <3>3. fate' \in [1 .. MaxDatagrams -> Fates] /\ ldg' \in Datagrams /\ lpc' = "read"
      BY <2>1, <3>2, SettleType, NoDatagramType DEF Return, SharedOK
    <3>4. SharedOK'
      BY <1>0, <1>4, <2>1, <3>3 DEF RegisterLoad, SharedOK
    <3>5. TablesOK'
      BY <1>0, <1>4, <3>1, <3>3, TablesKept DEF RegisterLoad
    <3>6. HoldersOK'
      <4>1. lpc' \notin Registering /\ UNCHANGED <<home, xpc, xp>>
        BY <1>4, <3>3 DEF RegisterLoad, Registering
      <4> QED BY <3>1, <3>3, <4>1, HoldersKept DEF HoldersOK
    <3> QED BY <3>1, <3>4, <3>5, <3>6, FallbackKept DEF Evolves
  <2>2. CASE /\ ~(MaxProjects > 0 /\ Cardinality(DOMAIN cur.map) >= MaxProjects)
             /\ lprev' = cur
             /\ lp' = <<q, Len(pipes[q]) + 1>>
             /\ pipes' = [pipes EXCEPT ![q] = Append(@, x)]
             /\ lpc' = "register_store"
             /\ UNCHANGED <<fate, ldg, inlineMu>>
    <3>1. x \in Pipelines
      BY NewPipelineType DEF Keys, Stages
    <3> HIDE DEF x
    <3>2. Evolves
      <4> DEFINE new == [p \in {q} |-> x]
      <4>1. new \in [DOMAIN new -> Pipelines] /\ DOMAIN new = {q} /\ new[q] = x
        BY <3>1
      <4>2. pipes' = [p \in Projects |-> IF p \in DOMAIN new THEN Append(pipes[p], new[p])
                                                             ELSE pipes[p]]
        BY <2>0, <2>2, <4>1 DEF PipesOK
      <4> HIDE DEF new
      <4>3. pipes \in [Projects -> Seq(Pipelines)]
        BY DEF PipesOK
      <4> QED BY <4>1, <4>2, <4>3, AddSome DEF PipesOK, Evolves
    <3>3. SharedOK'
      BY <1>0, <1>4, <2>2 DEF RegisterLoad, SharedOK
    <3>4. Grown(pipes, pipes')
      BY <3>2 DEF Evolves
    <3>5. TablesOK'
      <4>1. TableOK(cur, pipes') /\ Budget(cur)
        BY <3>4, TableKept DEF TablesOK
      <4>2. Within(Cardinality(DOMAIN cur.map) + 1)
        <5>1. Cardinality(DOMAIN cur.map) \in Nat
          BY FS_CardinalityType DEF TablesOK, TableOK
        <5> QED BY <2>2, <5>1, RoutingAssumption DEF Within
      <4>3. rpc' \in {"start", "store"} => TableOK(rtbl', pipes') /\ Budget(rtbl')
        BY <1>0, <3>4, TableKept DEF TablesOK
      <4>4. epc' = "store" => TableOK(enext', pipes') /\ Budget(enext')
        BY <1>0, <3>4, TableKept DEF TablesOK
      <4>5. cur' = cur
        BY <1>4 DEF RegisterLoad
      <4> QED BY <1>0, <2>2, <4>1, <4>2, <4>3, <4>4, <4>5 DEF TablesOK
    <3>6. HoldersOK'
      <4>1. Len(pipes[q]) + 1 \in DOMAIN pipes'[q]
        <5>1. pipes[q] \in Seq(Pipelines) /\ pipes'[q] = Append(pipes[q], x)
          BY <2>0, <2>2 DEF PipesOK
        <5> QED BY <3>1, <5>1, AppendProperties
      <4>2. UNCHANGED <<home, xpc, xp>>
        BY <1>4 DEF RegisterLoad
      <4>3. \A d \in 1 .. MaxDatagrams : home'[d] = NoPipe \/ IsPipe(home'[d], pipes')
        BY <3>4, <4>2, PipeKept DEF HoldersOK
      <4>4. xpc' = "send" => IsPipe(xp', pipes')
        BY <3>4, <4>2, PipeKept DEF HoldersOK
      <4> QED BY <2>0, <2>2, <4>1, <4>2, <4>3, <4>4 DEF HoldersOK
    <3> QED BY <3>2, <3>3, <3>5, <3>6, FallbackKept DEF Evolves
  <2> QED BY <1>4, <2>1, <2>2 DEF RegisterLoad
<1>5. CASE RegisterStore
  <2> DEFINE q == ldg.project
  <2>0. /\ q \in Projects /\ (ApiKey # NoKey => q # Default)
        /\ lpc = "register_store" /\ lpc' = "check"
        /\ UNCHANGED <<ldg, lp, home, xpc, xp, pipes>>
    BY <1>5 DEF RegisterStore, HoldersOK
  <2>1. Evolves
    BY <2>0, SamePipes
  <2>2. SharedOK'
    BY <1>0, <1>5 DEF RegisterStore, SharedOK
  <2>3. PICK g \in DOMAIN pipes[q] : lp = <<q, g>>
    BY <2>0 DEF HoldersOK
  <2>4. TableOK(lprev, pipes) /\ Within(Cardinality(DOMAIN lprev.map) + 1)
    BY <2>0 DEF TablesOK
  <2>5. /\ DOMAIN cur'.map = DOMAIN lprev.map \cup {q}
        /\ cur'.hasDefault = lprev.hasDefault
        /\ \A p \in DOMAIN cur'.map : cur'.map[p] = IF p = q THEN lp ELSE lprev.map[p]
    BY <1>5 DEF RegisterStore, Table
  <2>6. TableOK(cur', pipes)
    <3>1. IsFiniteSet(DOMAIN cur'.map)
      BY <2>4, <2>5, FS_AddElement DEF TableOK
    <3>2. ASSUME NEW p \in DOMAIN cur'.map
          PROVE  \E h \in DOMAIN pipes[p] : cur'.map[p] = <<p, h>>
      BY <2>3, <2>4, <2>5 DEF TableOK
    <3> QED BY <2>0, <2>4, <2>5, <3>1, <3>2 DEF TableOK
  <2>7. Budget(cur')
    <3>1. IsFiniteSet(DOMAIN lprev.map)
      BY <2>4 DEF TableOK
    <3>2. Cardinality(DOMAIN lprev.map) \in Nat
      BY <3>1, FS_CardinalityType
    <3>3. Cardinality(DOMAIN lprev.map \cup {q})
            \in {Cardinality(DOMAIN lprev.map), Cardinality(DOMAIN lprev.map) + 1}
      BY <3>1, FS_AddElement
    <3> QED BY <2>4, <2>5, <3>2, <3>3, RoutingAssumption DEF Budget, Within
  <2>8. TablesOK'
    BY <1>0, <2>0, <2>6, <2>7 DEF TablesOK
  <2>9. HoldersOK'
    <3>1. IsPipe(lp', pipes) /\ lpc' \notin Registering
      BY <2>0, <2>3 DEF IsPipe, Registering
    <3> QED BY <2>0, <2>1, <3>1, HoldersKept DEF HoldersOK
  <2> QED BY <2>1, <2>2, <2>8, <2>9, FallbackKept DEF Evolves
<1>6. CASE DispatchCheck
  <2>0. IsPipe(lp, pipes) /\ UNCHANGED <<cur, lprev, home, xpc, xp>>
    BY <1>6 DEF DispatchCheck, HoldersOK
  <2>1. Evolves
    <3>1. CASE UNCHANGED pipes
      BY <3>1, SamePipes
    <3>2. CASE pipes' = [pipes EXCEPT ![lp[1]][lp[2]].idle = FALSE]
      <4>1. PICK p \in Projects : \E g \in DOMAIN pipes[p] : lp = <<p, g>>
        BY <2>0 DEF IsPipe
      <4>2. PICK g \in DOMAIN pipes[p] : lp = <<p, g>>
        BY <4>1
      <4> DEFINE x == [pipes[p][g] EXCEPT !.idle = FALSE]
      <4>3. x \in Pipelines /\ x.key = At(lp).key /\ x.inline = At(lp).inline
        <5>1. pipes[p][g] \in Pipelines /\ At(lp) = pipes[p][g]
          BY <4>1, <4>2, PipelineType DEF PipesOK, At
        <5> QED BY <5>1 DEF Pipelines
      <4>4. pipes' = [pipes EXCEPT ![lp[1]][lp[2]] = x]
        BY <3>2, <4>1, <4>2
      <4> HIDE DEF x
      <4> QED BY <2>0, <4>3, <4>4, ChangeEvolves
    <3> QED BY <1>6, <3>1, <3>2 DEF DispatchCheck
  <2>2. /\ fate' \in [1 .. MaxDatagrams -> Fates] /\ ldg' \in Datagrams
        /\ \/ lpc' = "read"
           \/ lpc' = "enqueue" /\ lp' = lp
    <3>1. {"missing_token", "routing_closed"} \subseteq Fates
      BY DEF Fates, Drops
    <3> QED BY <1>6, <3>1, SettleType, NoDatagramType DEF DispatchCheck, Return, SharedOK
  <2>3. SharedOK'
    BY <1>0, <1>6, <2>2 DEF DispatchCheck, SharedOK
  <2>4. TablesOK'
    BY <1>0, <2>0, <2>1, <2>2, TablesKept
  <2>5. HoldersOK'
    <3>1. lpc' \notin Registering
      BY <2>2 DEF Registering
    <3> QED BY <2>0, <2>1, <2>2, <3>1, HoldersKept DEF HoldersOK
  <2> QED BY <2>1, <2>3, <2>4, <2>5, FallbackKept DEF Evolves
<1>7. CASE DispatchEnqueue
  <2>0. lpc' = "read" /\ UNCHANGED <<cur, pipes, lprev, home, xpc, xp>>
    BY <1>7 DEF DispatchEnqueue, Return
  <2>1. Evolves
    BY <2>0, SamePipes
  <2>2. fate' \in [1 .. MaxDatagrams -> Fates] /\ ldg' \in Datagrams
    <3>1. {"routing_closed", "queued", "queue_full"} \subseteq Fates
      BY DEF Fates, Drops
    <3> QED BY <1>7, <3>1, SettleType, NoDatagramType DEF DispatchEnqueue, Return, SharedOK
  <2>3. sharedQ' \in Seq(Datagrams) /\ Len(sharedQ') <= QueueSize
    BY <1>7, RoutingAssumption DEF DispatchEnqueue, SharedOK
  <2>4. SharedOK'
    BY <1>0, <1>7, <2>2, <2>3 DEF DispatchEnqueue, SharedOK
  <2>5. TablesOK'
    BY <1>0, <2>0, <2>1, TablesKept
  <2>6. HoldersOK'
    <3>1. lpc' \notin Registering
      BY <2>0 DEF Registering
    <3> QED BY <2>0, <2>1, <3>1, HoldersKept DEF HoldersOK
  <2> QED BY <2>1, <2>4, <2>5, <2>6, FallbackKept DEF Evolves
<1>8. CASE Listening
  <2>0. /\ lpc' \in {"read", "stopped", "backoff"}
        /\ UNCHANGED <<routingVars, received, ldg, lp, lprev, xpc, xdg, xp>>
    BY <1>8 DEF Listening, ListenerBinds, ListenerFails, ListenerStops, ReadFails,
                ReadResumes, ListenerMoves
  <2>1. Evolves
    BY <2>0, SamePipes DEF routingVars
  <2>2. SharedOK'
    BY <1>0, <2>0 DEF routingVars, SharedOK
  <2>3. TablesOK'
    BY <1>0, <2>0, <2>1, TablesKept DEF routingVars
  <2>4. HoldersOK'
    <3>1. lpc' \notin Registering /\ UNCHANGED home
      BY <2>0 DEF Registering, routingVars
    <3> QED BY <2>0, <2>1, <3>1, HoldersKept DEF HoldersOK
  <2> QED BY <2>1, <2>2, <2>3, <2>4, FallbackKept DEF Evolves
<1> QED
  BY <1>1, <1>2, <1>3, <1>4, <1>5, <1>6, <1>7, <1>8 DEF Dispatching, DispatchRun

(* The demuxer's steps keep the invariant.                                 *)
LEMMA DemuxingStep ==
  ASSUME TableInv, Demuxing
  PROVE  TableInv' /\ Evolves
<1> USE DEF TableInv
<1>0. /\ UNCHANGED <<keysFile, rpc, newKeys, rtbl, epc, enext, mpc>>
      /\ UNCHANGED <<cur, pipes, inlineMu, received, lpc, ldg, lp, lprev>>
  BY DEF Demuxing, reloadVars, DemuxRun, DemuxReceive, DemuxLookup, DemuxSend, DemuxExit, routingVars
<1>1. Evolves
  BY <1>0, SamePipes
<1>2. TablesOK'
  BY <1>0, <1>1, TablesKept
<1>3. {"routing_closed", "demuxing", "handed", "queue_full"} \subseteq Fates
  BY DEF Fates, Drops
<1>4. CASE DemuxReceive
  <2>1. Head(sharedQ) \in Datagrams /\ sharedQ' \in Seq(Datagrams) /\ Len(sharedQ') <= QueueSize
    BY <1>4, RoutingAssumption DEF DemuxReceive, SharedOK
  <2>2. fate' \in [1 .. MaxDatagrams -> Fates] /\ xdg' \in Datagrams
    BY <1>3, <1>4, <2>1, SettleType DEF DemuxReceive, SharedOK
  <2>3. SharedOK'
    BY <1>0, <2>1, <2>2 DEF SharedOK
  <2>4. HoldersOK'
    BY <1>0, <1>1, <1>4, HoldersKept DEF DemuxReceive, HoldersOK
  <2> QED BY <1>1, <1>2, <2>3, <2>4, FallbackKept DEF Evolves
<1>7. CASE DemuxLookup
  <2>1. fate' \in [1 .. MaxDatagrams -> Fates] /\ xdg' \in Datagrams
    BY <1>3, <1>7, SettleType, NoDatagramType DEF DemuxLookup, SharedOK
  <2>2. SharedOK'
    BY <1>0, <1>7, <2>1 DEF DemuxLookup, SharedOK
  <2>3. xpc' = "send" => IsPipe(xp', pipes)
    <3>1. xdg.project \in Projects \cup {NoProject}
      BY DEF Datagrams, SharedOK
    <3> QED BY <1>7, <3>1, LookupFinds DEF DemuxLookup, TablesOK
  <2>4. HoldersOK'
    BY <1>0, <1>1, <1>7, <2>3, HoldersKept DEF DemuxLookup, HoldersOK
  <2> QED BY <1>1, <1>2, <2>2, <2>4, FallbackKept DEF Evolves
<1>5. CASE DemuxSend
  <2>1. fate' \in [1 .. MaxDatagrams -> Fates] /\ xdg' \in Datagrams
    BY <1>3, <1>5, SettleType, NoDatagramType DEF DemuxSend, SharedOK
  <2>2. SharedOK'
    BY <1>0, <1>5, <2>1 DEF DemuxSend, SharedOK
  <2>3. HoldersOK'
    <3>1. IsPipe(xp, pipes) /\ xpc' = "recv"
      BY <1>5 DEF DemuxSend, HoldersOK
    <3>2. home' = home \/ home' = [home EXCEPT ![xdg.id] = xp]
      BY <1>5 DEF DemuxSend
    <3>3. \A d \in 1 .. MaxDatagrams : home'[d] = NoPipe \/ IsPipe(home'[d], pipes)
      BY <3>1, <3>2 DEF HoldersOK
    <3>4. home' = [d \in 1 .. MaxDatagrams |-> home'[d]]
      BY <3>2 DEF HoldersOK
    <3> QED BY <1>0, <3>1, <3>3, <3>4 DEF HoldersOK
  <2> QED BY <1>1, <1>2, <2>2, <2>3, FallbackKept DEF Evolves
<1>6. CASE DemuxExit
  <2>1. xpc' = "done" /\ UNCHANGED <<sharedQ, fate, home, xdg, xp>>
    BY <1>6 DEF DemuxExit, routingVars
  <2>2. SharedOK'
    BY <1>0, <2>1 DEF SharedOK
  <2>3. HoldersOK'
    BY <1>0, <1>1, <2>1, HoldersKept DEF HoldersOK
  <2> QED BY <1>1, <1>2, <2>2, <2>3, FallbackKept DEF Evolves
<1> QED BY <1>4, <1>5, <1>6, <1>7 DEF Demuxing, DemuxRun

(* A step that leaves listener and demuxer alone.                          *)
LEMMA DispatchKept ==
  ASSUME SharedOK, HoldersOK, Evolves, UNCHANGED <<home, fate, sharedQ, dispatchVars>>,
         inlineMu' \in {"free", "dispatch", "expiry"},
         mpc' \in {"run", "stopping", "demux", "wait", "done"},
         keysFile' \in KeysFiles
  PROVE  SharedOK' /\ HoldersOK'
<1>0. UNCHANGED <<received, lpc, ldg, lp, lprev, xpc, xdg, xp>>
  BY DEF dispatchVars
<1>1. SharedOK'
  BY <1>0 DEF SharedOK
<1>2. HoldersOK'
  BY <1>0, HoldersKept DEF HoldersOK
<1> QED BY <1>1, <1>2

(* What a file that loads holds, with MESH0_API_KEY, is fit for a table    *)
(* when it is within the budget; so are the keys without a keys file.      *)
LEMMA LoadedKeys ==
  ASSUME NEW f \in KeysFiles, NEW keys,
         (keys = LoadKeysFile(f) /\ keys # Unreadable) \/ keys = NoKeys,
         ~TooMany(Cardinality(DOMAIN WithApiKey(keys)))
  PROVE  KeysOK(WithApiKey(keys))
<1> DEFINE fallback == IF ApiKey # NoKey THEN {Default} ELSE {}
<1>1. /\ DOMAIN keys \subseteq Projects \ {Default}
      /\ IsFiniteSet(DOMAIN keys)
      /\ \A p \in DOMAIN keys : keys[p] \in Keys
  <2>1. CASE keys = NoKeys
    BY <2>1, FS_EmptySet DEF NoKeys
  <2>2. CASE keys = LoadKeysFile(f) /\ keys # Unreadable
    <3>1. keys = f.entries /\ ValidEntries(f.entries)
      BY <2>2 DEF LoadKeysFile
    <3> QED BY <3>1, ReloadAssumption DEF ValidEntries, Keys, Range
  <2> QED BY <2>1, <2>2
<1>2. IsFiniteSet(DOMAIN keys \cup fallback)
  BY <1>1, FS_AddElement
<1>3. /\ DOMAIN WithApiKey(keys) = DOMAIN keys \cup fallback
      /\ \A p \in DOMAIN keys \cup fallback :
           WithApiKey(keys)[p] = IF p \in DOMAIN keys THEN keys[p] ELSE ApiKey
  BY DEF WithApiKey
<1>4. Cardinality(DOMAIN keys \cup fallback) \in Nat
  BY <1>2, FS_CardinalityType
<1>5. Within(Cardinality(DOMAIN WithApiKey(keys)))
  BY <1>3, <1>4, RoutingAssumption DEF TooMany, Within
<1>6. \A p \in DOMAIN WithApiKey(keys) : WithApiKey(keys)[p] \in Keys
  BY <1>1, <1>3 DEF Keys
<1> QED BY <1>1, <1>2, <1>3, <1>5, <1>6, RoutingAssumption DEF KeysOK

(* buildTable: the new table and its new pipelines.                        *)
LEMMA BuildStep ==
  ASSUME TableInv, rpc = "build",
         rtbl' = BuildTable(newKeys, cur),
         pipes' = [p \in Projects |->
                     IF p \in Spawned(newKeys, cur)
                     THEN Append(pipes[p], NewPipeline(newKeys[p], FALSE))
                     ELSE pipes[p]]
  PROVE  Evolves /\ TableOK(rtbl', pipes') /\ Budget(rtbl')
<1> USE DEF TableInv
<1> DEFINE S == Spawned(newKeys, cur)
           new == [p \in S |-> NewPipeline(newKeys[p], FALSE)]
<1>1. KeysOK(newKeys) /\ TableOK(cur, pipes)
  BY DEF TablesOK
<1>2. S \subseteq DOMAIN newKeys
  BY DEF Spawned
<1>3. \A p \in S : NewPipeline(newKeys[p], FALSE) \in Pipelines
  BY <1>1, <1>2, NewPipelineType DEF KeysOK, Stages
<1>4. pipes \in [Projects -> Seq(Pipelines)]
  BY DEF PipesOK
<1>5. Evolves
  <2>1. new \in [DOMAIN new -> Pipelines] /\ DOMAIN new = S
        /\ \A p \in S : new[p] = NewPipeline(newKeys[p], FALSE)
    BY <1>3
  <2> HIDE DEF new
  <2>2. pipes' = [p \in Projects |-> IF p \in DOMAIN new THEN Append(pipes[p], new[p])
                                                         ELSE pipes[p]]
    BY <2>1
  <2> QED BY <1>4, <2>1, <2>2, AddSome DEF PipesOK, Evolves
<1>6. /\ DOMAIN rtbl'.map = DOMAIN newKeys
      /\ rtbl'.hasDefault = (Default \in DOMAIN newKeys)
      /\ \A p \in DOMAIN newKeys :
           rtbl'.map[p] = IF p \in S THEN <<p, Len(pipes[p]) + 1>> ELSE cur.map[p]
  BY DEF BuildTable, Table
<1>7. ASSUME NEW p \in DOMAIN newKeys
      PROVE  \E g \in DOMAIN pipes'[p] : rtbl'.map[p] = <<p, g>>
  <2>0. p \in Projects
    BY <1>1 DEF KeysOK
  <2>1. CASE p \in S
    <3>1. pipes'[p] = Append(pipes[p], NewPipeline(newKeys[p], FALSE))
      BY <2>0, <2>1
    <3>2. Len(pipes[p]) + 1 \in DOMAIN pipes'[p]
      BY <1>3, <1>4, <2>0, <2>1, <3>1, AppendProperties
    <3> QED BY <1>6, <2>1, <3>2
  <2>2. CASE p \notin S
    <3>1. p \in DOMAIN cur.map /\ rtbl'.map[p] = cur.map[p]
      BY <1>6, <2>2 DEF Spawned
    <3> QED BY <1>1, <1>5, <2>0, <3>1 DEF TableOK, Evolves, Grown
  <2> QED BY <2>1, <2>2
<1>8. ApiKey # NoKey => Default \in DOMAIN newKeys /\ rtbl'.map[Default] = <<Default, 1>>
  <2> SUFFICES ASSUME ApiKey # NoKey
               PROVE  Default \in DOMAIN newKeys /\ rtbl'.map[Default] = <<Default, 1>>
    OBVIOUS
  <2>1. Default \in DOMAIN newKeys /\ newKeys[Default] = ApiKey
    BY <1>1 DEF KeysOK
  <2>2. Default \in DOMAIN cur.map /\ cur.map[Default] = <<Default, 1>>
    BY <1>1 DEF TableOK
  <2>3. At(cur.map[Default]).key = ApiKey
    BY <2>2 DEF At, FallbackOK
  <2>4. Default \notin S
    BY <2>1, <2>2, <2>3 DEF Spawned
  <2> QED BY <1>6, <2>1, <2>2, <2>4
<1>9. TableOK(rtbl', pipes')
  <2>1. Default \in DOMAIN newKeys <=> ApiKey # NoKey
    BY <1>1 DEF KeysOK
  <2>2. rtbl'.hasDefault = (ApiKey # NoKey)
    BY <1>6, <2>1
  <2>3. DOMAIN rtbl'.map \subseteq Projects /\ IsFiniteSet(DOMAIN rtbl'.map)
    BY <1>1, <1>6 DEF KeysOK
  <2>4. \A p \in DOMAIN rtbl'.map : \E g \in DOMAIN pipes'[p] : rtbl'.map[p] = <<p, g>>
    BY <1>6, <1>7
  <2> HIDE DEF S
  <2> QED BY <1>6, <1>8, <2>2, <2>3, <2>4 DEF TableOK
<1>10. Budget(rtbl')
  BY <1>1, <1>6 DEF KeysOK, Budget
<1> QED BY <1>5, <1>9, <1>10

(* The reload loop's steps keep the invariant.                             *)
LEMMA ReloadingStep ==
  ASSUME TableInv, Reloading
  PROVE  TableInv' /\ Evolves
<1> USE DEF TableInv
<1>0. /\ UNCHANGED <<sharedQ, inlineMu, fate, home, keysFile, epc, enext, retired>>
      /\ UNCHANGED <<dispatchVars, lpc, lprev, mpc>>
  BY DEF Reloading, dispatchVars, ReloadStarts, ReloadRun, ReloadLoad, ReloadBuild,
         ReloadStart, ReloadStore, ReloadDrain, ReloadStops, routingVars
<1>a. ASSUME Evolves, TablesOK' PROVE TableInv' /\ Evolves
  <2>1. SharedOK' /\ HoldersOK'
    BY <1>0, <1>a, DispatchKept DEF SharedOK
  <2> QED BY <1>a, <2>1, FallbackKept DEF Evolves
<1>1. CASE ReloadStarts \/ ReloadStops
  <2>1. Evolves /\ UNCHANGED cur
    BY <1>1, SamePipes DEF ReloadStarts, ReloadStops, routingVars
  <2>2. rpc' \in {"load", "stopped"}
    BY <1>1 DEF ReloadStarts, ReloadStops
  <2> QED BY <1>a, <1>0, <2>1, <2>2, TablesKept
<1>2. CASE ReloadLoad
  <2>1. Evolves /\ UNCHANGED cur
    BY <1>2, SamePipes DEF ReloadLoad, routingVars
  <2>2. CASE rpc' = "build"
    <3> DEFINE keys == LoadKeysFile(keysFile)
    <3>1. /\ keys # Unreadable
          /\ ~TooMany(Cardinality(DOMAIN WithApiKey(keys)))
          /\ newKeys' = WithApiKey(keys)
      BY <1>2, <2>2 DEF ReloadLoad
    <3>2. keysFile \in KeysFiles
      BY DEF SharedOK
    <3>3. KeysOK(newKeys')
      BY <3>1, <3>2, LoadedKeys
    <3>4. rpc' \notin {"start", "store"}
      BY <2>2
    <3>5. TablesOK'
      <4>1. UNCHANGED pipes
        BY <1>2 DEF ReloadLoad, routingVars
      <4> QED BY <1>0, <2>1, <3>3, <3>4, <4>1 DEF TablesOK
    <3> QED BY <1>a, <2>1, <3>5
  <2>3. CASE rpc' # "build"
    <3>1. rpc' \in {"retry", "idle"}
      BY <1>2, <2>3 DEF ReloadLoad
    <3> QED BY <1>a, <1>0, <2>1, <3>1, TablesKept
  <2> QED BY <2>2, <2>3
<1>3. CASE ReloadBuild
  <2>0. rpc = "build" /\ UNCHANGED cur
    BY <1>3 DEF ReloadBuild
  <2>1. CASE rpc' = "idle" /\ UNCHANGED pipes
    <3>1. Evolves
      BY <2>1, SamePipes
    <3> QED BY <1>a, <1>0, <2>0, <2>1, <3>1, TablesKept
  <2>2. CASE /\ rpc' = "start" /\ rtbl' = BuildTable(newKeys, cur)
             /\ pipes' = [p \in Projects |->
                            IF p \in Spawned(newKeys, cur)
                            THEN Append(pipes[p], NewPipeline(newKeys[p], FALSE))
                            ELSE pipes[p]]
    <3>1. Evolves /\ TableOK(rtbl', pipes') /\ Budget(rtbl')
      BY <2>0, <2>2, BuildStep
    <3>2. Grown(pipes, pipes')
      BY <3>1 DEF Evolves
    <3>3. TableOK(cur', pipes') /\ Budget(cur')
      BY <2>0, <3>2, TableKept DEF TablesOK
    <3>4. lpc' = "register_store" => /\ TableOK(lprev', pipes')
                                     /\ Within(Cardinality(DOMAIN lprev'.map) + 1)
      BY <1>0, <3>2, TableKept DEF TablesOK
    <3>5. epc' = "store" => TableOK(enext', pipes') /\ Budget(enext')
      BY <1>0, <3>2, TableKept DEF TablesOK
    <3>6. TablesOK'
      BY <2>2, <3>1, <3>3, <3>4, <3>5 DEF TablesOK
    <3> QED BY <1>a, <3>1, <3>6
  <2> QED BY <1>3, <2>1, <2>2 DEF ReloadBuild
<1>4. CASE ReloadStart
  <2>1. Evolves
    BY <1>4, SetStageEvolves DEF ReloadStart, Stages
  <2>2. rpc = "start" /\ rpc' = "store" /\ UNCHANGED <<cur, rtbl>>
    BY <1>4 DEF ReloadStart
  <2> QED BY <1>a, <1>0, <2>1, <2>2, TablesKept
<1>5. CASE ReloadStore
  <2>1. rpc = "store" /\ rpc' = "drain" /\ cur' = rtbl /\ UNCHANGED pipes
    BY <1>5 DEF ReloadStore
  <2>2. TablesOK'
    BY <1>0, <2>1 DEF TablesOK
  <2> QED BY <1>a, <2>1, <2>2, SamePipes
<1>6. CASE ReloadDrain
  <2>1. Evolves
    BY <1>6, SpawnDrainsEvolves DEF ReloadDrain
  <2>2. rpc' = "idle" /\ UNCHANGED cur
    BY <1>6 DEF ReloadDrain
  <2> QED BY <1>a, <1>0, <2>1, <2>2, TablesKept
<1> QED BY <1>1, <1>2, <1>3, <1>4, <1>5, <1>6 DEF Reloading, ReloadRun

(* expireInline's next: part of the table, and never without the fallback. *)
LEMMA CollectStep ==
  ASSUME TableOK(cur, pipes), Budget(cur), FallbackOK,
         enext' = Table(RestrictValues(cur.map, LAMBDA r : r \notin Idle(cur)),
                        cur.hasDefault)
  PROVE  TableOK(enext', pipes) /\ Budget(enext')
<1> DEFINE D == {p \in DOMAIN cur.map : cur.map[p] \notin Idle(cur)}
<1>1. /\ DOMAIN enext'.map = D
      /\ enext'.hasDefault = cur.hasDefault
      /\ \A p \in D : enext'.map[p] = cur.map[p]
  BY DEF Table, RestrictValues, Restrict
<1>2. D \in SUBSET DOMAIN cur.map /\ IsFiniteSet(DOMAIN cur.map)
  BY DEF TableOK
<1>3. IsFiniteSet(D) /\ Cardinality(D) <= Cardinality(DOMAIN cur.map)
  BY <1>2, FS_Subset
<1>4. ApiKey # NoKey => Default \in D
  BY DEF TableOK, FallbackOK, Idle, At
<1> HIDE DEF D
<1>5. TableOK(enext', pipes)
  BY <1>1, <1>2, <1>3, <1>4 DEF TableOK
<1>6. Cardinality(D) \in Nat /\ Cardinality(DOMAIN cur.map) \in Nat
  BY <1>2, <1>3, FS_CardinalityType
<1>7. Budget(enext')
  BY <1>1, <1>3, <1>6, RoutingAssumption DEF Budget, Within
<1> QED BY <1>5, <1>7

(* The expiry loop's steps keep the invariant.                             *)
LEMMA ExpiringStep ==
  ASSUME TableInv, Expiring
  PROVE  TableInv' /\ Evolves
<1> USE DEF TableInv
<1>0. /\ UNCHANGED <<sharedQ, fate, home, keysFile, rpc, newKeys, rtbl>>
      /\ UNCHANGED <<dispatchVars, lpc, lprev, mpc>>
      /\ inlineMu' \in {"free", "dispatch", "expiry"}
  BY DEF Expiring, dispatchVars, ExpireRun, ExpireCollect, ExpireStore, ExpireDrain,
         SharedOK
<1>a. ASSUME Evolves, TablesOK' PROVE TableInv' /\ Evolves
  <2>1. SharedOK' /\ HoldersOK'
    BY <1>0, <1>a, DispatchKept DEF SharedOK
  <2> QED BY <1>a, <2>1, FallbackKept DEF Evolves
<1>1. CASE ExpireCollect
  <2>1. UNCHANGED <<cur, pipes>>
    BY <1>1 DEF ExpireCollect
  <2>2. TableOK(enext', pipes) /\ Budget(enext')
    BY <1>1, CollectStep DEF ExpireCollect, TablesOK
  <2>3. TablesOK'
    BY <1>0, <2>1, <2>2 DEF TablesOK
  <2> QED BY <1>a, <2>1, <2>3, SamePipes
<1>2. CASE ExpireStore
  <2>1. epc = "store" /\ epc' = "drain" /\ cur' = enext /\ UNCHANGED pipes
    BY <1>2 DEF ExpireStore
  <2>2. TablesOK'
    BY <1>0, <2>1 DEF TablesOK
  <2> QED BY <1>a, <2>1, <2>2, SamePipes
<1>3. CASE ExpireDrain
  <2>1. Evolves
    BY <1>3, SpawnDrainsEvolves DEF ExpireDrain
  <2>2. epc' = "idle" /\ UNCHANGED cur
    BY <1>3 DEF ExpireDrain
  <2> QED BY <1>a, <1>0, <2>1, <2>2, TablesKept
<1> QED BY <1>1, <1>2, <1>3 DEF Expiring, ExpireRun

(* Made and IsPipe name the same pipelines.                                *)
LEMMA MadeIsPipe ==
  ASSUME NEW r
  PROVE  r \in Made <=> IsPipe(r, pipes)
BY DEF Made, IsPipe

(* A pipeline that was made has a record.                                  *)
LEMMA MadeType ==
  ASSUME PipesOK, NEW r \in Made
  PROVE  IsPipe(r, pipes) /\ At(r) \in Pipelines
<1>1. IsPipe(r, pipes)
  BY MadeIsPipe
<1> QED BY <1>1 DEF IsPipe, At, PipesOK

(* The steps of drains, of main and of the environment.                    *)
LEMMA OtherStep ==
  ASSUME TableInv, Draining \/ Maining \/ Environment
  PROVE  TableInv' /\ Evolves
<1> USE DEF TableInv
<1>a. ASSUME Evolves, UNCHANGED <<cur, sharedQ, inlineMu, fate, home, dispatchVars>>,
             UNCHANGED <<rpc, newKeys, rtbl, epc, enext>>,
             mpc' \in {"run", "stopping", "demux", "wait", "done"},
             keysFile' \in KeysFiles
      PROVE  TableInv' /\ Evolves
  <2>1. SharedOK' /\ HoldersOK'
    BY <1>a, DispatchKept DEF SharedOK
  <2>2. UNCHANGED <<lpc, lprev>>
    BY <1>a DEF dispatchVars
  <2>3. TablesOK'
    BY <1>a, <2>2, TablesKept
  <2> QED BY <1>a, <2>1, <2>3, FallbackKept DEF Evolves
<1>b. ASSUME NEW r \in Made
      PROVE  IsPipe(r, pipes) /\ At(r) \in Pipelines
  BY MadeType
<1>c. SharedOK => /\ mpc \in {"run", "stopping", "demux", "wait", "done"}
                  /\ keysFile \in KeysFiles
  BY DEF SharedOK
<1>1. ASSUME NEW r \in Made, DrainCloses(r), Draining
      PROVE  TableInv' /\ Evolves
  <2>1. CASE UNCHANGED pipes
    <3>1. Evolves
      BY <2>1, SamePipes
    <3> QED BY <1>a, <1>c, <1>1, <3>1 DEF DrainCloses, Draining, reloadVars
  <2>2. CASE pipes' = [pipes EXCEPT ![r[1]][r[2]] = Closed(@)]
    <3> DEFINE x == Closed(At(r))
    <3>1. x \in Pipelines /\ x.key = At(r).key /\ x.inline = At(r).inline
      BY <1>b, <1>1, ClosedType DEF DrainCloses
    <3>2. pipes' = [pipes EXCEPT ![r[1]][r[2]] = x]
      BY <2>2 DEF At
    <3> HIDE DEF x
    <3>3. Evolves
      BY <1>b, <3>1, <3>2, ChangeEvolves
    <3> QED BY <1>a, <1>c, <1>1, <3>3 DEF DrainCloses, Draining, reloadVars
  <2> QED BY <1>1, <2>1, <2>2 DEF DrainCloses
<1>2. ASSUME NEW r \in Made, DrainReturns(r), Draining
      PROVE  TableInv' /\ Evolves
  <2> DEFINE x == [At(r) EXCEPT !.stage = "drained"]
  <2>1. x \in Pipelines /\ x.key = At(r).key /\ x.inline = At(r).inline
    BY <1>b DEF Pipelines, Stages
  <2>2. pipes' = [pipes EXCEPT ![r[1]][r[2]] = x]
    BY <1>2 DEF DrainReturns, At
  <2> HIDE DEF x
  <2>3. Evolves
    BY <1>b, <2>1, <2>2, ChangeEvolves
  <2> QED BY <1>a, <1>c, <1>2, <2>3 DEF DrainReturns, Draining, reloadVars
<1>3. CASE Maining
  <2>1. Evolves
    <3>1. CASE UNCHANGED pipes
      BY <3>1, SamePipes
    <3>2. CASE ShutdownDrains
      BY <3>2, SpawnDrainsEvolves DEF ShutdownDrains
    <3> QED BY <1>3, <3>1, <3>2 DEF Maining, Main, Signal, ListenerGone, ShutdownCloses,
                                    ShutdownReturns, routingVars
  <2>2. /\ UNCHANGED <<cur, sharedQ, inlineMu, fate, home, dispatchVars, reloadVars>>
        /\ mpc' \in {"stopping", "demux", "wait", "done"}
    BY <1>3 DEF Maining, Main, Signal, ListenerGone, ShutdownCloses, ShutdownDrains,
                ShutdownReturns, routingVars
  <2> QED BY <1>a, <1>c, <2>1, <2>2 DEF reloadVars
<1>4. CASE Environment
  <2>1. CASE EditKeysFile
    <3>1. Evolves
      BY <2>1, SamePipes DEF EditKeysFile, routingVars
    <3> QED BY <1>a, <1>c, <1>4, <2>1, <3>1 DEF EditKeysFile, Environment, routingVars
  <2>2. ASSUME NEW r \in Made, GoesIdle(r)
        PROVE  TableInv' /\ Evolves
    <3> DEFINE x == [At(r) EXCEPT !.idle = TRUE]
    <3>1. x \in Pipelines /\ x.key = At(r).key /\ x.inline = At(r).inline
      BY <1>b DEF Pipelines
    <3>2. pipes' = [pipes EXCEPT ![r[1]][r[2]] = x]
      BY <2>2 DEF GoesIdle, At
    <3> HIDE DEF x
    <3>3. Evolves
      BY <1>b, <3>1, <3>2, ChangeEvolves
    <3> QED BY <1>a, <1>c, <1>4, <2>2, <3>3 DEF GoesIdle, Environment, reloadVars
  <2> QED BY <1>4, <2>1, <2>2 DEF Environment
<1> QED BY <1>1, <1>2, <1>3, <1>4 DEF Draining

(* The state install leaves behind.                                        *)
LEMMA InitTableInv == Init => TableInv
<1> SUFFICES ASSUME Init PROVE TableInv
  OBVIOUS
<1>1. PICK f \in KeysFiles :
        /\ IF UseKeysFile THEN LoadKeysFile(f) # Unreadable ELSE LoadKeysFile(f) = NoKeys
        /\ RoutingInit(LoadKeysFile(f))
        /\ ReloadInit(f)
  BY DEF Init
<1> DEFINE keys == WithApiKey(LoadKeysFile(f))
<1>2. KeysOK(keys)
  <2>1. ~TooMany(Cardinality(DOMAIN keys))
    BY <1>1 DEF RoutingInit
  <2> QED BY <1>1, <2>1, LoadedKeys
<1> HIDE DEF keys
<1>3. /\ cur = Table([p \in DOMAIN keys |-> <<p, 1>>], Default \in DOMAIN keys)
      /\ pipes = [p \in Projects |->
                    IF p \in DOMAIN keys
                    THEN <<[NewPipeline(keys[p], FALSE) EXCEPT !.stage = "running"]>>
                    ELSE <<>>]
      /\ sharedQ = <<>> /\ inlineMu = "free"
      /\ fate = [d \in 1 .. MaxDatagrams |-> "unsent"]
      /\ home = [d \in 1 .. MaxDatagrams |-> NoPipe]
  BY <1>1 DEF RoutingInit, keys
<1>4. rpc = "idle" /\ epc = "idle" /\ keysFile = f
  BY <1>1 DEF ReloadInit
<1>5. /\ received = 0 /\ lpc = "bind" /\ xpc = "recv"
      /\ ldg = NoDatagram /\ xdg = NoDatagram /\ mpc = "run"
  BY DEF Init, DispatchInit
<1> DEFINE first(p) == [NewPipeline(keys[p], FALSE) EXCEPT !.stage = "running"]
<1>6. \A p \in DOMAIN keys : /\ first(p) \in Pipelines
                             /\ first(p).key = keys[p]
                             /\ ~first(p).inline
  <2>1. \A p \in DOMAIN keys : first(p) \in Pipelines
    BY <1>2, NewPipelineType DEF KeysOK, Stages
  <2>2. \A p \in DOMAIN keys : first(p).key = keys[p] /\ ~first(p).inline
    BY DEF NewPipeline
  <2> QED BY <2>1, <2>2
<1> HIDE DEF first
<1>7. \A p \in Projects : pipes[p] = IF p \in DOMAIN keys THEN <<first(p)>> ELSE <<>>
  BY <1>3 DEF first
<1>a. ASSUME NEW p \in DOMAIN keys
      PROVE  /\ p \in Projects
             /\ pipes[p] \in Seq(Pipelines)
             /\ 1 \in DOMAIN pipes[p] /\ pipes[p][1] = first(p)
  <2>1. p \in Projects
    BY <1>2 DEF KeysOK
  <2>2. pipes[p] = <<first(p)>> /\ first(p) \in Pipelines
    BY <1>6, <1>7, <2>1
  <2> QED BY <2>1, <2>2
<1>8. PipesOK
  <2>1. ASSUME NEW p \in Projects PROVE pipes[p] \in Seq(Pipelines)
    <3>1. CASE p \in DOMAIN keys
      BY <1>a, <3>1
    <3>2. CASE p \notin DOMAIN keys
      <4>1. pipes[p] = <<>>
        BY <1>7, <3>2
      <4> QED BY <4>1
    <3> QED BY <3>1, <3>2
  <2>2. pipes = [p \in Projects |-> pipes[p]]
    BY <1>3
  <2> QED BY <2>1, <2>2 DEF PipesOK
<1>9. SharedOK
  <2>1. fate \in [1 .. MaxDatagrams -> Fates]
    BY <1>3 DEF Fates
  <2> QED BY <1>3, <1>4, <1>5, <2>1, NoDatagramType, RoutingAssumption DEF SharedOK
<1>10. FallbackOK
  <2> SUFFICES ASSUME ApiKey # NoKey PROVE FallbackOK
    BY DEF FallbackOK
  <2>1. Default \in DOMAIN keys /\ keys[Default] = ApiKey
    BY <1>2 DEF KeysOK
  <2> QED BY <1>6, <1>a, <2>1 DEF FallbackOK
<1>11. TablesOK
  <2>1. /\ DOMAIN cur.map = DOMAIN keys
        /\ cur.hasDefault = (Default \in DOMAIN keys)
        /\ \A p \in DOMAIN keys : cur.map[p] = <<p, 1>>
    BY <1>3 DEF Table
  <2>2. \A p \in DOMAIN keys : 1 \in DOMAIN pipes[p]
    BY <1>a
  <2>3. Default \in DOMAIN keys <=> ApiKey # NoKey
    BY <1>2 DEF KeysOK
  <2>4. cur.hasDefault = (ApiKey # NoKey)
    BY <2>1, <2>3
  <2>5. DOMAIN keys \subseteq Projects /\ IsFiniteSet(DOMAIN keys)
        /\ Within(Cardinality(DOMAIN keys))
    BY <1>2 DEF KeysOK
  <2>6. TableOK(cur, pipes)
    BY <2>1, <2>2, <2>3, <2>4, <2>5 DEF TableOK
  <2> QED BY <1>4, <1>5, <2>1, <2>5, <2>6 DEF TablesOK, Budget
<1>12. HoldersOK
  BY <1>3, <1>5 DEF HoldersOK
<1> QED BY <1>8, <1>9, <1>10, <1>11, <1>12 DEF TableInv

(* Every step keeps the invariant.                                         *)
LEMMA StepTableInv ==
  ASSUME TableInv, [Next]_vars
  PROVE  TableInv' /\ Evolves
<1>1. CASE UNCHANGED vars
  <2> USE <1>1 DEF vars, routingVars, dispatchVars, reloadVars, TableInv
  <2>1. Evolves
    BY SamePipes
  <2>2. TablesOK' /\ FallbackOK'
    BY <2>1, TablesKept, FallbackKept
  <2>3. SharedOK' /\ HoldersOK'
    BY <2>1, DispatchKept DEF SharedOK
  <2> QED BY <2>1, <2>2, <2>3 DEF Evolves
<1>2. CASE Next
  BY <1>1, <1>2, DispatchingStep, DemuxingStep, ReloadingStep, ExpiringStep, OtherStep
     DEF Next
<1> QED BY <1>1, <1>2

(* TableInv holds in every reachable state.                                *)
LEMMA TablesSound == Spec => []TableInv
<1>1. TableInv /\ [Next]_vars => TableInv'
  BY StepTableInv
<1> QED BY <1>1, InitTableInv, PTL DEF Spec

(* Types (Registry!TypeOK): tables name pipelines that were made, stages   *)
(* and fates are the known ones, sharedRawCh stays within its capacity.    *)
THEOREM RegistryTypeCorrect == Spec => []TypeOK
<1>1. TableInv => TypeOK
  <2> SUFFICES ASSUME TableInv PROVE TypeOK
    OBVIOUS
  <2> USE DEF TableInv
  <2>1. DOMAIN cur.map \subseteq Projects /\ cur.hasDefault \in BOOLEAN
    BY DEF TablesOK, TableOK
  <2>2. InTable(cur) \subseteq Made
    BY MadeIsPipe DEF TablesOK, TableOK, InTable, Range, IsPipe
  <2>3. ASSUME NEW r \in Made
        PROVE  At(r).stage \in {"fresh", "running", "closed", "drained"}
    BY MadeType DEF Pipelines, Stages
  <2>4. \A d \in 1 .. MaxDatagrams : home[d] \in Made \cup {NoPipe}
    BY MadeIsPipe DEF HoldersOK
  <2>5. \A d \in 1 .. MaxDatagrams :
          fate[d] \in Drops \cup {"unsent", "dispatching", "queued", "demuxing", "handed"}
    BY DEF SharedOK, Fates
  <2> QED BY <2>1, <2>2, <2>3, <2>4, <2>5 DEF TypeOK, SharedOK
<1> QED BY <1>1, TablesSound, PTL

(* However registration, reload and expiry interleave, no published table  *)
(* exceeds MaxProjects (Registry!WithinBudget; routing.go registerInline,  *)
(* reload): a table built on one that has been replaced since was within   *)
(* the budget when it was loaded.                                          *)
THEOREM BudgetKept == Spec => []WithinBudget
<1>1. TableInv => WithinBudget
  BY DEF TableInv, TablesOK, Budget, Within, WithinBudget
<1> QED BY <1>1, TablesSound, PTL

(* The flag behind lookup's fast path never outruns the map it is cached   *)
(* from (Registry!DefaultRoutable; routing.go lookup, registerInline).     *)
THEOREM FlagTrusted == Spec => []DefaultRoutable
<1>1. TableInv => DefaultRoutable
  <2> SUFFICES ASSUME TableInv, cur.hasDefault
               PROVE  Default \in DOMAIN cur.map /\ ~At(cur.map[Default]).inline
    BY DEF DefaultRoutable
  <2>1. ApiKey # NoKey
    BY DEF TableInv, TablesOK, TableOK
  <2>2. Default \in DOMAIN cur.map /\ cur.map[Default] = <<Default, 1>>
    BY <2>1 DEF TableInv, TablesOK, TableOK
  <2> QED BY <2>1, <2>2 DEF TableInv, FallbackOK, At
<1> QED BY <1>1, TablesSound, PTL

(* No reload, registration or expiry takes the fallback route away from    *)
(* MESH0_API_KEY's pipeline (Registry!ApiKeyStands; routing.go reload).    *)
THEOREM FallbackStands == Spec => []ApiKeyStands
<1>1. TableInv => ApiKeyStands
  BY RoutingAssumption DEF TableInv, TablesOK, TableOK, FallbackOK, ApiKeyStands,
                           Lookup, At
<1> QED BY <1>1, TablesSound, PTL
=============================================================================
