# Formal model of the mesh0 metrics agent

The agent is a Go sidecar. Callers send JSON events as datagrams to a Unix
socket; the agent routes each one by its `_project` field to a per-project
pipeline, which validates, batches and POSTs events to a gateway. This
directory holds TLA+ modules that model that program, TLC configurations that
check them on small instances, and TLAPS proofs for all instances.

Source references are to the repository's Go files (`events.go`, `flusher.go`,
`routing.go`, `listener.go`, `main.go`, `stats.go`, `health.go`).

## 1. Inventory

| Component | State it keeps | Operations | Interacts with | What makes it correct |
|---|---|---|---|---|
| listener (`listener.go`) | socket, read backoff | bind, read loop, backoff | calls `dispatch` for each datagram; stops with the signal context | every datagram goes to `dispatch` once; one the buffer cut is never taken for a smaller one; a listener that fails ends the agent |
| scanner (`routing.go` 1023-1515) | none | `extractAndStripFields` | called by `dispatch` | finds the routing fields of any JSON object, however their keys are spelled, and strips exactly them |
| dispatch and `registerInline` | table pointer, `inlineMu` | look up, register on demand, check token, enqueue | shared queue; table swaps by reload and expiry | each datagram is queued or counted once; the budget holds; inline pipelines only get events with a token |
| demuxer | shared queue | look up again, `trySend` | pipelines | empties the queue before it stops |
| reload (`routing.go`, `main.go`) | `reloadMu`, table pointer | load file, rebuild table, start, swap, drain | the same table pointer | table follows the file; what the table names runs; what leaves it is drained once |
| inline expiry | `inlineMu`, `lastSeen` | collect, swap, drain | the same table pointer | retires only idle inline pipelines, once |
| pipeline | `rawCh`, `batchCh`, context, `closed` | `trySend`, `start`, `drain` | demuxer, batcher, flusher | every accepted event is counted once; drain returns and leaves nothing |
| batcher (`events.go`) | `cur`, `curBytes`, `curToken`, window timer | receive, append, flush | `rawCh` to `batchCh` | order, caps, credential of the batch; no partial batch waits for ever |
| flusher (`flusher.go`) | attempt, backoff | POST, retry, give up | `batchCh`, gateway | bounded retries; counters agree with what the gateway may hold |
| shutdown and `main` | signal context, wait groups | wait for listener, reload loop, demuxer, drains | all | terminates; strands nothing |
| counters (`stats.go`) | atomics | `Add`, snapshot | everybody | reconcile with the events received |
| keys-file loader | none | open, check, parse | called by `install` and `reload` | refuses what could replace a route it must not |
| config, health server, release scripts | - | parse, serve | - | - |

Hard behaviours: three goroutines replace one atomic pointer by tables computed
from an earlier load of it, under two different mutexes; `drain` closes channels
under running senders and receivers; a cancelled context races a blocked
hand-over, a POST and a backoff sleep; the demuxer repeats a lookup whose answer
`dispatch` has already relied on; a flush may block in the middle of an
iteration that holds the next event. `PROJECT.json` lists these hazards with
their lines and the properties that watch them.

## 2. Modules

```
Events -> PipelineState -> Batcher \                 Routing -> Dispatch \
                        -> Flusher  -> Pipeline              -> Reload    -> Registry
Registry -> Accounting                               JsonText -> Scanner -> Intake
EventLedger  <- (refined by) -- Pipeline
MCPipeline, MCRegistry, MCAccounting, MCIntake: the instances for TLC
PipelineProofs extends Pipeline, LedgerProofs extends PipelineProofs,
DeliveryProofs extends LedgerProofs
RegistryProofs extends Registry, RetireProofs extends RegistryProofs,
AccountingProofs extends Accounting and RetireProofs
TextProofs extends Scanner, IntakeProofs extends Intake and TextProofs
```

* **Events**: `validateEvent` and `encodeEventBatch` as operators on payload
  *shapes* (length, surrounding whitespace, JSON object or not, has a
  timestamp, token). Only lengths and flags are kept, because the caps and the
  reason codes depend on nothing else. `slack` stands for the bytes that the
  injection of a timestamp saves (inner whitespace, no comma in `{}`, trailing
  zeros of RFC3339Nano).
* **PipelineState**: the channels, the context and the accounting of one
  pipeline. The counters are kept per event: `fate[d]` is the counter datagram
  `d` was added to, so "counted twice" and "never counted" are visible. One
  Go `Add(len(events))` is one `Account` step.
* **Batcher**: one action per run of `eventsBatcher.run` between two points
  where it can block: the select, and the select inside `flush`. `bpc` says which
  call of `flush` is blocked, `handing` is its batch, `held` the event whose
  iteration waits for a pre-flush. The timer is `off` (nil channel), `armed`, or
  `fired` (a tick waits in the channel).
* **Flusher**: `send` as a loop `ready -> posting -> (backoff -> ready)`; the
  gateway may take a request in (`GatewayAccepts`, external) and its answer may
  still be lost. `delivered` counts how often it took each event in. One thing is
  assumed of the gateway: it answers 2xx only to a request it has taken in. What it
  did before a final 4xx, an error or a cancelled request is left open.
* **Pipeline**: composes the two with `trySend` and the steps of `drain`
  (close `rawCh`; arm the timer or cancel; wait for the batcher and close
  `batchCh`; wait for the flusher) and the grace timer.
* **EventLedger**: the abstract specification of a pipeline: datagrams are
  offered in order, an open pipeline accepts or rejects, each accepted one is
  decided once, and the ledger finishes only when nothing is pending.
* **Routing**: tables, `lookup`, `keysUnchanged`, `buildTable`, and the state the
  goroutines share. A pipeline is `<<project, g>>` with a stage `fresh`,
  `running`, `closed` or `drained`; its inside is module Pipeline. `drains`
  counts goroutines that are about to call its `drain`.
* **Dispatch**: listener and demuxer. Each load or store of the table pointer,
  each critical section and each channel operation is a step of its own, so the
  demuxer receives in one step and looks the project up in the next. The
  listener binds or fails (of `bindUnixgram` only that is kept), reads, sleeps after
  a read error, and stops.
* **Reload**: `reload` (load, retry, build, start, store, drain) and
  `expireInline` (collect, store, drain). The keys file is a record of what
  `openKeysFile` and `loadKeysFile` test, in that order: the kind of node, the
  world-writable bit, the length, whether it parses, its entries.
* **Registry**: all goroutines together, the drain goroutines, and main's
  shutdown sequence. `panicked` records the close of a closed channel, which
  ends the process.

* **Accounting**: Registry with the counters of `stats.go` as a bag of Adds
  `<<owner, counter>>`, the owner being the process or a pipeline. `todo` holds
  the Adds a goroutine has still to make; the first Add of a handler is made with
  the step that decides on it (nothing reads the counters, so the two commute),
  each further one is a step of its own. Of the inside of a pipeline only the points where the
  batcher and the flusher count are kept.
* **JsonText**: texts as sequences of lexemes instead of bytes: punctuation,
  whitespace, whole strings, whole literals and numbers, junk, and a string cut in
  the middle. A string is named by how it is *spelled*; what it decodes to is
  another thing (`Decoded`): `esc_token` stands for the spellings of `_token` that
  have an escape in them, and `badesc` for a string with an escape that JSON does not
  know. `encoding/json` (external) is the state machine its scanner is: what it
  expects next, the open brackets, the keys of the outermost object, and its limit
  on nesting (`MaxNestingDepth`, 10000 in the library).
* **Scanner**: `extractAndStripRouting`. The Go
  code walks an index over the datagram without ever going back, so the scan is a
  state machine that reads lexemes; `at` says which function is reading. The bracket
  stack with its depth limit, the member loop, the last-wins fields, and the rule
  which comma goes with a removed member are kept as they are. Prefilter (`Tagged`)
  and key comparison (`Hits`) look at spellings, as the code looks at raw bytes;
  values are decoded.
* **Intake**: the life of one datagram's bytes: written by a caller as a list of
  members (the reference), damaged perhaps, read into `MaxEventBytes + 1`, scanned,
  dropped by `dispatch` or routed, validated and stamped.

Dispatch takes from Intake what a scan can report of a datagram (its
`Payloads`). The two halves meet at `trySend` and `drain`. Registry uses of a pipeline what
Pipeline establishes: a closed pipeline refuses every datagram, and a drain that
was started returns with everything accounted (`DrainTerminates`,
`KeepsLedger`). Pipeline assumes of its environment that offers come from one
demuxer, one after the other, and that `drain` is called at most once; the second
assumption is Registry's `NoDoubleDrain`, which is *not* met in two
deployments (see 4).

## 3. Runs that pass

| Run | Question |
|---|---|
| `pipeline` | Order, freshest token, caps, agreement of counters and gateway, a window timer that runs exactly while a batch is assembled, and no send on a closed `batchCh`, for every interleaving of offers, flushes, retries, grace timer and drain, with events that are stamped, malformed or oversize. Does the pipeline implement its ledger; does drain return when the gateway never answers; is every accepted event eventually accounted without a drain? |
| `registry_reload` | Keys-file deployments: double drains, usable tables, stranded datagrams; does the table follow the file, does the fallback route survive whatever the file holds, and does a signal, or a listener that cannot bind, end main? |
| `registry_budget` | Keys file, inline registration and expiry sharing a budget; an inline project called `_default` |
| `agent_accounting` | Inline-only deployments with expiry: the bound of the shared queue, usable tables, tokens; is every datagram counted once on the way in and every accepted event once on the way out, at both levels, whenever nothing is in flight and across drains? |
| `intake` | Is a valid object within the documented limits stored as it was written but for its literally spelled routing fields; is an accepted event free of those whatever arrived; is a datagram longer than the buffer ever taken for a smaller event? |

**Bounds.** `pipeline`: 3 datagrams of 5 shapes, `rawCh` and `batchCh` of 1, batches
of at most 2, one retry. Three datagrams are one batch in flight, one queued and one
in the batcher's hands, so that a hand-over blocks, and two of them in quick
succession overflow `rawCh`. The gateway answers 200, 400, 408, 429 or 503: success,
and both sides of the border between what is retried and what is not. Lengths are
scaled so that the two events with a token just fit the byte cap (49), two large
ones do not, and two small ones hit the size cap. A pre-flush between two large ones
makes a batch of one event, which is the worst case for a blocked hand-over and for
the window timer. Registry: 1 or 2 datagrams (with 2, one can be in the demuxer
while the next is dispatched), 2 edits of the keys file over 6 contents (rotation,
addition, removal, a reserved name, a world-writable file, and one that exceeds the
cap together with the API key), a shared queue of 1, which the second datagram can
find full. `agent_accounting` lets a batcher refuse for one reason and a POST end in
one way besides shutdown (`Refusals`, `Answers`): the others are counted by the same
statements. `intake`: objects of up to 4 of 12 members, among them escaped spellings
of `_token` and `timestamp` as keys, since the splice depends on where runs of
removed members start and end; damage to objects of up to 2; `maxScanDepth` is 2 and
the nesting limit of `encoding/json` 4, with values of depth 0 to 4 inside the
object's own bracket, so that each limit is met and passed; event caps of 9, 14 and
60 lexemes, so that every prefix of some object is read. A lexeme counts as one unit
of length: the tests of length compare sums with a cap, and the cut may fall inside
a lexeme. TLC cannot see behaviours with more datagrams, projects, reloads, members
or deeper values; the proofs in 5 cover them for every invariant of these runs.

**Fairness.** A runnable goroutine runs and an armed timer fires, which is what
the Go runtime gives. A POST is *not* assumed to come back: it may hang until its
context is cancelled, which makes `DrainTerminates` a statement about the grace
timer, and `EventuallyAccounted` one about all behaviours in which no POST hangs
for good (`http.Client.Timeout` is 30 s). In Registry the poll ticker makes
`reload` start again and again (`MESH0_KEYS_POLL_MS` > 0, the default), drains
return, and the reload loop's `select` is strongly fair to `ctx.Done()`, since Go
picks among ready cases at random. The listener's own steps (bind, dispatch, the
end of a backoff sleep) are fair, its reads only once the context is done, since
then the socket is closed under it. Callers, operators and signals owe nothing.

Each property of a passing run has a mutant: a version of one definition with a
plausible slip (a reset left out, `>` for `>=`, a lock not taken, a wait
skipped), defined before the definition it varies, under which the property
fails.

## 4. Runs that find a disagreement

* `registry_lost_update`: `reload` and `registerInline` publish tables under
  different mutexes, each computed from an earlier load. A registration can undo
  a reload's swap and bring back a pipeline that is being drained; the next
  reload, or the shutdown, drains it again and `close` panics.
* `registry_tokenless`: the demuxer's second lookup can find an inline pipeline
  where `dispatch` had found a keys-file one, and the missing-token check is not
  repeated.
* `accounting_documented`: the "reconciliation invariant" in `stats.go` does not
  hold even when nothing is in flight. A parse error found by the batcher is in two
  of its terms; a full shared queue, and a project that vanished before the
  demuxer's lookup, are in none. `Reconciles` is the balance that does hold: the
  per-project `received` and `queue_full`, and the process-wide drops, add up to the
  process-wide `received`.
* `pipeline_mixed_credentials`: a token-less event in a batch with a tokened one
  is sent under the token, not under the keys-file key.
* `pipeline_body_cap`: `MaxBatchBytes` is compared with the events and a comma for
  each; the 13 bytes of `{"events":[]}` come on top, so a body may exceed the
  documented 10 MB by up to 12 bytes. `BatchWithinCaps` is the bound that does hold.
* `intake_escaped_key`: a top-level key that decodes to `_token` but is spelled with
  an escape is neither seen by the prefilter nor by the comparison of raw bytes, and
  stays in the stored event. The comment at `routing.go:1140` mentions this for
  `_project`; README says of `_token` that it is always stripped.
* `intake_oversize`: a datagram with a routing field is scanned and stripped before
  anyone looks at its length. One that is longer than the read buffer is met by the
  scan at its cut end and counts as `parse_error`; README, CHANGELOG and `listener.go`
  say `oversize`. One of exactly `MaxEventBytes + 1` bytes is accepted if removing the
  fields makes it fit, which README says is dropped.

The passing runs of Registry are about the deployments in which these races
cannot happen: a keys file and no inline tokens; inline tokens and no keys file;
and, with both, the properties the races do not touch. The findings in
`PROJECT.json` quote the line each one contradicts.

Further differences between code and documentation, seen while modelling and stated
by the model as the code has them, without a run of their own:

* the expiry loop runs until main returns, so shutdown may load the table between
  expiry's load and store. Both drain the retired pipeline, and the second `close`
  panics: `NoDoubleDrain` fails again if `registry_lost_update` is run with
  `UseKeysFile = FALSE`, `KeysFiles <- NoFiles` and `InlineIdle = TRUE`;
* with an inline pipeline in the table, `keysUnchanged` compares its number of
  entries with that of the keys, so the poll of an unchanged keys file rebuilds the
  table and drains the inline pipeline; README calls that poll a quiet no-op;
* next to a routing field, a value nested deeper than `maxScanDepth` makes a valid
  object malformed, which the fuzz test of the scanner would count as a failure
  (`inline_token_test.go:508`). `Transparent` therefore speaks of objects within that
  depth;
* the lost update above also has a mirror image, in which a reload's table lacks a
  newly registered pipeline and nobody drains it, and expiry may start a drain
  after shutdown has waited for all of them: in deployments with inline tokens the
  process may exit with accepted events that no counter shows;
* a 408 is retried (`Retryable`), which the README's contract does not list;
* the scanner stops at the object's closing brace and does not look inside removed
  values, so a datagram that is not JSON may become an event: `{"_project":"a"}`
  followed by anything is accepted as `{}`;
* `/stats` lists the projects of the current table, so the counters of a retired
  pipeline disappear from it; `Reconciles` sums over all pipelines there ever were.

## 5. Proofs

Every invariant that a passing run checks is proved, and the refinement of
EventLedger; what the runs of section 4 refute is not claimed by any theorem. All constants are arbitrary within the
named assumptions of the modules: `EventsAssumption`, `PipelineStateAssumption`,
`FlusherAssumption`, `PipelineAssumption` (naturals, positive capacities and batch
size, status codes in 100..599), `RoutingAssumption` (a default project, a positive
queue), `DispatchAssumption` and `ReloadAssumption` (what a scan can report; the
kinds of keys file, with finitely many entries), `AccountingAssumption` (the
counters there are), `JsonAssumption`, `ScannerAssumption` and `IntakeAssumption`
(the two limits on nesting; callers write strings that decode as keys, escaped or
not, and JSON values of any depth). The arguments are induction over
steps, each from an inductive invariant that is named below.

### The pipeline

* `PipelineProofs!TypeCorrect`: `Spec => []TypeOK`. TypeOK is not inductive: the
  held datagram has to be known to be valid, because only then `EventLen` is a
  number. `TypeInv` adds that.
* `LedgerProofs!KeepsOrder` (`InOrder`) and `LedgerProofs!ImplementsLedger`
  (`Spec => KeepsLedger`, the refinement of EventLedger). They rest on
  `IInv == TypeInv /\ Control /\ Books`. `Books` says that the pending datagrams
  are exactly those in six places (in flight, queued, being handed over, in `cur`,
  held, in `rawCh`), that the ids ascend from one place to the next, and that the
  ids beyond `n` are the unsent ones. The order makes the places disjoint, which is
  why a batch that is counted takes nothing away from another place. `Control` ties
  the places to the program counters: a place is empty when a step fills it, and
  all are empty when the flusher is done. Each action moves ids from one place to
  the next (the `Chain...` lemmas), or takes them out and counts them
  (`LedgerSettle`).
* `LedgerProofs!NoSendAfterClose` (`ClosedForGood`) follows from `Control`: drain
  closes `batchCh` only after the batcher is done, and then no place before it holds
  anything. `LedgerProofs!BatchesAreWatched` (`WindowGuardsBatch`) needs `Control`
  too: the timer is settled by the code after a flush, and that `cur` is empty
  during every flush makes disarming it right. It is the safety half of
  `EventuallyAccounted`.
* `DeliveryProofs!DeliveriesCounted` (`DeliveryMatchesFate`). What a counter says of
  the gateway is settled when a batch ends, so `Taken` says it of a batch in flight:
  each of its datagrams was taken in at most once per attempt, and at least once if
  the gateway has accepted the current one.
* `DeliveryProofs!CredentialIsFreshest` (`FreshestToken`) and `BodiesWithinCaps`
  (`BatchWithinCaps`, the cap on what the batcher counts). Both speak of formed batches; `Assembled` is what has to be
  known of the batch that is still growing: its token is the freshest so far, it is
  below the caps, and `curBytes` is `EventBytes(cur)` plus the commas. That
  `EventBytes` of an appended sequence is what one adds is proved first; since the
  prover cannot instantiate the library's induction rule, the induction over the
  length is made by hand, by contradicting a least counterexample (`LeastNumber`).

### The registry

* `RegistryProofs`: `RegistryTypeCorrect` (`TypeOK`), `BudgetKept` (`WithinBudget`),
  `FlagTrusted` (`DefaultRoutable`), `FallbackStands` (`ApiKeyStands`), without any
  restriction on features: they hold even where tables overwrite each other. The
  reason is in `TableInv`, which says of *every* table some goroutine may still
  publish (`lprev`, `rtbl`, `enext`), however stale, what has to hold of a published
  one: its routes are pipelines that were made, its fallback is the API key's first
  pipeline, and it is within the budget, with room for one where a registration is
  going to add one. It is kept because pipelines are only ever added, and keep
  credential and kind (`Evolves`).
* `RetireProofs!TablesStayUsable` (`TableUsable`) assumes `OneSource`: not both a
  keys file and inline tokens. Then whoever builds a table excludes all other
  writers, so the table it replaces is still the one it read (`Current`), and what
  it is about to publish runs (`Usable`). `UsableInv` is their conjunction with
  `TableInv` and with what cannot run at the same time (`Modes`).
* `RetireProofs!DrainedOnce` (`NoDoubleDrain`) and `NothingStranded`
  (`ShutdownStrandsNothing`) assume `OneSource` and `NoExpiry`. `Once` bounds the
  goroutines about to drain a pipeline; `Covered` says that every pipeline is in the
  table, about to get there, or being drained, so that shutdown misses none;
  `Placed` ties each undecided datagram to the goroutine or queue that has it.
* `RetireProofs!TokenlessKeptOut` (`NoTokenlessInline`) assumes `OneSource`. The
  check of `dispatch` and the demuxer's lookup see different tables; `TokenInv` says
  that in between a datagram without a token is one for the fallback, and that the
  fallback is the only pipeline that is not inline.

Neither hypothesis is for the prover's convenience: outside them the code really
fails. The runs `registry_lost_update` and `registry_tokenless` refute
`NoDoubleDrain` and `NoTokenlessInline` without `OneSource`; without `NoExpiry`,
expiry and shutdown may drain the same pipeline (section 4).

### The counters

* `AccountingProofs!CountersReconcile` (`Reconciles`) and `PipelinesBalance`
  (`PipelineBalances`), without restriction on features. The properties are
  inequalities, or equalities when nothing is in flight; neither is inductive.
  `BooksInv` has one equation per balance instead, with a term for every Add that is
  decided on but not made: the process's `received` is the number of datagrams; the
  counters of `Reconciles` and the Adds that listener and demuxer owe are the
  datagrams that were decided on (`Entered`); what a pipeline accepted is its
  outcomes, those its goroutines owe and its current batch; and the process is ahead
  of the pipelines by the Adds they owe. `Held` says that listener, queue and
  demuxer hold different datagrams, without which one could be decided on twice, and
  `DrainedOK` that a drained pipeline is empty. A sum over counters is the
  cardinality of a set of numbered Adds (`AddsIn`), so that one more Add is one more
  element (`AddCounted`), for any number of projects.
* `AccountingProofs!AccountingRefines`: `AccountingSpec => Spec`, so what is proved
  of Registry holds of the agent with its counters, which is what
  `agent_accounting` checks.

### The bytes of a datagram

`IntakeProofs` proves the three invariants of `intake` for every set of members the
assumption allows, objects with any number of them, values of any nesting, any
damage and any event cap. `MaxMembers` and `MaxDamaged` are not assumed to be
anything. All three follow from `IntakeInv`, which says what the buffer holds (the
text of the object, or its first `MaxEventBytes + 1` lexemes, the last perhaps cut
inside) and what was made of it; the work is in the lemmas about texts. Every run
of a scanner is a recursive function of the position, so `TextProofs` first shows
that such functions exist (`RunExists`) and then goes by induction on the position.

* `AcceptedClean` (`AcceptedIsClean`): no key of an accepted event is *spelled* as a
  routing field. It does not say more, because more is false (`intake_escaped_key`).
  The scanner accepts texts that are not JSON,
  and `validateEvent` sees only what is left after the cut, so neither alone keeps a
  routing field out. `InStep` relates the two: as long as the scan goes on, and
  `encoding/json`, reading the text without the cut positions, has not refused it,
  their states correspond, bracket for bracket and member for member (`Lockstep`).
  So at the end every top-level key that the validator sees is the key of a member
  the scan has found and kept. That the positions `splice` removes are the lexemes
  of the hits with one comma each (`CutAtIs`) needs the spans of different members to
  be disjoint; `Phase`, which no step of the scan decreases, tells them apart. The
  stamp in front adds one key and does not nest deeper than what was there
  (`StampIs`), so the event that is sent is still one `json.Valid` takes.
* `CutDropped` (`CutIsDropped`). The text of a valid object ends with the brace that
  closes it, so a scan that gets to `done` on a beginning of it has read all of it
  but whitespace (`DoneIsWhole`); otherwise the scan or the length test refuses it.
* `IntakeTransparent` (`Transparent`): a valid object within `MaxEventBytes` and, next
  to a routing field, within `maxScanDepth`, is accepted unless a routing field is
  unusable. Beyond these limits it says nothing: there the code departs from what is
  documented (section 4). Facts about the scan, each by induction:
  whitespace makes no difference, since the scans of a text and of the text without its
  whitespace are `Alike`, and so is what they leave. A valid value is passed over
  exactly as `encoding/json` passes over it, or refused if it nests too deep
  (`InValue`, `WholeValue`): the two stacks are equal, and a value inside an object is
  read as it is read alone (`LiftValue`). And after each member the scan has found
  the members written so far, while what it leaves is the text of those it keeps
  (`Scanned`), with the commas right wherever the removed ones stand. That the rest
  is accepted again needs the two limits to carry over: what is left is never longer
  (`PickShorter`, `BodyShorter`), and it nests no deeper, since the depth of an
  object's text is that of its deepest member plus one (`NestsOfText`, from `Below`,
  which bounds the brackets of a text from any state on).

### Only model-checked

The liveness properties (`DrainTerminates`, `EventuallyAccounted`,
`ReloadConverges`, `ShutdownCompletes`): fairness and `ENABLED` are out of the
prover's reach.

## 6. What is not modelled

* `loadConfig` (sequential parsing of the environment; the ranges it enforces are
  the assumptions on the constants), the health server (it reads atomics and
  writes JSON) and the release scripts.
* Bytes inside lexemes: how `scanStringBody` walks over escapes and `scanNumber` over
  digits. Which lexeme a run of bytes is, and what a string decodes to, is given; the
  repository's differential fuzz test compares both functions with
  `encoding/json`. `extractAndStripProject`, which only tests call.
* The socket file, its permissions and the kernel's receive buffer, so all of
  `bindUnixgram` but that it succeeds or fails; the pool of
  read buffers, which are copied before `dispatch`.
* Gauges, batch counts, reload counters and log lines; the snapshots of `/stats`,
  which only read. `postJSON`'s error for a URL that does not parse: the URL is
  the same for every POST.
* Time: backoff delays, windows and idleness are only "may elapse".
* In Registry a pipeline's handoff buffer may be full at any `trySend`.

## 7. Plan

Done: the pipeline with its ledger, the registry with its goroutines, the counters,
the scanner and the intake of bytes; proofs of all safety invariants. What would be
worth adding:

1. An abstract specification of the registry (a datagram is dropped for one reason
   or handed to one pipeline that runs) and its refinement, from `TableInv` and
   `Placed`.
2. The steps of `ShutdownCompletes` that are safety: no wait of main is for somebody
   who waits for main.
