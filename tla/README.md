# Verification of umans-dash-go

TLA+ models of this repository's proxy, checked with TLC on small instances and
proved with TLAPS for every instance. Go files are named without
their directory: `queue.go` is `src/src/queue.go`, `main.go` is `src/main.go`.

## 1. The system

umans-dash-go is an HTTP proxy between LLM clients and one upstream API. A
request runs through this chain:

    ServeHTTP (timeout, panic recovery, response tracker)
      -> HandleChatCompletions / HandleMessages   (auth, parsing, QueueItem)
        -> TryEnqueueOrDispatch -> requestQueue   (queueMu)
          -> queueWorker -> ProcessQueue          (gateLimit, slots)
            -> runDispatch -> proxyChatRequest / proxyAnthropicRequest
                 (key pool, session, image handoff, retry loop, upstream, piping)
            -> OnRequestComplete (slot released, queue signalled)

Beside it run dashboard handlers that read usage, status and configuration and
change configuration, keys and the gate, and a shutdown that may start at any
time.

### Components

| Component | Files | State | What is hard | Modelled in |
|---|---|---|---|---|
| Concurrency queue and shutdown | queue.go, handlers.go | requestQueue, ActiveRequests, queuePending, shuttingDown, gate cache | lost signals, slots leaked or freed twice, gate changes in mid-pass, shutdown against everything | QueueDispatch, SlotGate |
| Concurrency limits | queue.go, usage.go, handlers.go | LastConcurrency, effective cache, gate cache, override, mode, manual limit | two caches with different keys, locks that do not match, a limit of 0 | ConcurrencyLimits |
| Response tracker and timeout | proxy.go, types.go, http.go, queue.go | written, hijacked, headers | timeout, panic recovery, dispatch goroutine and shutdown author one response | ResponseTracker |
| Retry pipeline | retry.go, proxy_openai.go, proxy_anthropic.go, http.go | attempt, last status and body, current key, committed | state of a failed attempt that outlives a success | RetryPipeline |
| Key pool | keypool.go, handlers.go, http.go | health, cooldown, round-robin index | indices kept over a replacement, marks that cross | KeyPool |
| Conversation tracking | conversation.go | map, LRU list, session counter | lookups and stores that interleave, map and list that part | Conversations |
| Vision handoff | vision.go, cache.go, normalize.go | semaphore, description cache, MaxImages | goroutines per image, settings that change under a request | ImageHandoff |
| Model catalog, key validation | normalize.go, types.go | catalog, singleflight call, model map | waiters, failures that are shared, two writers of the map | Catalog |
| Configuration and persistence | config.go, handlers.go | Config, saveTimer, config.json and its temporary file, configMu | recursive read locks, overlapping saves, crashes | ConfigPersistence, ConfigLock |
| Status and usage caches | handlers.go, usage.go, normalize.go | five TTL entries, throttle window | shared entries with parameters, two fetches at once | UsageCaches |
| Payload normalisation | normalize.go | none | pure functions | the image limit in ImageHandoff |
| Error log, upstream client, dashboard, wallpaper, entry point | rest | none shared, or one mutex | I/O | - |

### What makes each component correct

* Queue: ActiveRequests counts the requests that hold a slot; an item has one
  owner; order is first come first served; no slot beyond the gate; every
  queued request is served while the gate stands; shutdown ends and starts
  nothing.
* Limits: a gate is computed from what was reported, never above a known hard
  cap, and settles on the last report, mode and manual limit once the caches have
  expired. That a lowered override is applied is what the code does not keep (finding 9).
* Tracker: one author for a response; a claim is final; every request is answered
  and its goroutines end.
* Retry: a success is not followed by an error, a final failure is reported, no
  retry after the first byte, a request that holds a key of the pool in place marks
  no other.
* Key pool: a key in cooldown is not handed out while another is not.
* Conversations: list and map agree, sessions are not shared. The size is bounded
  only until a request has unlisted a session (section 4).
* Handoff: each description reaches its own image; the semaphore is given back;
  the cache holds no failure and no duplicate.
* Catalog: nobody is given an older version than was there when it asked.
* Configuration: a crash leaves a whole file; the file does not go back; what was
  accepted is saved; no lock cycle.
* Caches: an answer is for the parameters it was asked for; throttled requests are
  not forgotten.

PROJECT.json lists the hazards behind these with their lines, and says of the few
no property covers why.

## 2. The core: QueueDispatch

`QueueDispatch.tla` models `queue.go` and `Shutdown` of `handlers.go`.

| Variable | Code |
|---|---|
| req | how far each request's goroutine has come, from the handler to the completion |
| claimed | requests whose response ServeHTTP's timeout took |
| requestQueue, ActiveRequests, ThrottledCount, queuePending, shuttingDown | the fields of Proxy with these names |
| queueMu | who keeps the mutex over a step boundary |
| worker, scanned, passGate, snapshot | program counter and locals of queueWorker, ProcessQueue and gateLimit |
| currentGate | what gateLimit would compute from the configuration now |
| cachedGate | the gate cache; NoEntry when invalidated or older than a second |
| configPost | HandleConfigPost between its unlock and its signalQueue |
| shutdown | program counter of Shutdown |

A request's life in `req`: `new`, `checked` (entry check passed), `enqueuing`
(holds queueMu over a gate miss), `queued`, `reserved`, `running`, `delaying`
(Slot Free Delay), `freed` (slot given back, queue not yet signalled),
`finished`; or `refused429`, `refused503`, `abandoned` (dropped by the shutdown
with its Done channel open).

**Grain.** One action is one critical section of queueMu, or one access to state
that queueMu does not protect. `shuttingDown` is atomic and the gate cache has a
lock of its own, so both move while a pass holds queueMu. gateLimit on a cache
miss is two steps, compute and store, in each of its three callers: a fetch that
invalidates in between is then overwritten by the older gate, as in the code.
Reading the cache, comparing with ActiveRequests and reserving is one step:
ActiveRequests cannot move meanwhile, queueMu is held.

**Left out, and why.** The branches for a negative gate (dispatchItem, the drain
of ProcessQueue): gateLimit answers 1 where its comment says -1, so they are not
reachable. The branch for a cancelled context: items carry `detachedContext`.
QueueLen mirrors `len(requestQueue)`. ThrottledCount is also raised by upstream
errors and reset by FetchUsage; only the queue's own increment is here.
`ResetQueue` has no caller. Time is not counted: timers fire at any moment. A
client's timeout matters here only while its request waits; after the dispatch
it is the tracker's matter.

`SlotGate.tla` is the abstract specification: a line, a set in service, Join,
TurnAway, Admit, Leave, Close; no worker, signal, cache or lock.
QueueDispatch implements it with
`outside` = requests not yet appended, `waiting` = the part of requestQueue the
pass has not reserved, `inService` = SlotHolders.

### Runs

| Run | Instance | Question | Result |
|---|---|---|---|
| queue_safety | 3 requests, queue of 2, gates {1, 2}, symmetric requests | seven safety, step and refinement properties | hold, 422,412 states |
| support, part `queue` | 2 requests, queue of 2, gate {1} | QueuedIsServed, ShutdownTerminates under fairness | hold |
| queue_stranded | 1 request, gates {1, 2} | QueuedIsServed when the gate may change | violated: a finding |
| queue_late | 2 requests, gate {1} | NothingQueuedAfterReject | violated: a finding |
| queue_deadline | 2 requests, gate {1} | NoSlotAfterTimeout | violated: a finding |

**Why these bounds.** Three requests and a queue of two reach the full queue with
the worker in any state, a pass that reserves two and one that must stop at the
gate, and an append while another request completes. Two gates are one change up
and one change down. One HandleConfigPost is between unlock and signal at a
time; a second adds only another signal, and signals coalesce. The liveness is
checked in the run `support` (section 4), under one gate because the property is about a
gate that keeps its value; with two requests one waits for the slot of the other.

**Fairness.** FairSpec has one strong-fairness conjunct per goroutine: one that waits
for queueMu while others keep taking it gets it, since Go's mutex starves nobody for
ever. The violation of `queue_stranded` is found under it. The part `queue` of
`support` assumes less, and the properties hold all the same: weak fairness of the
worker, the signal of HandleConfigPost and the shutdown, strong fairness of the
requests only. The upstream call ends because the client has timeouts. Arrivals, client
timeouts, gate changes and the start of a shutdown are not fair: they need not
happen. The process stops at `exited`; `Alive` in the fairness conjuncts says no
goroutine moves after it, and `Exited` is the stuttering of a process that is
gone, so deadlock checking stays on.

### Findings

1. *Stranded item* (`queue.go:443`). A pass opens under gate 1, FetchConcurrency
   changes the gate without signalling, the pass breaks off with nothing
   reserved, and nobody signals again.
2. *Late item* (`queue.go:267`). The entry check is not repeated under queueMu.
3. *Deadline dropped* (`queue.go:453`). The check for a cancelled request cannot
   fire because the item's context is detached.

### Proofs about the core

`QueueDispatchProofs.tla` proves, for every finite set of requests, every
non-empty set of natural gates and every positive queue size (`QueueAssumption`,
the only assumption):

| Theorem | Property |
|---|---|
| TypeCorrect | TypeOK |
| ItemsHaveOneOwner | ExclusiveOwnership |
| SlotsAccounted | SlotAccounting |
| InFlightStaysBounded | InFlightBounded |
| ReservationsRespectGate | GateRespected |
| DrainIsNotFed | StoppingOnlyShrinks |
| QueueImplementsSlotGate | ImplementsSlotGate |

The argument:

* `LockOwner`: the worker is in the locked part of a pass exactly when it owns
  queueMu, and at most one handler holds it over a cache miss. Without it an
  append could move the queue under the scan.
* `PassPosition`: the scan position stays inside the queue and is 0 outside a
  pass.
* `Ownership`: the queue has no duplicate, its reserved prefix is `reserved`,
  the rest is `queued`, and every queued request is in the rest. ExclusiveOwnership
  is not inductive by itself: that a cut drops exactly the reserved items needs
  the position and the lock. `QueueInv` is the conjunction with TypeOK.
* `SlotStep` classifies every step as SlotsUnchanged, SlotTaken or SlotReleased;
  the counting theorems and GateRespected follow from it and from the cardinality
  of a set with one member more or less (`SlotInv`).
* `StopInv`: after ShutdownClear no pass is between its look at the flag and the
  reservation, because ShutdownClear takes queueMu.
* Refinement: every step of an actor is one abstract step or a stutter, lemma by
  lemma (`HandlerRefines`, `DispatchedRefines`, `WorkerRefines`, `RejectRefines`).

Only model-checked: QueuedIsServed and ShutdownTerminates (liveness under
fairness is outside the prover's reach), and the three violations.

## 3. Retries and keys: KeyPool and RetryPipeline

`KeyPool.tla` models `keypool.go` as operators on a pool record: every method
locks the pool from beginning to end, so a method is a function of the pool's
value. `size` is `len(entries)`; `cooling` the entries that are unhealthy and
inside their cooldown (an unhealthy entry whose cooldown is over counts as
healthy everywhere in the code); `index` the round-robin counter modulo `size`.

`RetryPipeline.tla` models proxyChatRequest (format `openai`),
proxyAnthropicRequest (`anthropic`), the retry loop they share, the responses
they write, and everything else that touches the pool.

| Variable | Code |
|---|---|
| pool | p.KeyPool |
| task | per request: where its goroutine is (`pc`), `attempt` and `limit` of retryLoop, `key` = currentKeyIndex, `client` = usingClientKey, `sse` = the upstream answers an event stream, `lastStatus`, `lastBody` (lastErrBody is not empty) |
| answer | per response: `head`, the status line that went out and who sent it, `timeout` once ServeHTTP has claimed it and `cut` once ServeHTTP has returned over it; `ctype`, the header map's Content-Type, which the code reads to choose how to write; `data`, whether body bytes went out; `whole` and `errors`, how many complete bodies and errors did |
| throttles | how often each request raised ThrottledCount |
| holders | history: the requests that acquired a key of the pool now in place and have not ended |

A request's way in `pc`: `new` -> `prepare` (key chosen) -> `attempt` ->
(`mark` -> `rotate` on a retry with a pool key) -> `sent` (waiting for the
upstream) -> `body` -> `streaming` -> `done`, or back to `attempt`; the
Anthropic path passes `tail`, the code after its loop.

**Grain.** One action is one call of a pool method together with the writes the
goroutine makes to its own response before its next call, or one stretch between
two waits for the upstream. Marking and acquiring in a rotation are two actions,
since the code locks the pool twice. The timeout's Claim may come before any step, also
while the request waits in the queue (`new`); a response it has claimed swallows every
later write. A response that is committed when the timeout fires is not claimed, but
ServeHTTP returns over it five seconds later (`proxy.go:204-210`, ServeHTTPReturns): from
then on its writes are lost too, whether bytes of a body went out or not. The grace is not
counted, so the cut may come at any moment between commit and end.

**Left out.** A proxy with no key at all (KeyPool nil). Sessions: all they give the
pipeline is the preferred index, which is any. The lengths of cooldowns and of
backoffs: timers fire at any moment. Statuses other than 503 are told apart only
as retryable or not, and 429 as a throttle. The callbacks' guard on
headersCommitted: CommittedIsNotRetried says that no attempt meets it.
HandleKeysPost replaces the pool as HandleConfigPost does (ReplacePool). The client key
last known as good, which only decides whether the dashboard needs the pool: the
dashboard may always. The slot a dashboard handler holds between its Acquire and its
MarkHealthy: any number of handlers may run, so the slot marked is any.

### Runs

| Run | Instance | Question | Result |
|---|---|---|---|
| retry | one request per path, pools of 1 and 2 keys, retries off or 2 attempts, all modes, with and without handoff | six properties | hold, 2,892,662 states |
| retry_stale_error | one Anthropic request, 2 attempts | NoErrorAfterSuccess | violated: a finding |
| retry_handoff | one Anthropic request with handoff | KeepaliveIsFollowed | violated: a finding |
| retry_client_key | one OpenAI request, pass-through | ClientKeyLeavesPoolAlone | violated: a finding |

**Why these bounds.** Two requests are enough for one to mark, acquire or credit
between two steps of the other; the dashboard and a replacement of the pool are
further actors. Pools of one and two keys give a pool without rotation, one with
rotation, and stale indices when the larger is replaced by the smaller. Two
attempts are a first, a last and a rotation; the loop has no state that a third
would add. RetryAttempts 0 is the code's separate branch for retries switched
off. Nothing here is bounded by a guard: `attempt` ends at `limit`.

No liveness is claimed: the pipeline waits for the upstream and for clients.
Deadlock is checked; cooldowns, replacements and the dashboard always can move.

AnsweredOnce and ThrottleMeansRefusal are stated for the OpenAI path only. On the
other path they are false, as NoErrorAfterSuccess and KeepaliveIsFollowed show.
AnsweredOnce says that a finished request told its client one outcome, and none where the
timeout had claimed the response or ServeHTTP had returned over it. The second of these is
what the comment at `proxy.go:204` says does not happen: a client whose response is cut has
neither a whole body nor an error. It is finding 7, and the run `stream_cut` shows it.

HoldersJudgeTheirKey is about `holders`: a request that has acquired a key of the pool in
place. It leaves two kinds of request out, because they mark a key they do not
hold: one with the client's own key, whose index 0 is the pool's first entry (finding
6), and one whose index is of a pool that has been replaced (`handlers.go:634`), which
marks whatever key has this index in the new pool. No document speaks of the latter, so
it is a hazard without a property.

### Findings

4. *Error after success* (`proxy_anthropic.go:256`). A failed attempt's status and
   body survive the success of the next one.
5. *Dropped answer* (`proxy_anthropic.go:237`). After the handoff's keepalive the
   Anthropic path drains the answer and sends nothing.
6. *Pool key blamed for a client key* (`proxy_openai.go:254`).

### Proofs about retries and keys

`RetryProofs.tla` proves, for any finite set of requests of any formats, any modes
and any natural pool sizes and numbers of attempts (`RetryAssumption`):

| Theorem | Property |
|---|---|
| AcquireServesWhileItCan | Acquire returns a usable entry iff there is one |
| RetryTypeCorrect | TypeOK |
| OpenAIAnsweredOnce | AnsweredOnce |
| ThrottlesOnlyRefusals | ThrottleMeansRefusal |
| NoRetryAfterData | CommittedIsNotRetried |
| RotationServesWhileItCan | RotationUsesThePool |
| HoldersJudgeTheirs | HoldersJudgeTheirKey |

The argument:

* `LoopPassesEveryEntry`: from any index, `size` turns visit every entry;
  `FirstUsableExists` takes the least turn that meets a usable one. So Acquire is
  total where it should be.
* `RequestInv`: a request that has not finished has an `Open` response (no
  outcome, and an event stream's content type exactly when the SSE headers went
  out) and has counted no throttle; one that has finished has a `Settled` one.
  AnsweredOnce speaks of finished requests only and is not inductive. The clause
  about the content type is needed because WriteJSON decides by it whether an
  error is written at all: an error on a committed response of another type is
  lost. A response that is `Lost` is Open and Settled without an outcome.
* `OwnStep` takes RequestInv through a request's own steps, `OthersUntouched`
  through everybody else's.
* `Judgement` classifies every step of a request as SameKeys, Blame or Credit of
  its own key; `RotateSteps` and `OwnTask` say which step can leave a rotation.
* `HoldersInv`: the index of a request in `holders` lies in the pool in place, and it does
  not use a client key. `KeySteps` says that a step keeps the index or takes a new one from
  this pool; a replacement empties `holders`.

Only model-checked here: the three violations.

## 4. The parts around the queue

Eight modules, each complete by itself (`...Init`, `...Next`, `...Spec`, its types
and properties). They share no variable. A ninth part is the queue of section 2 under
one gate, for its liveness (`Queue == INSTANCE QueueDispatch`). `MCSupport.tla` puts them into one
instance: the variable `part`, chosen at the start, says which of them moves, and
the variables of the others keep an initial value. A behaviour of MCSupport is
thus a behaviour of one part next to eight idle ones, and a property over the
variables of a part holds in MCSupport if and only if it holds of the part's
own specification; the fairness conjuncts are those of the parts, made void in the
behaviours of the others (the queue's is weaker than in section 2). `SupportProofs.tla`
proves the direction that matters: the instance implements the specification of each of
the eight parts around the queue (SupportImplementsItsParts), so that what is proved of a
part holds in it. The queue's own theorems stand in section 2.

The run `support` checks 26 properties on 155,402 states. CHECK_DEADLOCK is FALSE
because a part may really stop: UsageCaches ends when its requests are served and
its windows used up. What must not stop is stated as liveness or, for the locks,
as StuckOnlyByRecursion.

### ResponseTracker

One response and its four possible authors: `main` (ServeHTTP), the `handler`
goroutine with its recovery, the `dispatch` goroutine (runDispatch), and the
`shutdown` that rejects the queue.

| Variable | Code |
|---|---|
| at | where each author is; `claimed`, `claimed.head`, `claimed.body` are the direct writes after a Claim, `json` ... `bytes` the steps of WriteJSON and Write, `stream` ... of a piped stream |
| written, hijacked | the fields of responseWriterTracker |
| contentType | the header map, which no lock guards |
| statusLine, body | what the client gets, and from whom |
| deadline, client | the request's timeout; whether the client is still there |

Tracker.Write checks under the mutex and writes after it; WriteJSON looks, sets a
header, sends a status, checks and writes: five steps others can come between.

* **OneVoice**, **ClaimIsFinal**: no mixture of two answers, also when the claim
  comes between somebody's check and write.
* **TimeoutIsAnswered**: after the timeout the client has a status line, or the
  recovery that claimed first is about to send it.
* **ServeHTTPReturns**, **HandlerIsReleased** (liveness).

Finding 7, *stream cut* (`proxy.go:206`, run `stream_cut`): a running stream is
given five seconds after the timeout, where the comments say it runs to its end.

### ConfigLock

configMu as Go's RWMutex, which keeps new readers out while a writer waits, and
queueMu. Resolvers read twice, one inside the other (ResolveModelId); gaters read
the gate holding queueMu; posters write and then signal the queue.

* **WriterIsAlone**.
* **StuckOnlyByRecursion**: the order queueMu, configMu is sound: the goroutines
  inside a call are never all blocked, except with a resolver about to take its
  inner read lock and a post that waits. `MayRead`, `MayWrite` and `MayQueue` are what
  the calls that can block wait for; the actions have them as guards, and
  `Blocked(g)` says that the one g needs next is false.

Finding 8, *resolver deadlock* (`normalize.go:496`, run `resolve_deadlock`): that
state is reached. Strong fairness for every goroutine that waits for a lock,
since Go's locks starve nobody; it does not help.

### Conversations

conversationMap, the list convLRU, the session counter, and the requests of both
formats. Touch and Track lock convMu from beginning to end and are one action
each; between them others run.

* **ListWellFormed**: no duplicate in the list, the list inside the map, and the map
  larger than ConvMapMax only once a request has unlisted a session.
* **SessionsAreNotShared**.

A known divergence, which the model keeps and no property exempts as legitimate: the
Anthropic path passes alreadyTouched = true for a session it has just created
(`proxy_anthropic.go:84`), while conversation.go:40-44 describes the flag as that of a caller
whose TouchConversation has moved the entry to the front. Such a session, and one that
is evicted between its request's touch and its track, is stored without a list element: it
is never found again and never evicted, so that evictions miss the target
conversation.go:73 wants met and the map grows without bound. ListWellFormed says nothing of
the map's size from then on. UnlistedHasACause, in ConversationProofs, is a conjunct of
the inductive invariant there and no claim of correctness.

### ConcurrencyLimits

FetchConcurrency, GetEffectiveConcurrency with its cache, gateLimit with its
cache, HandleConcurrency, and the fields of HandleConfigPost that change the gate.
One action is one critical section of one of five locks. FetchConcurrency writes
LastConcurrency under p.mu, its readers hold configMu: a data race, so the two
fields that matter are written and read one at a time. `seen` is an asker's
snapshot, `effective` what it made of it, `asked` the mode and the manual limit it
read; types.go:588-589 says one RLock covers both, the code takes two.

* **EffectiveRespectsReport**: whatever was cached, raced or replaced, the result has the
  limits of the report its caller saw and no hard cap above it, and is exactly what a
  computation without the cache gives, but where the override lies under the reported cap.
* **GateKeepsTheHardCap**: no mix of parts read at different times opens the queue
  wider than the account allows, or closes it for good.
* **GateSettles** (liveness): under one override, when reports and posts have stopped,
  every cached gate is at last that of the last report, mode and manual limit. It does
  not quantify over changes of the override, because of finding 9.

Finding 9, *override ignored* (`usage.go:331`, run `override_ignored`, module
`MCLimits`): the cached result is compared with override > 0 and not with its
value. With a reported cap of 3 an override of 4 is cached with cap 3; lowered to 1, the
cached result still matches, so that the caller, HandleConfigPost first of all, is
given cap 3 where the comment (usage.go:306) and src/README.md:373 say min(override,
hard_cap). A new report ends it, as FetchConcurrency drops the cache.

### UsageCaches

The caches of usage, usage history, status, status history and the upstream's
models: look, ask, store, or fall back on what is cached, however old. `endpoint`
says which of the five a behaviour is about. An answer is the parameters it was
asked for and the usage window it reports.

* **ServedItsOwn**: readers with other parameters overwrite the one entry, and yet a
  reader gets another's answer only after a failed call.
* **ForgottenOnlyByTwoFetches**: the throttle count is compared under one lock and
  reset under another.

Left out: usage answers without a window, which leave the count alone.

### ConfigPersistence

A configuration is the number of its newest change. A post changes the fields,
copies them and arms saveTimer; the save is open with truncation, write, rename.
The two names refer to inodes, because two saves share the name of the temporary
file. A crash may come between any two steps (`Restart`), and a save may fail. Over a torn
file LoadConfig returns an error and main ends with it (main.go:29-31): `running` is then
false for good. Copies are versions of their own here; the code's struct copy shares the
slice of keys with the live configuration, so that a later change of a key in place may
reach a file before its own save.
`trouble` is a history variable: `overlap`, two saves ran at once; `swap`, an older
copy was handed over after a newer one; `failure`; `crash`.

* **TornOnlyByOverlap**: a crash leaves a whole file ("Atomic write", config.go:271)
  unless two saves overlapped.
* **DiskNeverGoesBack**: unless saves overlapped or copies were swapped.
* **ConfigPostsSaveInOrder**: HandleConfigPost holds configMu until the timer is armed,
  so only HandleKeysPost, which holds no lock, can swap.
* **AcceptedIsSaved** (liveness): if nothing of `trouble` happens.

### Catalog

GetCatalogData with its singleflight group and its cache, ValidateApiKey, which
fetches the same document outside of the group, and ApplyCatalogData, with which
both replace the model map. The document is its version.

* **NeverOlderThanCached**: also for those that waited for another's call, and for
  failures, which are cached too.
* **ModelsGoBackOnlyByOverlap**: the map can go back, but not behind what was in place
  when the fetch of the one that replaces it began.

### ImageHandoff

The images of a request: LimitImagesInMessages for a model that sees them,
PerformVisionHandoff with a goroutine per image, the semaphore and the
description cache for one that does not. The settings may change at any time; the
code reads them again after it has decided. The cache is the code's two structures:
`cacheList` is its `lru`, `cacheEntries` its `lookup` with the descriptions. Get and Set
lock from beginning to end and are one action each (Hit, Miss, and CacheDescription
with Overwrite or Insert); several goroutines may look for one image, all miss, and
all set it. A TTL may run out at any look. The branches for a cancelled context are left
out: both callers pass the queue item's detached context, which is never cancelled.

* **ImagesAreReplaced**: a handoff replaces each image up to the limit it read by a
  description of that image; without one, no more than the limit are left, and those the
  latest. It does not say that the payload is text-only after a handoff, which
  src/README.md:316-317 does ("The modified payload (now text-only) is forwarded"): the code
  leaves the images beyond MaxImages in it, and all of them when the handoff is
  switched off between its two looks at the setting (`vision.go:12`). This is a known
  divergence; the model keeps it, and no run reports it.
* **CacheIsSound**: the list and the map hold the same images, each once and not more
  than fit, and each entry is a description of its own image and no failure.
* **HandoffEnds** (liveness).

### Bounds of the run support

| Part | Instance | Why it is enough |
|---|---|---|
| tracker | no constants: one response, all authors | exhaustive |
| lock | two resolvers, one gater, two posts | a waiting writer behind a reading one; two readers beside each |
| conversations | one Anthropic and two OpenAI requests, three fingerprints, capacity 1, target 0 | an eviction between a touch and a track, two requests of one conversation, two of different ones |
| limits | one asker and the post, two reports (one without limit, with cap 0), overrides 0 and 1 (1 at the start), manual 0, 5, two changes | an override that lowers a cap and none; a report and a post between two reads of an asker; an override above the cap is the run `override_ignored` |
| usage | two readers, two parameters, two windows, one throttle | a fetch that overtakes another over the change of the window |
| persistence | two submitters, two savers, two changes | two saves at once, a swap, a crash in each step |
| catalog | two callers, a validator, two versions | a leader and a waiter, and a validator that overtakes them |
| queue | two requests, queue of 2, gate 1 | one waits for the slot of the other, beside a post and a shutdown |
| handoff | one request of two or three images, semaphore of 2, cache of 1, limits 0 and 2 | more images than places; two goroutines with the same image; an eviction |

Larger instances were checked once and hold as well: four conversations with
capacity 2 and target 1 (294,970 states), overrides 0, 1 and 4 with both reports
(146,273), three readers with two throttles (64,950), three changes of the configuration
with the inductive invariant of the proof (170,481), two callers and a validator of the
catalog alone (42,550). Every bound on a counter is
a constant (`MaxChanges`, `MaxWindow`, `MaxThrottled`, `MaxVersion`, `MaxCatalog`).

### Fairness of the parts

Weak fairness of each goroutine that has been started, and of what time does by
itself: DeadlineExpires (every request has a timeout), GateExpires (the gate is
used for a second), the timers of the saves. Weak fairness is enough since every
wait is for something that stays: most locks are held over one action, configMu
also over a post, of which there are finitely many, and a handler waits for a Done
channel that stays closed. Arrivals, posts, reports, crashes,
failures and clients that leave are not fair. HandOff and DescribeImage are fair
per request and image; a place in the semaphore that is free does not vanish
but by a goroutine that takes it, and each takes it once.

## 5. Proofs about the parts

A proof module EXTENDS its parts and proves an inductive invariant of each, one lemma
or step per action; the only assumptions are those of the part's ASSUME.

| Module | Theorem | Property |
|---|---|---|
| TrackerProofs | TrackerTypeCorrect | TrackerTypeOK |
| | ResponseHasOneVoice | OneVoice |
| | TimeoutsAreAnswered | TimeoutIsAnswered |
| | ClaimsAreFinal | ClaimIsFinal |
| ConfigurationProofs | LockTypeCorrect | LockTypeOK |
| (ConfigLock) | WritersAreAlone | WriterIsAlone |
| | BlockedOnlyThroughRecursion | StuckOnlyByRecursion |
| (ConfigPersistence) | PersistenceTypeCorrect | PersistenceTypeOK |
| | TornTakesTwoSaves | TornOnlyByOverlap |
| | ConfigPostsKeepOrder | ConfigPostsSaveInOrder |
| | DiskGoesBackOnlyByRaces | DiskNeverGoesBack |
| ConversationProofs | ConversationTypeCorrect | ConversationTypeOK |
| | ListAndMapAgree | ListWellFormed |
| | SessionsHaveOneConversation | SessionsAreNotShared |
| CacheProofs | LimitsTypeCorrect | LimitsTypeOK |
| (ConcurrencyLimits) | EffectiveIsOfItsReport | EffectiveRespectsReport |
| | GateStaysUnderTheCap | GateKeepsTheHardCap |
| (UsageCaches) | UsageTypeCorrect | UsageTypeOK |
| | ReadersGetTheirOwn | ServedItsOwn |
| | ForgettingTakesTwo | ForgottenOnlyByTwoFetches |
| (Catalog) | CatalogTypeCorrect | CatalogTypeOK |
| | CallersGetNoOlder | NeverOlderThanCached |
| | MapGoesBackOnlyByOverlap | ModelsGoBackOnlyByOverlap |
| HandoffProofs | HandoffInvariant | HandoffIInv |
| | HandoffTypeCorrect | HandoffTypeOK |
| | CacheStaysSound | CacheIsSound |
| | ImagesAreReplacedRight | ImagesAreReplaced |
| SupportProofs | SupportImplementsItsParts | the eight specifications around the queue |
| | SupportTypeCorrect | SupportTypeOK |
| | SupportKeepsItsInvariants | every safety invariant of the run support |
| | SupportKeepsItsSteps | every action property of the run support |

Why the invariants are what they are:

* `TrackerIInv` surrounds OneVoice and TimeoutIsAnswered with who can be where:
  the workers take turns (`TakeTurns`), so of handler, dispatch and shutdown one at a
  time is about to commit; a worker that has not committed finds a response committed
  only if it was claimed (`NothingUncommitted`); a claim has one holder and no body
  beside its own (`OneClaimant`); without a claim the status line is the writer's
  (`OwnStatus`). OneVoice alone is not inductive: it holds while two authors are past their
  checks, and the next write breaks it. ClaimIsFinal is proved of each step from the last
  clause of `OneClaimant`: when a claim stands, no worker is past its check and before
  its write.
* `LockIInv` ties each program counter to the read locks it holds and to `writer`;
  a writer becomes alone only after the readers it waits for have left.
* `LockOrder` adds that each goroutine is at a step of its own call (`OwnSteps`) and that
  the holder of queueMu is a gater reading the gate (`QueueHeld`). If all that are busy
  are blocked, whoever waits for queueMu leads to a gater that waits to read, a
  blocked reader to a writer that waits, and that writer to somebody who holds a read
  lock and yet is blocked, which only a resolver can be.
* `LimitsIInv` says of every step of an asker what its result owes to its snapshot
  (`ResultsFit`), and of the cache that what an override made of it has a hard cap
  (`CacheHasItsCap`). The cache is checked against the snapshot and not the other way
  round, so the property needs nothing more of it.
* `UsageIInv` adds that without an overlap at most one fetch is under way (`Alone`),
  so its snapshot of the window is the window.
* `CatalogIInv`: the group has one leader at a time (`OneLeader`); nothing is newer than
  what the upstream has published (`BehindUpstream`); what a fetch brings is no
  older than what its owner found (`FetchedIsNewer`), and the leader's value
  serves every waiter (`LeaderIsGood`).
* `PersistenceIInv`: what is in a copy, a timer or a save is behind what is in memory
  (`MemoryLeads`, `BehindChanges`); posts to /config exclude each other
  (`ConfigPostsAreSerial`); without an overlap one save is under way and owns the
  temporary file (`OneSaveAtATime`); without a swap versions reach the disk in
  order (`VersionsInOrder`). `InodesSuffice` is the pigeonhole argument that a new
  file always finds an inode.
* `ConversationIInv`: a session number belongs to one fingerprint (`Numbered`); a
  stored session was tracked by a request that is done (`StoredWereTracked`), and so
  was one a request has found (`FoundWereTracked`), which is the second request
  `UnlistedHasACause` speaks of; while nobody has unlisted a session the list is the
  whole map, so an eviction makes room (`RoomUntilUnlisted`,
  `EvictionMakesRoom`). `MoveToFrontList` and `KeepFront` are about the list
  operations.
* `HandoffIInv`: the semaphore counts the goroutines inside (`SemaphoreCounts`), a
  goroutine exists exactly for the images up to the limit the handoff read
  (`StartedUpToTheLimit`), and brings a text of its own image (`DescribesItsOwn`);
  an image is replaced only when all of its request's goroutines are done
  (`ReplacedWhenDone`). `LimitedToTheLatest` keeps the set LimitImagesInMessages chose, and
  `LeftAreTheLatest` counts what it leaves. ImagesAreReplaced needs CacheIsSound, since a
  hit brings whatever the cache holds for the image. `UnlinkedList`, `RelinkedList` and
  `InsertKeepsCache` are about the list, on the lemmas of ConversationProofs.
* SupportProofs: the parts share no variable and each moves by its own next-state
  relation or not at all, so a step of the instance is a step or a stutter of every
  part (`PartsStep`). The theorems about the parts then hold of the instance.

Only model-checked: the liveness properties (ServeHTTPReturns, HandlerIsReleased,
GateSettles, AcceptedIsSaved, HandoffEnds, and the queue's two), since liveness under
fairness is outside the prover's reach, and the three findings, which are about the
instance that shows them.
Every safety invariant and every action property that a passing run checks, here and
in sections 2 and 3, is proved.

## 6. Not modelled

* Tools, schemas, thinking and reasoning fields (most of
  `normalize.go`): pure functions from JSON trees to JSON trees, tables of cases. A
  model would repeat the code, and their unit tests state the same.
* The text of a fingerprint: conversations are told apart by it, no more.
* The error log, the upstream HTTP client, the dashboard's pages, the wallpaper and
  `interface/`: I/O without a protocol. What the upstream answers is an input.
* `main.go`: flags, signals, the loop that tries the next port. Shutdown itself is in
  QueueDispatch, and the end over a torn configuration in ConfigPersistence.
* The values of configuration fields, their environment variables and migrations.
* GetCatalogData, FetchUpstreamModels and GetAllCatalogModels have no caller but the
  tests at this commit. The first two are modelled all the same: they share caches
  and the model map with code that runs.

## 7. What is left

1. QueueDispatch with ConcurrencyLimits in place of its free gate: the finding about
   the stranded item then follows from a report of the upstream and nothing else.
2. The pure conversions of `normalize.go`, should one of them come to keep state.
