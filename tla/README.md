# Verification of nginx_modules

TLA+ models of the nginx modules in this repository, TLC configurations that
check them on small instances, and TLAPS proofs of the main invariants for every
instance. The models are translated from the sources; nginx itself (slab
allocator, request life cycle, event loop) is modelled only as the modules rely
on it and marked `external` in `PROJECT.json`.

## Inventory

| part | state | operations | interacts with | what makes it correct |
|---|---|---|---|---|
| dictionary (`module_shm_dict/ngx_shm_dict.c`) | per zone: red-black tree, LRU queue, slab pool with its mutex; each entry: key, value, type, flags, `expires` | get, set, delete, set_exptime, inc_int, foreach, flush_all, flush_expired; internal: lookup, expire, insert | all workers share a zone; one mutex | tree, queue and slab agree; one entry per key; no live entry lost without memory pressure; LRU order of eviction; lock always released |
| handlers and C++ interface (`ngx_shm_dict_handler.c`, `ngx_shm_dict_interface.cc`) | the zone an object points at; pointers returned by get | Get, Set, Incr, Delete, ... | call the dictionary, then use its pointers without the lock | what get returns is a value of the key; every acknowledged increment counts; an object uses a zone of its own configuration |
| zone registry (`ngx_shm_dict_module.c`) | `g_shm_dict_list` | directive, lookup by name | configuration cycles, workers | a worker finds each zone of its configuration by its name |
| subrequest module (`module_subrequest`) | per request: `state`, `subrequests`, `request`, `plugin`; nginx's `count` | content handler (a cascade over `state`), `post_body`, `subrequest_post_handler` | plugin; nginx's posted requests; upstream module through subrequests | references balance; the CRequest is used alive and destroyed once; no answer lost or early; every request ends |
| upstream module (`module_upstream`) | per request: `crequest`, `has_processed`, `status_code`, upstream buffer | handler, create/reinit/process_header/filter/finalize callbacks (abort is never called); per location: `mlcf->plugin` | nginx's upstream state machine; plugin; the other requests of the location | ProcessBody once and on a whole frame, Destroy once, by the plugin that made the request (which the code does not ensure); the buffers refer to live memory; no second server after a response |
| protocol (`ngx_protocol.c`) | none | encode, decode | buffer of the upstream | decode inverts encode however the bytes arrive |
| plugin manager and module (`module_plugin`) | map of plugins, one manager per process | load, InitMaster, InitProcess, Exit* | master, workers, reload | every plugin ready where requests are served; exit mirrors init |
| conversions (`utils.cc`, `uri_codec.h`) | none | ngxr_to_crequest, crequest_to_ngxr, split_string, get_post_body, UriDecode/Encode | every content handler | reference definitions |
| handle module (`module_handle`) | `handle_plugin` global | content handler, post handler | plugin | references balance; one full response; the plugin sees the parameters and the body that were sent |

What is hard to test: interleavings of workers on a zone (in particular the
pointers that outlive the lock), workers whose cached clocks disagree, the order
of evictions and expiries, the end of the eviction loop, workers that die with
the mutex held; in the subrequest module the order in which subrequests end,
starts that fail half way, bodies that arrive in parts, clients that go away; in
the upstream module what is left of one server when the next is asked, and who
owns the bytes an answer is sent from; and, over the life of an nginx, what the
master keeps from one configuration to the next and what a worker copied when it
was forked.
`PROJECT.json` lists each hazard at its line with the properties about it.

## Plan

In the order of importance in which they were built:

1. `ShmDict`, `ShmDictProps`, `EvictingMap`, `MCShmDict`, `ShmDict_proofs`, and
   `ShmDictSteps_proofs` on top of it.
2. `ShmCounter`, `MCShmCounter`, `ShmCounter_proofs` over `ShmDict`: what callers
   do without the lock.
3. `Subrequest`, `Subrequest_proofs`.
4. `Upstream`, `MCUpstream`, `Upstream_proofs`, with the responses a parent collects.
5. `Cycles`, `ZoneRegistry`, `PluginManager`, composed by `Configuration`, with
   `MCConfiguration` and `Configuration_proofs`.
6. `Conversion` and `Conversion_proofs`, used by `Handle`, with `MCHandle` and
   `Handle_proofs`.

Open: a finer `ShmDict` in which a worker dies between two pointer assignments; a
run with times to live that wrap 32 bits; the zone after an add that went astray
into something other than a value.

## Modules

**ShmDict.** One zone. `zone` is `[node, tree, queue]`: what each chunk contains,
the chunks linked into the tree, and the queue from head to tail. `clock[w]` is
the time worker `w` has cached (`ngx_timeofday`): it changes between calls only,
and two workers may disagree. A call under the mutex is one step, since nobody
can see its middle; `ngx_shm_dict_get`, `_delete`, `_set_exptime` and `_set` each
start with `ngx_shm_dict_expire(ctx, 1)` (`ExpireTwo`) and a lookup that moves
what it finds to the head of the queue, dead entries included (`Missed`). The
two critical sections that loop are cut into turns, with `mutex` and `job`
saying who is inside and where: insert's eviction loop (`EvictRound`,
`EvictGiveUp`) and flush_expired's sweep (`SweepStep`, `SweepDone`). A worker may
die between two turns (`Crash`); nginx's master then forces the mutex open. The
slab allocator hands out any free chunk of the right class on a page that is
empty or already split for that class (`Room`). Which of two entries with one
key a search meets depends on rotations and is left open (`Found`). `Init` is a new
zone; on a reload `ngx_shm_dict_init_zone` finds the zone of the old configuration
and adopts it (190-203), which changes nothing in shared memory and so is no step:
the workers of both configurations are among the `Worker`s.

**ShmDictProps** holds the properties, **EvictingMap** the abstract promise: a map
that may forget entries while a set looks for memory and otherwise answers every
call from its contents. **MCShmDict** builds the addresses, pages and classes.

**ShmCounter** adds to `ShmDict` what happens after the lock is released: `held[w]`
is a pointer kept by `ngx_shm_dict_inc_int` or `CNgxDictInterface::Get`, with the
length that was read with it; `acked` is a history of increments answered SHM_OK.
The lookup, the unlocked use and the creation of a missing counter are separate
steps. The dictionary's actions are used as they are. A pointer is `Astray` when
the entry it was taken from is freed, replaced or flushed. What lies at its address
by then depends on the lengths of keys (`KeyLen`, the value follows the key) and on
the class the page is split for: `InPlace` says that an add still hits the bytes
of a value, or bytes that are free; otherwise it goes into a key, a time or the
links of an entry, the chunk is noted in `harmed`, and nothing is said of the zone
from there on (`Lost`). A copy through an astray pointer may be any bytes
(`GetCopy`). `CountsExplained` compares, step by step while nothing is harmed, what
was acknowledged with what a get would answer, and names the reasons for a
difference: a creation under way, an astray pointer, an entry that is gone or a
string, a counter that wraps. It speaks of keys with at most one live entry
(`Single`): where a dead entry has let a second one in (the finding of
dict_delete), a get has no one answer. A counter counts modulo `Int64`, 2^64 in the
code and 3 in the run, so that it wraps. **MCShmCounter** gives zones of one page,
split into small chunks or one large one.

**Subrequest.** One request. Each test of the handler's cascade on `ctx->state` is
an action, enabled while the handler is on the stack (`running`); a return lets
events happen: subrequests finish in any order, at their turn in nginx's output
order or before it (`Finish`, `Settle`), the post handler sets the parent's
`write_event_handler` (`wake`), the rest of a body arrives, the client takes its
response or goes away. `count` is `r->main->count`.

**Upstream.** The requests of one location and the location's `plugin`, which the
handler sets for every request. `req[r]` is the request with its context
(`has_processed`, `status_code`) and what matters of its `ngx_http_upstream_t`:
the `tries` left, the first bytes of the server's `frame`, the bytes `got`, the
`length` still to send (-1 when unknown) and the bytes `out`standing to the
client. `made`, `handed` and `freed` are histories: the plugin that made the
request, those whose ProcessBody and whose Destroy were called. Phase `header` is the
time from create_request to a whole frame, `body` the time the answer is sent,
`over` the time after finalize_request; `refused` is a request the handler
ended by itself. An event of the server (`Receive`, `ServerFails`, `Drain`) or of
the client (`Flush`, `ClientGone`) is one step with every callback nginx makes in
it: `ProcessHeader` decodes, calls the plugin, sets the length, filters and, with
nothing to send, finalizes. A request in `InMemory` is a subrequest that
`module_subrequest` started: nginx keeps its answer in `u->buffer` and ends it when
`length` is 0, and `Collect` is the parent's copy of that buffer in
`plugin_check_subrequest`. Only such a request's `parent` waits; one that was
refused is not marked done and leaves it waiting (`ngx_upstream_module.c:335`), and
one whose answer is empty waits for the server to close. **MCUpstream** says which
requests name which plugin.

**Configuration** composes **ZoneRegistry** (the list and the two loops over it) and
**PluginManager** (the maps of plugins and the calls to them) over **Cycles**, the
configurations an nginx reads one after the other. The master is in one `phase`
at a time: it reads directives (`ZoneDirective`, `OtherDirective`, `PluginDirective`,
`BadDirective`), loads (`LoadPlugins`) and initializes (`InitPlugins`), and is idle
with a `cycle` that is served. `pool` are the cycles whose memory exists: a refused
or a replaced one is gone. Workers are forked with copies of `list` and `manager`,
initialize (`InitProcess`), serve, crash, quit. A process in a worker also carries
one `CNgxDictInterface`: `m_zone` is garbage until somebody writes to it
(`Construct`), then NULL or the `zone` last found. `Search` says what a loop meets
in the memory a process holds: the name, nothing, or freed memory; in the last
case the worker finds what was there, misses it (`Missed`), takes something else for
a zone, or dies. **MCConfiguration** has the symmetry.

**Handle** is one request at a location with `nginx_handle`: the content handler, the
post handler with the content handler below it on the stack (`pc`), and nginx's
`count`, finalization and writer. **Conversion** holds the pure functions of
`utils.cc` and `uri_codec.h`, written as recursive functions over sequences of
bytes; a buffer of a body is its size and place. The request's query and body are
converted in the step that hands the `crequest` over, and the properties say what
the result should be in other words: `ParamsRight` by the pieces between delimiters
(`Pieces`, `KeyOf`), `HandsWholeBody` by what was `Sent`, `DecodesForms` by the place
each character ends up at, the number of kept ones up to it. A body has at most
one buffer in a file, as nginx keeps it; of two, `get_post_body` would append too
much for a shorter second one (`utils.cc:381`). **MCHandle** enumerates short query strings and bodies of one or two buffers.

## Runs

| run | question | bounds, and why they are enough |
|---|---|---|
| dict_expiry | does anything corrupt the zone, lose a live entry, break the order of use or evict out of it when entries expire? | 2 workers, 2 keys, 3 chunks, clocks 2..4, times to live 0 and 1, sweeps without limit and of 1: two clocks can disagree by two ticks, entries can be live, equal to their time and past it, duplicates of a key fit beside another entry; workers and keys are symmetric |
| dict_pressure | do values fit, are keys unique, is the zone an evicting map, is the lock always released, when nothing expires and memory is short? | one page of 3 small or 1 large chunk, 4 legal keys and one refused, one eviction turn: the loop succeeds at once, later, or gives up after it has evicted; a large value needs the whole page; workers die in both loops; weak fairness of the loops. Zones of more pages are covered by the theorems, the liveness property by this one only |
| dict_delete (violation) | does delete hide a key? | the bounds of dict_expiry with one worker: no concurrency is needed |
| counters | is every lost or unearned increment explained? | 2 workers, 3 keys (one longer than the others), a page that is 2 small chunks or a large one, 4 increments modulo 3, every call of the interface: while one worker holds a pointer the other frees its chunk and uses it again, for a value of the same length, behind a longer key, or in a page split anew; a third key evicts; a flush frees so small a zone completely |
| counter_race (violation) | does every acknowledged increment count? | 2 workers |
| subrequest | do references balance, is the context used and destroyed properly, does every request end? | up to 3 subrequests in each of 2 rounds: one settled, one done early and one running can coexist, and so can unsettled ones of the earlier round; all faults |
| subrequest_body (violation) | is a request whose body came in parts handed to the plugin? | same |
| upstream | is each request processed and destroyed once, on a whole frame, and never sent on after that? | 3 requests, of one plugin, of another and without a plugin name; 2 servers each; a header of 1 in a buffer of 3 with lengths 0..3: frames arrive whole, by pieces, too long for the buffer, and with the wrong flag; answers of 0 and 1 byte; errors and bad frames go to the next server, timeouts do not; one request is a subrequest in memory |
| upstream_plugins (violation) | does each request's response go to its own plugin? | 2 requests that name different plugins |
| upstream_memory (violation) | does a parent read a response that still exists? | 2 requests, one in memory |
| configuration | do workers find their zones, serve with all plugins ready and exit what they initialized? | 3 configurations with up to 3 directives in all, 2 zone names, 2 plugins, 2 workers: one configuration can be refused after it declared a zone or replace another, plugins can fail first or second, a worker of an old configuration can be alive beside a new one's |
| handle | does the plugin get what was sent, and the client one full response? | every query of up to 3 of 6 characters (`%`, `+`, `=`, `&`, space, a hexadecimal digit), every `a=` with 3 more, bodies of up to two buffers in memory and file: an escape can be first, last, cut off and next to another, keys can be empty, repeated and without a value |

`Msec = 1`, `Uint32 = 8` and `BaseTime = 2` scale time down: the wrap of
`exptime * 1000` is in `Deadline`, but the times to live of the runs do not
reach it. `MaxTime`, `MaxCount`, `MaxRounds` and `MaxSubs` bound what would
otherwise grow without end; `MaxExpireCount` is the code's constant 30 made small.

The violations, in words:

- *delete and set*: set treats an entry past its time as missing and inserts a
  second one beside it. Until the dead one is freed, lookups end at either:
  delete can report success and leave the live value in place.
- *counters*: two workers that both find a counter missing both create it, and
  the second overwrites the first one's increment.
- *subrequest*: a body that takes more than one read ends the request unanswered,
  because `post_body` is called in `MODULE_STATE_INIT` in both of its cases.
- *two plugins in a location*: the upstream handler keeps the plugin a request names
  in the location's configuration and reads it from there when the response is
  there; another request's handler has replaced it by then (`plugin_name` is a
  variable, which the configuration may set from the request). With a name that
  no plugin has it is even cleared, and the first request's response is handed to
  nobody.
- *upstream in memory*: `u->buffer` points into a string of the CRequest, which
  finalize_request destroys; nginx wakes the parent after that, and the parent
  copies from the freed string.

What the models show besides, where no property claims the contrary:

- A pointer kept past the unlock may lead to another key's entry: the chunk is
  freed and used again before the holder reads or adds (`Astray`). If that entry's key
  is of another length, or the page has been split for another class, the add can
  hit keys and links (`harmed`), and the tree and the queue are sound no longer.
- A set may fail after it has evicted entries: 30 turns may not free a chunk of the
  right class.
- A worker frees what its own clock calls expired, though another's does not; at
  `expires = now` a get serves an entry that a sweep frees.
- A client that goes away while subrequests run leaves their CRequest behind: no
  path of the handler runs again and no cleanup is registered.
- At a location with `nginx_handle`, a POST whose body is not there with its header,
  or whose response the client does not take at once, never ends: the handler
  returns what reading the body returned, where nginx wants NGX_DONE, and a
  reference is left over; of a body that comes later nothing is read any more,
  since finalizing the request with NGX_AGAIN replaces the reader
  (`ngx_handle_module.c:67`). `Ends` names these as its exceptions.
- The 500 for a plugin whose Handle failed is overwritten by the CRequest's status
  (`ngx_handle_interface.cc:69`, `utils.cc:262`).
- A configuration that adopts the list of an earlier one searches freed memory, in
  the master and in its workers; that is why `FindsOwnZones` and `PointsAtOwnZone`
  speak of the first configuration with zones. A zone whose name another module
  has is accepted and not in the list (`ngx_shm_dict_module.c:194`).
- Replaced configurations get no ExitMaster, and plugins initialized before one
  that failed get no exit call.
- A `+` among the last two characters of a value stays a `+` (`uri_codec.h:96`); of
  several parameters of one name the first counts; an incr ignores its exptime
  (`ngx_shm_dict_handler.c:90`).

### Fairness

`ShmDict!FairSpec`: a worker inside one of the two loops keeps running; the loops
make no call that blocks. Nothing obliges a worker to call the dictionary.
`Subrequest!FairSpec`: nginx runs the handler, posted requests and the end of
subrequests (upstreams answer or time out), the rest of a body comes (or
`Abort` is its timeout), clients take their responses. `Abort` itself is not
fair. `Upstream!FairSpec`: clients take what is sent to them (`Flush`, or `ClientGone` as
its timeout); of servers nothing is assumed, so `PromptEnd` says that an accepted
response needs no further word from the server. `Handle!FairSpec`: a handler on the
stack runs to its end, and the client takes the rest or its time is up
(`WriteFails`). `CHECK_DEADLOCK FALSE` is used for
`Subrequest`, `Upstream` and `Handle`, whose requests are over at some point (`Ends`
says that the first and the last never stop before), and for `Configuration`, where
nginx goes down.

## Proofs

`ShmDict_proofs`, for any sets of workers, keys, values and chunks, any clocks and
any limits satisfying the module's assumptions, proves that

    IInv == TypeOK /\ Consistent /\ SlabSound /\ LockHeldByJob /\ SweepInsideQueue

is inductive, where `LockHeldByJob` says that the mutex is held between steps just
by a worker inside a loop. None of its parts is inductive alone: a sweep unlinks
`queue[at]`, which is an entry because `at` is inside the queue and the queue holds
exactly the allocated entries; linking keeps chunks sound because the job's
value and the chunk come from the same class; a job is only there with its
worker in the mutex, so no call changes the queue under a sweep. The argument
goes through lemmas on operations (`QueueRemoveProperties`, `UnlinkGood`,
`LinkGood`, `MoveToHeadGood`, `OverwriteGood`, and `ExpireTwoGood`,
`ExpireForcedGood`, `LookupGood` on top of them), then one lemma per action.
Assumptions used: equal value lengths share a size class, the mapping of chunks
to pages and classes is fixed, the base time is later than 1 ms (flush_all writes
that time), and `Nil` is no worker, key, value, node or job.

`ShmDictSteps_proofs` says what steps may and may not do, from `IInv` of both their
ends. Operations on a zone are described by what they keep: `Expired` (all but
stale entries), `Kept` (nothing new), `Prefix` (the queue is cut at its tail), `Puts`
(one entry is new). Composed along each call they give `NoCollateralLoss` and
`EvictsOldestFirst` for any clocks and limits. `RecentFirst` comes from the same
operations seen as changes of the queue: cutting it keeps the order of the rest
(whatever `Before` it had), and only moving or putting an entry of the call's
key in front turns a pair round. For zones in which nothing expires (`Eternal`, the case of
dict_pressure; with expiry `UniqueKeys` and the refinement are false, see
dict_delete) `MapInv` says that a key has one entry, that a job's key has none, and
that a deleted key has none. It gives `UniqueKeys`, `DeleteHides`, and, action by
action, `ImplementsEvictingMap`: each operation on the zone is an operation on the
map it stands for (`MapOf`), every other step a stutter.

`ShmCounter_proofs` adds the callers that hold pointers. The dictionary's `IInv`
survives every call, by the lemmas above, and the unlocked add as long as it is
`InPlace`, because a counter and its successor are as long and so of one class
(`AddKeepsInv`); of an add that is not, the model only records that it happened, so
no theorem says that the zone stays sound under it. A get that hits leaves its
entry at the head of the queue, which is therefore where a pointer starts.
`CountsExplained` needs besides what is in the loop: a string for a worker that
holds nothing, a new counter for one that creates it (`LoopKnown`); a step that does
not add carries each key's entry over as it is or loses it (`Carried`), so counts
change only where somebody adds, creates or stores. Assumptions used: values are
closed under adding one and keep their length, a set of inc_int's may have no time
to live, `Nil` is no pointer.

`Subrequest_proofs`, for any number of subrequests and rounds, proves `UsedAlive`,
`EndsClean`, `PluginSeesAll` and `ReadsInInit` (a body is only ever read in
`MODULE_STATE_INIT`, so the branch for further reads is dead) from an invariant that ties the life
of the CRequest to the state of the cascade (`Life`), the two ends the handler
knows to their states (`Ended`), and says that nothing can wake the handler
before the plugin was called (`Fresh`). On top of it `Open` says that the handler is
only on the stack of an open request and that its references are exact; each
subrequest is in one of the sets the count adds up, and every step moves one
member or none (`WithMoves`), except that a new round starts from one with none
running (`LaunchCounts`), which is `PluginSeesAll`. `TypeOK` and `CountExact` follow.

`Upstream_proofs` gives each phase of a request its `Shape`: before `body` nothing
was handed to a plugin and nothing is outstanding; in `body` the frame is
`Whole`, and in `over` it is or a status was set; `out` is positive only in `body`, where nothing is freed. Every
operation maps shapes to shapes, and the type invariant, `WholeFrame`, `BodyAlive` and
`OneServer` follow for any requests, plugins, servers and sizes. `HandedOnce` needs
that a request under way never finds the location without a plugin; where every
name is that of a loaded plugin, or not set (`Loaded`), `ToldInv` (how often a request
was processed and destroyed, phase by phase, and that there is a plugin while one is
under way) is inductive together with the shapes. Whose plugin it is it does not
say: upstream_plugins shows that it may be another request's. Assumptions used: at
least one server, sizes are naturals, `Nil` is no plugin.

`Configuration_proofs`, for any configurations, zones, plugins and workers. The
argument is that the master writes only to what belongs to the configuration it
reads, and that one has no worker yet (`Untouched`): what holds of a configuration
when it is accepted holds of it for the lives of its workers. `PluginInv` says by
phase what the master has loaded and initialized and gives `TypeOK`,
`ReadyToServe` and `ExitMirrorsInit`. For the zones a second invariant says of the list, while
the first configuration with zones is read or served, that it holds each declared
name once, at its own cycle, in memory that exists; refused configurations cannot
have put anything in it, since the first one's declaration made it. `FindsOwnZones`
and `PointsAtOwnZone` follow. Assumptions used: configurations are numbered from
1, plugins are numbers, `Nil` is none of the values it stands in for.

`Conversion_proofs` says what the loops of the conversions compute for every string
and every body. A fold or a recursive function is a CHOOSE of a function that
satisfies an equation, so the first thing to prove is that one exists. The
library's induction theorems take an operator, which the provers cannot
instantiate; but that the numbers are well founded is a first-order fact
(`NatLessThanWellFounded` with `WFMin`), from which `LeastNatural` and, for sets
of numbers, `SetInduction` follow. `Recursion` gets from them a function for
any recursion along a rank, `IterationExists` one for any fold. On these rest what
`UriDecode`, `FlattenSeq`, `GetPostBody` and `SplitString` do from one place to the next
(`DecodeIs`, `FlattenIs`, `WholeBody`, `SplitIs`), that decoding undoes encoding
(`DecodesEncoding`: each code is decoded to its byte, and the last two characters of
an encoded string are no `+`), and that a decoded form has the kept characters at
their places (`FormsDecoded`).

`Handle_proofs` proves `EndsAnswered` from a count of the references by what is on the
stack (`Counted`), for any queries, bodies and status codes. `WholeInv` adds the
types, and that a plugin has only been called when the body was all there; with
the lemmas above it gives `TypeOK`, `HandsWholeBody`, `RoundTrip` and `DecodesForms`.
For `ParamsRight` the string is read from behind: the map `split_string` has built from
a place where a piece may begin (`Start`) has the keys of the pieces from there on,
each with its first value (`Mapped`), because the pieces from there on are the one
it finds, if it has a key, and those behind the delimiter (`KeyedStep`). Assumptions
used: queries are strings of bytes, bodies are sequences of buffers with at most
one in a file, a status is 0 or a status code.

Only model-checked: liveness (`LockIsReleased`, `Ends`, `PromptEnd`), which is out of
the prover's reach. Some theorems carry a hypothesis besides the assumptions of their
modules: those under `Eternal`, which say nothing of zones where entries expire (as
dict_delete shows, a dead entry may stand beside a live one there), and
`ToldAndFreedOnce` (`Loaded`), since a name that no plugin has clears the plugin of
the requests under way.

## Not modelled

In the dictionary: a zone after an add went into a key, a time or a link; the shape of the red-black tree (insertion compares keys at
139-177 and rotations are nginx's), hash collisions (a search compares whole
keys), `ngx_shm_dict_count` (nobody calls it; it would not return from a zone with
an entry), `value_type` and `user_flags` outside the counters, a worker that dies
between two pointer assignments, increments by more than one. In the subrequest
module: failures to allocate, the conversion of requests and responses, a plugin
that answers PLUGIN_AGAIN without a subrequest (the model takes at least one as
the plugin's part of the contract). In the upstream module: `abort_request` (nginx
sets the pointer and never calls it), the message sent and
`ngx_http_protocol_encode`, failures to allocate, the reference count of the
request, bytes that follow a response while it is being sent, the bounds of
`u->buffer` once it points into the plugin's string, and the directives. In the
configuration: sizes of zones, failures to allocate, an nginx without a master
process. In the conversions: headers, which are copied without a decision, and a
body's file that cannot be read in one piece. The build files, `nginx.conf` and the
public headers have no behaviour of their own.
