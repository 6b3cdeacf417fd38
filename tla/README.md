# web-sanitizer-rs in TLA+

This directory holds TLA+ models of the `web_sanitizer` crate (`src/src/`), TLC
configurations that check them on small instances, and TLAPS proofs of what must
hold for every instance. Line references are to the commit the models were
translated from.

    tlc -workers 2 -config MCGuard.cfg MCGuard.tla     # one run
    tlapm HostProofs.tla                               # the proofs of one module

## 1. The system

web-sanitizer takes HTML documents and media files (paths, directories or URLs),
removes what is dangerous in them and writes sanitised copies and a JSON report.
It runs as a one-shot scan (`main.rs`) or as a small HTTP server (`serve.rs`).

| Component | Code | State | Operations |
|---|---|---|---|
| Batch engine | `engine/mod.rs` | job and result channels, a mutex around the receiver, outcomes by index | spawn workers, send, receive, process one input (panics caught), collect, join, emit |
| Pipeline of one input | `engine/mod.rs`, `engine/route.rs`, `sniff/` | the acquired bytes, actions, verdicts | acquire, check budgets, sniff, route to a scanner, run the sub-resource loop |
| Sub-resource loop | `engine/subresource.rs` | URLs seen, budget spent, reports, assets, rewrites | one pass over the references of a document |
| Fetch client | `fetch/mod.rs` | current URL, hop, deadline, bytes read | redirect loop over `ureq`, size and time caps |
| SSRF guard | `fetch/guard/mod.rs` | thread-local scope and endpoint, policy | decide on a resolution in the scope of the thread |
| Resolve cache | `fetch/guard/cache.rs` | verdicts by host and port, recency clock, counters | get, insert, evict |
| URL checker | `urlcheck/` | verdict memo shared by the workers | classify a URL, memoise |
| HTML pass | `html/` | a streaming rewriter, collected references | apply rules, rewrite references |
| DoS and active content scanners | `scan/` | none between inputs | XML entities, zip ratios, pixels; scripts in PDF, SVG, TIFF, CSS |
| Report | `report.rs` | per-input reports, summary | push, exit code |
| Input gathering | `input.rs` | list of inputs, skipped symlinks | walk, derive output names |
| Front-ends | `main.rs`, `serve.rs` | write failures; requests, blocking threads | emit files, serve requests |
| Policy, address tables | `policy/`, `netaddr/` | immutable configuration | load, classify |
| Evaluation tooling | `xtask/`, `fixture/` | a fixture's counter, a child process, a sentinel listener, tables | process the corpus, judge scenarios, measure, draw |

How they interact. A front-end gathers inputs and hands them to the batch engine,
whose workers run the pipeline. All workers share one fetch client, hence one
guard with one resolve cache, and one URL verdict memo: these are the only shared
mutable state besides the channels. `ureq` calls the guard back as its resolver on
the thread that fetches; the two sides talk through thread-locals (the scope of
the request going in, the first vetted endpoint coming out). The endpoint of a
document becomes the exemption of its sub-resources. Time enters as deadlines (a
fetch, a document) and as the TTL of permissions in the cache.

What is hard. Races between looking up a verdict, resolving and storing it;
verdicts shared by requests with different exemptions; names that rebind between
two hops; budgets shared by fetches that can fail in every way; results out of
order, panics, a channel protocol that blocks for ever if one message is lost;
one deadline over a chain of servers that answer when they please. `PROJECT.json`
lists each hazard at its line, with the properties that would catch it.

What makes the components correct:

- guard and cache: nobody is handed an address forbidden for *their* request;
  what is stored is valid for *every* request; refusals win races; permissions age
  from the moment they were vetted; the table stays bounded; every call returns;
- fetch client: every hop vetted in the scope of its own fetch, the scope restored
  on every exit, limits on hops, bytes and time over the whole chain, no truncated
  body, the right endpoint, an end to every fetch;
- sub-resource loop: joint budgets hold, one request per URL, one report per URL
  in document order, rewrites that are true, internal endpoints only by exemption;
- batch and report: no input lost or doubled, order kept, the summary a function
  of the reports, complete counters, an exit code that tells, termination;
- URL checker: a verdict independent of the memo, exact recency, emitted text that
  would itself pass, masks that agree with network bounds;
- pipeline: budgets held against a file that grows, bytes only with a status that
  allows them, changed output never called clean, no fetch of a URL acted against,
  rewritten bodies that pass where they were stopped, measures that find every
  entity cycle and no other, assets of the kind asked for;
- front-ends: walks that stay in their tree and end, no work under a faulty
  configuration, outputs that do not overwrite one another, answers that agree
  with reports, every request that is there answered;
- evaluation: exit codes and tables that say what happened, requests attributed
  to the sample that made them, no child left behind, no table short of a row but
  the one whose writing failed, charts that name the mode they were measured in.

## 2. Modules

| Module | Models | Extends |
|---|---|---|
| `ResolveCache` | the shared table: `Hit`, `Miss`, `Insert` with eviction | |
| `Guard` | `decide()` of concurrent threads, time | `ResolveCache` |
| `GuardPromise` | abstract: what a resolution may return | |
| `FetchPromise` | abstract: what a fetch may return | |
| `FetchClient` | `HttpFetcher::fetch` and the thread-locals; instantiates `FetchPromise` | |
| `FetchClientProofs` | the limits, scopes and endpoints of every chain of redirects, and that `FetchClient` implements `FetchPromise` | `FetchClient` |
| `SubresourceLoop` | the loop of one document over abstract fetches | `FetchPromise` |
| `SumProofs` | sums over finite sets: the lemmas tallies and byte counts need | |
| `SubresourceLoopProofs` | the inductive invariant of the loop and its five properties | `SubresourceLoop`, `SumProofs` |
| `Report` | `report.rs`: statuses, `Push`, `ExitCode`, and the summary restated | |
| `Batch` | `process_batch` and `main.rs` after it | `Report` |
| `BatchProofs` | that no job is lost or doubled, that the report is exact and the exit code tells | `Batch`, `SumProofs` |
| `Addresses` | `netaddr/`: networks, masks, embedded addresses, the deny table | |
| `HostLists` | `policy/blockset.rs`, `policy/protectedset.rs` | |
| `UrlCheck` | `urlcheck/`: `Classify`, and the memo under concurrent workers | `Addresses`, `HostLists` |
| `HostProofs` | the two parts that judge where a link leads: the inductive invariant of `Guard`, what no step of it does, the bound of its table, and that it implements `GuardPromise`; that the memo of `UrlCheck` is transparent, its recency exact, what is emitted settled and masks exact | `Guard`, `UrlCheck` |
| `Sniff` | `sniff/`: declared, sniffed and effective type of a body | |
| `DosScan` | `scan/dos/`: XML entities, archives, image dimensions | `Sniff` |
| `HtmlPass` | `html/`: element rules, references, the rewriting pass | `Sniff` |
| `ActiveScan` | `scan/active/`: CSS, SVG, PDF, TIFF, scripts | `DosScan`, `HtmlPass` |
| `Pipeline` | `Engine::pipeline`, `acquire`, `route`, and the admission of a fetched body | `ActiveScan` |
| `PipelineProofs` | that reports are honest, references settled, assets of the kind asked for and budgets exact | `Pipeline`, `SumProofs` |
| `InputWalk` | `input.rs`: arguments, the tree walk | |
| `PolicyFile` | `policy/mod.rs`: defaults, file, flags, errors | |
| `Serve` | `serve.rs`: callers, blocking threads, shutdown | `Report` |
| `FrontEnd` | `main.rs` from arguments to exit code | `InputWalk`, `Serve`, `PolicyFile` |
| `FrontEndProofs` | that nothing precedes a sound configuration, that walks are exact, answers true and outputs apart | `FrontEnd`, `SumProofs` |
| `Scoring` | `xtask`: truth, measures, verdicts, tables | |
| `CorpusRun` | `xtask correctness` with its fixture server | `Scoring` |
| `Scenarios` | `xtask scenarios`: origin, child, port, sentinel, judgement | |
| `Measuring` | `xtask latency`, `phases`, `memory` over the tables that stay, and what `plots` draws of them | `CorpusRun` |
| `Evaluation` | `xtask` commands and exit codes, `coverage` | `Measuring`, `Scenarios` |
| `EvaluationProofs` | that the harness tells the truth about its samples, its scenarios and its measurements | `Evaluation`, `SumProofs` |
| `MC...` | small instances for TLC | |

Where the code asks one question after another (an `if` chain, a `match` with guards,
early returns) the models have `IF ... ELSE`; `CASE` is used only where the arms exclude
one another, as TLA+ leaves open which of two true arms is taken.

Two abstract specifications tie the layers. `GuardPromise` has no table: a reply is
permitted for its own scope, or a refusal that some thread's resolution earned;
`Guard` implements it (`KeepsPromise`, run `guard`). `FetchPromise` has no hops: a
call ends in one error, or in a whole body from a permitted endpoint within its
cap; `FetchClient` implements it (`KeepsPromise`, run `fetch`), and
`SubresourceLoop` is built on its actions, so that what holds of the loop holds
over the real client. The step from the guard to the client is `Reachable`, the
permission both promises state.

### 2.1 ResolveCache and Guard

`table`, `clock`, `hits`, `misses` are the fields of `ResolveCache`; `now` is the
clock `decided_at.elapsed()` reads. `get()` runs under the read lock and `insert()`
under the write lock, so `Hit`, `Miss` and `Insert` are one step each. `Insert`
contains the early return for a resident refusal, the eviction and the store.
Eviction takes the least recently used key of a random sample: `Evictable` is the
set of keys some sample makes the victim.

`decide()` holds no lock between these, so a thread has the phases `get`, `lookup`
and `settle`, and threads interleave between them. `Call` is the resolver's entry
with the branches that read nothing shared (allow-listed host, literal, unguarded).
`GetHit` returns the stored verdict before any exemption is looked at, as the code
does. `Deny` is the vetting loop stopping at its first forbidden address, `Grant`
its end; each is merged with the insertion that follows, since the loop reads only
the thread's own answer. `tainted` and `vettedAt` are history.

Abstractions. The deny table, `deny_extra` and the allow list are the sets
`Forbidden`, `AllowAddrs`, `AllowHosts`; a key stands for a host and port after
`key()` has normalised them. Two concurrent hits may store their ticks in the
opposite order (relaxed atomics); `Hit` does not, which only matters for which key
is least recent, and the properties hold for any victim. `decided_at` is read
inside `insert()`, as in the code, not when the name was resolved.

### 2.2 FetchClient

`Begin` is `fetch()` up to its loop, with `enter_scope()`. A hop goes `hop` (scheme
and deadline checked), `resolve` (ureq calls the guard), `respond` (waiting for
headers), and back to `hop` or on to `read`. `Resolved`, `Denied` and `Unresolved`
are what the guard may answer: `Denied` needs no forbidden address, since a cached
refusal may answer too. The resolver ignores ureq's time limit
(`GuardedResolver::resolve` has `_timeout`), so a resolution may outlast the
deadline, and nothing but the resolver ends it. Checks on a response are made in the code's order: redirect
status, missing or foreign `Location`, hop limit; status, declared length,
encoding. `Return` is every exit, and drops the `ScopeGuard`. `Broken` is any
transport failure and any of ureq's shorter timeouts. `dials` and `began` are
history. `peer` is the address ureq's connector got through to, which the code
never learns.

The 16 addresses the resolver passes on at most are not distinguished from all.
Responses are what they do to the control: redirect or not, length, whether the
length is declared, whether the body is encoded.

### 2.3 SubresourceLoop

One action per way a reference is dealt with: `Skip` (not a web URL, or seen),
`TurnAway` (blocked, or out of requests, bytes or time, in this order), `Request`,
and then `FetchFailed` or `Settle`. `Record` is the tail of `run()`: report, asset,
rewrite and action. A body whose scanner panics ends the whole document
(`Pipeline!Unwind`), which here is a loop that stops. `Judgements` abstracts sniffing, the mismatch rule, the
configured types and `route()`: any of refused, clean, sanitised, except that a
body over `max_input_bytes` is a budget refusal. `now` may advance at any point,
and the loop may start at any time, late included. `rules` is the part of the policy
that changes the control (enabled or not, `rewrite_refs`, `action_refused`): any of
`Policies`, chosen at the start and never changed. `max(1)` in `fetch_policy()`
only matters below the resolution of the model's clock.

### 2.4 Report and Batch

`Push` folds one report into the summary as the code does; `SummaryOf` restates
the whole summary over the list. `Batch` has the channels as sequences, the mutex
held while a worker waits in `recv()`, and the main thread in the phases send,
collect, join, emit, symlinks, report, done. `Process` yields any outcome, `Panic`
the one `catch_unwind` leaves. `Emit` writes `files` outputs, any number of which
may fail; `WriteReport` may fail as a whole. `made` is history. `hits` stands for
the two cache counters, which any processed input may raise.

### 2.5 Addresses, HostLists and UrlCheck

`Addresses` has addresses as their digits (4 of 8 bits, 8 of 16). `Covers` masks
digit by digit as the shifted word does, `Between` restates it as bounds. `DenyTable`
is the constant table in the code's order followed by `deny_extra`, and the first row
that covers an address names the rule; embedded IPv4 addresses are unwrapped first.
`HostLists` reads hosts files line by line and indexes protected domains by skeleton,
where a later domain replaces an earlier one with the same skeleton.

`Classify` is `UrlChecker::classify`, in its order of precedence. A raw value is its
text and what `Url::parse` makes of it; the parser, punycode and the confusables table
are external and appear as `Shown` and `Prototype`. A memo hit is two steps, since
`lookup()` takes a tick and stores it with only the read lock held, so hits of two
workers may overlap; `Record` needs `WriteLock`. A worker that missed classifies with
no lock held, so two may record the same value.

### 2.6 Sniff, DosScan, HtmlPass, ActiveScan and Pipeline

A body is a record of what each handler can make out in it: markers at the offsets
magic numbers are sought at, a sequence of elements, rules of a stylesheet, entity
declarations, a zip directory, the cells of a TIFF, objects of a PDF. A handler
reads its own part, and the parts one file could not have together stay blank.

- `Sniff`: header before name for the declared type, magic before text markers for
  the sniffed one, OOXML archives recognised by folder and macro stream. A type that
  was sniffed wins over one that was declared.
- `DosScan`: `XmlRisk` walks the declarations with the code's depth, count and size
  (`expanded_size` counts its depth upward, `ExpandedSize` counts down what is left of it);
  `Expandable` says without a walk when a table can be expanded: its names can be ranked
  so that every reference falls, within the depth, and measured so that each is as long as
  its pieces, within the size. `ImageDimensions` has the header formats and the bounds of their fields
  (`Word`, `Packed` are 2^32 and 2^14 in the code); pixels saturate at `Word * Word - 1`.
- `HtmlPass`: `SanitizeHtml` handles the elements one by one and gathers what they add up
  to (`Gather`). The rules of one element are in the code's order. The two loops over the
  attributes that hold URLs are `Sweep`: a rule decides by an attribute's own value alone,
  so what each loop does is one function of the attributes, with its actions in their
  order. References are collected from what is left. `RewriteReferences` is the second
  pass, by literal value.
- `ActiveScan`: the search of a stylesheet in tokens and its rewriting rule by rule;
  the TIFF directory chain as a walk over cells, with the cut of each private tag;
  the PDF dictionary paths; SVG as HTML under rules that allow nothing.
- `Pipeline`: `Measure`, `FileChanges` and `Read` are separate, so the file may grow or
  vanish between them; `Fetch` yields any result of `FetchPromise`; `Process` is
  sniff, route, loop, second pass and status in one step, as nothing interferes there
  but a panic; `Admit` is what the sub-resource loop does with a delivered body.
  `LoopMaps` is any rewrite map the loop (`SubresourceLoop`) may return. `Panics` says
  which bodies make a scanner panic; nothing between it and `process_indexed` catches
  that, so one a document fetched ends the document (`LoopPanics`, `Unwind`).

### 2.7 InputWalk, PolicyFile, Serve and FrontEnd

`InputWalk` has the file system as a function from entries to their kind, parent and
target. `Canonical` follows no more links than there are entries, so that a circle of
links leads nowhere, as a kernel reports. One step looks at one entry of the innermost
directory, in the order of names (`Listing` gives each entry its rank); `visited` holds
canonical directories, as in the code. `began` is a history variable: how many inputs
there were before the walk under way, so that `WalkExact` is about each walk by itself
and a directory that is named twice is walked twice. `PolicyFile` settles a policy key by key:
defaults, file, flag, and the errors of each. `Serve` has one request per caller: it
arrives in two parts (`Arrive`, `SendRest`), its handler awaits a blocking thread, and
the answer is there (`answering`) until the caller has taken it. A caller may stall in
`sending` or `answering` for ever, as no timeout is set, or hang up, which drops the
handler and not the thread; after the signal nothing new is accepted and `Stop` waits
for every connection that is open and every thread. `FrontEnd` composes them in the order
of `main.rs`: policy, inputs, output directory, engine, emission, report, exit code. A
name of an output is the position of its input and the name of the file, and the position of the sub-resource
for an asset (`Outputs`); the report is a fixed name of its own. `PrepareOutDir` is the
one thing a start may leave behind (`outDir`) though a list of names proves malformed
after it, and `ConfigFirst` says when it may. It asks two
more things of the policy in force: no key is laxer than its default unless the file or a
flag names it (`Acts`), and its budgets fit together unless a file sets one of them (`Fits`).

### 2.8 Scoring, CorpusRun, Scenarios, Measuring and Evaluation

`Scoring` is the pure part of `xtask`: which expectation holds in which mode, what is
unexpected, missing or surviving, verdicts and their counts, and `Anchor`, which decides
which references of a sample are pointed at the fixture. `CorpusRun` interleaves the
engine's requests with the fixture's handlers, which are threads: a handler reads a
request, counts it and answers; a client may give up while its request is unread
(`fixture.strays`), and the handler counts it later. `Scenarios` has the origin brought
up with docker or found, the child that may bind its port, die or be late, somebody
else taking the port in between (`intruder`), the sentinel's listener and its poll, and
`Judge` with the code's checks (codes, statuses, rules, markers where the table forbids
them, the error of a report); a list of scenarios may not load from an origin that is up,
and the rows may not be saved (`SaveScenarios`). `Measuring` goes through the sets and modes
as `main.rs` does; a row is the size and the median time of a file, and `results` is
what is on disk: a table is replaced when it is saved, a save may fail before, between
or within rows, and the task may be killed at any step, within a save too (`CutOff`). `Draw` is `plots::all`: the
tables that load, alone, in pairs and side by side, under the mode their directory
stands for. `Evaluation` is the dispatch to exit codes; a measurement may be followed
by `plots`.

## 3. Runs

| Run | Instance and bounds | Shows |
|---|---|---|
| `guard` | 2 threads, 3 names of which one rebinds and one has an exempt answer, 4 endpoints, a table of 1 entry, TTL 2 of 3 instants, 4 calls | `TypeOK`, `VettedOnly`, `SharedVerdictsHold`, `BoundedTable`, `RefusalKept`, `StaleNeverServed`, `EveryCallReturns`, `KeepsPromise` |
| `guard_evict` | the same, 3 calls | `DeniesNeverExpire` is violated |
| `guard_exempt` | names that never rebind, no allow-listed network | `OwnEndpointReachable` is violated |
| `fetch` | 4 kinds of fetch, 3 hosts with redirect cycles, foreign and missing targets, bodies of length cap and cap + 1, 5 instants | `HopsBounded`, `ThreadLocalsTrue`, `WholeBody`, `TotalDeadline`, `FetchEnds`, `KeepsPromise` |
| `fetch_peer` | the same | `EndpointIsPeer` is violated |
| `subresources` | 3 documents of up to 4 references (and an empty one) in 6 spellings of 3 URLs that may be requested, 4 policies, 2 requests, 3 bytes, 4 instants | `WithinBudgets`, `OncePerUrl`, `InternalOnlyOwn`, `RewritesTrue`, `AccountedFor` |
| `subres_spelling` | the same | `EveryReferenceLocal` is violated |
| `batch` | 2 workers, 3 inputs, 3 outcomes and a panic, one skipped symlink, up to 2 files per input | `OnePlace`, `ReportExact`, `ExitTells`, `ScanEnds`, and no deadlock |
| `urls` | 2 workers, 10 kinds of link, a memo of 2 entries, 4 checks | `MemoTransparent`, `RecencyExact`, `EmissionSettled`, `MasksExact` |
| `pipeline` | families of documents (up to 3 elements, 9 kinds of value), stylesheets, entity tables (3 or 4 names), archives, TIFF chains (up to 8 cells), images, PDFs and assets, some of them too short for their scanner, under 4 policies; file sizes 0 to 3 with a budget of 2 | `StatusHonest`, `ReferencesSettled`, `RewritesHold`, `BudgetsExact`, `AssetsTyped` |
| `frontend` | a tree of 3 directories and 3 files with 2 links in every place and to every target; starts that fail in each way; a server for 2 callers with 7 kinds of request, who may stall or hang up | `WalkExact`, `ConfigFirst`, `OutputsApart`, `AnswersAgree`, `EverythingEnds` |
| `evaluation` | 3 samples in 2 sets and 2 modes, up to 3 requests each; 2 published scenarios and the sentinel in 2 modes; origins, ports and children that fail in each way; 17 measurements over 3 files and 5 policies, 2 readings of a clock, with and without earlier tables | `TruthTold`, `ResultsTold`, `ScenariosTold` |

`OnePlace`, `HopsBounded`, `InternalOnlyOwn` and `RecencyExact` have their module's
`TypeOK` as a conjunct. `ReportExact` is `InOrder`, `SummaryAgrees` and
`CountersComplete` together; `ThreadLocalsTrue` is `ScopeHeld` and `EndpointOfLastHop`;
`WithinBudgets` is `JointBudget` and `WithinParentTime`.

Why the bounds suffice. Two threads are what a race on one name needs; four calls
let a verdict be stored, expire, be renewed and be evicted by another name. A table
of one entry makes each second name evict. Three instants let an entry of TTL 2 be
used while fresh and then expire. In `fetch` a limit of 2 allows a full turn of the
cycle `page`, `mirror`, `page` and a third redirect to be refused; a cap of 2 meets
bodies of 1, 2 and 3 bytes. In `subresources` one document names three URLs that may be requested, and two requests
and three bytes are fewer than that asks for, so each budget runs out with references
left. In
`batch` three inputs for two workers make one worker take two, and let results
overtake each other. In `urls` two entries for ten values evict all the time, and four
checks let a value be recorded, hit, evicted and recorded again. `pipeline` has no
concurrency beyond the changing file, so its bounds are those of its data: three names
are what an entity cycle behind a chain needs, eight cells hold two directories that
overlap in every way, and each budget is met from both sides. In `frontend` two links
make the shortest circle of links, a link into a subtree seen before or after it, and
one out of the tree; two callers overlap on one server and with its shutdown. In
`evaluation` a given-up request may be counted during the next sample, and each stage
of the harness may fail with a child alive.

Fairness. `EveryCallReturns`: a thread inside `decide()` keeps running, as the code
holds no lock while it resolves and the platform's resolver gives up by itself; no
new call has to start. `FetchEnds`: time passes, the client acts on its own behalf
and the resolver returns; nothing is asked of servers, which may be silent for
ever. `ScanEnds`: the main thread and each worker keep running, and a free mutex
with a single waiter is granted; weak fairness per worker suffices since every
worker that loses the mutex loses it to one that takes a job from a finite supply.
`EverythingEnds`: the main thread keeps working, and the runtime polls every request
that is ready, its blocking thread ends (each budget of `Pipeline` and `FetchEnds` is
why) and the shutdown is polled. No caller has to arrive, send the rest of its request,
take its answer or hang up, and nobody has to send the signal. So a server told to stop
need not: a caller that stalls for ever holds axum's graceful shutdown (`serve.rs:68-71`
sets no timeout), and the last part of `EverythingEnds` is stated for callers each of
whom, again and again, is not stalling. Its second part needs no such hypothesis: a
request that is there is answered, whatever other callers do.

`CHECK_DEADLOCK FALSE` appears where a system may stop: threads that need not make
another call, a document whose loop is over, an input, a command or a task that is
done. In `batch` the end of the process is
an explicit stuttering step, `Ended`, and deadlock is checked.

## 4. Findings

Four statements of the source do not hold of the code; each has a run that finds
the shortest counterexample.

1. `policy/mod.rs:332`, "Denies never expire.": `evict_one` (`cache.rs:102-114`)
   takes refusals like permissions, so under pressure a refusal is forgotten and the
   name is resolved again (`guard_evict`). A test, `a_deny_never_expires`, holds
   since it never fills the table.
2. `policy/mod.rs:326`, "A sub-resource served by the parent's own endpoint stays
   reachable.": `decide()` consults the table before the exemption, so a refusal
   that another document earned hides the endpoint (`guard_exempt`).
3. `fetch/mod.rs:111`, "Vetted address the last hop was made to.": it is the first
   address vetted, and the connector may have moved on to another (`fetch_peer`).
4. `policy/mod.rs:280`, "Point the sanitised parent at the local sanitised copies.":
   of a URL spelt in two ways only the first spelling is rewritten
   (`subres_spelling`).

A consequence of 2 is that the summary is not strictly a function of the inputs:
with several workers, whether the shared table holds a refusal when a document's
sub-resources are fetched depends on the schedule. `SummaryAgrees` (in `ReportExact`) is the part of
that promise which holds: the summary is a function of the reports.

What the models of the other parts brought up, without a run of its own:

- `scan/active/mod.rs:117`: a TIFF whose directory offset lies beyond its end is quoted
  from that offset on, which panics, and so does `scan/dos/zip/mod.rs:27` for a body under
  four bytes declared an archive; `catch_unwind` makes it an internal error (`Panics` in
  `Pipeline`), of the whole document if the body is one it fetched (`Unwind`).
- `serve.rs:68`: the graceful shutdown has no timeout, so one caller that stalls keeps a
  server that was told to stop.
- `scan/active/tiff.rs`: directories that share cells may not be settled by one
  rewrite, so `RewritesHold` is stated for those that do not.
- `policy/mod.rs:125`: what the comment says of the budgets' status does not hold of
  `max_image_pixels`, which refuses; `max_decompress_ratio` and `max_entity_expansions`
  are read from the file and used nowhere.
- `sniff/mod.rs`: the mismatch rule `Reject` acts on sub-resources only, and an archive
  that is recognised as an OOXML document skips the archive scanner.
- `scan/active/css.rs`: a scripting name inside a string outlives the rewriting.
- `main.rs:119`: a link that dangles or leads in a circle is reported as "symlink
  resolves outside the tree root".
- `xtask/src/truth.rs`: a rule only the fetching table requires is not among those
  that justify an action, so it counts as unexpected.
- `xtask/src/main.rs`: `--strict` fails on verdicts only; a benign sample's status,
  output and required rules are not among them.
- `xtask/src/scenarios/expect.rs`: rows that admit 413 together with required rules
  cannot pass with 413, as `post()` drops the body of such an answer.
- `xtask/src/correctness.rs`: a protocol-relative candidate behind a comma is not
  anchored to the fixture, so a fetching run asks a real host for it (`outside`).
- `xtask/src/paths.rs`: a policy is known by its file's stem, so one of the same name
  in another directory shares a standard policy's tables, and `plots` may caption what
  it measured with the other's fetching mode; `ResultsTold` excepts the captions of
  such a policy (`Namesake`) and no other.
- `xtask/src/scenarios/server.rs`: between the check of the port and the child's bind
  somebody else may take it, and the harness then judges that program (`intruder`);
  `ScenariosTold` says that no row which passed is another mode's server's, and cannot say
  that it is never a neighbour's.

## 5. Proofs

Eight modules hold the proofs. Every theorem holds for all values of the constants that
the named assumptions of its model admit, and without the bounds of the runs: the
counters that stop TLC (`MaxCalls`, `MaxNow`, `MaxChecks`, `MaxTime`) are arbitrary.
Each assumption says what the code's types and its loaders say (names are not
endpoints, budgets are naturals, a resolver answers with addresses, a parsed URL has
the fields `Url` has), and TLC evaluates it in the runs of its model.

| Theorem | Module | States |
|---|---|---|
| `TypeCorrect` | `HostProofs` | `Spec => []TypeOK` |
| `OnlyVettedAddresses` | `HostProofs` | `Spec => []VettedOnly` |
| `VerdictsAreShareable` | `HostProofs` | `Spec => []SharedVerdictsHold` |
| `RefusalsWin` | `HostProofs` | `Spec => RefusalKept` |
| `NothingStale` | `HostProofs` | `Spec => StaleNeverServed` |
| `TableIsBounded` | `HostProofs` | `Spec => []BoundedTable` |
| `GuardKeepsPromise` | `HostProofs` | `Spec => KeepsPromise`: `Guard` implements `GuardPromise` |
| `HopsAreBounded` | `FetchClientProofs` | `Spec => []HopsBounded` |
| `ThreadLocalsAreTrue` | `FetchClientProofs` | `Spec => []ThreadLocalsTrue` |
| `BodiesAreWhole` | `FetchClientProofs` | `Spec => []WholeBody` |
| `DeadlineIsTotal` | `FetchClientProofs` | `Spec => TotalDeadline` |
| `ClientKeepsPromise` | `FetchClientProofs` | `Spec => KeepsPromise`: `FetchClient` implements `FetchPromise` |
| `BudgetsAreJoint` | `SubresourceLoopProofs` | `Spec => []WithinBudgets` |
| `UrlsAreRequestedOnce` | `SubresourceLoopProofs` | `Spec => []OncePerUrl` |
| `InternalStaysOwn` | `SubresourceLoopProofs` | `Spec => []InternalOnlyOwn` |
| `RewritesAreTrue` | `SubresourceLoopProofs` | `Spec => []RewritesTrue` |
| `UrlsAreAccountedFor` | `SubresourceLoopProofs` | `Spec => []AccountedFor` |
| `JobsHaveOnePlace` | `BatchProofs` | `Spec => []OnePlace` |
| `ReportIsExact` | `BatchProofs` | `Spec => []ReportExact` |
| `ExitCodeTells` | `BatchProofs` | `Spec => []ExitTells` |
| `MemoIsTransparent` | `HostProofs` | `MemoSpec => []MemoTransparent` |
| `RecencyIsExact` | `HostProofs` | `MemoSpec => []RecencyExact` |
| `EmissionsAreSettled` | `HostProofs` | `MemoSpec => []EmissionSettled` |
| `MasksAreExact` | `HostProofs` | `MemoSpec => []MasksExact` |
| `StatusIsHonest` | `PipelineProofs` | `Spec => []StatusHonest` |
| `ReferencesAreSettled` | `PipelineProofs` | `Spec => []ReferencesSettled` |
| `AssetsAreTyped` | `PipelineProofs` | `Spec => []AssetsTyped` |
| `BudgetsAreExact` | `PipelineProofs` | `Spec => []BudgetsExact` |
| `ConfigurationIsFirst` | `FrontEndProofs` | `Spec => []ConfigFirst` |
| `AnswersAreTrue` | `FrontEndProofs` | `Spec => []AnswersAgree` |
| `OutputsAreApart` | `FrontEndProofs` | `Spec => []OutputsApart` |
| `WalkIsExact` | `FrontEndProofs` | `Spec => []WalkExact` |
| `ScenariosAreTold` | `EvaluationProofs` | `Spec => []ScenariosTold` |
| `TruthIsTold` | `EvaluationProofs` | `Spec => []TruthTold` |
| `ResultsAreTold` | `EvaluationProofs` | `Spec => []ResultsTold` |

`Invariance`, `ClientInvariance`, `LoopInvariance` and `BatchInvariance` state the
inductive invariants these are read off. None of the properties is inductive by itself;
what each proof adds, and why, follows.

### 5.1 The guard

Assumed: `CacheAssumption` (a table of at least one entry, a sample of at least one) and
`GuardAssumption` (names and endpoints are disjoint, the policy's sets are sets of them,
requests exist and are well formed, the resolver answers with sequences of endpoints).

A thread that hits the table hands out what another thread stored, so for `VettedOnly`
the table must be known to hold only what every request may use. That is
`SharedVerdictsHold`, which in turn is only useful to a hit by a guarded request for a
name that is not allow-listed, and only kept by an insertion whose answer was vetted and
not empty. `Phases` says so: which requests reach `get` and `settle`, and with what. The
invariant is therefore `IInv == TypeOK /\ Phases /\ SharedVerdictsHold /\ VettedOnly`.
Two lemmas about the cache carry the weight: `HitKeepsVerdicts` (serving changes recency
only) and `InsertEffect` (after an insertion each name has the new verdict, its old one,
or none, and a refusal is never replaced), which holds whatever key eviction picks.
`ReturnIInv` covers what all exits of `decide()` share; then there is one lemma per
action.

The theorems about steps derive from the same two lemmas what one step may do to one
name (`TableStep`): evict, leave alone, refuse afresh, or permit afresh now.
`RefusalsWin` follows at once. `NothingStale` needs one more invariant,
`AgeKnown`: a resident permission is exactly as old as the answer that earned it.
`TableIsBounded` needs no finite set of names: the table itself is finite (`TableInv`),
as each insertion adds one name and evicts one when the table is full (`InsertBounded`).
The refinement maps each way out of `decide()` to an answer of the promise
(`ReturnAnswers`, `PermitStep`), `Call` to a question, and everything between to a
stutter (`Invisible`); a hit needs `SharedVerdictsHold` to be an answer the promise owes.

### 5.2 The fetch client

Assumed: `ClientAssumption` (the web and the resolver answer with responses and
non-empty sequences of addresses, calls have the fields of a call). `FetchInv` adds to
the properties what ties a hop to the fetch it belongs to: the scope and the deadline
are those of the call and no result exists before its end (`OwnScope`); a redirect never
leads to another scheme, so a URL that may not be fetched was there from the start
(`WebOnly`); dials and redirects are counted together (`DialsCounted`); and between the
resolver's answer and the end of the fetch the endpoint the thread remembers is the
first vetted for the current host, not for the host of an earlier hop
(`EndpointVetted`). In `ClientKeepsPromise` only `Begin` and the exits are steps of the
promise; a delivered body needs `EndpointVetted` and `WholeBody` to be one it allows.

### 5.3 The sub-resource loop

Assumed: `LoopAssumption` and `FetchAssumption`. The heart of `LoopInv` is `SeenExact`:
the URLs marked as seen are exactly those of the references passed and of the one in
flight, and everything requested is among them. `OncePerUrl` rests on it. What was spent
is the calls made and the bytes reported (`Spending`), and the call in flight was given
no more than what is left (`OwnCall`), whence the joint budgets. `AccountedFor` compares
the reports with the references that name a URL first; a step shows that the reports
are as many as the first mentions passed, and each at its place (`ReportsInOrder`).
`AssetsApart` numbers copies by their reports, so that a rewrite names one copy
(`RewritesTrue`).

### 5.4 The batch

Assumed: `BatchAssumption` (there is a worker, the workers are finitely many, outcomes
are outcomes). `Located` says that of the five places a job can be in (not sent, queued,
worked on, delivered, filed) exactly one holds it, and `Apart` that no place holds it
twice; together they are inductive where `OnePlace` is not, and `JobsHaveOnePlace` turns
them into its counts. `ResultsTrue` says that results are what the pipeline made, on
their way and filed, and that `received` counts the slots filled, so that the main
thread leaves `collect` with every slot filled; `Stages` and `Emitted` give each phase
of the main thread what the phases before it established. The summary is shown to be the function of the
list of reports (`SummaryAgrees`) by what one `Push` does to each tally (`TallyPush`,
`SubTallyPush`).

`SumProofs` has the lemmas those proofs, and the bytes of `Spending`, need: a sum over a
finite set, as the folds of the community modules define it, grows by the term of an
element that is added. The library states induction over finite sets and naturals for an
operator parameter, which the provers cannot instantiate; `SubsetInduction` and
`NatSetInduction` state it for a *set* of good values instead, from well-founded minima.

### 5.5 The URL checker

`MemoIsTransparent` needs no assumption on the constants. It speaks of workers that have
their verdict: a hit hands out what the table holds, and what it holds was in the hand
of another worker before. `MemoInv` adds both: every entry holds the classification of
its own key (`Entries`), and a worker about to record holds the one of its value, a
worker about to serve a hit still finds its entry (`InHand`; nothing is evicted under
the lock it holds). Eviction only ever removes keys, whichever it picks.

`RecencyIsExact` (from `UrlAssumption`) adds that a tick is used once: those in the table and
those taken by hits not yet served are distinct and below the clock (`Ticks`), so two
overlapping hits cannot give two entries the same recency. `EmissionsAreSettled` (from
`RawsAssumption`, the shape of a parsed URL) rests on `RewritesAreSettled`: each question
`Classify` asks is about the host or was answered by what the rewrite changed, and no
rewrite touches the host. It holds whatever the address tables and host lists say.

`MasksAreExact` (from both) is about the tables: a mask, applied digit by digit, answers
whether an address lies between the first and the last of a network, in the order of
whole addresses. A mask has a pivot digit: before it every bit stands, behind it none
(`UnitsOfMask`, from the powers of two up to 16). Before the pivot the ends of the network
are its own digits, behind it they are nothing and the most a digit can be
(`HighPartsAndBounds`); an address within the ends agrees up to the pivot, where it is
`Alike`, and the other way round. The rows are networks whether built in or added
(`NetworksAreNetworks`).

### 5.6 The front-ends

`ConfigurationIsFirst` follows the stages of `main.rs`: `StageInv` says what each stage
has behind it and that nothing is touched before `process` or `serve`, `OutDirInv` that an
output directory was made only by a scan with a policy and its inputs in order, `PolicyInv`
that
the policy is the built-in one or the file's under the flags. `AnswersAreTrue` (from
`ServeAssumption`) needs `Exchange`: a request stays what it was until its answer is
taken, its thread works on that request whether or not its caller hangs up, and what the thread
ended with is a status its kind of input can have. `OutputsAreApart` needs that what was
written bears positions of outcomes already emitted (`OutputInv`), so that a later
outcome cannot meet an earlier name whatever the inputs are called.

`WalkIsExact` assumes of the file system what any has (`FileSystem` in
`StartsAssumption`): it is finite, what an entry lies in is a directory, no two entries
of a directory share a name, and no directory lies in itself. Links may lead anywhere.
`WalkInv` has four parts beside its shape. `Nested`: the directories under way lie in one
another, and what is left of each comes after the entry the next one was entered by.
`Ordered`: what was found comes before whatever is left. `Once`: it was found where it
should be and is not left to see anywhere, because all of it lies in directories that
were entered, each of them once. `Seen`: an entry of a directory that was entered is
still left to see, or has been taken or entered as it should. When nothing is left,
`AllIsSeen` follows: a directory of the tree that was never entered would lie in one that
was not either, and so on without end. Under it lie three lemmas about operators:
`CanonicalIs`, `WithinIs` (the recursion along the parents has a solution, whatever the
tree) and `ListingIs` (ranks are a bijection).

### 5.7 The pipeline

Assumed: `InputsAssumption`. A body has the parts its handlers read, its elements are a
list and its sheet is finite; budgets and sizes are naturals; a policy asks for kinds of
asset there are (`SubresourceType`). Of the URL checker it takes what `EmissionsAreSettled`
shows of it: a value that is rewritten becomes one that is not, under the scheme it had
(`Settles`). Nothing is assumed of a policy's placeholder but that: an operator may put
any text there (`placeholder_url`), and `ReferencesSettled` excepts that text.

The state invariant is small (`InputInv`: what came up stays), as each input is dealt with
in one step; the work is in what that step computes. `Steps` says what it may be: still on
the way, given up, turned away, delivered, kept. `RouteFacts` says what a handler returns,
whatever the type: lists of actions and references, an output that is a body unless it
refused, the very body that came in if it reported nothing, and references that pass.
`StatusIsHonest` combines it with `DefangedFacts` (the loop reports every reference it does
not point at a copy), `ReferencesAreSettled` reads its last part off, `AssetsAreTyped` is
about `KindOf` and the order of the checks before the handler.

Under `RouteFacts` lie `SanitizeFacts` and `ScanFacts`. The first goes down to one element
and one attribute: `SweepFacts` (a loop over attributes that reported nothing changed
nothing, and each attribute that stays is as the rule allows it or says the target), which
`CleanedFacts` uses twice, the second loop judging what the first wrote. `FlattenSeq` of
the community modules puts the results of the elements together; `FlattenFacts` and
`FlattenSingles` are the induction that shows it loses and adds nothing.

`BudgetsAreExact` assumes of a body that what its scanners read has the shape they read it
in (`Scannable`: lists of declarations, markers and rows, numbers in the fields of a
header) and of a policy that its bounds are numbers. A walk is a function of the depth that
is left, of the names on the way and of the name, each level built on the one below
(`WalkLevels`), and what it finds a name to be is the sum of its pieces, unless one of them
or the sum is too much (`AddUpFacts`). The lemma that carries the proof is `AllSame`: more
depth, or fewer names on the way, change nothing that was not too large. So if no walk finds
a name too large, the least depth that suffices for each name ranks them, as what a
name refers to suffices with one less (`RanksExist`), and what the walks found measures them
(`LengthsExist`). The other way round the ranks fall along every walk, which therefore
never meets a name again nor runs out of depth (`WalksFit`). Of the images it is shown that
whatever can be read of a header or a chain of markers is two numbers (`ImagesAreLegible`),
so that a product cut at the largest value still exceeds a smaller bound.

### 5.8 The evaluation tasks

`ScenariosAreTold` assumes what `--modes` parses to (a list without repetition, not empty)
and that the origin publishes no scenario twice (`ScenariosAssumption`). It says nothing
of the answers: any program may have given them. Whose answer a row holds is the work of
`OwnServer` (the child that is there runs the policy of the mode under way, and has the
port only while it serves) and `AnswerOwned` (what waits to be judged came from it, from
an intruder or from nobody, and an answer from nobody cannot pass). That a page reached
nobody is the work of `TrapHolds`: who connected before the answer is in the backlog or
was counted, and the harness sleeps until the listener has looked once more, so no such
row passes. That each scenario passed once is counted and kept apart at once: a row was
written for a scenario that is `Behind` the one being asked about, in the order of suites,
modes and names, and there are as many rows as scenarios behind (`Expected`), in every
mode, whichever way the task came there.

`TruthIsTold` assumes that `GroundTruth::of` gives a run the samples that name its set and
that their lists are finite (`CorpusAssumption`); what the engine makes of a sample is any
of `Outcomes`. `AsStated` is written from the ground truth's own words and `Verdict` from
the code's, so that a sample is a failure exactly when it is not as stated is a lemma
(`StatedIs`), and that strictness sees it is `TallyKept`: mismatches are the failures that
were added up, and those of the run under way that are about to be. The fixture's counter
is `CountKept`: since the sample began it has grown by what the sample was answered and by
the request that was counted and waits for its answer, and by more only once a request was
given up, as there are no strays before. The tables are sums over sets: the rates because
`Neutralised`, `leaked` and the mislabelled divide the rows of a set (`RatesAgree`), the
categories because each row has one (`ClassesAddUp`), the confusion because a sum over a
set is that of a part and of the rest (`SumSplit`), whatever order the fold takes.

`ResultsAreTold` assumes that the files of a set have names of their own and that the
ground truth names two policies with tables of their own, each of the mode it is named
for (`MeasuringAssumption`; a corpus is a directory, and `policy-nofetch.toml` and
`policy-fetch.toml` are two files). `EvaluationAssumption` says that what an *earlier*
task left is whole: the theorem is the step of an induction over tasks that ended well,
as a write that failed or was killed leaves a table cut (the property allows that only of the table
the task ended at). The invariant, `SurveyInv`, says that the runs that are left are the
end of the plan (`PlanKept`), that each row taken and each file still to take are of the run
under way, each once and with the file's own size (`RowsKept`), that every run behind has
a fresh table and every table but a cut one is whole (`TablesWhole`), that captions name
the mode of the policy (`Captions`) and that charts are of tables there are
(`ChartsKnown`). A table is whole once sorted because the rank by size, ties settled by
place, is one-to-one into as many places as there are rows (`OrderIs`).

### 5.9 Model-checked only

- `RewritesHold` of `Pipeline`: it runs a handler over what it wrote itself, a document, a
  stylesheet, a chain of TIFF directories or the objects of a PDF; that the second pass
  finds nothing compares two recursions over data, for each of five formats.
- `EveryCallReturns`, `FetchEnds`, `ScanEnds` and `EverythingEnds`: liveness, as fairness
  and `ENABLED` are out of the prover's reach.

## 6. Not modelled, and the plan

Not modelled, and why:

- argument syntax, log lines, posture warnings, the JSON shape of reports and
  fragments quoted in them: text;
- byte layouts, tokenizers and parsers of other libraries (`lol_html`, `url`, `lopdf`,
  `cssparser`, `ureq`, `axum`): the models start from what they deliver;
- Unicode tables, keyword lists and magic numbers: data, of which the instances hold a
  few representatives of each kind;
- the layout of charts, `plots`' charts of rates, scenarios and `criterion` readings,
  `document.rs`, `progress.rs` and `benches/`: text, drawings and timings;
- `lib.rs`, `tests_helper.rs`, `final_report/`, `corpus/`: no state.

Within the modelled parts, a sub-resource's own references are not followed (the code
stops at depth 1).
