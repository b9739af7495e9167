# TLA+ verification of eBPF-Trace (ebpf-supplychain-guard)

The backend watches containers with eBPF gadgets, judges every kernel event by
policies, isolates a container with a Docker kill when a kill policy matches,
and gives people a review of what happened: install sessions, cases, proposals,
a block list. The web console shows all of that live, and is where people
decide. This directory models the parts of both in which order, failure and
concurrency matter, checks them with TLC and proves the central properties with
TLAPS. Paths below are relative to `src/backend/internal` for Go files and to
`src/frontend/src` for TypeScript files, unless they start with `src/`.

## 1. Inventory

### Server

| Component | State | Operations | Talks to |
|---|---|---|---|
| Evaluation pipeline (`pipeline/pipeline.go`, `scope.go`) | `killed` dedupe map, label cache, rate limit, persist channel, `closed` | `Run`, `Handle`, grace timers, `evaluate`, `enforce`, `emit`, `lifecycle`, `persistLoop` | reads the event channel; calls rule engine, enforcer, review, notifications, hub, statistics; writes audit log and buffer |
| DNS resolver (`pipeline/resolver.go`) | container to address to name, with age | `Learn`, `Lookup`, `pruneLocked` | pipeline |
| Rule and sequence engine (`rules/engine.go`, `sequence.go`) | compiled rules; chains per container and rule | `Observe`, `Evaluate`, `advance`, `Forget`, `Replace` | pipeline observes, review replaces |
| Review service (`review/`, `store/review.go`, `postgres_review.go`) | sessions, cases, proposals, block list, dirty sets, the store behind them | requests (`StartInstall` ... `Apply`), `Observe`, `AuditSaved`, `ContainerStarted/Exited`, `Flush`, `Load`, `Reload` | pipeline, API, store, rule engine |
| Enforcer and evidence (`enforcer/`, `evidence/`) | none / evidence rows | `KillTimed`, `BeforeKill` hook with a budget | Docker |
| WebSocket hub (`ws/`) | clients and their queues | register, `Broadcast`, remove, `Close` | browsers |
| Notifications (`notify/`) | debounce table, queue per channel | `Notify`, worker with retries, `Close` | webhooks |
| Scan service (`scan/`) | scans, slots, automatic scans | `Start`, slot, run, `FromInstall`, `Load` | OSV, registries, review |
| Authentication (`auth/`) | users, sessions, failure counters, one-time codes | login steps, lockout, administration | API, store |
| Demo runner, connection tests (`demo/`, `integration/`) | the running job | start, stop, shutdown | Docker, review |
| Statistics (`stats/`) | ring of seconds, minutes to save | `Observe`, `TakeMinutes` | store |
| Event sources (`ingestion/`) | connections | reconnect, `send` (drops when full) | pipeline |
| Stores (`store/`) | Postgres, memory, Redis buffer | commits, queries | everyone |
| API, chat, summaries, configuration, Docker client (`api/`, `chat/`, ...) | none that outlives a request | handlers | services |

One goroutine runs `pipeline.Run`; DNS-grace timers enter the pipeline beside
it under `p.mu`. From inside that lock the pipeline calls `review.Observe`,
which takes the review service's `mu`. A third goroutine writes the audit log
and calls `review.AuditSaved`. `review.Run` flushes what was observed once a
second under `wmu`, and every HTTP request that changes a session, case,
proposal, policy or the block list takes `wmu` and `mu` and reloads the rule
engine, which the pipeline may be in the middle of using.

### Console

| Part | State | Operations | Talks to |
|---|---|---|---|
| Live events (`hooks/useEventStream.ts`, `hooks/stream-context.tsx`, `components/shell/StreamBanners.tsx`) | rows, buffer, topology, socket, retry timer | open, close, retry, message, flush, fill of a gap, pause | `/ws/events`, `/api/events/recent` |
| Sign-in gate (`hooks/auth-context.tsx`, `components/AuthScreens.tsx`, `lib/auth.ts`) | gate, `me`, generation counter | `finish`, `refresh`, hooks of 401 and 403, steps, sign-out | every request of the console |
| Requests and lists (`lib/api.ts`, `hooks/useLoad.ts`, `useTableKit`) | an answer, whether it is still wanted | send, drop, take, reload, page | everything below |
| Cases, decision box, bell (`hooks/cases-context.tsx`, `DecisionBox`, `NoticeCenter.tsx`) | the one list of cases, the marks of what was read | push, reload, preview, decide, mark | stream, `/api/cases` |
| Assistant and guide (`components/Assistant.tsx`, `GuidePanel.tsx`, `lib/guide.ts`) | the cases that are not new, the panel, ticked steps and the setup in localStorage | announce, open, select, tick, navigate | cases, stream, `/api/installs` |
| Audit page (`features/audit/`) | filters, page, cursors, loaded page | `run`, filter, page, export, sheet | `/api/audit` |
| Policies page and editor (`features/policies/`, `components/Policy*.tsx`, `lib/policyEasy.ts`) | lists, proposals, block list, editor, draft, preview | select, edit, switch mode, check, save, apply, discard, unblock, replace all | `/api/policies` ... |
| Scans, installs, integration (`features/scans`, `installs`, `integration`) | polled lists, open sheets, wizard steps in localStorage | poll, open, filter, start, copy, test | `/api/scans`, `/api/installs`, `/api/integration` |
| Demo page (`features/demo/`) | run, its session, its evidence | poll, start, adopt, fetch | `/api/demo`, stream |
| Settings (`features/settings/`) | accounts, license, sign-in log, changes | patch, reset, add, renew, test, more | `/api/users`, `/api/auth/audit` ... |
| Chat (`components/ChatPanel.tsx`, `lib/sse.ts`) | conversation, running question | ask, read, stop, clear, keep | `/api/chat` |
| Sortable lists, toasts (`hooks/useSortable.ts`, `lib/layout.ts`, `toast-context.tsx`) | the one drag, the stored order; messages and timers | hold, drag, drop, escape, keys; add, repeat, dismiss | the browser |
| Dashboard, topology, evaluation, report, events, search, shell | what is selected or open | drawing | the parts above |

The console's parts talk to the server only, through `request()`; inside the
browser they share the stream (cases, demo and alerts read it) and the gate.
Answers overtake each other, effects are cleaned up while a request is under
way, another administrator works on the same data.

### What is hard, and what is correct

In the server: two lock sections that look like one (`Engine.Observe`,
`FromScan`), copies that are written after they were made (`Flush`), a timer
beside a shutdown, an event judged later than its timestamp says, answers of
Docker that get lost, a cache whose marks go away before the write is done, and
a crash between a flush and a commit. In the console: answers that come after
the question has changed, a sign-out beside requests under way, a gap in a
stream that is filled while the stream goes on, polls that stop on a condition,
marks kept in localStorage, a log that grows while it is read page by page.
`PROJECT.json` lists each of these hazards at its line with the properties that
catch it going wrong.

The pipeline is correct if it judges each event once, kills only in scope and
only once, and reports an isolation only if it has an audit row; the sequence
engine if it fires for exactly the sequences there are; the review service if
it loses no evidence and takes no decision back, and the engine it feeds is
never behind. The console is correct if what it shows is what was asked for
last and what it was told is done stays done, and if it gets to show the rest.

Hazards of the server that no module reaches yet: a commit whose
acknowledgement is lost, after which `releaseID` gives its number again
(`review/service.go:205`); the last burst of a debounce that is never reported
and the oldest message dropped while it is retried (`notify/service.go:141`,
`channels.go:55`); a client registered after `Close` (`ws/hub.go:69`); a scan
waiting for a slot at its limit and a scan attached to a session that got
another (`scan/service.go:313`, `install.go:122`); failures and one-time codes
counted concurrently (`auth/service.go:711, 677`); `Add` beside `Wait` of the
connection tests (`integration`); minutes handed over twice (`stats`); events
dropped by a full channel (`ingestion`); an evidence hook that outlives its
budget (`enforcer/docker.go:133`); the limit of violations per session, beyond
which only counters grow (`review/installs.go:396`). And
`src/backend/cmd/server/main.go:383`, listed as a hazard: `main` does not wait
for its goroutines.

## 2. Modules

| Module | Models | Proofs |
|---|---|---|
| `Pipeline` | pipeline with scope, labels, dedupe, grace timers, persist queue, shutdown | `PipelineProofs` |
| `Ledger` | abstract: the life of one event, its audit row and its isolation report | refined by `Pipeline`, proved |
| `Sequence` | sequence rules of the engine in event time | `SequenceProofs` |
| `Review` | review service with its store, flush, requests, crash | `ReviewProofs` |
| `CaseFlow` | abstract: the life of a case and its proposal in the store | refined by `Review`, proved |
| `Requests`, `TableKit`, `Cursors`, `Lists` | a request as its caller sees it, a table in pages, a log read by cursor, filter and sort of arrays | used in the ones below; `ListProofs` (`Lists`) |
| `Stream` | live events, gaps and their fills | `StreamProofs` |
| `Gate` | sign-in gate with the sessions of the server | `ConsoleProofs` |
| `Cases` | list of cases, decision box, bell | `ConsoleProofs`, `PartsProofs` |
| `Guide` | assistant and guide, composed with the list of `Cases` | `ConsoleProofs`, `PartsProofs` |
| `Audit`, `Records` | list of the audit page; sign-in log, export, record sheet, changes | `ConsoleProofs`, `PartsProofs` (`Audit`), `PagesProofs` (`Records`) |
| `Policies`, `PolicyEdit` | lists, proposals and block list of the policies page; its editor | `ConsoleProofs`, `PartsProofs` |
| `Scans`, `Installs`, `Wizard` | scans page, installs page, integration page with its wizard | `PartsProofs` |
| `Demo` | demo page | `ConsoleProofs`, `PartsProofs` |
| `Accounts` | accounts, license and notification test of the settings | `ConsoleProofs`, `PartsProofs` |
| `Chat`, `EventText` | chat, and the reader of its event stream | `PagesProofs` |
| `Sortable`, `Toast` | lists put in order, messages | `PagesProofs` |

`MCPipeline`, `MCSequence` and `MCReview` only give constants their values.
`MCConsole` puts the parts of the console together: they share no state (only
`Guide` has the list of `Cases` in it, and runs as a part of its own), so their
interleavings say nothing that each alone does not, and a behaviour picks
one of `Parts` at the start. `PartsProofs` proves that the whole plays each of its
parts. `Review` abstracts the pipeline to what it tells
the review service; `Pipeline` abstracts the review service to the one call it
makes for an isolation, and the sequence engine to one rule of two steps, of
which `Sequence` has the details.

Plan, in its order: (1) pipeline and ledger, (2) sequence engine, (3) review
service and case flow, (4) the console's stream, gate and requests, (5) its
pages, (6) the proofs of what they show; these are done. Next would be (7) the
scan service with its slots, (8) notifications and hub, (9) lockout and codes
of the authentication, (10) the evidence hook, then a composition of pipeline
and review that follows a kill to the session it isolates.

## 3. How the models correspond to the code

### Pipeline

One action per critical section. `Receive` is the half of `Handle` before
`p.mu` (scope, label prefetch); `HandleExit`, `HandleStart`, `Defer` and
`HandleNow` are the four ways through the half under `p.mu`, each with
everything it calls: rule evaluation, `enforce` with the Docker request,
`emit`. `TimerEvaluates` and `TimerGivesUp` are the `time.AfterFunc` callback;
`RunEnds` and `ClosePersist` are the deferred function of `Run`, which closes
the channel without the lock; `Persist` and `PersistLoopEnds` are the persist
loop. An event is named by its arrival number; its kind stands for what the
rules see of it. A verdict is one of eight outcomes, defined at the head of the
module by the fields of `model.Verdict` they stand for. A kill request has four
outcomes: confirmed, confirmed with the answer lost, "not running / not found",
and any other error. Docker, the clock, the operator and the context are
actions of the world. `confirmed`, `requests` and `streamed` are history
variables: no action reads them.

### Sequence

`Evaluate` and `Advance` are the two lock sections of `Observe`; `Replace` may
come in between. `chains[c][r][i]` is the code's `chains[r][i-1]`, as the list
of the events that did the steps. The code walks the steps from the last to the
first and updates in place; the model computes all steps from the chains as
they were, which is the same thing because step i reads only i - 1. A container
is in the code's map exactly if its first chain of some rule is set, so the
model has no map of its own. Events carry a class (the steps they match) and a
timestamp that may lie up to `MaxSkew` behind the newest one. `log` and `since`
are history variables for the reference definition of a sequence (`Occurs`).

### Review

The cache (`sessions`, `cases`, `proposals`, `blocklist`), the dirty sets, the
commit Flush is at (`flushing`) and the store are separate variables. A request
takes `wmu` and `mu`, so it is one action, enabled only while no commit of Flush
is under way (`WriteLocked`); `Observe`, `AuditSaved` and the lifecycle calls
take `mu` alone and run at any time. Flush is `FlushBegin` (copies, marks
dropped) and `FlushSaved` or `FlushFailed`. `FromScan` has two lock sections
with the chosen case in between. `Crash` loses cache, queue and requests and
loads the store, and reloads the engine as `main` does. A session is named by
its container, since `StartInstall` refuses a container twice. A violation is
named by its rule, kind and detail together, as `addViolation` compares them;
its level is kept, its count is not. A policy is whether it exists and which
violations it excuses. One step remains outside: when `observeInstall` finds
that the session's case is missing, the process ends with a nil dereference,
which the model covers as `Crash` (see finding `review_restart`).

### The console

Each module has the state of a component or hook (`useState`, `useRef`), the
part of the server it asks, and the requests under way between them. An action
is one handler, effect or answer with every `set...` it makes. The page is drawn
anew after it and the effects of the new state run: before the next event when
the state was set by a click or a key, but in tasks of their own, which other
answers, messages and timers may precede, when it was set in a promise callback,
by a message or by a timer. Where such an event in between makes a difference,
the effect or its cleanup is a step of its own: `Guide.Learn`,
`Cases.CasesAsked`, `Demo.AskEvidence` and `Demo.EvidenceDropped`. `useLoad` makes
none: an old answer taken between a reload and its effect leaves what it would
have left just before the reload, because the list waits for the reload's
number, not for the effect. There and where only a click starts it, the effect
is part of the step that sets the state.
A request (`Requests`) is sent, answered by the server at some later time with
what the server held then, and taken by its caller later still; or it fails, or
its effect was cleaned up (`let live = false`) and its answer changes nothing.
Timers fire at any time after they were set, except in `Toast`, which is about
when they fire.

- `Stream`: `OnOpen`, `OnMessage`, `OnClose`, `RetryConnect`, `Flush` and
  `fillFrom`. Verdicts are their numbers. The server sends a verdict (`said`)
  before its persist loop stores it (`kept`); the socket is known to the hub
  only some time after the browser saw it open. `owed`, `missed` and `passed` are
  history.
- `Gate`: `finish`, `refresh` and the hooks of `lib/api.ts`; `gen` is the
  code's generation counter. Sessions of the server are numbered.
- `Cases`: the list with pushes and own answers put over it; the bell's mark is
  the signature `NoticeCenter` keeps in localStorage, the set of pending cases.
  A change of `connected` or a reload makes a request due (`casesDue`); the effect
  that sends it and drops the one before (`CasesAsked`) comes later.
- `Guide`: the steps of `Cases` that move its list, with what the assistant does
  of them. The effect that makes the cases of a list known (`Learn`) is a step of
  its own, because a message may come before it; a pushed case and its
  announcement are one (`CasePushed`). `announced` and `seeds` are history. Which
  decided cases are closed is not followed, so the guide may show any of those.
- `Audit`: `run` with its timer, its generation of answers, offsets and, for an
  older server, cursors. `Records`: `AuthAuditRows`, `ExportCsv`,
  `AuditSheetLoader`, `History`, of one log that grows.
- `PolicyEdit`: a rule is a record; a list value is the sequence of its
  comma-separated pieces, because that is what a draft's text keeps of it;
  `toDraft`, `toRule` and the merging operators translate `lib/policyEasy.ts`.
  YAML text is the rule it parses to, or `Nothing`. `Policies`: the five lists
  the page reloads together are one.
- `Scans`, `Installs`, `Wizard`: polled lists with the condition that stops the
  poll, the sheets they open, and for the wizard its three steps as restored
  from localStorage. `finishedShown` and `sawRunning` are history.
- `Demo`: `adopt`, the session and the evidence of a run, who decided and the
  evidence cell drawn from them. The search for evidence is live until its effect
  is cleaned up (`EvidenceDropped`), which comes after the step that adopts. `Accounts`: `UpdateUser` of the server is one step
  under its lock, the lists the administrators act on are as old as they like.
- `Chat`: one conversation, its running question and what the tab keeps.
  `EventText`: `lib/sse.ts` over letters, with a reference that reads the
  whole text letter by letter. `Sortable`, `Toast`: one action per handler and timer.

Abstractions taken there: polls are further apart than an answer takes (useLoad
drops the call before at every poll, so a slower server would never be shown);
the deletion of a policy is answered at once; drawing, sorting, wording,
animation and positions are left out.

## 4. Runs

| Run | Instance | Shows |
|---|---|---|
| `pipeline` | 1 container, 3 events, 2 clock values, persist queue 1 | ledger refinement, dedupe, grace, no send after close, types |
| `pipeline_scope` | 2 containers, 2 events, scoped enforcement, blocked images | scope; with fairness, shutdown and settling |
| `sequence` | 2 containers for 1 slot, 2 rules, 1 replacement, 4 events, times to 4, skew 1 | genuine and complete hits, one policy set, limit, types (1.0 million states) |
| `review` | 1 runtime container, 1 selection and 2 requests, 2 cases, 1 crash, 1 policy write | one case, isolation, engine, case flow |
| `review_install` | 1 sandbox, 2 violations, caps 1 and 2 | cleanliness, evidence stored in the end |
| `console` | 14 parts (below) | 17 properties of what the console shows (about 1.0 million states) |
| `console_live` | stream, scans, wizard, installs, with fairness | gaps get filled, sheets and guided installations get to their end (about 150 thousand states) |
| `pipeline_enforced`, `pipeline_rate`, `sequence_sweep`, `review_restart`, `review_scan` | small | the five findings below |

Properties of `console`: `GapIsFilled` (stream: a gap whose fill was taken is
complete, up to what a full list had left behind), `ShellNeedsSignIn` and `ClosedStaysClosed` (gate),
`PendingIsNoticed` (bell), `GuideTellsOnce` (assistant), `ListIsTheOneAskedFor` (audit list),
`PreviewFitsRule` (editor), `ToldIsShown` (policies page), `DemoShowsOneRun` (demo: the session is that of the run),
`SomeAdminStays` (accounts), `ListLeavesNoHole` and `FileIsExact` (sign-in log,
export), `AnswersFollowQuestions` and `ChunksDoNotMatter` (chat), `OneDrag`,
`ToastsStayTheirTime`, and `ConsoleTypeOK` over all parts. Of `console_live`:
`GapGetsFilled`, `SheetCatchesUp`, `InstallIsShownToEnd`, `InstallSheetSettles`.

Why the bounds are enough. Three events let one be judged, one wait and one
race with either; two clock values put an event inside and outside the dedupe
time; a queue of one is full after one verdict. Four events complete the longer
rule with one to spare for overlap, and two containers for one slot force an
eviction; with windows of at most `SeqIdle - 2 * MaxSkew` no sequence is lost,
one more and TLC finds a loss (`sequence_sweep`). Two cases and proposals allow
a second case after a first was decided, closed or lost, and one crash is
enough to lose a cache, since each starts again from the store. In the console
the number that matters is how many requests may be under way together: two
reach every overtaking, a third only repeats one, and every part has room for
two and for one that fails. Three verdicts are
what it takes to see a full list (in `console` of one row) leave one behind that
was also missed (for which `console` does without refused attempts, pauses and
alerts; `console_live` has these, and a list of two rows, with two verdicts;
`GapFilled` is proved with all of it); two
sessions let an answer of the first come during the second; a page of one and
four entries make three pages and a rest; texts of four letters cut a CR LF
between chunks inside, before and after an event; two lists make a drag leave
one for the other; three toasts for two places push one out; two
cases let a push of one come between an older list and its effect while the other
is already known, with one act of the user on the guide (its five places are two
there: that older cases leave it changes nothing that is announced).

`MaxEvents`, `MaxTime`, `MaxReplaced`, `MaxCases`, `MaxProposals`, `MaxAudit`,
`MaxWrites`, `MaxCrashes`, and in the console the constants commented "bound",
only bound the exploration. Deadlock is not checked: a bounded source runs out
of events, a stopped server stops, and a user may stop doing things.

Fairness. `Pipeline!Fairness` says that goroutines that can run do run: the
locked half of `Handle`, the close in `Run`, the persist loop and each timer.
`Review!Fairness` says that Run calls Flush again and again and that the store
does not refuse every commit (strong fairness of `FlushSaved`, because failures
may come in between). `ConsoleLiveSpec` says of the stream that the retry timer
fires, an attempt is settled, messages are handled, the buffer is flushed, the
server goes on storing and answering and a fill is answered or fails; of scans,
wizard and installs that their poll timers fire and that a request that is
still wanted is answered (or fails) and taken. The failures and refusals a
behaviour may have are bounded (`MaxRefused`, `MaxFailures`, the numbers of acts):
a server that refuses for ever is never reached again, by the code either.
Nothing is assumed of events, people, Docker or the clock.

Each property of each passing run has a mutant in `PROJECT.json`: a plausible
bug in the modelled code with which TLC finds the property violated. Its
definition stands beside the one it replaces.

## 5. Findings

Refuted by a run:

- `pipeline_enforced`: a verdict can be marked `Enforced` without any kill
  having succeeded, when a container that had stopped by itself runs again
  under its ID within `killDedupe` (`pipeline.go:286`, `model/event.go:190`).
- `pipeline_rate`: an event judged after its DNS grace resets the counter of
  normal events, so a second can get more than `NormalEventRate`
  (`pipeline.go:324-328`).
- `sequence_sweep`: an event judged late moves `lastSeen` backwards, and with
  the longest window allowed the sweep drops a chain that is still inside it
  (`sequence.go:178-183`).
- `review_restart`: a session can be stored with the number of a case that
  never reached the store; after a crash the next violation meets a nil case or
  is added to another container's case (`installs.go:125, 277`). An isolation
  of that sandbox can get into that case too: `IsolationIsOwn` allows exactly
  this, after a crash and for a session whose case number was given out again.
- `review_scan`: two requests for one selection do not both get its case and
  proposal, one may get a conflict (`cases.go:291-292, 344-355`).

Behaviours of the console that the models show and the properties are worded
around; none of them has a run of its own:

- Stream. The first load is not compared with rows that came before it. Rows
  that come after the socket opened but before the fill's answer are counted
  twice by the topology. A connection that breaks before any row has come has
  nothing to fill from, and a verdict that comes before the fill cuts the gap.
  A verdict that reaches the full list's end may be missing although the banner
  promised it: when rows that came after the gap fill the list, those of the gap
  are behind it, and are not asked for again. `GapIsFilled` leaves them out
  (`passed`); that it has to was found by its proof, and by TLC with a fourth
  verdict.
  What the hub drops from a full queue is never asked for; the banner promises
  that all is refilled (`StreamBanners.tsx:40`, `useEventStream.ts:154`).
- Gate. A refresh of the previous user answered late overwrites `me`; a late
  401 of the old session closes the gate of a new one; a `finish` sent while a
  sign-out is pending can open the gate again after it (`ClosedStaysClosed`
  speaks of those asked before); starting over does not advance `gen`; a code
  can be submitted twice.
- Cases. A late GET, or the answer to an own decision, may put an older state
  over a newer push until the next one. A case that a GET brings before its
  push is never announced by the assistant (`Assistant.tsx:99-124`). A push
  before the first list makes its case the only known one, and until that list
  comes another push of a case that is as old is announced as new, though the
  comment says that what came first is not (`Assistant.tsx:99`); `GuideTellsOnce`
  speaks of what the assistant took as its first list.
- Policies. A save answered late selects its rule and takes down an editor
  opened since, with its edits (`PoliciesPage.tsx:273, 282-285`,
  `PolicyEditor.tsx:155`); of two administrators saving one policy the first is
  overwritten, and a bulk replacement overwrites what was saved since it was
  loaded; the check for an id in use reads a list that may be old. A value with
  a comma is one piece in the list and two after a look at the form, though
  `policyEasy.ts:5` says a switch of modes keeps the rule (64-68).
- Audit. A request that fails while a page is shown leaves the old page under
  the new filter without a way to try again; `ListIsTheOneAskedFor` therefore
  speaks of lists that did not fail.
- Scans and installs. A sheet opened by a link while its scan ends can stay at
  "running"; a first load of a sheet that fails is not repeated; a scan
  attached after the sheet stopped polling is not shown there.
- Settings. The one-time passwords of two resets overwrite each other, only the
  later is shown (`SettingsPage.tsx:245-255, 280`).
- Demo. The evidence of one run can stay beside the next (`useDemo.ts:44-54,
  112-132`), though `useDemo.ts:44` says that a new run empties session and
  evidence. `adopt` runs in a promise callback; the request for the old run's
  evidence is switched off by the cleanup of its effect, after the page was drawn.
  An answer taken in between passes `live`, its `setEvidence` comes after
  `adopt`'s, and from then on `evidence !== undefined` (113) keeps the page from
  asking for the new run's own, so the "why" card shows the old run's once the new
  run is isolated. `Demo.EvidenceOfShownRun` says that this never happens; TLC
  refutes it with the constants of `MCConsole.cfg`, `Parts = {"demo"}` and it as
  the only invariant. `DemoShowsOneRun` therefore speaks of the session alone,
  which is guarded by a ref that `adopt` sets at once. A status without a run keeps the session and evidence of the last one
  (`useDemo.ts:45-54`), and without evidence of the run's own container the
  first of the list is shown (`useDemo.ts:120`).
- Wizard. `armedAt` stays when inputs change (`ScenarioWizard.tsx:347, 357`);
  going back from step 3 to 2 leads forward again (421-423); polling stops at
  the first finished session.
- Chat. A refused question is put back over text typed since
  (`ChatPanel.tsx:125`).

## 6. Proofs

All theorems hold for every value of the constants allowed by the modules'
`ASSUME`s, with no bound on events, time, containers, requests or queue length
other than those parameters.

`PipelineProofs`. The inductive invariant `IInv` adds to `TypeOK` that every
event in flight (`cur`, `timers`) is a real event and unjudged, that the channel
is closed only after `closed` is set (this is what makes `NoSendAfterClose`
true of timers), that a queued verdict is judged and has no audit row yet, that
a confirmed kill younger than `KillDedupe` is still in `killed` (pruning takes
only older ones), and that a kill was asked for in scope only. From it follow
`TypeCorrect`, `KillsStayInScope`, `KillsAreDeduplicated`, `GraceIsHonoured`,
`ClosedChannelIsSilent` and `PipelineImplementsLedger`; the last maps every
action to a step of `Ledger` or a stutter.

`SequenceProofs`. `IInv` says that every chain kept is a genuine partial
sequence of the log (`ChainsGenuine`), that the pending event is the newest one,
and that the policy version of a pending verdict differs only if the chains were
emptied since. It gives `SequenceTypeCorrect`, `ReportedHitsAreSequences` and
`VerdictsUseOnePolicySet`. `TrackedStayBounded` rests on `FewTracked`, of the
chains before and after each of sweep, eviction and step: the set of tracked
containers is finite and within the limit, and room is made before one is added.

`RulesFireExactly` proves `FiresExactly` from `FInv`, a second invariant. Of all
ways to read steps 1 to i of a rule out of the events since its reset, the
engine keeps a chain whose first event is no earlier (`Covers`), so what a later
event completes within the window it completes too; or none of the events to
come is in its window (`Expired`). The rest supports this: chains hold only
events since the reset (`AfterReset`), no event is more than `MaxSkew` behind an
earlier one (`Skewed`), and a container was last seen at most `MaxSkew` before
its chains start (`Recent`). The theorem has a hypothesis, `WindowsFit`: every
window plus twice the skew fits in `SeqIdle`. The code has windows of 1 to 60 s
and a `seqIdle` of 60 s (`rule.go:93`, `sequence.go:23`), so the theorem speaks
of windows shorter than 60 s by twice the skew. The run `sequence` satisfies it,
and `sequence_sweep` shows what is lost at the limit.

`ReviewProofs`. `IInv` has one part per kind of state. Of sessions and cases it
says that what Flush carries is current unless it is marked again
(`SessionsInv`, `CasesInv`): `CleanIsStored` alone is not inductive, since the
end of a commit removes the only trace of what was on its way. Of cases also
that the store and Flush know each of them at its present stage of life
(`SameLife`: source, subject, state and proposal change only in requests, which
commit at once), and that an unstored case is not judged yet; so a crash cannot
revive a closed case, and `OneCaseAtATime` survives it. Of proposals that the
case of a draft waits for it in the store (`ProposalsInv`), which makes the
branch of `Discard` without a case unreachable. Each kind of change (marked,
committed, flushed, failed, crashed) has one lemma, and the actions are
instances of them. It gives `ReviewTypeCorrect`, `NothingIsLost`,
`CasesAreUnique`, `EngineStaysCurrent` and `ReviewImplementsCaseFlow`. That new
numbers are free rests on the largest element of a finite set of numbers, from
`NatLessThanWellFounded` of the library.

Its second part stands on that `IInv` and adds `RowsInv`: in the cache, in
the store and in what Flush carries alike, the isolation of a session is a row of
the audit log about its container, and that of a case is a row that names the
case, was not blocked and is about the case's container; queued verdicts name a
case of their container (`QueueRows`), because sessions name cases of their own
(`SessionCases`). The last is true only until a crash gives a case number out
again, which is why these parts carry the number of crashes.
`IsolationsAreOwn` follows.

`ConsoleProofs` has the gate, the accounts, the bell, the assistant and the demo.
Of the gate, `GateInv` adds to the types of server and client that the
`finish` of the current generation was asked after the gate was last closed
(`CurrentIsFresh`): this is the use of the code's counter `gen`. It gives
`GateTypeCorrect`, `ShellIsBehindSignIn` and `ClosedGateStaysClosed`.

Of the accounts, `SomeAdminStays` is inductive with the types: a patch that
takes an administrator away is refused unless another is active, and that check
is made under the lock of the write. It gives `AdminAlwaysStays`.

For the bell, that the mark kept is a set of cases that were read
(`MarkIsOfRead`). For the assistant, `NewsInv`: everything announced and
everything of the first list is known, and what is known is never forgotten, so a
pushed case that is announced is in neither. It gives `OldMarksHideNothing` and
`NoCaseIsToldTwice`.

For the demo, `DemoInv`: an answer about an installation is about the one it
was asked for, and the session kept beside the run is its own; `adopt` drops
that of another. It gives `DemoAlwaysShowsOneRun`. Of the evidence nothing of the
kind is proved, since it does not hold (section 5).

Its second half has the three parts of the console in which an answer may come
after its question has changed. `PoliciesInv`: what the page was told is done
is done at the server for good (a decided proposal never becomes a draft, and
what was unblocked behind it stays so), every answer still wanted holds all of
it, since each completed act starts the lists over, and so do the lists shown
unless an answer is due (`SettledListsShowWhatWasTold`).
`AuditInv`: the call that counts asks for what the filter bar and the pager
say, unless the timer is about to ask again, and that page is on the screen, due
or has failed (`ListIsAlwaysTheOneAskedFor`).
`PolicyEditInv`: a preview that counts is of the rule on the check page, and the
previews and saves somebody waits for belong to the editor that is mounted
(`PreviewAlwaysFitsRule`); without the second half, the step that takes down an
editor whose save is answered late would not be known to leave a fitting one.

`ListProofs` has what the console's array operations do, for lists of any
length: `Filtered` keeps the elements of a set, their order and their
distinctness, `Descending` has the same elements in descending order, and a
descending list is given by its elements (`SameDescending`), as long as they
are distinct. Both are recursive functions; `Recursion` gives, for every number of
steps, a function that makes them, which is the one `CHOOSE` takes, and
`Induction` (a set of numbers with 0 and every successor has all of them) does
the rest. Neither takes an operator as a parameter.

`StreamProofs`. `GapIsFilled` is not inductive by far: whether a fill brings a
verdict is decided by what is held when its answer is taken. `AnchorInv` says
that of every verdict missed something older is held, or it was on the screen, or
a full list left it behind, so `gapOf` does not take it for old history;
`AnswersAreNewest`, that an answer is the newest verdicts of some moment since;
`SpentShape`, that each lost connection has a place of its own in `fills`;
`OwedInv`, that what is owed is settled, waits for the connection, or is in a
fill under way. They give `StreamTypes` and `GapFilled`.

`PagesProofs` has the pages that read a log, and the chat. `RecordsInv`: the rows
of the sign-in log, and those with a page under way behind them, are the first
part of what its filter matches as of its first page (`RowsInv`), since the
cursor is the last row and entries are only added in front; the same of the
rows an export has so far (`CsvInv`). It gives `RecordsTypes`, `NoHole` and
`ExactFile`. `ToastInv`, the types and the property together, is inductive and
gives `ToastTypes` and `ToastTimes`. `SortInv` adds to the types of the sortable
lists that what is stored is a list or nothing, and that a cancelled drag was
picked; `SortableTypes` says also that each list draws each of its items exactly
once, which is a fact about `mergeLayout` for every stored layout, one with
unknown or doubled items included, and `OneDragOnly` that there is one drag.
`ChatInv`: at most one request is answered at a time, the conversation of
another generation is empty while its request is not over, and the last
question is that of the request of this one. It gives `ChatTypesOK` and
`AnswersInTurn`.
`TextInv` says of the event stream that what waits between two chunks is exactly
the text behind the last whole line: its lines were read as in one piece, and
only its last letter may be (half of) a line end. With it `ChunksAreJoined` shows,
for texts and chunks of any length, that the loop of `push` with its line ends of
two letters gives what a reading letter by letter gives.

`PartsProofs` has the rest of the types, and the console as a whole. A type
invariant is seldom inductive either: what a call under way will bring must be
typed before it is taken, so each part has its types with those of its calls
(`CasesTyped`, `ScansTyped`, ...). The editor needs most: a rule is typed by where
it is used, since what the form writes may be no policy, and that what is saved is
one rests on `openCheck` (`PolicyEditTyped`). `GuideFollowsCases` shows the
assistant to implement the list of cases it is composed with. For the open
sheet of an installation, `SheetInv` (of its calls at most one is live, and its
answer is at least as new as what is shown, and not newer than the server) gives
`InstallSheetMovesOn`: the sheet never goes back, however late a poll is answered.

`ConsolePlaysItsParts` shows that `ConsoleSpec`, which the run `console` checks,
is each part's specification; of the assistant's, only while that part runs,
since the list of cases it shares moves without it in another. The stream, the
scans, the wizard and the installs state fairness, which `ConsoleSpec` does not
have: of these the initial states and steps are shown, which is all that their
invariants need. From it follow `ConsoleTypes`, and `ConsoleKeepsItsPromises`,
which states the other fifteen invariants of that run and its action property of
the whole.

These proofs rest on the named assumptions about constants, which TLC evaluates in
the runs. Those that are more than types: `null` is no value of what is loaded
(`NothingAssumption`, `NoInstallIsNothing`), stored rules have the fields of a
rule and the identifiers they are stored under (`PolicyEditAssumption`), and
there may be at least one scan (`ScansAssumption`). The proofs also found
definitions in which two guards of a `CASE` held at once: which branch such a
`CASE` takes is left open in TLA+, although TLC takes the first. They are now
chains of `IF`, as in the code, or have guards that exclude each other (`Scans`,
`Installs`, `Records`, `Demo`, `PolicyEdit`).

Checked by TLC only: liveness (`ShutdownDrains`, `EveryEventSettles`,
`EvidenceIsStored`, `GapGetsFilled`, `SheetCatchesUp`, `InstallIsShownToEnd`,
`InstallSheetSettles`), which is out of the prover's reach. Of three of them the
safe half is proved: `EventsAreNotForgotten` says that an event that was read is
judged, in hand, or given up by a stop; `DrainedIsFinal`, that the end which
`ShutdownDrains` reaches is one, with no verdict, row or report after it; and
`InstallSheetMovesOn`. Every invariant and every action property of a passing run
is proved. Refuted properties have no proof.

## 7. Not modelled, and why

The components marked `not_modelled` in `PROJECT.json`: those of the plan above
that are still to come, and those without state worth checking (request
parsing, prompts, SQL, drawing, formatting). Inside the modelled components of
the server the following is left out: what matching a rule means
(`rules/rule.go`, pure functions of one event), the resolver's size limits,
broadcast as the pipeline does it, statistics and the Redis buffer, the change
history and refused installs (rows that are only appended), previews and
activity summaries, and the `unknown` status, which is computed on reading. A
commit that reports an error is taken not to have happened; with a lost
acknowledgement `releaseID` would give a number twice. The server's scan
service, demo runner, connection tests and authentication are modelled only as
far as the console sees them: a job runs and ends, a session has a stage.

Inside the console: the badge of the assistant and what its steps display, the
evidence tab of the audit page, the banner of the
default rules, the bell's notices other than pending cases, the statistics
loaded beside the events, theme and layout switches, sorting and column filters
of the tables, and every page that only draws what the modelled parts hold.
But for `Guide` with `Cases`, the parts are not composed with each other or with
`Review`: what joins them,
the stream that pushes cases and demo verdicts, is in each of them as a step of
the server.
