# TLA+ models of minimal-agent-core

minimal-agent-core is a terminal coding agent in TypeScript: a loop that sends a conversation to a model, runs the tools the model asks for and sends their results back, under a REPL, with sessions kept in append-only logs and several processes sharing files.
This directory models the parts of it whose correctness depends on ordering, on failures half-way or on several processes, checks the models with TLC on small instances and proves the main invariants for all instances with TLAPS.

Paths below are relative to the repository root; `src/` there is the TypeScript source.

## Contents

| module | what it is |
|---|---|
| `History` | the conversation and the operations that repair it; what the Messages API accepts |
| `AgentCore` | one process's agent loop with its tools, aborts, mode notes and log writes |
| `Restore` | what a resumed process makes of the log |
| `Session` | `AgentCore` and `Restore` composed across crashes and restarts |
| `Compaction` | `Session` with `/compact`, plugins' requests and the record they leave |
| `Transport` | one send: retries, auth refresh, watchdog and the bridge to blocks, nested |
| `AbortQuit` | the abort/quit machine, its escape hatch and timer, and the abort bus |
| `Repl` | the interactive host around `AbortQuit`: queue, overlay, editor, loop |
| `SnapshotStore` | the coalescing writer behind the queue and draft files |
| `SnapshotRegister` | the abstract register a reader of those files relies on |
| `PidLock` | the lock of `infra/lockfile.ts`, one system call at a time |
| `Credential` | the rotating OAuth credential refreshed under `PidLock`, and by the transport without it |
| `FileLock` | the lock of `plugin-api/src/utils/file-lock.ts`, one system call at a time |
| `FileEdit` | Read, Edit and Write under `FileLock`, with the tracker that guards them |
| `EventBus` | the plugins' event bus: microtasks, throttling, the coalescing slot |
| `LiveArea` | the scheduler of the live area's slots, on the bus |
| `AgentCoreProofs`, `SnapshotStoreProofs`, `CredentialProofs`, `FileEditProofs`, `TransportProofs`, `ReplProofs`, `LiveAreaProofs`, `CompactionProofs` | theorems and proofs about the module named (`CompactionProofs` also about `Session`, `CredentialProofs` about `PidLock`, `FileEditProofs` about `FileLock`, `ReplProofs` about `AbortQuit`, `LiveAreaProofs` about `EventBus`) |
| `MC*` | instances for TLC; the `.cfg` files name the bounds (`Transport` and `Repl` need none) |

Operators marked `Mutant:` in the comments are plausible bugs of the operator that follows them. They take part in no specification; each shows that a property notices that bug when the operator is replaced by it.

## Inventory of the system

**Agent loop** (`src/sdk/agent-core.ts`, with `agent/history-repair.ts` and `sdk/conversation-history.ts`). State: the message list, the runtime marker for the next turn, and the locals of `run()` (round counter, two continuation streaks, the results of the current tool round). `run()` opens a user turn, then loops: send, keep the answer, run its calls one by one, send the results. It awaits the media resolver, the model, each tool, hooks and an abort signal.
Hard: an abort, an error or a hook can stop it between any two awaits and leave a call unanswered, and the history must still be one the API accepts on the next request, a run later or a process later. Correct when every request is valid, no result is invented for work that was done, and an answer cut short is continued as often as the caps say.
The production host constructs `AgentCore`. `src/agent/agent.ts` holds an older copy of the loop used by its tests and as a compatibility surface; it is not modelled, but its comments state several of the rules checked here.

**Session log and restore** (`src/session/session-store.ts`, `session-restore.ts`, `host/sdk-adapters/`). State: a JSONL file appended to by two adapters, one for messages and one for results. A restart folds it into messages, repairs them, and pulls an unanswered prompt back into the editor. Hard: a crash between any two records, and records that meet in an order the loop never sends. Correct when the restored history is always resumable, and neither finished work nor the user's prompt is lost.

**Mode manager** (`src/modes/modes.ts`). State: the active mode and the last one advertised to the model. Shift+Tab cycles at any time; the next user turn carries a note; Alt+M aborts the turn to deliver it sooner. Hard: the note is counted as delivered when it is built.

**Queue and draft stores** (`src/session/queue-store.ts`, `draft-store.ts`). State: a pending snapshot, an in-flight flag, a file. Hard: saves landing during a write, failures, crashes, two processes on one session id. Correct when the file is whole, no save is lost in coalescing, and each process's snapshots appear in order.

**REPL host** (`src/host/repl-live-area.ts`, `editor-controller.ts`, `editor/key-dispatch.ts`). State: the queue of prompts and its file, the overlay's selection, the editor's text, the running turn. Prompts queued during a turn are drained at tool boundaries or taken after it; an abort puts them back in the editor. Hard: the queue is touched by key presses between the awaits of the turn, and its file must follow. Correct when no accepted prompt is dropped or waits for ever, and a turn in flight can be aborted.

**Abort/quit machine** (`src/bus/abort-quit-fsm.ts`, `abort-bus.ts`). A table over key presses, turn starts and ends and a timer, an escape hatch beside it, and the signal of the turn. Hard: a turn that starts or ends while the quit prompt is up.

**Compaction** (`src/agent/run-compact.ts`, `context-compact.ts`, `sdk/lifecycle-compact.ts`). State: a lock per history, a pending slot for plugins. Replaces the history by a summary and its tail and logs a compact record. Hard: the summary takes long and the history may grow meanwhile; a cut may fall between a call and its result.

**LLM transport** (`src/llm/transport/`, `adapter-legacy-stream.ts`). State of one send: the watchdog's clocks, the request whose bytes it counts, the blocks received, what was shown. Hard: retries, one auth refresh and the watchdog nest around one stream; a timeout races a late event. Correct when two attempts' text never runs together, no half-received call is kept, a stalled attempt is noticed, and an abort ends the send.

**Lockfile with timeout** (`src/infra/lockfile.ts`). State: one file with its holder's pid, and per process the set of paths it holds. Hard: a waiter probes the holder and then unlinks by path; processes end at any point; after a deadline the caller goes on without the lock.

**OAuth refresh** (`src/auth/auth.ts`, `auth-strategies.ts`, `auth-store.ts`). Several processes share one rotating refresh token, kept in a file with other entries. Hard: a spent token is refused; a crash between rotation and write loses the credential; another entry's write may put an old one back.

**Cross-process file lock** (`plugin-api/src/utils/file-lock.ts`) and **file tools** (`src/tools/tools.ts`, `session/file-tracking-store.ts`). State: a lock file per resource, its holder's session, pid and time; per session what it last saw of a file. Hard: the lock is created empty and written later, a stale one is unlinked after a second look, and a session shares its own. Correct when no agent overwrites what it has not seen.

**Plugin event bus** (`src/plugins/event-bus.ts`) and **live-area scheduler** (`src/host/ui/status/live-area-scheduler.ts`). State: subscriptions with a coalescing slot each; slots with a gate, a latch per call and refresh timers. Hard: a call may answer after its timeout, or never; payloads arrive while their listener runs. Correct when a listener ends up with the latest payload, a slot shows its newest outcome and goes on being called.

**Plugin loader and hooks** (`src/plugins/`), **tool pipeline** (`src/agent/tool-round.ts`), **diagnostic and status buses** (`src/bus/`), **session liveness, history edit and blob stores** (`src/session/`), **network clients** (`src/network/`), **binary store** (`src/binaries/`). `AgentCore` takes a hook's decision and a tool's outcome as inputs; the others are listed under "Not modelled".

**Terminal UI, CLI, configuration, prompts, media, quota, logging.** Rendering, parsing and wording; no state that a property here would tell apart. Not planned.

`PROJECT.json` lists every component with its sources and status, and the hazards with the lines where they bite.

### How they interact

The REPL calls `AgentCore.run()` and awaits it. During the run the loop calls back into the host: the session-persistence adapter appends messages, the tool-executor adapter runs a call and appends its result, the mode manager hands over a pending note, the queue is drained at a tool boundary. Key presses reach the abort bus and the mode manager between awaits. After the run the REPL rolls the history back if the turn was aborted or failed. A send goes through the transport, which asks the credential store for a token; a tool takes the file lock of what it changes. Everything is one event loop: code between two awaits is atomic, and that is the grain of the models. Only the files are shared with other processes.

## The agent loop: `History`, `AgentCore`

A message is its role, the ids of the calls it makes, the results it carries and its text blocks. A text is a prompt, a mode note, some other note or something the model said; its wording is left out. A result is the id of its call and whether the call ran, was canceled by the abort, or was answered synthetically ("aborted before completion").

`pc` says at which await `run()` stands:

| `pc` | in the code | actions that leave it |
|---|---|---|
| `idle` | no run | `StartRun` (a prompt), `ContinueRun` (`/continue`, which awaits nothing before the loop) |
| `resolving` | `await mediaResolver.resolveUserContent` (line 413) | `PromptResolved` (the user turn is appended), `ResolverThrows` |
| `top` | head of the loop | `NextRound`, `CapReached`, `StopAtTop` (signal, or the preflight question declined) |
| `model` | `await sendFn` | `AnswerCut`, `AnswerFull`, `AnswerEnds`, `AnswerCallsTools`, `SendThrows` |
| `tools` | `await executeToolRound`, one call at a time | `ToolReturns`, `ToolThrows` |
| `gate` | the `tool.didBatch` hooks | `BatchPasses`, `BatchHalted` |
| `wrapup` | the last request, without tools, after the round cap | `WrapAnswered`, `SendThrows` |
| `unwinding` | `run()` has returned or thrown | `Settle` (the REPL's rollback and marker) |
| `down` | no process (`Session` only) | `Restart` |

`content` is what `run()` has put together before the resolver answers: the synthetic results for the calls the history left open, the marker, the mode note. They are collected in `StartRun` and appended in `PromptResolved`, so what changes the history in between (a compaction) meets a turn that was built for the old one. A batch that passes is one step, although a due reflection checkpoint is awaited in it (line 858), after the drained text is logged and before the results are pushed. In that wait the history still ends in the round's answer, as in `gate`: a `/compact` that began before the round no longer finds its snapshot, one typed there is one typed while tools run, and the log is already what it will be after the step.

`Abort` and `ToggleMode` may happen between any two of these. The environment chooses every answer, outcome and fault. Constants switch faults on and off so that a property can be stated for exactly the conditions under which the code keeps it: `HooksDeny`, `EmptyAnswers`, `ToolsMayThrow`.

`minted`, `runs` and `toggles` are history variables; `minted` numbers answers and calls, so an id never occurs twice.

Properties:

- `SendIsValid`: whenever a request is made its history ends in a user turn, each call is answered in full by the next message, each result answers a call just before it, once, and no two answers meet. The rule the API enforces by rejecting the request; it has to survive every fault, run after run.
- `RolesAlternate`: in addition no two user messages meet.
- `LogIsOrdered`: a result's record follows its answer's with only other results between, once each: the order the restore's fold needs.
- `ResultsAreTrue`: a call the log records as run is never shown to the model as aborted.
- `ContinuationsAreCounted`: a cut answer is continued just when fewer than `CutCap` cut ones were in a row before it, and a full one just when fewer than `FullCap` were, cut ones among them or not. "In a row" is read off the history (`InARow`: the notes at its end), not off the two counters, so a reset that one of the paths misses, or adds, shows, as does an off-by-one in either comparison. What follows for a run: between two tool rounds or mode notes the loop makes at most (`CutCap` + 1)(`FullCap` + 1) requests. That a run ends is not claimed: the host's default sets no cap on rounds, and a model may call tools for ever.
- `TypeOK`.

`SendIsValid` and `LogIsOrdered` are proved with every fault on; the run that checks `SendIsValid` is `compaction`. The others are checked by `agent_long` (the first process), `session_crash` (across crashes) and `compaction`.

## Sessions: `Restore`, `Session`

`Restore` translates `session-restore.ts` as operators: the fold of the records, the four steps of the repair (drop answers with an open call, drop results of dropped calls, drop empty messages, collapse adjacent user messages), and the extraction of a trailing prompt as a draft. `Session` adds `Crash`, which keeps only the log, and `Restart`, which rebuilds the history and primes the mode manager from it.

The properties are stated at every instant, not only after a crash: they say what a crash at that instant would leave.

- `RestoredIsResumable`: the restored history has no open call, no stray result, alternating roles, and no call that is made twice or was never handed out; the mode it last announced exists.
- `WorkSurvivesCrash`: an answer in memory whose calls all have logged results is restored.
- `PromptSurvivesCrash`: a prompt that is in the history and being worked on is in the restored history or in the draft. While the media resolver is awaited it is in neither: a crash then loses it.
- `NoGhostWork` (run with compactions): no answer comes back that the process had let go of.

## Compaction: `Compaction`

`job` is the compaction under way, whose it is and the history it began with; it stands for `compactLocks` and the awaited summary. `asked` is the pending slot of the plugin capability. `UserCompacts` and `UserCompactEnds` are `/compact`, at any instant; `LoopCompacts` and `LoopCompactEnds` are the head of the loop, which takes a request before it makes a round. The end compares the history with the snapshot, as `historyUnchanged` does, writes the record, then replaces. `CompactNext` takes `AgentCore`'s `Next` as it is, except that the loop may not pass its head while it must drain, or waits for, a compaction.

`SliceTail` is defined by what the two loops of `sliceTail` compute: the longest prefix that does not end in an open answer, then the longest suffix of it that begins whole. A checkpoint is numbered, so that one checkpoint is not taken for another.

- `SendIsValid`, `ResultsAreTrue`: as above, with replacements between the rounds.
- `NoGhostWork`: the log restores to no answer that the replacement took away.
- `CheckpointIsRestored`: the newest checkpoint is in the restored history or in the draft.
- `CompactTypeOK` says besides that the loop's own compaction works on a history nobody else touches.

`CompactMidTools` says whether `/compact` may be typed while tools run. The code lets it; the passing run has it off, and `compaction_midtools` shows what happens when it is on. `CompactMidRepair` says whether the summary of a `/compact` may arrive while a run that opens with synthetic results awaits the media resolver. The code lets that too, and sends an invalid request then (see the divergences); it is off in both runs. A compaction that ends during any other wait, the resolver's included, is in the model. The runs have `HooksDeny` and `ToolsMayThrow` off, so no run opens with synthetic results in them (`ResultsAreTrue` is checked there, and needs that); the theorem on `SendIsValid` allows both.

## One send: `Transport`

`pc` is `streaming`, `failed` (an attempt threw), `sleeping` (the backoff) or `done`. The variables follow the layers: the watchdog's clocks and verdict, the requests and the binding of the stream's (`request`, `others`, `reserved`, `claimed`), the bridge (the open block, the calls kept, what progress it has seen), what the stream has sent (`opened`, `closed`, `live`), and the retry layer's (`tried`, `hasYielded`, `tail`). Text is counted, calls are numbered.

The environment sends events in every order that the two translators (`plugin-api/src/llm/anthropic-stream.ts`, `openai-chat.ts`) can produce: a call may start while a text is open, stops may be deferred beyond the next start and come out in another order, text may come outside any block. It falls silent, sends heartbeats, closes early, errs in each class the code tells apart, or answers 401. Before the stream's headers the provider may have other POSTs in flight that may pass for the stream, up to `MaxOthers` at once, answered in any order or failing before their headers; POSTs whose label shows what they are never touch the binding and are left out, and so are POSTs after the stream's headers. `Tick` is the watchdog's timer, one second of it, so the constants are the four timeouts in ticks.

- `LastSegmentIsAnswer`: what the user has read since the last stall marker is the recorded answer.
- `SalvagedCallsAreWhole`: no call whose arguments were still arriving is kept from a stream that closed.
- `BodyIsWatched`: the watchdog counts the bytes of the stream, whatever other POSTs were made and in whatever order they were answered, unless one was in flight when the stream was sent or has failed before its headers (`exposed`, a history variable). In those two cases the code does not watch it; see the divergences.
- `AttemptEnds`: an attempt ends, or its `message_stop` comes, even if the stream never falls silent. After `message_stop` the timer is off (`watchdog.ts:213`) and the translator reads on until the connection closes (`anthropic-stream.ts:259`), so nothing in the code bounds an attempt from there, and the property promises nothing. `watchdog.ts:52` calls the hard ceiling "the ultimate bound".
- `AbortEnds`: an abort ends the send from any layer, after `message_stop` too.

## The interactive host: `AbortQuit`, `Repl`

`AbortQuit` is the table of `step()` as data, with the editor's effects (`Feed`), the 500 ms hatch (`quick`) and the bus (`turn`). Its actions are conjoined with the host's in `Repl`.

`at` says where the loop stands: `waiting` (on the promise), `loop`, `starting` (the `turn.willStart` chain), `preparing`, `sent`, `rounds` (the run before its prompt is logged, in its first request, past a tool boundary), `settling` (the flush before an aborted turn is handed back), `recovering` (the compaction after an exceeded context), `down`. `queue` and `saved` are the queue and its file, `nav` the overlay's selection. Text is a set of typed fragments, so that every fragment can be followed through the queue, the log, the editor and the file.

- `TurnIsAbortable`: while a turn runs that nobody has aborted, Escape and Ctrl+C abort it.
- `NothingDropped`: an accepted prompt is in the file, logged, or in the loop's hands, until the user takes it away or an abort hands it back.
- `EveryPromptMoves`: no prompt stays queued for ever.
- `ReplTypeOK` bounds the overlay's selection by the queue.

## Snapshots: `SnapshotStore`, `SnapshotRegister`

Each process calls `save()` on a mutation. One flush loop per process writes the newest snapshot to a temporary file named by its pid and renames it over the shared path; an empty snapshot removes the file. The effect of each file-system call and the resumption of the code that awaited it are separate steps, so a save can land between them. `Crash` loses memory and keeps both files; any call may be rejected, and the code then drops that snapshot.

`SnapshotRegister` is the abstract specification: a reader always finds one whole snapshot, each change shows one its process saved in its present life, and one process's snapshots appear in the order of its saves. `SnapshotStore` implements it with `contents` refined by the file's snapshot (`ImplementsRegister`). The other properties: `FileIsWhole`, `SettledIsLatest` (at rest, unless the last write failed, nothing saved is newer than what landed), `SaveLands` (a save reaches the file unless a write fails or the process dies).

The two stores are the same machine over a list and over a string, so one module stands for both.

## The lockfile: `PidLock`

`lock` is the pid in the file. There is no state with a file and no content, because the code writes a temporary file and links it. `pc[t]` says where the task `t` stands: `trying` (before `linkSync`, or asleep between attempts), `reading`, `probing`, `breaking` (the system calls after `EEXIST`), `holding`, `unlocked` (the deadline passed and the caller goes on without the lock), `out`, `dead`.

An attempt is synchronous code, so `Busy` keeps the other tasks of its process, and its exit hooks, out of it; other processes and `Crash` come in between any two calls. `held` is the process-wide `HELD_LOCKS`: `Release` unlinks whatever file is at the path when its process has the path there, as the code does. `Exit` is an orderly end with the hooks, `Crash` one without. The deadline is a choice after each attempt and certain after `MaxTries`.

`ExclusiveWhileAllLive`: exclusion until a process ends. `LiveLockHasHolder`: a file naming a live process has a holder in it. Both are checked in the run of `Credential`, which extends the module.

## Credentials: `Credential`

A credential is the number of its rotation; the server honours the last it issued. `Guarded` tasks refresh through `getAuth()`: they take the lock, read the store again under it, ask the server, and write. The others are sends, which look at the store and then ask the server with no lock. A write is two steps, `Load` and `Save`, because `AuthStore.set` reads the whole file and renames a new one. Tasks of one process exclude each other in synchronous code (`Runs`).

- `RefusedOnlyAfterLoss`: the server refuses a token only after its successor was lost in a crash or put back by another entry's write, after the lock was breached, or on an entry that a send shares with another task (`Contended`).
- `StoreIsCurrent`: the store holds the pair the server honours, unless its holder is about to write it or one of those happened.
- `RefreshSettles`: each guarded refresh ends.

The history variables `lost`, `undone` and `breached` record exactly the events after which the code can keep no such promise. The lock is breached when a deadline passes and the caller goes on without it, or when a waiter unlinks the lock of a live process, which two waiters over an ended holder's lock can bring about (`infra/lockfile.ts:261`).

## File tools: `FileLock`, `FileEdit`

`file` is the lock file: who created it, in which call, and whether it is empty, filled or old. An attempt goes through `writing`, `reading`, `judging`, `rereading`, `clearing`, `again`; it is synchronous, so only other processes come in between. `sharing` is the handle a session gets on a lock it holds already. `FileEdit` puts the tool call inside: `Check` (the tracker's precondition), `Load`, `Put`, `TrackWrite`, `Dispose`. `Read` takes no lock.

- `NoLostEdit`: no call overwrites a version it did not check, unless a lock in use was unlinked or one was shared.
- `ExclusiveUnlessCleared`, `LiveLockHasHolder`: the lock's own.
- `CallSettles`: every call is answered, or its process is gone, or `unlinkSync` fails again and again. An unlink in the branches for stale and corrupt files may fail (`ClearFails`); the code swallows that and starts over without a sleep and without a look at the deadline (`file-lock.ts:580`, `632`). So these branches end as soon as an unlink succeeds, and for no other reason: see the divergences.

A lock in use can be unlinked in this code (it is created empty; it may grow old; a re-read and its unlink are two calls), so `cleared` and `shared` are history variables that say when, and the properties say that nothing else breaks the promise.

## Plugins' events and the live area: `EventBus`, `LiveArea`

A listener is one subscription; payloads are numbered as they are emitted. `queue` holds the microtasks `emit()` queued, each with the listeners of that moment that it has still to reach, `inFlight` and `pending` are the fields of a coalesced entry, `recent` the throttled entries inside their window. `LiveArea` conjoins its steps with the bus's: `EventFires` is the delivery to a slot's listener and the `fire()` it calls.

A slot is the code's `SlotState` with what refers to it: the calls not settled (`late` once the timeout has set their latch) and the number of refresh timers armed, of which `s.timer` is at most one. `TimesOut` stands for the timeout and its two microtask hops: a call that answers the abort within them is `Answers`.

- `CatchesUp`: a coalesced listener with nothing running and nothing on its way was last called with the latest payload.
- `ShownIsNewest`: a slot never goes back to an older call's outcome, and changes no more after `stop()`.
- `SlotRefreshes`: a slot goes on being called whatever its calls do.
- `SlotTypeOK` says besides that the gate is held by exactly one call whose latch is open.

## Runs

| run | configuration | shows |
|---|---|---|
| `snapshot_two` | 2 processes, 4 saves | whole, ordered, nothing lost in coalescing; saves land |
| `agent_long` | 3 rounds, 2 toggles, caps 1 and 1, no empty answers | types, alternating roles, continuations counted |
| `session_crash` | crash anywhere, 2 runs, 2 calls, hooks, throws, mode notes | the log's order and what a crash at any instant leaves |
| `compaction` | crash anywhere, one compaction by the user and one by a plugin | the history and the log under replacement |
| `transport` | 2 text deltas, 2 calls, 2 side requests at once per attempt, any number of attempts | the five properties of a send and its types |
| `repl` | 2 fragments, 3 prompts queued at a time, 1 restart | the host's properties |
| `credential` | 2 processes, 3 tasks, 2 entries, 2 expiries | the lock's and the credential's properties |
| `file_edit` | 2 processes, 3 calls, locks that grow old | the lock's and the edit's properties |
| `live_area` | a slot with 3 calls, a coalesced and a throttled listener, 3 payloads | the bus's and the slot's properties |
| `compaction_midtools`, `transport_replay`, `repl_quit` | | the findings below |

### Bounds

- `MaxRounds` 1 to 3. The cap is only compared with, so 1 makes it bite at once and 3 lets a round be reached from each kind of earlier round: a full answer, a cut one and a second of either, with a tool round or a mode note in any place. The host's default is no cap; no property rests on there being one.
- `CutCap` 1 is the code's `MAX_INTERRUPTED_TURN_CONTINUATIONS`. `FullCap` 0 or 1 stands for the code's cap of 5: the streak is incremented, compared and reset, and both sides of the comparison are reached.
- `MaxTools` 1 or 2: two calls make every position in a round differ, before, between and after.
- `MaxRuns` 2: a repair happens in the run after the one that left a call open.
- `MaxCrashes` 1: a restart begins from the log alone, so a second crash starts from a log the first could have left. `MaxToggles` up to 2: there and back.
- `NumModes` 1: notes differ only by equality with the last one.
- `MaxSaves` 4 with two processes: a save before, during and after another's write, and one after a restart.
- `Compaction`: one compaction of each kind, over two runs of one round with one call: begun before, during and after a run, and ended after another has begun. `Keeps` is `{1}`, a tail that cuts between a call and its results.
- `Transport`: the timeouts are 2, 3, 3 and 4 ticks, in the order the code's defaults have, and so that each fires first in some attempt. `MaxOthers` 2: one side request holds the reservation and another does not. Two deltas and two calls tell "some" from "all", and let stops come in another order than starts. Attempts are not bounded.
- `Repl`: two fragments meet in one prompt or stay in two; the third queue place is for a prompt without text between them.
- `Credential`: two processes that refresh one entry under the lock, and a send of one of them with an entry of its own, whose write can undo theirs. `MaxTries` 2: a waiter looks again after a holder has let go or ended. `MaxExpiries` 2: a second expiry finds the pair the first one left. Two waiters over a third one's lock need three processes; that case is the theorem's, which holds for any number of them.
- `FileEdit`: two calls of one session, which share, and one of another, which does not; an Edit meets a Write and an Edit. `MaxTries` 2: a waiter sleeps and looks again. `MaxCalls` is 1: a task that is out again is like one that never called.
- `LiveArea`: three payloads are one running, one put aside and one that overwrites it; three calls are one late, one that answers and one in flight. Slots share nothing but the bus, so one is enough.
- `Initial` is empty, or a restored tool turn whose prompt went back to the editor.

Every behaviour is cut off by a bound in the end, so most runs do not check deadlock: an idle process with no run left, a host that has quit, or processes that have all ended, is the normal end. `Transport` does: a send is over only when it has an outcome (`Over`).

### Fairness

`AgentCore`, `Session` and `Compaction` state no liveness and assume no fairness. `Transport` assumes that the timer fires and the layers' awaits settle; of the stream it assumes only `Unwind`: a source whose signal is aborted, by the user or the watchdog, ends, which is the code's contract with `fetch`. A source that has sent `message_stop` need not end. `Repl` assumes the loop's own steps and the exit after a quit, not that a user does anything; that the run of a turn ends is an assumption of it, which tools, the model and the host's cap on rounds decide. `SnapshotStore` assumes weak fairness of one process's disk calls and resumptions, not of saves, crashes or restarts. `Credential` assumes that each task's callbacks run and that a request is answered or fails; `FileEdit` that each call's callbacks run. Neither assumes that a process ends, that a token expires or that a lock grows old. An `unlinkSync` need not succeed in `FileEdit`. `LiveArea` assumes that timers fire, and of the plugins nothing.

## Findings

Each run below reaches a state that contradicts what the repository says of itself; `PROJECT.json` quotes the lines.

1. **`compaction_midtools`**: nothing stops `/compact` during a tool round. The history does not change while the tool runs, so the comparison with the snapshot passes, the trailing answer with its open call is dropped (`agent/context-compact.ts:223`), and the results are then sent without their call.
2. **`transport_replay`**: only a close without a terminal event looks at what the attempt has already delivered; a stall, an overload or a dropped connection after a tool call was closed sends the request again (`llm/transport/retry.ts:327`), which `attempt-progress.ts:15` excludes.
3. **`repl_quit`**: the first Ctrl+C of a quit aborts the turn, which moves the queued prompts into the editor and clears their file (`host/repl-live-area.ts:1396`); the second exits, and they are gone.

### Divergences seen, not kept as runs

Seen while modelling, most of them as counterexamples. The constants or conditions that leave them out of the passing runs are named.

- A `tool.didBatch` hook that stops the loop drops the results of calls that ran (`sdk/agent-core.ts:816`); the next run answers them as "aborted before completion" (`agent/history-repair.ts:54`). `ResultsAreTrue` is checked with `HooksDeny` and `ToolsMayThrow` off.
- Synthetic results are sent but not logged (`sdk/agent-core.ts:289`), although `agent/history-repair.ts:59` says they are; a resume drops the answer they belong to. `WorkSurvivesCrash` speaks of calls with logged results; the `compaction` run has throws off, the theorem on `NoGhostWork` does not need that.
- An answer without any block, with a mode change pending, is followed by a second user message (`sdk/agent-core.ts:777`), and after a crash the prompt is lost (`session/session-restore.ts:432`). `RolesAlternate` and `PromptSurvivesCrash` are checked with `EmptyAnswers` off.
- A run that follows a halted round, or a tool that threw, computes the synthetic results of the open calls (`sdk/agent-core.ts:385`), then awaits the media resolver (line 413, wired in `host/sdk-adapters/build-agent-core.ts:213`), then appends them (line 419). `/compact` is not awaited by the REPL (`host/repl-live-area.ts:747`): one typed before the prompt may commit in that window. The history has not changed, the comparison passes, the open answer is dropped (`agent/context-compact.ts:223`), and the synthetic results are sent without their call. With `HooksDeny` and `CompactMidRepair` on, TLC finds it in 13 states; with `CompactMidRepair` off and `HooksDeny` on, `SendIsValid` holds in all 2.6 million. `agent/context-compact.ts:188` says the slice keeps pairs atomic.
- A side POST that fails before its headers keeps the reservation: `NetworkClient.request` calls `onError`, not `onResponse` (`network/client.ts:162`), and only `onResponse` frees it (`llm/transport/canonical-send.ts:417`). A provider that goes on and opens its stream then has no watched body: heartbeats do not count, and a stream kept open by them alone looks idle. The same holds for a stream sent while a side POST still has the reservation: it goes out untapped (line 439), although lines 378-380 speak of concurrent traffic. `BodyIsWatched` exempts both (`exposed`).
- An attempt that has seen `message_stop` lasts as long as the provider keeps the connection open (`llm/transport/watchdog.ts:213`), although line 52 calls the hard ceiling the ultimate bound.
- An `unlinkSync` that goes on failing over a stale or corrupt lock file, in a directory one may not write to, makes `acquireLock` spin without a sleep, past its deadline, and with it the whole process (`file-lock.ts:580`, `632`), although the comment at line 500 has it "waiting with backoff until success or deadline". `CallSettles` exempts it.
- A mode note rolled back with its turn is not sent again (`modes/modes.ts:748`), although line 270 counts it as told.
- A session resumed right after a compaction finds the checkpoint in the editor: `isAttachmentText` does not know it (`session/session-restore.ts:550`). `CheckpointIsRestored` accepts the draft.
- In the lockfile, two waiters over an ended holder's lock may both hold it: the second unlinks what the first has just taken (`infra/lockfile.ts:261`). One refresh token may then be sent twice; `RefusedOnlyAfterLoss` counts it as a breach.
- Two sends that meet an expired token refresh it without a lock and the second is refused (`auth/auth-strategies.ts:379`). `RefusedOnlyAfterLoss` leaves such entries out (`Contended`).
- `Read` tells the tracker what the file is after it has returned (`tools/tools.ts:409`), so a later Write may replace what the model was never shown. `NoLostEdit` speaks of what a call checked.
- A continuation queued by Alt+M is swept into the editor, and so dropped, by the next abort (`host/repl-live-area.ts:1396`).
- A 401 after text was shown would run two attempts' text together (`llm/transport/auth-refresh.ts:29` rules it out for HTTP): `LateAuth` is off in `Transport.cfg`.
- Each `refreshOn` event arms one more refresh timer, and each timer arms its successor, so a slot's timers multiply for as long as the session lasts (`host/ui/status/live-area-scheduler.ts:509`), although line 283 says a burst "collapses to one (subsequent) refresh"; `stop()` clears one of them.
- A throttled listener loses the last payload of a burst even when it coalesces, because the window is looked at first (`plugins/event-bus.ts:244`), although line 50 says to combine the two for the trailing edge: `CatchesUp` leaves throttled listeners out. A payload put aside is delivered even after its listener has unsubscribed.
- An Escape during a plugin's compaction does not reach its summary: `AgentCore.compact` does not pass the signal on (`sdk/agent-core.ts:197`).

## What is proved

TLAPS checks every step. The theorems hold for every value of the constants that the named `ASSUME`s allow: the bounds are numbers, the switches Booleans, `None` is no process and no lock, the watchdog's timeouts are positive and the thinking one is not below the idle one, a process starts on a resumable history (`InitialAssumption`). A hypothesis beyond these is part of the theorem and named below. Each inductive invariant was checked with TLC on a small instance before it was proved.

**`AgentCoreProofs`**: `TypeCorrect` (`[]TypeOK`), `SendValid` (`[]SendIsValid`) and `LogOrdered` (`[]LogIsOrdered`) for every cap, every number of calls, runs and toggles, and every fault.
`SendIsValid` is not inductive: it says nothing of the history while tools run. The invariant `IInv` adds that the history is resumable in every state (only its last message may hold open calls), that it ends in a user turn wherever a request can follow, and `RoundInv`: while tools run the last message is the answer that called them, and each of its calls is either still to run or has exactly one result. The lemmas on the history show what its operations preserve: a prefix of a resumable history is resumable, `rollbackPendingTurn` yields a prefix that ends where the code's loop stops (by the well-ordering of the numbers, since the loop is a `CHOOSE` here), an answer after a user turn keeps it resumable, a user turn that answers the open calls makes it sendable, and the synthetic results are exactly such answers.
`StepGrows` then says what any step can do to the history and to the log, and `LogOrdered`, `RolesSwitch` and `ResultsTrue` need little besides. `LogOrdered` adds `RoundIsLogged`: while tools run, the log ends in the round's answer and results of its calls.
`ContinuationsCounted` (`ContinuationsAreCounted`) holds with every fault and for every number of runs. Its invariant, `StreaksInv`, says that wherever a request can follow the two counters are the rows that the history shows: a continuation adds one to its row (`RowGrows`), and every other user turn ends both, merged with the turn before it or not, since its last text is neither note (`TurnEndsRow`, `OthersAskNothing`).
`RolesSwitch` (`[]RolesAlternate`) assumes `~EmptyAnswers` and that `Initial` holds alternating histories, which `SessionRestores` proves of a restored one. `ResultsTrue` (`[]ResultsAreTrue`) assumes `~HooksDeny` and `~ToolsMayThrow`, and a start without open calls or synthetic results: its invariant says that then every round ends with all its calls answered and no result is synthetic at all. Both hypotheses are needed; the divergences above are the counterexamples without them.

**`SnapshotStoreProofs`**: `TypeCorrect`, `NeverTorn`, `SettledLatest` and `Refinement` (the store implements `SnapshotRegister`), for any set of processes and any number of saves. `WriterInv` says what the flush loop holds at each of its awaits; `NothingForgotten` accounts for every save: landed, in the writer's hands, waiting, or rejected.

**`CredentialProofs`**, on the lock: `LockTypeCorrect`, `MutualExclusion` (`ExclusiveWhileAllLive`) and `NoLeakedLock` (`LiveLockHasHolder`) for any processes, tasks and bounds. Neither is inductive alone. `Undisturbed` adds that, while nobody has ended, a holder's pid is the one in the file and no attempt reaches the unlink, which needs `SawHolder`: what was read is some process's pid. `Tracked` adds that a live process's lock is in its `HELD_LOCKS`, so any release in that process that would forget it also unlinks it.

**`CredentialProofs`**, on the credential: `RefreshRefinesLock` (every step of `Credential` is a step of `PidLock` or leaves the lock alone), so `RefreshExcludes` and `RefreshLeaksNoLock` follow from the lock's invariant; `CredentialTypeCorrect`; `RefusalHasAReason` (`RefusedOnlyAfterLoss`) and `StoreKeepsUp` (`StoreIsCurrent`) for any processes, tasks and entries.
The argument is `Rotations`: on an entry that nothing was lost from or put back in, at most one task bears a pair the store does not have yet, that pair is the one the server honours, and no request in flight carries it. That a guarded request carries the honoured token (`SentIsHonoured`) rests on the lock: `Intact` says that until it is breached the lock names its one holder and so does `HELD_LOCKS`, and `Inside` that a refresh runs between taking and letting go.
The first form of `RefusedOnlyAfterLoss` could not be proved: it held only with one attempt for the lock. With two, two waiters can break an ended holder's lock one after the other and send one token twice; `breached` now says so.

**`FileEditProofs`**: `ToolsRefineLock` (a tool's steps are the lock's or leave it alone), `LockTypeCorrect`, `LockExcludes` (`ExclusiveUnlessCleared`) and `NoLeakedLock` (`LiveLockHasHolder`) of `FileLock`, `EditTypeCorrect`, and `NoEditIsLost` (`NoLostEdit`), for any processes, sessions and calls.
`FileIsOwners`: unless a lock in use was unlinked, the file is the one the task that writes, holds or releases created, in this very call; `HeldIsHeld`: what the exit hook would unlink is held. On top of it `CheckedIsCurrent`: from the check to the write the content is the one that was checked, unless the lock was cleared or shared.

**`TransportProofs`**: `TypeCorrect`, `BodiesAreWatched` (`BodyIsWatched`) and `SalvageIsWhole` (`SalvagedCallsAreWhole`) for any timeouts and caps; `ScreenIsAnswer` (`LastSegmentIsAnswer`) with the hypothesis `~LateAuth`, as in the run. `TapInv` says who has the reservation: unless the attempt is `exposed`, a stream that awaits its headers holds it, and one that has them has claimed it and let it go; `TapCounts`, that a holder other than the stream is among the POSTs in flight; `BlockInv` says a call is open exactly while its arguments stream, and is then the last one begun and not among those kept; `TextInv` says a new attempt begins only with nothing on the screen since the last marker.

**`ReplProofs`**: `TypeCorrect`, `TurnsAreAbortable` (`TurnIsAbortable`) and `NoPromptIsDropped` (`NothingDropped`) for any fragments, queue bound and restarts. `FileIsQueue`: while the process lives the file has the text of the queue. `PromptInHand`: the loop lets go of a prompt only where it is logged or it holds none. Lemmas say what removing, appending and reloading do to the text of a queue; what a reload drops is by definition without text.

**`LiveAreaProofs`**: `TypeCorrect` (with the gate's invariant), `EveryListenerCatchesUp` (`CatchesUp`) and `ShowsNewest` (`ShownIsNewest`, an action property) for any slots, listeners, payloads and calls. `LatestIsSomewhere` follows a listener's latest payload: the last one on its way, or put aside behind a running call, or the one it was called with. For the slots, `InOrder` and `Gated` say that calls settle behind the newest shown and that the gate is held by one call.

**`CompactionProofs`**, on the session: `SessionRestores` (`RestoredIsResumable`), `SessionSendValid` (`SendIsValid`) and `SessionLogOrdered` (`LogIsOrdered`), however often the process dies and with every fault on.
The restore is three folds over a sequence. One lemma each says what one element more does to the fold (`FoldsOn`, `CleansUp`, `CollapsesDown`), and `CountsUp`, an induction over the numbers up to n by their well-ordering, puts the elements together; the theorems of induction in the library, which take an operator, are not needed. `FoldInv` is what the log must fold into at every instant for the repair to work: `Folded` allows an answer with open calls and user messages that meet, but every result answers a call of the message before, and no answer follows a message that the repair would drop (`Welcomes`: it has text, or answers every call before it). While tools run the round is at the end of the fold, with the results so far (`RoundAt`). `FoldKept` shows that whatever the loop logs keeps this. Then, step by step of `repairMessages`: dropping the open answers and their results leaves a history whose every call is answered (`CleanedWhole`), collapsing adjacent user messages leaves it so and makes the roles alternate (`RepairedWhole`), and pulling out the draft takes nothing else (`UndraftedWhole`). None of them makes up a call or a result (`Stems`), so no call is doubled or comes from the future.

**`CompactionProofs`**, on compactions: `CompactTypeCorrect` (`CompactTypeOK`), `CompactSendValid` (`SendIsValid`), `CompactRestores` (`RestoredIsResumable`) and `CompactResultsTrue` (`ResultsAreTrue`), for any tails kept and any number of crashes. They suppose a session that begins empty (`Initial = {<<>>}`; a resumed one begins with a restart) `~CompactMidTools` and `~CompactMidRepair`, without either of which the second is false (`compaction_midtools` and the trace under the divergences). Hooks that stop a round and tools that throw are allowed; `CompactResultsTrue` also `~HooksDeny` and `~ToolsMayThrow`, as in its run.
The argument is about `sliceTail`. `CompactInv` adds to the loop's invariant that no call of the history is made twice and each was handed out before (`DistinctCalls`, `HandedOut`); and `JobInv`, that a history equal to the user's snapshot is not one whose tools run: a round's answer has fresh calls, so it cannot be the snapshot's. The `Slice` lemmas follow the two loops of `sliceTail`: what they leave is a contiguous part of the history, to its end if that end calls nothing, and its first message carries no results, since those would answer a call made just before it and nowhere else. So the checkpoint before it makes a resumable history (`CompactedResumable`), and since every message of the history says something (`Fit`), one the log may fold into (`CommitFolds`).

**`CompactionProofs`**, on what a crash leaves: `WorkSurvives` (`WorkSurvivesCrash`) and `PromptSurvives` (`PromptSurvivesCrash`) of `Session`, `NoGhosts` (`NoGhostWork`) and `CheckpointSurvives` (`CheckpointIsRestored`) of `Compaction`. All four suppose a session that begins empty; `PromptSurvives` also `~EmptyAnswers`, without which it is false, and the last two `~CompactMidTools` and `~CompactMidRepair`. Hooks that halt a round and tools that throw are allowed in all.
They tie the restored history to the one in memory, through what the log folds into (`Fold`). For answers, `RestoredAnswers` says that a restore keeps exactly the answers of the fold that the next message answers in full (`Closed`). `WorkInv` then says that the fold has every answer of the history, with every logged result right behind its call, and `HeldInv` that the history has every closed answer of the fold, and the one of the round in hand, which the next result may close. A rollback removes no answer (`RollbackAnswers`), a compaction makes fold and history equal, and a throw leaves an answer that is in both.
For texts, each step of the repair has a lemma on what it keeps: dropping open answers keeps a user message's text if its answer stays or nothing follows (`Stands`), and a checkpoint always (`CleanedTells`); collapsing keeps the last of adjacent user messages, and checkpoints (`CollapsedTells`); the draft takes out what goes to the editor (`UndraftedTells`). `CheckpointInv` says that the newest checkpoint is in the fold. `PromptInv` says that the prompt of the run is in a message that stands, and that while tools run its answer follows it; while the resolver is awaited the prompt is in `content` and not yet in the history. It is kept because a prompt is the last record when it is logged, an answer comes before any other user turn, and a round is logged whole before the next one opens (`StandsAnswer`, `StandsResult`, `StandsRound`).

### Only model-checked

- Liveness (`SaveLands`, `AttemptEnds`, `AbortEnds`, `EveryPromptMoves`, `RefreshSettles`, `CallSettles`, `SlotRefreshes`): out of the prover's reach.
- That `MCAgentCore`'s starting history satisfies `InitialAssumption`. Of a restored history that follows from `SessionRestores`.

Not stated at all: `WorkSurvivesCrash` and `PromptSurvivesCrash` of sessions with compactions, where a replacement takes work away on purpose.

## Not modelled

In the modelled components:

- `AgentCore`: the preflight check rewriting the history; attachments other than the mode note; the wording of markers; the lifecycle events for observers (a halted batch sends `turnEnd` twice, `sdk/agent-core.ts:818`).
- The log: a full disk, a torn last line, index files, rewind records; two processes appending to one log. The order of results within one message: no reader depends on it.
- `Compaction`: the summary's text and stream, its retries, the remote mode, the recovery from an exceeded context except for its effect on the queue.
- `Transport`: providers' translators, delays, status lines, the cap on a block's size. POSTs made after the stream's headers.
- `Repl`: rendering, slash commands other than `/continue`, input captures and editor plugins. What the user types while an aborted turn's output is flushed is overwritten (`host/repl-live-area.ts:1399`); a crash between the saved shift of a prompt and its record loses it (line 928). Both are in the model and outside what the properties promise.
- `PidLock`, `FileLock`: a reused pid, a lock file of another program, more than one host, an unlink in `release()` or the exit hook that fails although the file is there.
- `Credential`: logging in and out, removing, renaming and merging entries, a store that does not parse.
- `FileEdit`: the other tools, programs that take no lock, the tracker's replay from its file.
- A draft and a queue tied to the log: `SnapshotStore`, `Repl` and `Session` are separate.

Whole components, with their reasons in `PROJECT.json`: the legacy loop (a second copy of the modelled one), buses that fan out to sinks, the plugin loader and hooks (their decisions are inputs), the gates and presentation of a tool call, session liveness and blobs (each file has one writer), network clients, the binary store, the terminal UI, CLI and configuration. Most of the repository's lines are of this kind: rendering, parsing, wording, wiring and I/O.

## Plan

Every invariant the passing runs check is proved, under the hypotheses named above. What is left is to say what a compaction may take away from `WorkSurvivesCrash` and `PromptSurvivesCrash`, and to prove them for it; to widen the model where `PROJECT.json` says `partly`; and the hazards that no property covers.

`CredentialTypeOK`, `EditTypeOK` and `LockTypeOK` are stated for the proofs and belong to no run. No module declares a recursive operator.
