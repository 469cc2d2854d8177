# Izanami: specifications, model checking and proofs

Izanami is an Android application: a native process (raylib render loop, chat,
a llama.cpp inference engine, an SQLite vault, Lua scripts), a small Java
activity that owns the text field and the photo picker, and two helpers that
run in Termux beside it: the patch watcher and the build bridge. All of them
meet in memory, in files under `/sdcard/Izanami`, and in the one language model
("core") the phone has room for. This directory holds TLA+ models of the parts
where threads, files and restarts meet, TLC runs over them, and TLAPS proofs.

## 1. The system

Threads: the render loop **G** (`main.cpp`), the Java UI thread **J** (text,
Enter, activity results), the boot thread (`start_initialization`), one worker
per chat message, one per `/draft`, one per selection in the model picker. All
but G and J are detached. Other processes: the watcher and the bridge.

| component | state | operations | correct when |
|---|---|---|---|
| InferenceEngine | `model_mutex_`; model and context; `mtmd_ctx_`; `active_model_name_`; the flags `is_initialized_`, `is_generating_`, `stop_flag_` | boot load, `hot_swap_to_path`, `generate` (with a detour to the vision core when there is a photo), `stop_generation` | nobody frees a model in use; the flags and the name say what is so; no call is lost, none hangs |
| ChatEngine | `state`, `history`, `rolling_summary_`, `streaming_response`, `input_buffer`, `pending_swap_path_` | `submit` (J), `inference_thread_func` (worker), editing (J), reading (G) | one turn at a time, every turn ends, the routed core serves the routed message |
| Auto-router, picker | `pending_swap_path_`; `selected_path_` | classify and note; select | noted swaps belong to the message that caused them |
| PatchExecutor, MemoryVault, watcher ("Sanity Valve") | `busy_`, `draft_queue_`; table `pending_patches`; `patch_<id>.sh`, `done/`; the lock directory | `/draft`, flush (G), reply y or n (J), run and archive (watcher) | nothing runs that was not approved; what was approved runs once |
| Forge and bridge | `pending_`; `build_request.txt`, `build_result.txt` | `RequestBuild` (J), `PollResult` (G, every second) | each request is answered once, by its own result |
| CrashGuard | crash marker, flight recorder, an alarm | boot report, signal handler, arm and disarm | no caught crash is forgotten; the alarm is set while the main loop draws frames, and does not ring for it |
| Attach, activity | `attached_path_`, `waiting_`; `picked_image.txt`, `last_image.txt` | pick, poll the mailbox, clear, tag the message, relay to the engine | a photo that is sent is taken by the answer |
| SoulCore | emotions, `boredom`, `chaos_pressure`, `soul_state.txt` | `update` (J), `log_episode` (worker) | what was saved is not lost again |
| LuaEngine, PackageManager, TextWrap, Avatar, Keypad, splash | local or none | calls | no shared state worth a model |

Interactions. J calls `submit`, which starts workers; workers call the engine,
which calls back into `streaming_response`; G reads the chat every frame,
flushes drafts into the vault, polls the Forge result and the photo mailbox and
starts picker swaps. The watcher sees only the patch directory.

What is hard: the lock of the engine is dropped in the middle of a generation
for the vision swap; flags are read without it; swaps raise the stop flag of
generations that are not theirs; notes such as `pending_swap_path_` and
`last_image.txt` outlive what they were made for; a draft is announced before
it is stored; the patch file is visible before it is written; and anything can
be killed at any point. `PROJECT.json` lists each of these as a hazard with its line.

## 2. Modules

| module | models | uses |
|---|---|---|
| `CoreSlot` | abstract: what the engine promises its callers about the core in memory | |
| `InferenceEngine` | `InferenceEngine.cpp`, any number of calling threads | implements `CoreSlot` |
| `ChatTurns` | who calls the engine and when: `submit`, the two workers, picker, closing | extends `InferenceEngine` |
| `RouterClaims` | what the handoff documents say of routing and vision | extends `ChatTurns` |
| `PatchLife` | abstract: the stages of a patch, and which follows which | |
| `SanityValve` | a draft's way from `/draft` to the watcher | implements `PatchLife` |
| `ChatHistory` | `history`, summary, stream, input line under `chat_mutex` | |
| `PhotoTurns` | a photo's way from the picker into an answer | extends `ChatHistory`, implements it |
| `CrashGuard` | the life of the process: boot, handlers, alarm, every kind of death | |
| `Forge` | builds: request, bridge, result, restarts | |
| `SoulFile` | intimacy and its file | |
| `Session` | the last three together, dying together | extends them, implements `CrashGuard` and `Forge` |
| `*Proofs` | the proofs about the module of that name | extend it |
| `MC*` | constants for TLC | |

### InferenceEngine

A thread has a program counter (`pc`), whose value is the statement it is about
to run, and the locals that matter: the path it loads (`target`), where a load
returns to (`resume`), whether its prompt has a photo (`img`), and `vocab`.
Pointers are followed by what they point to: `FreeModel` turns every `live`
pointer into `freed`, because `load_model_internal` frees model and context
whoever still keeps a pointer into them. The steps between two accesses to shared
state are one action each:

* `boot → load → loading → check`: `initialize_inference_thread`. The first file
  in directory order with "qwen" in its name is any such file. The name is set
  before the load, the pointers are read after the lock is gone.
* `load → loading → named`: `hot_swap_to_path`. `HotSwap` raises the stop flag,
  `LoadBegin` takes the lock and frees, `LoadEnd` installs the new core or
  nothing, `SetName` sets the name outside the lock, also when the load failed.
* `call → wait → look → [vswap → load → loading → named → relock] → eyes →
  decode → sample`: `generate` and `generate_internal`, with every early return.

`kv` counts the positions used in the context, which nothing clears but a load.
It bounds the sampling loop and makes "Decode Error" reachable. `Left(t)` is the
number of steps a call still has before it: the labels ahead of its program
counter, the detour if it can still be made, and the positions that are left.
Abstracted: a photo is a free choice of each call (`PhotoTurns` says where it
comes from); the projector may fail to open, and opens on the core it was made
for only; when the photo cannot be decoded the sampling goes on, as in the code;
the load of any core may fail. Reads of the name string that race with its
assignment are taken as atomic. The library's own refusals (a prompt longer than
`n_batch`) are not modelled. `swap_model` has no caller and is left out.

### ChatTurns

`submit` runs on J only, so it is one action: its checks in the code's order,
the router's note, the worker it starts. A worker has a `stage`, what it does
when its engine call is over: `compress → swap → answer → finish` for a chat
message, `draft → queue` for `/draft`. The picker's swaps start at any time. One
thread per role is enough for the workers, since `chat` and `busy` let no second
one start while the first is alive. Messages that answer a pending patch do not
reach this code; `SanityValve` has them. `crossed` remembers that two swaps were
under way at the same time.

### SanityValve

Drafts are numbered as they are asked for; rows and files by row id. The vault
and the files survive a crash of the application. Opening a file, closing it,
and deleting the row are separate steps, as the watcher can look in between, and
a crash can come between any two. A statement of the vault can fail, and nobody is
told: an INSERT that fails drops its draft, since the queue is emptied all the same
(`Flush` stores the drafts of any subset of the queue, in order, `Inserted`), a
DELETE leaves its row (`DeleteRow`), a SELECT shows no row (`StartDraft`). `answers`,
`told`, `runs`, `torn` and `severed` are history variables: what the user replied,
what she was told, how the watcher
ran the drafts, and which drafts a kill or a failure struck while somebody had
them in hand. The watcher has no more state than its lock and the file it runs.
Every order in which its glob could list files is allowed.

`PatchLife` sees of all this one stage per patch: `unasked → drafted → approved →
running → done`, or `discarded`, or `struck`. `Life(d)` computes the stage from the
replies, the runs and the watcher's hands; the queue, the row and the file are not
part of it, so that handing a draft from one to the other must not be felt.

### ChatHistory and PhotoTurns

Messages are numbered as they are said, so the history is a sequence of numbers
and `summary` a sequence of stretches of them: each is what one generated summary
was made from, and `Told`, its last message, is how far they tell. The two limits
on length drop text from the front: of the messages to be summarised the last 6000
characters are taken (`Measure` leaves any end of them in `oldText`), of all
summaries the last 1500 are kept (`Remember` keeps any end of them, never nothing).
A section under `chat_mutex` is
one step that needs the lock free; the lock is kept over several steps by `/save`
only (`Save`, then `Hung`: `std::mutex` does not let its own thread in again).
`submit` is walked branch by branch: `Command(n)` are the branches that say *n*
messages and clear the text but not the cursor; `SayIt`, `ClearInput`,
`BuildPrompt`, `StartWorker` the chat branch. `build_prompt` needs no lock. The
worker: `Measure`, `Summarise`, `Fold` (`compress_history`), `ClearStreaming`,
`Token`, `Push`, `Finish`. An answer is a sequence of pieces (`open`, `close`,
`thought`, `answer`), and `Strip` does with them what the loop over
`find("<think>")` and `find("</think>")` does with the text (`WithoutBlock` takes
the first whole block away as long as there is one, `BeforeTag` cuts at what is
left open); `raw` keeps what the model said, and `Words` are the words in it. The
render loop reads history and stream in two sections. The input is its length.

`PhotoTurns` adds what is said of photos to these steps: the chip that becomes a
tag at `Enter`, the messages that have a tag, the relay file, and the choice of
`generate_internal` (chip, then relay, then the first tag in the text), which
the generation of a summary and that of a draft make as well. Photos have one
file name (`MainActivity.java:88`), so that there is only a photo or none.
`/save` is left out here.

### CrashGuard, Forge, SoulFile, Session

`CrashGuard` walks through `main`: `check → report → unlink → boot → bare →
guarded → splash → loop → closing → shut`. A run is one call of `main`; statics
outlive it when the platform calls `main` again in the same process
(`rcore_android.c:797`), which is `Relaunch`. Time is counted in ticks of half a
minute; `clock` is `GetTime()`, which starts again with each window, `last` is
`last_watchdog`, `alarm` what the alarm manager still waits. A loop that draws
frames does not sleep through a tick (`MayTick`); one without the focus sits in
`PollInputEvents` (`awake`). The process can be killed, crash into the handler,
or end, in every phase. `rang` is what an alarm found when it rang: no process, a
closed one, the boot, the splash, a loop that waits for its window, the loop itself.

`Forge` has one step per statement of `RequestBuild` and `PollResult` that
touches a file or `pending_`. The bridge is known only by what the documents say
of its two files, and is external; it survives the application. `SoulFile`
takes `save_state` apart into opening (which empties the file) and closing. The
floating-point growth of intimacy is at most one step on a small scale.

`Session` composes them: a death takes all memory at once (`Death`), J submits
only while there is an activity, the loop polls only while it runs, and one
submission is under way at a time.

## 3. Properties and runs

Passing runs:

| run | bounds | checks |
|---|---|---|
| `engine` | boot thread and two clients that swap and generate at will; two cores; one position | `ModelPinned`: a running generation holds the lock, its model is in memory and its vocab is that model's, also after the unlocked window. `GeneratingFlag`: `is_generating_` is up exactly while a thread generates. `CallsCountDown`: each step of a call leaves it fewer steps, and no other thread adds any. `SlotPromise`: the engine implements `CoreSlot`, liveness included |
| `turns` | worker, drafter, boot thread, one selection at a time; three cores; two positions | `NoCallDropped`: `generate` never silently returns because of another generation. `StopIsForeign`: the stop flag a turn's own swaps raise is down again when it samples. `NameTruthful`: at rest, the name shown and routed by is that of the core in memory. `TurnEnds`, `DraftEnds`, `PickLands`: everything begun comes to an end |
| `valve` | two drafts; kills anywhere, files may fail to open and statements of the vault to run | `OnlyApprovedRuns`, `RunsOnce`, `DiscardedNeverRuns`, `NumbersNeverReused`; `PatchPromise`: the valve implements `PatchLife`; `ApprovedRuns`: what the user was told is executed; `DraftSurfaces`: a draft becomes a row she can answer, unless the vault refuses it or the application dies |
| `session` | two runs of `main`, of three ticks each; a leash of three ticks re-armed after one; two builds; two levels of intimacy | `NoCrashForgotten`, `LoopLeashed`, `NoFalseAlarm`, `Comeback` (a process that dies while it draws is started again); `AnswerOnItsWay`, `OwnAnswer`, `WaitEnds` (builds); `NoSetback` (the soul's file) |
| `history` | a memory of two messages, five said; answers of four pieces | `OnlyMeasuredGo`: the history loses exactly what was measured for a summary, and begins where the summary ends; `ReplyShownOnce`: no frame draws an answer twice; `AnswerKept`: strips take no word of the answer, and one with a word becomes a message; `PromptUndisturbed`: no worker beside `build_prompt`; `CursorAtRest`; `TurnDone` |
| `photo` | a memory of two messages, three said; answers of one piece | `SentPhotoTaken`: a sent photo is taken by the generation of its answer, whatever summaries and drafts took before |

Properties that hold but for a known case have that case in their statement, as
a history variable that only it sets: `crossed` (two overlapping swaps set their
names in the other order), `severed` (a kill, a failing file or a failing vault struck the draft
in somebody's hands: a draft whose INSERT fails is gone, a watcher killed before it archives runs the patch again, a
crash before the row is deleted lets the user discard a patch that then runs),
`lost` (a second `/forge` deleted the answer that had just arrived), `astray` (the
session found a build of an earlier one), `skipped` (a report that did not
open), `stale` (`main` ran before in this process: `last_watchdog` is of an
older clock, and the alarm rings for a running loop; an untapped splash and a loop
without the focus are rung, too, and `NoFalseAlarm` does not speak of them), `cutShort` (a process died
inside `save_state`). `ApprovedRuns` excepts a watcher that is not up: one that
was killed without its trap finds its own lock directory and never starts again.

Runs that refute what a document says of the program:

| run | text | what happens |
|---|---|---|
| `chat_swaps` | HANDOFF_5_4A.md:3 "CHAT->no swap" | a swap noted for `/draft` or a slash command is taken by the next chat message |
| `stale_eyes` | BLUEPRINT.md:5 "mmproj eyes -> she sees" | photo, routed swap, photo: the projector context still belongs to the freed model |
| `torn_patch` | HANDOFF_5_4B.md:3 "writes ... patch_N.sh -> Termux watcher ... executes" | the watcher starts the file before the script is in it |
| `save_hangs` | HANDOFF_UI_PHASE.md:3 "/save AI export" | `save_to_file` writes the file and then takes the lock `submit` holds; J and then G hang |
| `think_leaks` | HANDOFF_5_5.md:5 "live+end strip of think blocks" | the live strip takes the opening tag alone, the thought after it stays |
| `forge_stale` | GOTCHA_LEDGER.md:36 "delete result file on RequestBuild and watcher pickup" | a build that ends after a restart answers the next request |

Further disagreements, found on the way, need no run or are matters of a single
line:

* HANDOFF.md:4 "core flips to Qwen3.5-4B": any core with "Qwen3.5" in its name,
  such as the 9B of README.md:67, is taken for the vision core
  (InferenceEngine.cpp:217).
* BLUEPRINT.md:4 "photo chip, X clear": the X empties the chip (Attach.cpp:20) and
  leaves `last_image.txt`, from which the next generation takes the photo.
* ChatEngine.cpp:290 "Draft ready - reply y or n." is shown while the draft may
  still be in the queue, where a reply does not find it; on the Stage screen it
  stays there; and when the INSERT fails it is lost (MemoryVault.cpp:173).
* main.cpp:264: the splash waits for a tap without re-arming the alarm of line 257,
  so that one that is left alone is rung after 90 seconds.
* ChatEngine.cpp:100, 108: what is said is not all remembered: of long old messages
  and of old summaries only the end is kept.
* HANDOFF_5_4A.md:3 "answered by previous core": the worker swaps before it answers
  (ChatEngine.cpp:160).
* ChatEngine.cpp:228 "Approved. Forge will execute" is also said when the patch
  file could not be opened, and main.cpp:260 "report saved to" when the report could
  not.
* A tag in an old message is found by every later generation that has no other
  photo, until the message is summarised (InferenceEngine.cpp:202).
* HANDOFF_UI_PHASE.md:3 speaks of a 30 s leash: the alarm is set for 90 s and
  re-armed every 30.
* BLUEPRINT_MVP.md:101 "CODE/REASON tasks raise" boredom: `update` is told the
  class before the REASON keywords are looked at (ChatEngine.cpp:252).
* A frame between the two reads of main.cpp:395 can show an answer neither as
  message nor as stream, for one frame.

Why the bounds are enough. The engine has one lock and one model: a conflict
needs a thread inside and one outside, and the third plays the one that gets into
the unlocked window of the second. Cores differ for the code only in being
loaded, being the base, and being vision-named; a third matters to the
router, and is there in `turns`. One position of context already
separates a decode that fits from one that does not. In `SanityValve` two drafts
are what it takes to mistake one for the other. In `Session` two runs have the
crash in one and its report, or a second crash, in the other; two builds are one
that is asked for and one that is left over. In `ChatHistory` five messages
with a memory of two give summaries in a row with speech during each; four pieces
are an answer around a whole think block, a block after which a second opens, and
every cut of these. The safety proofs below do not depend on any of these bounds.

Fairness. Threads that can run do (weak fairness of each thread's steps).
`std::mutex` promises no order, but a waiter that finds the lock free again and
again gets it (strong fairness of the engine's lock steps; sections of
`chat_mutex` are single steps). A generation ends because each token takes a
position. J and the user owe nothing: no submission, selection, reply or close
is fair. In `SanityValve` the render loop flushes in the first chat frame after a
swipe, and frames come sixty times a second (strong fairness of `Flush`); the
watcher is taken to be started some day, to go on, and not to pass the same file
over for ever (`WatchStep`, `Run`); a patch is taken to terminate. In `Session`
time goes by, `main` runs on, and the bridge serves; nobody has to open the
application, and `WaitEnds` excepts a loop that is left or kept waiting again
and again.

## 4. Proofs

Every invariant and every action property of the passing runs is a theorem for
all values of the constants. Each proof has an inductive invariant, shown to be
kept action by action.

For any threads, cores, prompt lengths and context size (`EngineConstants`):

* `EngineTypes`, `EnginePinsModel`, `EngineFlag` prove `EngineTypeOK`,
  `ModelPinned` and `GeneratingFlag`. None is inductive without `LockHeld`: the
  lock belongs to exactly the thread whose program counter is between a lock and
  an unlock. `EngineInv` is the conjunction.
* `EngineImplementsSlot`: every step is a `Begin`, `End`, `Unload` or `Install`
  of `CoreSlot` or changes nothing there, under the mapping core, lock holder,
  and what the holder does with the lock (`SlotMode`).
* `EngineCallsEnd` proves `CallsCountDown`, and `EngineCallsBounded` that what is
  counted down starts at `NCtx + 11` at most. `Onward` lists the ways from label to
  label; each of them lowers `Left` (`OnwardLeft`). That other threads' steps leave it
  alone (`LeftOthers`) needs `EngineInv`: a load, which empties the context, holds the
  lock, and so no other thread is then sampling. With the fairness of each thread's
  steps this is why calls end.

For any picker threads and any routing table besides (`TurnConstants`):

* `TurnsDropNoCall` proves `NoCallDropped`, `TurnsStopForeign` proves
  `StopIsForeign`, `TurnsTypes` the types. The invariant (`TurnInv`) adds to
  `EngineInv` that pickers and the boot thread never reach a label of `generate`
  (`OthersOnlyLoad`), that the worker is outside `"off"` only while `chat` is
  INFERRING and the drafter only while `busy`, never both (`WorkersFlagged`), and
  that a caller who has the model sees the stop flag up on a foreign wish only
  (`StopsForeign`). Two callers inside `generate` contradict `WorkersFlagged`
  (`OneCaller`), from which both properties follow. A step of the application is a
  step of the engine or a stutter, so `EngineInv` comes from `InvNext`, and
  `TurnsImplementEngine` states it: the turns are a behaviour of the engine.
  `TurnsKeepPromises` draws from it that they are one of `CoreSlot` too, that the
  model stays pinned and the flag truthful in them, and that their calls count down.
* `TurnsNameTruthful` proves `NameTruthful`: as long as no swaps have crossed,
  at most one thread is swapping (`Alone`), and the name is that of the loaded core
  unless that thread is about to set it (`NamedRight`).

For any number of drafts, with kills, failing files and a failing vault (`ValveConstants`):

* `ValveHolds` proves `OnlyApprovedRuns`. The invariant needs `FilesApproved`
  (whatever file is in the watched directory holds a draft with a "y"),
  `DraftsInHand` (a worker's draft, row or file exists) and `NumbersAgree` (a row
  and the file of its number hold the same draft, and no number above the last id
  is in use, which is what keeps a crash and a second "y" from putting another
  draft into a file).
* `ValveNumbers` proves `NumbersNeverReused` from the same invariant; `ValveTypes`
  the types.
* `ValveRunsOnce` proves `RunsOnce` by `OnceInv`: a draft is in one place of the
  queue or in one row and its file (`Distinct`), nowhere before it is asked for
  (`Fresh`); a row whose file is written is just being approved (`Approving`); and a
  draft that has run has its file in `done/` or in the watcher's hands
  (`Traces`), always excepting the struck ones. `ValveDiscards` proves
  `DiscardedNeverRuns`: a draft with an "n" is nowhere any more
  (`DiscardedNowhere`).
* `ValveImplementsPatch` proves `PatchPromise`, the refinement. `LifeInv` joins these
  invariants and adds that nothing has happened to a draft that was not asked for
  (`Untouched`) and that a draft with a "y" has a file (`YesHasFile`): so a row that can
  be answered has no reply yet, and its draft has not run (`RowUnanswered`). Then there
  is a lemma per step: `/draft` is `Ask`, "y" is `Accept`, or `Strike` when the file
  does not open, "n" is `Discard`, or `Strike` when the row stays, a flush
  or an approval is `Strike` of what a failing vault drops or keeps (`FlushRows` says
  where the drafts of a flush go), the watcher's start and archive are `Begin` and
  `End`, a kill is `Strike` of what was in hand, and all other steps are a stutter
  (`QuietStep`); what was struck is felt no more.

For any memory, slack and bounds (`HistoryConstants`):

* `HistoryExact` proves `OnlyMeasuredGo`. A history is an interval of message
  numbers that begins after `Told`; `LogInv` says so, that the stretches of the
  summary follow each other (`InOrder`), and that what has been measured is the
  beginning of the history but not all of it, and still is when the cut is made
  (`Measured`), since nobody else takes messages away. `SummaryGrows` is the step:
  whatever the limit drops, the newest stretch stays and `Told` moves by the cut.
* `HistoryShowsOnce`, `HistoryPromptAlone`, `HistoryCursor` prove
  `ReplyShownOnce`, `PromptUndisturbed` and `CursorAtRest` by `ThreadInv`: a worker
  exists only while INFERRING, J is past the busy test only while there is none,
  and the stream is empty outside the worker's own stages.
* `HistoryKeepsAnswer` proves `AnswerKept` and `HistoryTypes` proves `HistoryTypeOK`.
  Both speak of what the recursive functions `Strip` and `Words` return for an answer
  of any length. The provers cannot use the library's induction theorems, whose
  parameter is an operator, so the induction is done with sets: a set of numbers
  that is not empty has a least member (`LeastMember`, from the library's `WFMin`),
  hence course-of-values induction over a set (`CourseOfValues`), hence a function
  that is defined by recursion on shorter sequences satisfies its equation
  (`Recursion`, for any such equation). From there `StripUnfolds` and `WordsUnfold`
  are the equations of the two functions, and `StripClears`, `StripUntagged` and
  `StripLive` say what the strip does to a text whose tags have been stripped
  at every token so far: such a text never holds an opening tag before the new
  token comes (`TextInv`), so the strip takes that tag, when it is one, and nothing
  else. That is why no word is lost, and also why the thoughts stay (`think_leaks`).
* `PhotosImplementHistory`: the turns with photos are turns of `ChatHistory`.
  `PhotosTaken` proves `SentPhotoTaken` on top: the message that is asked stays in
  the history until its prompt is written, and from then on the prompt has its tag
  (`PhotoInv`).

For any leash longer than the period and one tick, any number of runs, requests
and levels (`GuardConstants`, `ForgeConstants`, `SoulConstants`):

* `CrashesKept` proves `NoCrashForgotten` by `MarkerSpent`: whenever the handlers
  could overwrite the marker, what it tells is reported or skipped.
  `LoopOnLeash` and `AlarmNeverFalse` prove `LoopLeashed` and `NoFalseAlarm`
  by `AlarmInv`: in the first window of a process the alarm and the time since the
  last re-arming make up at least the leash, and a clean end has no alarm. Of the
  splash, which does not re-arm, they say nothing.
* `ForgeAnswers` and `ForgeOwnAnswers` prove `AnswerOnItsWay` and `OwnAnswer` by
  `ForgeInv`: a session that waits has its request in exactly one of the three
  places, and in a session that found nothing every number in them is its own.
* `SessionImplementsParts`: the composed session is a behaviour of `CrashGuard`
  and one of `Forge`, so that their theorems hold in it (`SessionGuarded`,
  `SessionAnswered`). `SoulKept` proves `NoSetback` there.

Left to TLC: the liveness properties (`TurnEnds`, `DraftEnds`, `PickLands`,
`ApprovedRuns`, `DraftSurfaces`, `Comeback`, `WaitEnds`, `TurnDone`, and the
liveness half of `SlotPromise`), which need fairness and ENABLED.

## 5. What could come next

The plan of the first version is carried out: engine, turns, valve, forge,
history, photos, crash guard and soul file, each with its proofs. Worth adding
to it: prompts in tokens against `n_batch` and `n_ctx`; the boredom and chaos
counters as a bounded scale; `ChatTurns` and `PhotoTurns` in one module, so that
the photo a generation takes is also the one that calls for the vision core.

## 6. Not modelled

* Drawing, scrolling, avatar, text wrapping, haptics, clipboard: no state that
  another thread reads, apart from what is named above.
* The keypad (retired, `main.cpp:525`) and the editing calls that only it made.
* `LuaEngine`, `PackageManager`: one call at a time whose result is text.
* The keyword lists (their outcome is the class of a message), the model
  directory scan, `autoroute.txt`; the gotcha, snippet and key-value tables.
* SoulCore's tone scores and moods: floating-point arithmetic on text.
* The text of prompts, reports, logs and status lines, except where a property
  is about it.
* A platform that refuses to set the alarm (the early returns of `ArmWatchdog`,
  CrashGuard.cpp:100-110, after which main.cpp:270 notes the time all the same), and
  what it does with the alarm's intent when the activity is already there
  (CrashGuard.cpp:114-116): the process is left as it was.
* A write that fails after the file was emptied, as on a full card: `save_state` is
  modelled with a failed open and with a death before the close.
* raylib, cgltf, llama.cpp, the NDK headers, the export and the one-off
  `patch_*.py` scripts: code of others or tools that ran once. They are nearly all
  of the lines in the repository (the program itself has a few thousand), so
  that the mapped lines are a small share of the whole tree whatever is added.
* Data races on strings and flags as such: a racing read is taken to give the
  old or the new value.
