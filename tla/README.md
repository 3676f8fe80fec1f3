# nycode-cli in TLA+

`nycode` is a coding agent for the terminal: it sends a conversation to a model,
runs the tools the model asks for, and keeps the conversation in a session file.
This directory models its core (the agent loop, the history it rewrites, the
wire it speaks on, the calls it runs with the user at the keyboard, the processes
it starts, the files it reads and edits, the screen it draws, the front end that
persists the conversation and the stores several processes share), checks it with TLC and
proves with TLAPS what matters most of it.

To run a check: `tlc -workers 2 -config AgentRequest.cfg AgentLoop.tla`; to
check the proofs of a module: `tlapm TurnProofs.tla`. Paths below are relative
to `crates/`.

## The system

| Component | State it keeps | Operations | Who it talks to | What makes it correct |
|---|---|---|---|---|
| Agent loop (`nycode-agent/src/agent.rs`, `agent/shrink.rs`, `agent/dispatch.rs`) | `messages` (context), `journal` (what the request added), last usage, counters of one request | `run_with`, `compact_now`, `set_history` | awaits the backend and the tools; `Cancel` and the steering channel reach it from other tasks | each call gets its result however the request ends; context and record never diverge; bounded quota; Ctrl+C works |
| History (`agent/transform.rs`, `session/compaction/`) | none | `for_provider`, `compact_with` | called by the loop at every send and compaction | a provider accepts what is sent; no pair is split; compaction converges |
| Transport and decoders (`nycode-ai/src/transport`, `anthropic`, `openai`, `nycode-agent/src/turn.rs`) | attempt counter, decoder state, the turn being added up | open with retries, decode, drain, absorb | the provider | a truncated stream is an error; no fragment goes astray; waits are bounded |
| Dispatch and permissions (`agent/dispatch.rs`, `tool/coerce.rs`, `policy/`) | the call under way | coerce, hook, gate, question, run, observe | the user through a channel, hooks and commands as processes | nothing that modifies runs without a yes to that very call; after the signal nothing starts |
| Keyboard during a turn (`interactive/approval.rs`, `interactive.rs`) | two queues of four, one editor | `run_turn`, `steer`, `ask`, follow-ups | the turn, the question, the terminal | no typed message is lost |
| Processes and hooks (`tools/bash/`, `policy/confinement/process*`, `policy/hooks.rs`, `main.rs`) | process groups, a registry of them | spawn, supervise, capture, time out, drop, sweep | the operating system | no orphan; every call ends; the output shown is the end of the output |
| File tools (`tools/read.rs`, `edit.rs`, `write.rs`, `capped.rs`) | none between calls | `read`, `edit`, `write` | the workspace, other programs | no line skipped or repeated; an edit touches only what it names; what was answered is on the disk |
| Search tools (`tools/search/`) | none | `grep`, `find`, `ls` | the workspace | an answer says what it leaves out |
| Terminal interface (`nycode-tui/src`, `screen.rs`, `interactive/panel.rs`) | the editor and its history, the width it draws for, the frame drawn last and where the cursor was left | edit, recall, submit, resize, draw what changed, write above | the terminal, which it shares with what it shows | what is shown is what is being edited |
| Request bodies (`nycode-ai/src/openai/chat.rs`, `responses.rs`) | none | `convert` | called with the repaired history | each result next to its call |
| Front ends (`nycode-cli/src/interactive.rs`, `screen.rs`, `run.rs`) | drain cursor, fork point, session id | a turn, `/compact`, `/fork`, `/new`, `/model`, `/plan`, headless run | drive one agent, append to the store after each request | the file holds exactly the conversation |
| Session store (`session/store.rs`, `store/`) | the `.jsonl` file, the lock, a remembered tip per process | `append`, `append_child`, `load`, `path_to`, `rekey`, `list` | several processes on one file | an append that returned survives; nobody branches by accident |
| Start-up (`session/mod.rs`, `store/mac.rs`, `policy/trust.rs`, `session/consent.rs`, `provider/catalog.rs`) | key file, registry of trust, catalog cache | `prepare`, round by round | other starts on the same files, the user, the endpoint | one key; nothing runs whose fingerprint nobody agreed to; no model is refused on stale word |
| MCP client, subagents, auth, context discovery, output, parity harness, scripts | see `PROJECT.json` | | | |

The hard behaviours: the signal and the user's typing arrive at any await of a
request; the context is rewritten while indices into it are alive (drain cursor,
usage anchor, cut point); a body may end after any line; a child may fork, hold a
pipe and leave its group; the session file and the files of the start are shared
by processes that may be killed between two system calls. Each one is listed
under `hazards` in `PROJECT.json`, at the line where it bites, with the properties
aimed at it.

## Modules

| Module | Models | State and actions |
|---|---|---|
| `History` | messages, `for_provider`, `compact_with` | operators only. A message is reduced to its role, the calls it makes, the results it carries, whether it has any other block, and the `discarded` mark |
| `Requests` | what a history becomes on the wire of the two OpenAI dialects | operators only: `ConvertChat` and `ConvertResponses` are the two `convert`, an item is its kind, the calls it makes and the call it answers |
| `MCHistory` | every history up to a length, repaired, compacted and sent | one variable, one action that appends any recordable message |
| `AgentLoop` | the loop with its environment | `pc` is where the loop awaits. `Submit` is the entry of `run_with`; `NextTurn` is `next_turn` with steering and threshold; `StreamEnd`, `StreamCancelled`, `StreamFail` are the three results of `stream_one_turn` with all that follows up to the next await (`Settle`, `Proceed`); `ToolStart`, `ToolRuns`, `ToolDone`, `ToolCancelled` are one call of `run_tool_round`; `CompactDone` is the return of the summary; `Cancel` and `Steer` are the other tasks; `CompactNow` is `/compact` |
| `Transcript` | what the agent promises of the record | abstract: the record grows, calls are followed by their answers |
| `Decoders` | the three dialects, line by line, and `Turn::absorb` | operators from a decoder state and a line to at most one event |
| `Wire` | one answer: asking with retries, the body, the reader | `Retry`, `Again`, `Refused`, `Open` are `stream_with`; `ReadsDrained` ... `Closes` are one poll of `stream.rs`, `decode`, in its order; the gateway says anything its dialect allows |
| `Answer` | what the transport promises of one answer | abstract: what was heard is a beginning of what was said, and complete only when whole |
| `Processes` | groups of processes, registry, supervision | one action per await of `collect` and of a hook's `spawn`; `World` is what the children do; `Sweeps` is the other thread |
| `Turn` | calls with the user at the keyboard, over `Processes` | `at` is where the session is; the call goes through `pre`, `gate`, `ask`, `run`, `tool`, `post`; `Steers`, `Answers`, `SurfaceBreaks` are the arms of `run_turn`; `TakesFollowUp` and `Prompts` are `run` |
| `Startup` | starts over key, catalog cache and registry of trust | one action per system call on a shared file; a declaration is a version with a part its fingerprint covers and a rest; `Discovers`, `Declares`, `Loads` ... `SavesRegistry` are one round of consent, `Fires` and `Executes` the hook that was let run |
| `MCStartup` | `Startup` and `SessionStore`: what processes in one workspace do to the files they share | one file explored in full per behaviour |
| `FileTools` | `read`, `edit`, `write` on one file | texts are sequences of characters; `Reads` is a page, `EditReads` what an edit does up to its write; `Opens` (in `EditWrites` and `Writes`) or `CannotOpen`, `Lands`, `LandsInPart`, `GoesOn`, `Answers`, `Dropped` the way to the disk, one piece of at most `Piece` characters at a time |
| `Capture` | `capture.rs`, `drain` | bytes are counted, not kept |
| `Search` | `grep`, `find`, `ls` over one tree | a file is the sequence of its lines, which match or not; `Greps`, `Finds`, `Lists` are one call each, `Searched` is the external searcher handing lines to `Collect` |
| `Characters` | | the characters texts are made of |
| `Editor` | the editor, its history, the rows it is shown as | operators from an editor to an editor, one per key |
| `Screen` | the session between turns, its renderer, the terminal | `WindowChanges` is the window, with an event that waits in `unheard`; `Types`, `Redraws`, `HearsOfTheWindow`, `Submits`, `Quits` are the events of `run`, and a turn (`TakesTurn`) may drop the first of those that wait; `Draw` is `render` and `draw`, row by row, on `grid`, a terminal of a few rows that moves, wraps and scrolls as one does |
| `MCTools` | file tools, searches, capture and screen side by side | one of them explored in full per behaviour |
| `Session` | agent + front end + file | instantiates `AgentLoop` on its own variables; `Collect`, `Save`, `Saved` are the persisting half of `take_turn` or of the headless run, one append per step; `Fork` is `resume_from`; `Crash`, `Reopen` end and reopen the process |
| `SessionStore` | one file, several processes | one action per system call that matters: unlocked read and annotation (`LoadRead`, `LoadRemember`), `Acquire`, `WriteRecord`, `WriteNewline`, `Finish` (`sync_all`, tip), `Crash`, `PowerLoss`, `Close` |
| `Facts` | | lemmas: numbers, sequences, induction, messages and what a compaction makes of them (`History`) |
| `AgentLoopProofs`, `RepairProofs`, `SessionProofs`, `StreamProofs`, `ToolProofs`, `TurnProofs`, `WorkspaceProofs` | | lemmas and theorems about `AgentLoop`; `MCHistory` with `Requests`; `Session`; `Wire` with `Decoders`, and `Capture`; `FileTools`, `Search`, and `Screen` with `Editor`; `Turn` with `Processes`; `Startup` and `SessionStore` |

`Session` composes the agent with whole-record appends; `SessionStore` refines
the append into its system calls and drops the agent. They meet in the tree of
records: `Chains` and `PathTo` both translate `tree.rs`, `chain_to`. `Wire` details
what `AgentLoop` takes as the outcome of a stream, and `Turn` over `Processes` what
it takes as the result of a call; `Turn` in turn reduces the loop to what it does
between calls.

What is abstracted. In the loop: texts, token counts (a turn says whether its
usage is real and whether the input passed the window), images, wording. Call ids
are a pair of stream and position, unique in a request and repeated in the next,
as some providers do. On the wire: JSON; a line is a record, a fragment a number.
In a turn: the arguments are exact, of a type that reads as the declared one, or no
JSON; keys are of eight kinds; one descendant stands for those that stay in a
group, another for those that leave it; deadlines are events. In the start: what
is declared is a pair, what its fingerprint covers and the rest; one hook, one server;
a hook is fired at the start and at any time of the session, by whichever call or event. On
the screen every character takes one cell,
the footer is the count of its turns in two cells, what is said is one word per line, and what
is drawn while a turn runs comes in the order it is written. The window changes its width
and not its height; a narrower one cuts the rows it shows (a terminal that wraps them
anew is not modelled), and in a turn it changes once, between the echo and what is said.
In files: characters take one byte, a NUL (the hole in a file that was cut under a write) is a
letter like any other, and a read of the disk is one step, that of an
edit too, though the code awaits between its pieces. In `SessionStore` a line is the record
it parses as; a record's text and its newline are two writes, as `writeln!` on an
unbuffered file issues.

## Runs

| Run | Question | Bounds | Size |
|---|---|---|---|
| `history` | Does every history give an acceptable request, in each dialect, and a compaction that is safe and converges? | 2 calls, 5 messages (4 on the wire), keep 1 or 2, symmetric calls | 2.8 M states, 70 s |
| `agent_request` | What can one request leave, cost, and does it end? | 2 rounds, 2 calls, 1 typed message | 135 k states |
| `agent_session` | Do context and record stay together across requests? | 2 requests, 1 round, 1 call, 1 typed message | 0.9 M states |
| `session` | Does the file hold the conversation through forks and crashes? | 2 requests, 1 fork, 1 restart, 1 call | 2.1 M states |
| `wire` | Is what the agent heard what the model said, in every dialect? | 3 dialects, 2 calls of up to 2 fragments, 1 text, 1 line of noise, 3 attempts | 0.5 M states |
| `turn` | What do consent, cancellation and the registry promise over running processes? | 2 calls, 2 processes, both hooks, queue of 1, 1 key ahead | 0.9 M states, 90 s |
| `startup` | What do processes at once do to the files they share, the session's among them? | 2 starts, 2 endpoints, 2 models, clock to 2, 4 versions of what is declared (2 by 2), 1 change; 2 processes, 5 appends, 2 crashes | 2.5 M states, 145 s |
| `tools` | Does read show the file, edit change only what it names, a search say what it leaves out, capture lose nothing? Does the panel show what is edited, whatever the window does and whoever hears of it? | files of 4 characters over LF, CR and a letter, edits of 1 or 2 places of up to 2 characters, pieces of 2, pages of 2 lines; trees of 3 files of 3 lines, 2 visited, answers of 3; 16 bytes of output through a window of 3; an editor of 2 characters, 2 widths, 2 changes of the window, 1 submitted line, 9 rows | 1.2 M states, 150 s |
| `drained`, `store_worst_case`, `responses_tools`, `chat_results` | the disagreements below | as small as shows them | < 5 s |

Why the bounds are enough. A compaction needs more than `HEAD + keep + 1`
messages: with `KeepRecent = 1` the fourth message makes it possible, and the cut
moves over results from the fifth. Two rounds with two calls give a first and a
last call, a round after a round, the limit exceeded, and compactions between a
call and its result. Two requests make the second start from a context the first
compacted and reuse its call ids. In the store, five appends give each of two
processes two and one more after a crash. On the wire two calls are open at once
and close in either order, with two fragments each to mix up; three attempts are
the code's. In a turn the second call follows a first that was refused, ended, or
was answered for, and two processes are a hook and a command, or a command after
another; one key ahead is a key typed before the question it answers. Two starts
are every race; one change comes before, between and after what they read, and the
four versions differ in what a fingerprint covers, in the rest, or in both. A file
of four characters holds two CRLF lines, or mixed ones, and more than a window of
three and up to the ceiling of what a read goes through; two places are adjacent,
apart or overlapping. A text of five characters makes three pieces of two, the last
of them short; shorter ones make one or two. Three files with two visited have one that is not reached;
three lines with contexts of up to two have matches whose contexts meet, and a cap
of one to three cuts an answer at a match, before it and after it. Two characters
make an editor of one to three rows in a window of two cells, one entry in the
history is browsed to and back, and a submitted line is what moves the panel; a
window of nine rows is met both by what was written and by a panel that grows.
The panel is followed until it meets the last row, has a row wider than the window or is
written over by another program. Two changes of the window take it away and back, so
events wait while others come, and a turn drops none, one or both: wider than the
renderer knows, narrower, and as it knows it. Requests, calls, typed messages, forks, restarts, appends,
crashes, fragments, noise, processes, keys, changes, clock, lengths and the one
writing call of a file are capped by guards on the constants or comments marked
"bound" in each module.

`MCStartup` and `MCTools` let a behaviour explore one of the parts that do not
meet (`focus`): no step on one of the shared files reads another of them, and the file
tools, the searches, the capture and the screen share no state, so nothing is lost but the interleavings of
steps that commute. In `startup` the answers to a question
vary with the registry of trust, the gateway and the model with the catalog, which
alone read them. Symmetry (`history`, `chat_results`, `startup`) permutes calls, starts,
processes, models, endpoints and the parts of a version, which no definition orders, in runs with no liveness property.
Deadlock is not checked: every bounded run stops once its bounds are spent, and an
idle agent waits for the user.

Fairness.

- `AgentLoop`: `LoopFairness` is weak fairness of the steps that depend on the
  program alone: the task is polled, so `NextTurn`, `ToolStart` and the two biased
  arms of `select!` on the signal are taken; and `CompactDone`, because the
  transport gives up on an idle stream and the summary ends either way. Nothing is
  assumed of the stream of a turn or of a tool, so `CancelStops` holds with a
  backend and a tool that never answer. `RequestEnds` adds `BackendFairness` as a
  hypothesis: streams end or fail and tools return.
- `Wire` discharges the first half of that hypothesis: with a polled reader, and
  the connect and read time-outs `Client::new` sets, every request ends (`AskEnds`).
- `Turn` discharges the second for commands and hooks (`CallEnds`): the turn is
  polled, deadlines pass (`tokio::time::timeout`), the model answers. Started
  programs owe nothing, with one exception that the code forces:
  `ClosedHookExits`, a hook that closed its output exits, because the wait at
  `hooks.rs:237` is outside the deadline. Nothing is assumed of the user: while a
  question is open, nothing has to happen.

No fairness is assumed of the signal, of crashes or of the gateway.

### What the passing runs show

- `for_provider` repairs any stored history, loses no text and changes no turn it
  may send; a compaction never splits a pair and never leaves another to do. Sent
  in the OpenAI dialects, each result is next to its call (in Chat Completions, when
  results come alone).
- A request leaves every call answered, whichever await the signal finds it in,
  but for a final answer that carries calls (below). Streams are bounded by
  rounds and charged compactions. The usage anchor never outlives its history.
- The context is always the record, or its first prompt, a marker and its end;
  what the user types is recorded once or still queued. The record implements
  `Transcript`.
- Whatever a dialect packs into a line and wherever the connection ends, the turn
  is a beginning of what the model said and complete only if whole: the reader
  implements `Answer`. Calls run in the order they were made, the count is the
  gateway's, and no header holds the session beyond the cap.
- Nothing that modifies runs without a yes to that very call, with the arguments
  that were shown; nothing starts after the signal; a command leaves nothing of its
  group behind; a terminating signal finds every living group, but the child of
  that instant; every call ends; what was asked for later is taken.
- Two starts never sign with two keys, run nothing whose fingerprint nobody agreed to,
  pin one first definition unless a write of the registry was lost, and refuse no model
  the endpoint served all along. What a fingerprint leaves out is not claimed (values
  of the environment, where an argument ends: `consent.rs:32-46`, among the facts below); nor is
  a hook that changed between the two readings of one start (`hooks.rs:83`, `hooks.rs:140`) or
  between the check and the run (`swapped`).
- Who follows the offsets of `read` sees each line once; an edit changes what it
  names and no other byte; a write that was answered is on the disk in full, and one
  that failed or was dropped leaves the file as it was or cut to a beginning of the
  new text, whole when it fits one piece (2 MiB) and the system refused none of it; the
  output shown is the output or its end, and its file holds all of it.
- A search that says nothing is missing has every match of the files it visited,
  shows nothing twice and nothing that is no match or near one, and counts what it
  leaves out; one that says nothing matches is right, as long as the context asked
  for is smaller than the cap.
- Once the events of the window are read, the rows of the panel are the editor's and
  the footer's, whatever was typed, recalled, said or resized, for the width the renderer
  knows; it is the window's unless a turn dropped the last event (`missed`, among the
  facts below). And nothing is left under it. Left out of this claim
  (`spoilt`): a panel that met the last row of the terminal or has a row wider than the
  window, another program's
  writing, and what lies under the panel after a change of width or after text that
  ended higher than the old panel.
- The file's active path is the conversation, through forks, restarts and
  crashes between appends. Left out of this claim (`gap`): an interactive request
  compacted while it ran and a headless one the wire failed.
- Acknowledged appends survive power loss, each crash costing at most the one
  glued to its fragment; without crashes the processes build one conversation,
  unless a load annotated a length it had not read (`raced`).

### Where code and documentation disagree

1. `drained`: `drain` promises the messages added since the last collection
   (`interactive.rs:39`); a compaction during the request moves them under the
   cursor (`screen.rs:203`).
2. `store_worst_case`: "o pior caso é perder o último turno" (`store.rs:5`); a
   fragment without a newline makes the next record unreadable and, in the same
   process, the parent of the one after it, at which `chain_to` stops.
3. `responses_tools`: `ToolUse` stands for a model that waits for results
   (`event.rs:25`); the Responses decoder calls every completed response the end of
   the turn (`responses_stream.rs:98`), so the loop ends the request with the calls open.
4. `chat_results`: "o resultado precisa vir logo depois da chamada"
   (`transform.rs:277`). When `read` returns an image, the message of results carries it
   too (`tool/mod.rs:109`), or the note left in its place for a model without images
   (`adapt.rs:26`); `convert` writes what a message says before its results
   (`chat.rs:173`), so a user message comes between the calls and their results.

Facts met on the way, true of the models and stated here without a run:

- A turn stopped by the output limit after a complete call ends the request with
  the call open (`agent.rs:352`), which `run` says cannot happen (`agent.rs:244`); sends
  are repaired, so it shows in the record only. A tool dropped while running is
  reported as cancelled "antes de executar" (`agent.rs:32`).
- Compactions started at the threshold are not charged (`shrink.rs:243`).
- A write cut inside a character makes the whole session unreadable (`guard.rs:58`);
  a start killed between creating the key and writing it leaves an empty key file
  that every later start refuses (`mac.rs:109`), as does the loser of two racing
  starts, once.
- `read` answers that a file is empty, or lacks the line, when the first line asked
  for is longer than its cap or lies beyond the ceiling (`read.rs:95`). A text that
  overlaps itself ("aa" in "aaa") passes as unique, and a `new_string` with CRLF put
  into a CRLF file doubles its CR (`replace.rs:13`, `edit.rs:175`).
- An edit overwrites what another program wrote since it read (`edit.rs:95`), and a
  process killed between cutting the file and writing it leaves it empty
  (`contain.rs:56`); so does a write the system refuses, or in part, and one dropped between two
  pieces (`contain.rs:57`), of which the model is told that it was cancelled before it ran.
- In a question any other key is ignored, though the comment says it refuses
  (`approval.rs:143`, `approval.rs:176`). A read error of the terminal mutes the keyboard
  until the turn ends or asks (`approval.rs:68`).
- A hook dropped by the signal loses its leader only (`hooks.rs:193`); one that closes
  its output and sleeps is waited for without a deadline (`hooks.rs:237`).
- With a context not smaller than the limit, the lines before the first match may fill
  an answer of `grep`, which then says that no line matches (`collect.rs:49`,
  `grep.rs:178`). Files past `MAX_VISITED` are left out without a word (`engine.rs:64`).
- Moving down does not scroll: a panel that outgrows the terminal writes its footer
  over a row of the editor (`terminal.rs:93`). A change of width forgets the frame with
  its rows still on the screen (`diff.rs:45`). A row wider than the window goes on in the
  next, which the renderer takes for the row after (`terminal.rs:107`). Ctrl+L, meant for a screen another program
  has dirtied (`keys.rs:21`), writes nothing when the frame is the same
  (`interactive.rs:286`).
- The fingerprint of a server is that of its command and arguments joined by spaces and
  of the names in its environment (`consent.rs:32-46`): a value of the environment, or the
  same words split into other arguments, changes without a question. Decision 0016 has
  "o hash do que será executado" and `trust.rs:22` "palavra por palavra"
  (`docs/architecture/decisions/0016-extensao-do-workspace-exige-consentimento.md:45`);
  the values are left out on purpose, as secrets (`consent.rs:39`).
- A change of width is heard between turns only (`interactive.rs:280`); during a turn or a
  question it is read and dropped (`approval.rs:94`, `approval.rs:172`), and the panel is drawn
  for the old width (`interactive.rs:411`) until the next change: what is left on the screen
  is what the test of a resize rules out between turns (`interactive/tests.rs:178`).
- Clean-up of call ids for Anthropic makes two short ones that differ in a forbidden
  character the same (`identifier.rs:75`), which its comment rules out for long ones.
  Two MCP tools may get one qualified name ("a__b" and "c", "a" and "b__c",
  `mcp/tool.rs:50`).
- An append that fails ends the session with the messages after it lost
  (`interactive.rs:399`); a failure to draw drops the turn where it awaits
  (`approval.rs:68`); a record older than its lifetime, or of the future, is dropped with
  the chain above it (`mac.rs:78`).
- The spread also shortens a Retry-After (`client.rs:168`), and what the first chunk of
  a chat stream carries besides its id is dropped (`chat_stream.rs:128`).

## Proofs

| Module | Theorems (and the property each states) | For every |
|---|---|---|
| `AgentLoopProofs` | `LoopIsSafe`; `TypesHold` (`TypeOK`), `RecordIsClosed` (`JournalClosed`), `ContextIsPaired` (`NoOrphanInContext`), `QuotaIsBounded` (`StreamsArePaidFor`), `UsageIsCurrent` (`UsageIsOfThisHistory`), `ContextFollowsTheRecord` (`ContextIsTheRecord`), `NoSteeringIsLost` (`SteeringIsRecorded`), `LoopKeepsATranscript` (`RecordIsATranscript`) | limit, number kept, capacity and bound |
| `Facts` | `CompactionKeepsPaired` | history and number kept |
| `RepairProofs` | `EveryHistoryIsAccepted` (`ProviderAcceptsIt`), `EverythingSaidIsSent` (`NothingSaidIsLost`), `CallsStayWithResults` (`CompactionKeepsPairs`), `CompactionEnds` (`CompactionConverges`), `CallsGoOutInPairs` (`CallsArePairedOnTheWire`) | finite set of calls, history of any length, number kept |
| `SessionProofs` | `TheFileFollowsTheConversation` (`DiskFollowsTheRecord`) | number of requests, calls, forks and restarts |
| `StreamProofs` | `PatienceHasABound` (`PatienceIsBounded`), `TheCountArrives` (`UsageIsTheCount`), `CallsRunAsAsked` (`CallsRunInOrder`), `TurnIsWhatWasSaid` (`TurnIsTheAnswer`: the reader implements `Answer`), `WhatIsShownIsTheEnd` (`OutputIsWhole`) | dialect, length of an answer, noise; window, block and output |
| `ToolProofs` | `PagesFollowTheFile` (`PagesAreTheFile`), `EditsAreLocal` (`EditIsLocal`), `EndsWithABeginning` (`LeavesABeginning`) | file, page, edit and size of a piece |
| | `SearchesAreHonest` (`AnswersAreHonest`) | tree, context and cap |
| | `PanelIsShown` (`PanelShowsTheFrame`) | text typed, history of the editor, width, height, number of turns and of changes of the window |
| `TurnProofs` | `NothingIsLeft` (`CommandsLeaveNothing`), `TheLivingAreNoted` (`LiveGroupsAreNoted`), `ConsentIsKept` (`ConsentIsForTheCall`), `NothingStartsCancelled` (`CancelStartsNothing`) | number of calls, processes, keys and messages |
| `WorkspaceProofs` | `OneKeyIsUsed` (`OneKey`), `OnlyTheAgreedRuns` (`RunsWhatWasAgreed`), `OneDefinitionIsPinned` (`OneFirstPin`), `TheCatalogIsFresh` (`CatalogIsFresh`), `NoStaleRefusal` (`RefusalIsCurrent`) | set of starts, models, endpoints, versions and changes |
| | `AppendsSurvive` (`AckedSurvive`), `OneConversationIsWritten` (`OneConversation`) | set of processes, appends and crashes |

The assumptions are those on the constants (`LoopConstants`, `HistoryBounds`,
`SessionConstants`, `WireConstants`, `CaptureConstants`, `FileToolsConstants`,
`SearchConstants`, `ScreenConstants`, `TurnConstants`, `StartupConstants`, `StoreBounds`), as weak as the
code's own checks (`HistoryBounds` takes the calls to be finitely many, as those of a
history are), and two that say that the values standing for a missing and for a torn
file are not contents of one (`CatalogIsAFile`, `RegistryIsAFile`). TLC evaluates each
in the runs of its module.
The starts and the store are proved each under its own specification; `MCStartup`, which
TLC runs, explores one of them per behaviour.

Hardly any of the properties is inductive as it stands.

- The loop. A round answers in one step calls made in an earlier one, so `IInv` says
  that while the loop acts on a turn, that turn is the last message of both context
  and journal (`LastIsTheTurn`), that outside those points nothing is open
  (`NothingOpen`), and that a round being run has a call left (`RoundIsRunning`). A
  compaction may happen between a turn and its round; it keeps the last message when
  that is a turn and not results, which is the second half of `CompactionKeepsPaired`
  and needs `CompactionIsUseful`. `Paired` strengthens `NoOrphanInContext` with roles, so
  that a cut that does not start with results leaves none behind. `PaidInAdvance` is
  `StreamsArePaidFor` one step before a stream is opened.
- The context and the record (`RecordInv`). Whatever a step says, it says to both
  (`Speaks`), so a view that was an end of the record is one still; a compaction of such a
  view cuts it at a later place, and is one again. While the loop runs the journal has
  at least the prompt (`PromptIsThere`). What was typed (`NothingTypedIsLost`) rests on a
  count of the prompts of a concatenation: nothing the loop says looks like one but the
  request's and those it takes from the queue, all at once.
- The transcript. Every step of the loop leaves the record alone, or adds to it what
  `Transcript` allows after its last message: that what a round adds are the results
  of all the calls just made is `LastIsTheTurn` again.
- The repair. What was sent of a prefix is `Acceptable`: closed, but for the calls of
  its last message, and these are the pending ones. `EverythingSaidIsSent` says of any
  account of the messages to which results add nothing (`Accounts`) that the
  repair keeps it; the text and the turns are two of them.
- The two bodies. `ResponsesSoFar` has the items written so far with the calls they leave
  open; an item opens the calls it makes and closes those it answers. In Chat Completions
  results refer back over other results, so `ChatSoFar` says of the last message
  that is none which of its calls still wait, and of every earlier call which item answers
  it. Both are carried over the messages of a history that was repaired.
- The file. `SessionInv`: a context that did not shrink is what was drained, followed
  by what the request added (`CursorMarksTheRequest`); the cursor is at its end when
  nothing is asked (`CursorIsAtTheEnd`); what waits to be appended holds no marker, and
  after the last append the next record descends from the one just written
  (`SavesWords`). The paths that were there stay when a record is added, since a
  record only ever descends from an earlier one (`IsTree`).
- The count. Between the gateway that counts and the turn that is told there is at most
  one line and one decoder. `WireBringsTheCount`: the decoder has the gateway's count, or
  gets it from the line on its way. Nothing comes after the end, and nothing is held
  back by a decoder that saw it (`EndIsTheLast`); once the decoder is through
  the turn has the count (`CountIsIn`).
- The answer (`AnswerInv`, on top of the count). What was said is what the decoder read,
  and what the line on its way adds to it (`WireBrings`); what the decoder read is what
  the turn heard, and what is still held back (`TurnHas`). The calls of a turn are the
  beginning of one row in order of place, each with the fragments of its own, so each
  line brings the next of what was said (`LineBrings`), in each dialect, and a turn is a
  beginning of the answer after every step: the step condition of `Answer`. The order
  in which calls run is stated by rank: the n-th is the one before which n - 1 began
  (`Turns`), and of calls that begin in order of place that is the n-th place.
- The turn. `ProcessInv` says what each stage of a supervised process means for its
  group: noted from the line after spawn until it is collected, dead once reaped;
  every other group of a command is over. `TurnInv` adds that a call that was
  answered yes to, coerced, is the one in hand until it runs.
- The start. `KeyInv` says that whoever makes the key found none and makes it alone,
  and that a key in use is the one in the file. For trust, every entry of the
  registry on disk, and of each registry in memory, for a hook or a server is the
  fingerprint of something that was agreed to, whoever overwrote whom; and a start keeps a
  hook only with such a fingerprint (`HookIsKept`), so that what passes the check when it
  is fired does. `PinInv`: while every decision reaches the next
  reader, one start at a time holds a registry, and a definition once pinned is in the
  file, or in the hands of who is writing it. `CatalogInv` follows a list from the
  endpoint that served it (`log`) through the cache, whoever wrote it, to the start that
  reads it, with the models served all along while it looked.
- The store. A fragment a crash leaves costs nothing yet: it is the record glued to it
  that is lost, and only when that one returns. `CrashesPay` counts what is lost
  together with that debt (`InDebt`) against the crashes; `DiskHolds` says that what
  was acknowledged and can be read is already synchronised. Without crashes and
  without a load that raced (`StraightInv`) the n-th line is the n-th record and descends
  from the one before, and a remembered tip whose length is the file's is the last one
  (`TipsAgree`).
- The file tools (`FileInv`). A page is a run of the lines of the file from the line asked
  for, as long as limit, cap and ceiling allow; joined to the pages before, it is the
  beginning of the file up to the next offset (`PagesInv`). `Undisturbed` says that
  between two pieces the file and what is still to be written make the new text, and that the
  piece a thread has goes where the file ends (`HandedOver`), so a write that stops there
  leaves a beginning (`Heads`); `InOnePiece`, that a text that fits one has nothing left to
  give once the file is cut. `IsEdit`: what an edit made is
  the text read, with its places replaced from the rightmost on, in the endings of the
  file. That this changes nothing else is `RestoreUndoes` (giving back the endings of what
  was read gives the file), `RestoreJoins` (piece by piece), and that two
  places that do not overlap cut the text in five.
- The searches. After each line of each file (`IsAtLine`): what is shown is true, in
  order, and near a match already seen; an answer with room left shows every match so
  far; it stops when it is full and not before; and with a context below the cap nothing
  is shown before something matched, since the context of the first match cannot fill the
  answer. `IsKept`: of the entries seen so far a listing has the least ones.
- The screen (`ScreenInv`). Between two drawings the renderer's frame is the one of the
  editor as it is, the top of the panel is in the grid, and the frame has room above the
  last row (`PanelStands`). A drawing is followed row by row (`IsDrawn`): down to the row
  it reached the grid has the new frame, under it what was there before, and a row it
  skips is the new frame's because it was the old one's and the rows shown were the old
  frame's (`Held`). A narrower window may cut them: until its event is read
  (`NarrowerToHear`) the rows need not show the frame, and then it is drawn anew. The last
  event nobody read has the width of the window (`WindowInv`). A change of width that is
  heard gives up only that nothing is under the panel. After text is written the panel starts
  in the row of the cursor, which is the last one unless the panel stood lower (`TextIsReady`).
  `IsEditor` keeps the cursor in the text and the entry shown in the history, for every key.
- The capture. `WindowIsTheEnd`: window and file together are the output, unless the
  system refused the file, and the window holds at least its size once there is a
  file.

Induction. The library's induction theorems take a predicate, which no installed prover can
instantiate; `InductionOverASet` in `Facts` takes a set of naturals instead, and
the induction is over the set of lengths, or positions, for which a fact holds. So it is
proved what the repair of a history accumulates message by message, that the path to
a record exists, what the entries of a chunk leave of a decoder, what the rows of a frame
leave of a grid, and what `FlattenSeq` makes of a sequence with one element more. Each needs a recursive function whose
definition the provers can see, which is why the models write these folds as functions.

Only model-checked:

- liveness (`CancelStops`, `RequestEnds`, `AskEnds`, `CallEnds`, `LaterIsTaken`): fairness
  and `ENABLED` are out of the prover's reach;
- the runs that show a disagreement.

## Not modelled

The components with status `not_modelled` in `PROJECT.json`, with the reason there.
Inside the modelled ones: `/new`, `/model`, `/reload` and copying a session
(`Session`); v1 records, `rekey`, `list`, the MAC filter and a failed `fsync`
(`SessionStore`); a crash of the machine keeps or cuts the unsynchronised
suffix, it does not scramble what was synchronised. Sessions with `--allow-writes`,
which never ask, the interrupt of a headless session and the definition pins of one
session (`Turn`); reuse of group ids (`Processes`); the lifetime of records and the
clock going back (`Startup`); images, binary files and `limit` 0 (`FileTools`);
characters of two cells, escapes, `/new` and `/model` on the footer (`Screen`); files
that cannot be read and refused arguments (`Search`).

The map covers the part of the source where state, order and failure meet, and stays
well below a third of its lines. Nearly half of the lines are unit tests kept in the
files they test; most of the others parse JSON, the command line and settings, or
format events and messages, sequential code whose tests already state its input and
output, and of which a model would be a second copy; the rest are generated tables and
a parity harness.

## Plan

1. `AgentLoop` over `Turn` and `Wire` as one composition, with their outcomes in place
   of the nondeterministic ones.
2. `/new`, `/fork` into a copy and `rekey` in `Session` and `SessionStore`; the lifetime
   of records.
3. The MCP client, over a server that dies between connect and call.
