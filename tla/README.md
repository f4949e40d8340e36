# TLA+ models of cavitation

Cavitation is a desktop iMessage client: a Rust core (`rust/src`) that owns the
account, the connection and an SQLite store, and a Qt/QML window (`app`) that
calls it through a cxx bridge. This directory models the parts of it that carry
state from one step to the next, checks them with TLC on small instances and
proves the main invariants with TLAPS for every instance.

The tree also keeps the layer of the earlier Flutter app (`rust/src/native.rs`,
`keystore.rs`, `api/`). It is not compiled (`lib.rs` declares none of it,
`keychain.rs:12-14` says so), but it is the larger half of the Rust source and
holds the state machines the port has yet to take over; its modules below are
marked "kept".

## The system

| Component | State it keeps | Operations | Talks to |
|---|---|---|---|
| message store (`storage.rs`) | tables chats, handles, chat_handles, messages, reactions, attachments, kv | one method per statement or small group of statements; only `set_chat_participants` is a transaction | called under one mutex by the receive loop, the local operations and the account code |
| receive loop (`receive.rs`) | none of its own | `run`: frame, decode, `store_message`, event | reads the session's client, writes the store, sends events |
| local operations (`ffi.rs`) | copies of attached files | send, attach, mark read, pin, archive, tapback, edit, unsend | store, event bus, a detached task per operation |
| account state (`app.rs`, `ffi.rs`, `integration.rs`) | `AppState.auth`, kv row `auth.state`, pairing slot, session slot | pair, clear, sign in, submit code; publish a state | store, pairing file, event bus, rustpush |
| session (`session.rs`) | APS connection, IDS user, IM client | create, finalize login, prepare client | rustpush, JSON files |
| pairing identity (`os_config.rs`) | `os_config.json` | pair, save, load, clear | file system |
| send pipeline (`ffi.rs`, `integration.rs`) | the tasks, with the session and participants each captured | upload, send, await delivery, report a failure | rustpush, event bus |
| event bus (`events.rs`) | an unbounded channel | send from anywhere, drain by the window | |
| core bridge (`core_bridge.cpp`) | the label it shows, a 120 ms timer | one call per user action; `pollEvents` drains and coalesces | core, both list models |
| transcript model (`message_list_model.cpp`) | guid of the open chat, its rows | `setChatGuid`, `refresh` with append detection | store through the bridge, the view |
| chat list model (`chat_list_model.cpp`) | rows of the sidebar | `refresh` as a full reset | store through the bridge |
| toasts (`ToastLayer.qml`) | at most four toasts, a timer each | post, dismiss, hover | core bridge |
| window (`app/qml`) | selection, composer, dialogs | the guards of every call above | core bridge |
| keystore set-up (`keychain.rs`) | key file, sealed state | `init`, save after every change | rustpush |
| account files (`api/api.rs`, kept) | one property list per service, the identity, the key cache | migrate, restore, sign in, register, reset; saves by running services | rustpush, keystore |
| circle sessions (`api/api.rs`, kept) | at most five sign-ins of other devices waiting or under way | `handle_circle`, `approve_circle` and its task | daemon loop, account |
| daemon loop (`native.rs`, `api/api.rs`, kept) | queue of messages by key, a retry task per key, a channel of its own | `recv_wait`, `start_loop`, `ptr_to_dart`, `complete_msg`, `send`, `cancel_poll` | every client, circle sessions, the app |
| native keystore (`keystore.rs`, kept) | two possible state files, keys in the hardware | `setup_keystore`, hardware check, lock, import | the phone's KeyMint |

What is hard here, and hard to test:

* operations of several SQL statements that commit one by one, and die between
  two of them;
* messages delivered again, late and out of order, through `INSERT OR REPLACE`
  with cascading foreign keys;
* the account state, kept in four places that are written one after the other by
  the UI thread and by detached tasks;
* a process that can end between any two of those writes and restores itself
  from what it finds;
* a window that is told about changes by a queue that is drained on a timer and
  coalesced, while its own calls refresh it in between;
* sends that live in detached tasks, with what they captured at the call, and
  whose failure reaches the user only as an event and then a toast;
* a directory of files written one by one by a sign-in, a reset, a migration and
  by services that run beside them, each write a truncation first;
* a receive loop that queues messages for an app that may take them late, twice
  or never, and that talks to itself through a bounded channel.

`PROJECT.json` lists the main ones as hazards, each at its line, with the property that
would catch it or the reason there is none.

## The modules

### Storage

The tables as variables; a step is **one SQL statement**. `insert` is the
operation that holds the mutex with its next statement (`pc`) and its arguments:
`store_message` runs upsert_chat, upsert_handle per participant,
set_participants, upsert_sender, insert_row, touch_chat, bump_unread;
`send_message_local` and `attach_file_local` enter at insert_row, and the latter
goes on with insert_attachment and flag_attachment. `marking` is a
`mark_chat_read` between its two statements. `AbortInsert` and `AbortMark` cut an
operation off anywhere: in the code that is an early return by `?`, or the death
of the process; both leave what has committed and free the mutex, so one action
stands for both. `lost` and `untouched` are history variables: how many bumps of
a badge, and which chats' dates, were cut off. Texts, previews, titles, file
names and the is_group flag are left out of the rows. A chat guid is the service
and the set of lower-cased addresses, which is what sorting and deduplicating
before joining computes; `Lower` is a parameter.

### AuthFlow

`auth`, `kv`, `osFile`, `osMem`, `session`, the undrained event (`queued`), the
label the window shows (`shown`) and the receive loops. The UI thread runs one
call at a time (`ui.pc`), each write of it a step; a sign-in or 2FA call leaves a
task (`tasks[t]`) that waits for the account service, finalizes the login,
prepares the client, spawns the receive loop and publishes the outcome. Every
point that can fail has its failing branch. `Restart` is the end of the process
anywhere followed by `AppState::open` and the bridge's constructor. `unclean` is a history variable: the last
write of `auth` overlapped another writer, came from a task that outlived the
pairing, or was not stored. rustpush is external and appears only as the answers
of these actions.

### Transcript

The messages of each chat in display order, the channel, and the window's two
copies of the open chat: the model's rows and what the view's delegates hold. The
receive loop stores and then announces; `PollEvents` drains the channel and
coalesces it with `markMessages` (`Coalesced`); `Refresh` is `MessageListModel::refresh` with its append
detection, after which the view builds only the new lines. A row is its guid and
a version, so an edit or unsend can be told from the row it replaces. The store
can fail (`Failing`): an `insert_message` that fails after its first statement
leaves its row with no event behind it (`ArriveFails`, `SendCutShort`), and a
`list_messages` that fails leaves the model empty (`Reload`); the user gets a
toast and nothing refreshes. `missed` is history: one of these happened to the
open chat and no refresh has read its rows since.
`RebuildDelegate` is the view's own recycling of delegates (Qt, external).

### ToastLayer

`toasts` is the ListModel, oldest first; `Post` appends and evicts, `Expire` is a
timer firing while the pointer is elsewhere, `Hover` moves the pointer. `expired`
is history. Durations are left out: a running timer may fire at any moment.

### Outbox and Outcome

What follows a local send, attachment, edit, unsend or tapback. `pc` says where
each operation is: `StoreRow` (row stored and announced), `SpawnSend` (participants
and session captured, task spawned), `Upload`, `Dispatch` (participants, client and
handle there, `client.send` returned), `Delivered` (the delivery handle resolved),
and at every step a failure: an error of the call becomes a toast at once
(`Refused`, `CoreBridge::guarded`), one of a task becomes an event (`TaskFails`)
and a toast at the next poll. The stubs behind edit, unsend and tapback always
fail. Beside them run the sign-in (`EnsureSession` on the UI thread, `ClientReady`
in its task; the captured session is shared, so a client that comes later is
used), the receive loop (`LearnParticipants`) and the end of the process (`Exit`).
`told` and `lost` are history. Toasts are an instance of `ToastLayer`. The
statements behind a row are `Storage`'s; participants are compared case apart, as
`ThreadKey` of `Storage` justifies. A delivery job without a handle
(`job.handle` is `None`) is taken to have nothing left to deliver.

`Outcome` is what the window promises of an operation: begun, then delivered or
reported, or lost with the process. `Outbox` implements it under the mapping
`OutcomeOf`, whose value "dropped", silence without delivery, `Outcome` does not have.

### Keystore and AuthRules

The two ways a key store comes up. On the desktop `keychain::init`: `ReadKey`,
`WriteKey` (only when there is no whole key file), `LoadSoft`. On a phone (kept)
`setup_keystore`: `Choose` by which file exists, `CheckStep` through the eight
steps of `supports_import` with its two test keys, `LoadHard` or `LoadSoft`. A
running store creates and destroys keys and saves all of them after each change
in two steps, `SaveOpen` (truncate) and `SaveWrite`. A sealed key is its alias
and the wrapping key it was sealed with, so "readable" is a comparison. Every
write can fail and the process can die at every step (`Fault`, `Crash`,
bounded by `MaxFaults`). `AuthRules` is the table of `from_auth_rules` with
KeyMint's numbers; `Permits` is how KeyMint reads such a list (external) and
`AskedFor` what the caller's rules mean.

### AccountFiles (kept)

`disk` is the directory: for each file whose it is (account or identity) and in
which form, or absent, or torn. An operation is the **sequence of its file
steps** (`todo`), performed one per step: `Migrate`, `ResetUser`, `Login`,
`ResetHardware` and so on are those sequences in program order; a step that
keeps an existing file (`if_absent`) looks at the directory when it runs.
Beside the operation in progress run the writers nobody waits for
(`ServiceSave`, `PushSave`, `ImClientSave`). `Crash` ends the process between
two steps, or inside one, leaving the file torn (a torn file does not parse but
exists). The app can also live on: a step of a call fails, the call panics or
returns its error and the rest of it is not done (`StepFails`); a background
save fails (`SaveFails`); a reset cannot remove a file, discards the error and
goes on (`RemoveFails`); the account service refuses a login (`LoginRefused`).
Together with the deaths these are bounded by `MaxFaults`. History variables:
`late` (a writer saved a file after its reset began), `spoiled` (files this
process failed to save and has not saved since), `kept` (files a removal left
behind), `torn` and `cut`. `Init` is an empty directory, or one of the layout
before the keystore, whose `hw_info.plist` always has its identity.

### CircleSessions and Daemon (kept)

`CircleSessions` is the list of sign-ins other devices ask for: `OpenSession`
and `StepSession` are the two halves of `handle_circle`, `ApproveCircle` and
`RunApproval` the call and the task it leaves behind, which looks its session up
again. Nothing is assumed of the other devices: any odd step of any exchange
arrives at any time and any number of times, with its sign-in request or
without. History: `answered` (which session handled whose step), `lost`
(exchanges whose session was evicted or ended between the approval and its task)
and `ended` (exchanges a last step ended).

`Daemon` composes it with the receive loop: `RecvPush` asks the clients in the
order of `recv_wait` (photostream sends the loop one message per pending album,
`SendAlbums`), a message for the app is put in the queue (`Insert`), its
task started, its key emitted (`Emit`); `TaskWake`, `TaskEmit` and `TaskDrop` are
the retry task, whose look at the queue, count and emission are separate steps;
`PtrToDart` and `CompleteMsg` are the app's. A send the app is to be told of ends
in `SendConfirm`, or in `SendCrashes` when the delivery task dies and
`handle.await.unwrap()` with it. `SendLocal` to a full channel leaves
the loop "wedged": it is the channel's only reader.

### MC modules and proof modules

`MCStorage`, `MCAuthFlow`, `MCTranscript`, `MCOutbox`, `MCKeystore`,
`MCAccountFiles`, `MCCircle` and `MCDaemon` hold the values of the constants.
`StorageProofs`, `OutboxProofs`, `AuthProofs`, `TranscriptProofs`, `ToastProofs`,
`KeystoreProofs`, `AccountProofs` and `DaemonProofs` hold the theorems about the module
they are named for, `DaemonProofs` those about `CircleSessions` as well. Operators whose comment starts with
"Mutant:" are wrong variants of the definition that follows them; each shows that
one property fails when the code is changed that way, and no specification uses
them.

## Runs

| Run | Checks | Instance |
|---|---|---|
| `storage` | `InsertNeverRefused`, `UnreadAccounted`, `LastDateCovers`, `ThreadKey`, `AttachmentHasFile`, `UserStateKept`, `NothingVanishes` | two messages of one thread spelled two ways, the second one older, in any order and any number of times; a local message that may be a file, edited, unsent and reacted to; one cut-off insert per chat and reading, badge up to 2 |
| `auth_safety` | `PairingSurvives`, `RestartRestores`, `WindowAgrees`, `ReadyIsEarned` | one device, two tasks in flight, one restart anywhere, answers LoggedIn, a second factor or an error; symmetric in tasks. The count of loops is switched off (`MaxLoops = 0`): no other variable depends on it |
| `auth_liveness` | `SignInSettles` | two tasks, one loop, no restart (a restart ends the session and the obligation) |
| `auth_spawned` | refutes `SpawnedOnce` | see Findings |
| `transcript` | `StaleIsAnnounced`, `ViewInStep`, `ModelCatchesUp` | two chats, three inbound and two local messages landing anywhere, one change per message, a window of three rows; any insert and any `list_messages` may fail |
| `transcript_screen` | refutes `ScreenCatchesUp` | see Findings; a store that never fails (`Failing = {}`), so that no failure is to blame |
| `toasts` | `ToastTypeOK`, `NoToastTaken`, `ToastsGo` | the window's four toasts, seven posts |
| `outbox` | `AddressedInFull`, `NoSilentDrop`, `KeepsPromise` (`Outbox` implements `Outcome`, liveness included) | a text, a file and an edit; a chat of two and a chat of one participant, their lists stored or not; two toasts |
| `accounts` | `TypeOK`, `OneAccount`, `LoginHeals`, `HandlesResolve`, `CountersKept`, `MigrationHolds` | two accounts, two identities, the three service files with different rules, one fault (a death of the process, a failed step or save, a failed removal); symmetric in both. A behaviour is followed up to the first late save, which `OneAccount`, `LoginHeals` and `CountersKept` except; `TypeOK`, `HandlesResolve` and `MigrationHolds` do not, and their theorems hold beyond it |
| `circle` | `RightSession`, `WaitingKept` | four exchanges, two of them of one sign-in, a list of two; any step of any of them at any time |
| `daemon` | `AtLeastOnce`, `CompletedForGood`, `Drains`, `CancelStops`, `SendsConfirmed` | a text, an album notice, a change of registration, one sign-in and one send whose delivery task may die, of which two happen; one retry, a channel of one, one request to stop |
| `keys` | `Readable`, `OneStore`, `NoTestKeys`, `AuthorizationKept`, `KeysKept` | desktop and phone, two keys, three wrapping keys, two failures or deaths, the rules the account layer asks for and one set with everything |

The type invariants of `Storage`, `AuthFlow`, `Transcript`, `Outbox`,
`CircleSessions`, `Daemon` and `Keystore` and `LoopFindsClient` of `AuthFlow` are
proved for every instance (below) and are therefore not repeated in the runs.

Why these bounds are enough to be interesting: two spellings of one set are what
a key can confuse; two unread messages tell a count from a flag; two dates tell a
maximum from the last arrival; two tasks and the UI thread are every kind of pair
of writers of the account state; three rows under a limit of three give appends,
inserts in the middle and a full window; a channel of two events holds two chats
in one poll; two participants tell a partial delivery from a whole one, and three
operations over two toasts overflow the stack; a list of two sessions and four
exchanges evict and re-open; a channel of one is full at once; two faults let a
second start trip over what the first left. The properties are invariants of a state and its neighbours, and no
action looks at more than two messages or two writers at once.

### Fairness

`AuthFlow!FairSpec`: weak fairness of the UI call in progress (it is straight-line
code), of each task (tokio workers run every spawned task; each network request
ends in an answer or an error) and of the poll timer. Starting a call is never
fair: nobody obliges the user. `Transcript!FairSpec`: weak fairness of the event
that follows a stored message (the next statement of the same function) and of
the poll timer. `ToastLayer!FairToastSpec`: a running QML timer fires; nothing is
assumed of one that is restarted by the pointer again and again.
`Outbox!FairSpec`: the call in progress, each spawned task and the poll timer; a
task's awaits end, in success or in an error, which is rustpush's to keep.
`Daemon!FairSpec`: the loop goes on with what it has in hand, takes what is in its
own channel and sees a request to stop; each retry task and each awaited delivery
comes to its end (tokio runs every task and every timer fires). Nothing is assumed
of the connection or of the app, which may never complete a message. Weak fairness
of `RecvLocal` is what tokio's `select!` gives: it polls its branches in random
order, so a branch that stays ready is taken. `SendConfirm` has strong fairness:
room in the channel comes and goes, and tokio serves the senders that wait for
it in their order.
Delivery of messages is never assumed.

### Findings

* **Two receive loops** (`auth_spawned`). `receive.rs:104` says the loop is spawned
  once; a second successful sign-in or code on the cached session spawns another
  beside it. Both store every message (so the badge counts it twice).
* **An edited line stays old on screen** (`transcript_screen`). `refresh` detects an
  append by guid. When an edit refreshes a list that has also grown by an
  arrival not polled yet, the refresh is taken for an append and the edited row's
  delegate is not told; a further append does not repair it. The line stays old as
  long as every later refresh finds new rows at the end; one that finds none
  resets the list and repairs it.

Three more places where a comment and the code part: Setup
stays closed after a restart without a session (`Main.qml:27`, `app.rs:77`), every
arrival resets a window that shows its 500 rows (`message_list_model.h:14`), and a
toast under the pointer is evicted (`ToastLayer.qml:77`). In the kept layer:

* any step of a known circle session is handled, approved by the user or not
  ("wait for user to manually click approve to handle request", `api.rs:1691`,
  concerns the first delivery only; `1695` does not look);
  `StepSession` models it and no property says otherwise;
* an approval whose session went before its task ran is applied to another
  session of the same sign-in, if there is one (`RightSession` excepts `lost`);
* a receive loop whose own channel is full waits on itself for ever
  (`CancelStops` and `SendsConfirmed` except it), and a send whose delivery task
  dies is never confirmed although `send` returned true (`api.rs:1852`;
  `SendsConfirmed` excepts it);
* "our identity is wiped so we can wipe our counters too" (`api.rs:2734`) follows
  a removal whose error was discarded; `CountersKept` excepts a `hw_info.plist`
  that was kept;
* a save of the sign-in that fails and leaves its file torn is not repaired by
  calling `do_login` again, which keeps files that exist (`LoginHeals` names it);
* a death of the process between the saves of `gsa.plist` and `cloudkit.plist`
  makes later starts panic (`api.rs:618`), which `AccountFiles` reaches as phase
  "stuck".

## Proofs

From the assumptions named in `Storage` (`LowerAssumption`,
`ConversationAssumption`, `FrameAssumption`, `GuidAssumption`,
`BoundAssumption`, `NullAssumption`; all evaluated by TLC in the runs) TLAPS
proves, for every set of addresses, conversations, messages and frames:

* `StorageProofs!TypeCorrect`: `Spec => []TypeOK`. One lemma per kind of row
  (`InboundInsertType`, `LocalInsertType`, `UpdatedRowType`), then one step per
  action.
* `StorageProofs!Inductive`: `Spec => []IInv`. None of the safety properties is
  inductive by itself, because each relies on what the operation in progress did
  some statements ago. `IInv` adds that: `InsertProgress` (past upsert_chat the
  chat is stored, past the handles the participants are, past the sender its
  handle is, past the row the row is what was to be written),
  `MessagesHaveChats`, and `MarkProgress` (between the two statements of
  `mark_chat_read` the chat has nothing unread, which needs the mutex).
* `StorageProofs!NeverRefused`: `Spec => []InsertNeverRefused`, from `IInv` alone.
* `StorageProofs!LastDateAlwaysCovers`: `Spec => []LastDateCovers`, inductive
  relative to `IInv`: a chat's date never falls (`ChatsStay`), a stored row's chat
  and date never change (`RowsStay`), and touch_chat covers the row it follows.
* `StorageProofs!UnreadAlwaysAccounted`: `Spec => []UnreadAccounted`, inductive
  relative to `IInv`: a step adds at most the insert's own message to the unread
  ones (`UnreadGrowsByInsert`, with the cardinality theorems of the library), and
  a bump that is no longer owed was made or is counted as lost (`OwedSettled`).
* `StorageProofs!OriginsInductive`: `Spec => [](IInv /\ Origins)`. What a row may
  lose depends on where it came from, and `Origins` says that a guid tells: a temp
  guid is the user's own message, new until its row is written, its file copied
  before it is attached; any other came from the network and names the
  participants of its thread. `ThreadsKeepTheirKey` (`[]ThreadKey`) and
  `AttachmentsHaveFiles` (`[]AttachmentHasFile`) are part of it;
  `NothingEverVanishes` (`NothingVanishes`) and `UserStateAlwaysKept`
  (`UserStateKept`) are action properties that hold of every step from it: an
  `INSERT OR REPLACE` that finds its row replaces one from the network, which has
  no attachment to lose by cascade.

From `OutboxAssumption` (a message's chat has members; sends and changes are
different operations):

* `OutboxProofs!OutboxInductive`: `Spec => []Inv`. `NoSilentDrop` needs to know that
  a delivery that reached `to` reached the conversation, so `Inv` adds
  `AddressedInFull` and, for that, `Whole`: the stored lists are whole or empty, a
  send under way has its row, one not yet spawned has no addressees.
* `AlwaysAddressedInFull` and `NeverDroppedSilently` follow from it; the type
  invariant is a conjunct of `Inv`.
* `ImplementsOutcome`: `Spec => Promise!OutcomeSafety`, the safety half of
  `KeepsPromise`: under the mapping `OutcomeOf` every step of `Outbox` is a step or a
  stutter of `Outcome`. The mapping reads the histories, so `Accounts` says that
  they speak of operations that are over, and that an event waiting is the only
  word of its operation so far; `View` is the mapping as those allow it to be read.

From `AnswerAssumption` and `AuthAssumption` (nothing but a label comes from the
account service, and the null value is no label, device or session), for any
number of devices, tasks and restarts:

* `AuthProofs!Invariance`: `Spec => []Inv`. All the properties speak of moments when
  nothing is in progress; `Inv` says what holds inside a call or a task: `CallInv`
  (what the UI call knows at each step), `FileInv` (file before slot), `TaskInv` (a
  task has its session, its IDS user, its client), `ClientInv` (a restored "ready"
  outlives the making of a session by the one step that replaces it), `PubInv`
  (after a clean write its writer is the only one under way), `StoreInv` and
  `WindowInv` (a clean state is restorable, and carried by the newest event).
* `TypeCorrect`, `KeepsPairing`, `RestoresState`, `WindowAlwaysAgrees`,
  `ReadyAlwaysEarned` and `LoopAlwaysFindsClient` follow: every invariant of the
  `auth_safety` run and the two that are only proved.

From `TranscriptAssumption`, for any number of chats and messages and any row limit:

* `TranscriptProofs!TypeCorrect` and `ViewStaysInStep`. `ViewInStep` is inductive next
  to the types: `refresh` compares the new rows with those the view has
  (`RefreshKeeps`), and every action that reaches the view goes through it
  (`ChangedKeeps`).
* `NoWriteMissed`: `Spec => []StaleIsAnnounced`: with a store that may fail at any
  insert and any read, the rows are behind only while an event is on its way or
  until the first refresh after such a failure. It needs what `pollEvents` makes of any
  number of drained events: if one of them names the open chat, the guid it emits
  is that chat's or the empty one, which every model heeds (`CoalescedMarks`,
  `CoalescedChat`). That is an induction over the events, done by hand: among the
  prefixes that would be a counterexample there is a shortest (`Least`, from the
  well-foundedness of the naturals), and the loop's body refutes it.

From `ToastAssumption`, for any size of the stack and any number of toasts:

* `ToastProofs!ToastInductive`, then `ToastTypeCorrect` (`[]ToastTypeOK`) and `NeverTaken`
  (`[]NoToastTaken`). The invariant adds that between two rows lie at least as
  many serials as rows, and above the last one none was given out (`Spread`): so
  serials are distinct, `dismiss` finds its own row and no other, and a row evicted
  by overflow has seen `maxVisible` newer toasts.

From `KeystoreAssumption`, for any number of keys, starts and faults:

* `KeystoreProofs!Invariance`, then `TypeCorrect`, `StaysReadable`, `KeepsOneStore`,
  `CleansUp` and `LosesNothing` (an action property). The invariant relates the
  wrapping key on disk to the one each stored key was sealed with while the start
  has not come to use it, and the step of the hardware check to the test keys that
  may be left.
* `PermitsWhatWasAsked`: `Spec => []AuthorizationKept`, for every set of rules, not only
  those of the instance: what `from_auth_rules` lists permits a use exactly when it
  was asked for (a lemma about the table alone), and every key in the hardware is
  there under the list made from its own rules (`Wrapped`).

From `FilesAssumption`, for any number of accounts, identities, deaths of the process,
failed steps, saves and removals, and any of the optional service files:

* `AccountProofs!AccountInductive`: `Spec => []AccountInv`. Every promise about the
  directory is made while an operation is half way, so the invariant speaks of
  `Pending`, the steps it has left, and where their order matters of `Preceded` (every
  x comes after a y) and `Followed` (right before one). Lemmas give the steps of
  each operation (`MigrateSteps`, `ResetSteps`, `LoginSteps`, ...) and what a performed
  step does to each kind of file (`PerformDevice`, `PerformAccount`). The layers:
  `Base` (types, which steps a phase may have left, whose which file can be);
  `KeyInv` (a save that names a key comes after its import); `MoveInv` (until the
  app runs the save of each old file is still to come, the half-way save is
  followed at once by the whole one, `findmy.plist` goes with `gsa.plist`);
  `Connected` and `Counted` (a connection's `hw_info.plist` is its own, its counters
  are removed only after it, and it is saved only for the identity it has or for one
  that has never been used); `Staged` and `Owned` (files are removed only in a
  logout or before a sign-in, with their running writers marked; a running service
  is the account's that `gsa.plist` names; what is left of the old files at each
  stage of a sign-in: gone or still to be removed by the reset (`UserReset`), then
  `gsa.plist` saved, still to be saved (`LoginAhead`) or spoiled). What the failures do
  to each layer is in `StepFailsFacts`, `RemoveFailsFacts` and `SaveFailsFacts`.
* From it `AccountTypeCorrect`, `HandlesAlwaysResolve`, `MigrationAlwaysHolds`,
  `CountersAlwaysKept`, `AlwaysOneAccount` and `LoginAlwaysHeals`: every property of the
  `accounts` run. `MigrationHolds` says which deaths it excepts file by file: none for
  the old layout of `hw_info`, `id` and `gsa`, one inside `hw_info.plist`'s own saves for
  its half-way form, one at `gsa.plist` or `findmy.plist` for an old `findmy.plist`.

From `CircleAssumption`, for any limit and any number of devices and exchanges:

* `DaemonProofs!CircleInvariance`, then `CircleTypeCorrect`, `FindsItsSession`
  (`[]RightSession`) and `KeepsWaiting` (an action property). `approve_circle` and its
  task each look the sign-in up, and between the two any other exchange may open,
  step or end; the invariant says why they agree: an exchange is listed once
  (`SessionInv`), and the session of an approval under way is still the first of its
  sign-in, or is recorded as `lost` (`ApprovalInv`).

From `DaemonAssumption` and `CircleAssumption`, for any number of messages, retries
and any capacity:

* `DaemonProofs!Invariance`, then `TypeCorrect`, `DeliversAtLeastOnce` and
  `NeverAgain` (an action property). `AtLeastOnce` counts emissions that were made
  steps before the task gives a key up, so the invariant ties, per state of the
  task, the number of emissions to its count (`TaskInv`), allowing for the loop's
  own first emission to come after the task's.
* `ImplementsCircle`: `Spec => CircleSpec`: every step of the composition is a step of
  the circle sessions or leaves their variables alone. So `DaemonKeepsCircle`: the
  two properties of the circle hold in the daemon too.

Every invariant and every action property of the passing runs is proved. Only
model-checked: the liveness properties (`SignInSettles`, `ModelCatchesUp`, `ToastsGo`,
`Drains`, `CancelStops`, `SendsConfirmed` and the liveness half of `KeepsPromise`), which
are out of the prover's reach, and the two violations.

## Not modelled

Texts and layout; the kinds of second factor; `Storage::migrate` of the SQLite
schema; the byte layout of a local pairing code; the session's JSON files other
than the pairing; the relay host; the status line and FaceTime. Which of several
messages of the same second SQLite cuts off at the edge of the 500-row window is
left out. Of the kept layer: `api/mirrors.rs`, which declares rustpush's types again
for the code generator and has no behaviour, and the calls of `api.rs` and
`native.rs` that pass one request on to rustpush and convert the answer (messages,
attachments, passwords, Find My, FaceTime, cloud sync, posters, albums).

Seen while reading and left without a property: every tap stores one more reaction
row, because `handle_id` is NULL (`storage.rs:422`; `AddReaction` counts them, no code
reads them); the preview of a chat is the last insert's text (`storage.rs:378`) and the
header's title the one at selection (`Main.qml:125`); a receive loop that lags loses
frames (`receive.rs:124`), which is a message that is never delivered in `Storage`;
`set_relay_host` changes memory before the write that may fail (`app.rs:95`);
`send_parts` sends as an iMessage whatever the chat's service (`integration.rs:176`).

## Plan

In this order:

1. Sidebar and header: `list_chats` order, preview, selection, `chatByGuid`.
2. `Composer`: edit mode across chat switches and unsends; the tail-following view.
3. Abstract specifications: an inbox (a set of messages per participant set, a
   badge, a date) implemented by `Storage` under a refinement mapping, and an
   account with one state implemented by `AuthFlow` when writers do not overlap.
4. Pure algorithms: link splitting, run and day annotation.
