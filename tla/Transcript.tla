----------------------------- MODULE Transcript -----------------------------
(***************************************************************************)
(* How the transcript on screen follows the message store: the receive     *)
(* loop and the local operations write rows and send events               *)
(* (rust/src/receive.rs, rust/src/ffi.rs, rust/src/events.rs), CoreBridge  *)
(* drains the events on a timer and coalesces them (app/core_bridge.cpp),  *)
(* and MessageListModel fetches the newest rows again and tells the view   *)
(* either that rows were appended or that everything changed               *)
(* (app/message_list_model.cpp).                                           *)
(*                                                                         *)
(* A row is its guid and a version; every edit or unsend makes a new       *)
(* version.  A chat's messages are a sequence in display order, that is by *)
(* date.  Dates are the senders' clocks, so a message may land anywhere.   *)
(***************************************************************************)
EXTENDS Naturals, FiniteSets, Sequences, SequencesExt

CONSTANTS
    Chat,       \* chat guids
    Remote,     \* ids of inbound messages
    Local,      \* ids of messages written here
    Home,       \* the chat each inbound message belongs to
    NoChat,     \* the empty guid
    Limit,      \* kMessageLimit
    Failing,    \* the calls of the store that may fail: "insert", "list"
    MaxVersion, \* bound: edits and unsends per message
    MaxEvents   \* bound: events in the channel

ASSUME TranscriptAssumption ==
    /\ Home \in [Remote -> Chat]
    /\ NoChat \notin Chat
    /\ Remote \cap Local = {}
    /\ Failing \subseteq {"insert", "list"}
    /\ Limit \in Nat \ {0}
    /\ MaxVersion \in Nat /\ MaxEvents \in Nat

Row == [guid : Remote \cup Local, version : 0 .. MaxVersion]

VARIABLES
    store,    \* messages of each chat in display order
    landed,   \* chat of a message stored but not announced yet, or NoChat
    events,   \* the channel: chats of message_arrived, _sent and _failed
    failed,   \* local messages with no send task: it reported a failure, or
              \* was never started
    open,     \* MessageListModel::m_chatGuid
    rows,     \* MessageListModel::m_rows
    onScreen, \* what the view's delegates hold
    signal,   \* what the last refresh told the view
    missed    \* history: since the open chat's rows were last read, a store
              \* that failed half way wrote to it, or reading them failed

vars == <<store, landed, events, failed, open, rows, onScreen, signal, missed>>

Guids(s) == [i \in DOMAIN s |-> s[i].guid]
Stored(c) == {store[c][i].guid : i \in DOMAIN store[c]}

(* list_messages: the newest Limit rows, oldest first.  (Which of several rows
   of one second the LIMIT cuts off is SQLite's choice and left out.) *)
Newest(s) == IF Len(s) <= Limit THEN s ELSE SubSeq(s, Len(s) - Limit + 1, Len(s))

(* fetchRows, when list_messages gives rows. *)
Fetch(st, c) == IF c = NoChat THEN <<>> ELSE Newest(st[c])

Init ==
    /\ store = [c \in Chat |-> <<>>]
    /\ landed = NoChat /\ events = <<>> /\ failed = {}
    /\ open = NoChat /\ rows = <<>> /\ onScreen = <<>> /\ signal = "none"
    /\ missed = FALSE

-----------------------------------------------------------------------------
(* MessageListModel::refresh.  The append is detected by guid; the view then
   builds only the new rows and keeps the delegates of the others.         *)

(* Mutant: longer means appended. *)
IsAppendByLength(next) == Len(next) > Len(rows) /\ rows # <<>>

IsAppend(next) == /\ Len(next) > Len(rows)
                  /\ rows # <<>>
                  /\ \A i \in DOMAIN rows : rows[i].guid = next[i].guid

Refresh(next) ==
    /\ rows' = next
    /\ IF IsAppend(next)
       THEN /\ onScreen' = onScreen \o SubSeq(next, Len(rows) + 1, Len(next))
            /\ signal' = "append"
       ELSE onScreen' = next /\ signal' = "reset"

(* The refresh of chat c.  When list_messages fails the core gives no rows at
   all and a toast says so; nothing asks again. *)
Reload(st, c) ==
    \/ Refresh(Fetch(st, c)) /\ missed' = FALSE
    \/ /\ c # NoChat /\ "list" \in Failing
       /\ Refresh(<<>>) /\ missed' = TRUE

(* Mutant: the empty guid is taken for a chat's. *)
MessagesChangedExactly(guid, st) ==
    IF guid = open THEN Reload(st, open)
    ELSE UNCHANGED <<rows, onScreen, signal, missed>>

(* onCoreMessagesChanged, for a store that may just have changed. *)
MessagesChanged(guid, st) ==
    IF guid \in {NoChat, open} THEN Reload(st, open)
    ELSE UNCHANGED <<rows, onScreen, signal, missed>>

-----------------------------------------------------------------------------
(* The receive loop: store_message, and after the mutex is dropped the event. *)

(* Where INSERT OR REPLACE can put a message.  Delivered again it has its date
   but a new rowid, so it falls behind those of the same second. *)
Landing(c, g) ==
    LET row == [guid |-> g, version |-> 0]
        i == CHOOSE k \in DOMAIN store[c] : store[c][k].guid = g
    IN  IF g \in Stored(c)
        THEN {InsertAt(RemoveAt(store[c], i), k, row) : k \in i .. Len(store[c])}
        ELSE {InsertAt(store[c], k, row) : k \in 1 .. Len(store[c]) + 1}

Arrive(g) ==
    /\ landed = NoChat
    /\ \E s \in Landing(Home[g], g) : store' = [store EXCEPT ![Home[g]] = s]
    /\ landed' = Home[g]
    /\ UNCHANGED <<events, failed, open, rows, onScreen, signal, missed>>

(* insert_message fails after the statement that stores the row: the loop sends
   Event::Error, which is a toast and refreshes nothing.  (A store_message that
   fails earlier leaves the rows as they were.) *)
ArriveFails(g) ==
    /\ landed = NoChat /\ "insert" \in Failing
    /\ \E s \in Landing(Home[g], g) : store' = [store EXCEPT ![Home[g]] = s]
    /\ missed' = (missed \/ open = Home[g])
    /\ UNCHANGED <<landed, events, failed, open, rows, onScreen, signal>>

Announce ==
    /\ landed # NoChat /\ Len(events) < MaxEvents
    /\ events' = Append(events, landed)
    /\ landed' = NoChat
    /\ UNCHANGED <<store, failed, open, rows, onScreen, signal, missed>>

-----------------------------------------------------------------------------
(* The UI thread.                                                          *)

(* A click in the sidebar: setChatGuid.  markChatRead, which follows, changes
   no row on screen. *)
SelectChat(c) ==
    /\ open # c
    /\ open' = c
    /\ Reload(store, c)
    /\ UNCHANGED <<store, landed, events, failed>>

(* The row of a message written here, and the refresh by which sendMessage and
   attachFile end however the core's call went. *)
Write(g) ==
    /\ open # NoChat /\ \A c \in Chat : g \notin Stored(c)
    /\ \E s \in Landing(open, g) :
          /\ store' = [store EXCEPT ![open] = s]
          /\ MessagesChanged(open, store')

(* sendMessage: the row, the event, the refresh, in one call. *)
SendMessage(g) ==
    /\ Len(events) < MaxEvents
    /\ Write(g)
    /\ events' = Append(events, open)
    /\ UNCHANGED <<landed, failed, open>>

(* sendMessage whose insert_message fails after the row is stored: no event and
   no send task. *)
SendCutShort(g) ==
    /\ "insert" \in Failing
    /\ Write(g)
    /\ failed' = failed \cup {g}
    /\ UNCHANGED <<landed, events, open>>

(* The send task reports a failure.  (A success reports nothing.) *)
SendFails(g) ==
    /\ g \notin failed /\ Len(events) < MaxEvents
    /\ \E c \in Chat : g \in Stored(c) /\ events' = Append(events, c)
    /\ failed' = failed \cup {g}
    /\ UNCHANGED <<store, landed, open, rows, onScreen, signal, missed>>

(* editMessage and unsendMessage rewrite the row and refresh.  The composer
   can hold an edit of a message of a chat that is no longer the open one. *)
ChangeMessage(g) ==
    /\ \E c \in Chat, i \in 1 .. Cardinality(Remote \cup Local) :
          /\ i <= Len(store[c]) /\ store[c][i].guid = g
          /\ store[c][i].version < MaxVersion
          /\ store' = [store EXCEPT ![c][i].version = @ + 1]
    /\ MessagesChanged(NoChat, store')
    /\ UNCHANGED <<landed, events, failed, open>>

(* tapback stores a reaction, which no row shows, and refreshes. *)
Tapback ==
    /\ rows # <<>>
    /\ MessagesChanged(NoChat, store)
    /\ UNCHANGED <<store, landed, events, failed, open>>

(* Mutant: the first chat of the burst wins. *)
MarkFirst(dirty, guid) ==
    IF dirty.any THEN dirty ELSE [any |-> TRUE, for |-> guid]

(* markMessages: the one chat that moved, or the empty guid for several. *)
MarkMessages(dirty, guid) ==
    IF dirty.any /\ dirty.for # guid THEN [any |-> TRUE, for |-> NoChat]
    ELSE IF ~dirty.any THEN [any |-> TRUE, for |-> guid]
    ELSE dirty

(* The loop of pollEvents: the mark once every event of a burst is drained. *)
Coalesced(burst) ==
    LET mark[n \in 0 .. Len(burst)] ==
            IF n = 0 THEN [any |-> FALSE, for |-> NoChat]
            ELSE MarkMessages(mark[n - 1], burst[n])
    IN  mark[Len(burst)].for

PollEvents ==
    /\ events # <<>>
    /\ MessagesChanged(Coalesced(events), store)
    /\ events' = <<>>
    /\ UNCHANGED <<store, landed, failed, open>>

(* The view drops a delegate that scrolls far away and builds it anew from
   the model when it comes back. *)
RebuildDelegate(i) ==
    /\ i \in DOMAIN onScreen
    /\ onScreen' = [onScreen EXCEPT ![i] = rows[i]]
    /\ UNCHANGED <<store, landed, events, failed, open, rows, signal, missed>>

Next ==
    \/ \E g \in Remote : Arrive(g) \/ ArriveFails(g)
    \/ Announce
    \/ \E c \in Chat : SelectChat(c)
    \/ \E g \in Local : \/ SendMessage(g) \/ SendCutShort(g)
                        \/ SendFails(g) \/ ChangeMessage(g)
    \/ Tapback
    \/ PollEvents
    \/ \E i \in 1 .. Limit : RebuildDelegate(i)

Spec == Init /\ [][Next]_vars

(* The event of a message stored without an error follows, and the poll timer
   keeps firing. *)
FairSpec == Spec /\ WF_vars(Announce) /\ WF_vars(PollEvents)

-----------------------------------------------------------------------------
(* Properties.                                                             *)

(* The store, the model and the view hold rows, and every event in the channel
   names a chat. *)
TypeOK ==
    /\ store \in [Chat -> Seq(Row)]
    /\ landed \in Chat \cup {NoChat} /\ open \in Chat \cup {NoChat}
    /\ events \in Seq(Chat) /\ Len(events) <= MaxEvents
    /\ failed \subseteq Local
    /\ rows \in Seq(Row) /\ onScreen \in Seq(Row)
    /\ signal \in {"none", "append", "reset"}
    /\ missed \in BOOLEAN

(* The model's rows differ from the store's only while the event that will
   refresh them is on its way, or after a failure the user was told of that no
   refresh has followed: a store that failed half way, or a list_messages that
   failed.  No write that succeeded is missed, whatever events are coalesced
   with its own and whichever chat is open by then, and the first refresh that
   reads the rows puts every failure right. *)
StaleIsAnnounced ==
    rows # Fetch(store, open) =>
        open = landed \/ open \in ToSet(events) \/ missed

(* The view holds exactly the model's rows, in order: an append is never
   signalled for a list that changed shape, so that no line is doubled, lost
   or shown in another chat. *)
ViewInStep == Guids(onScreen) = Guids(rows)

(* Again and again the rows of the open chat are those of the store, unless a
   failure came after the last refresh: whatever is written, in whatever order
   its events are drained, the model catches up as soon as writing pauses. *)
ModelCatchesUp == []<>(missed \/ rows = Fetch(store, open))

(* message_list_model.cpp takes a longer list with the same leading guids for
   "messages appended to an otherwise unchanged list": then the lines on
   screen would catch up with the store too. *)
ScreenCatchesUp == []<>(onScreen = Fetch(store, open))
=============================================================================
