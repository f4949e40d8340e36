------------------------------ MODULE Storage ------------------------------
(***************************************************************************)
(* The SQLite store of the core (rust/src/storage.rs) together with the    *)
(* callers that write messages into it: the receive loop's store_message   *)
(* (rust/src/receive.rs) and the local operations of rust/src/ffi.rs.      *)
(*                                                                         *)
(* Every caller runs under one mutex, so operations do not interleave; but *)
(* only set_chat_participants is a transaction.  Every other SQL statement *)
(* commits by itself, so an operation of several statements can be cut off *)
(* between two of them, by an error (the `?' after each statement) or by   *)
(* the death of the process.  A step of this module is one statement.      *)
(*                                                                         *)
(* Left out of the rows, because no property here tells values apart:      *)
(* texts, previews, titles, display names, the is_group flag and the file  *)
(* columns of an attachment.  Timestamps that only say whether something   *)
(* happened (date_read, date_edited) are Booleans.                         *)
(***************************************************************************)
EXTENDS Naturals, FiniteSets

CONSTANTS
    Address,      \* addresses as they are spelled on the wire
    Lower,        \* str::to_lowercase, a function on Address
    Service,      \* "iMessage", "SMS"
    Conversation, \* the participant sets that occur, sets of addresses
    RemoteGuid,   \* ids of inbound messages, chosen by their senders
    TempGuid,     \* "temp-<uuid>" ids of messages written locally
    AttGuid,      \* "attach-<uuid>" ids of attached files
    Reaction,     \* the tapbacks of the message menu
    Frame,        \* the inbound messages APS may hand over, see FrameType
    NoHandle,     \* SQL NULL in messages.handle_id; an absent sender
    NoRow,        \* no row with this primary key
    Free,         \* the storage mutex is not held by an insert
    MaxDate,      \* bound: timestamps are 1..MaxDate
    MaxUnread,    \* bound: no arrival once unread_count is this large
    MaxReactions, \* bound: rows per message and tapback
    MaxAborts     \* bound: operations cut off per chat before it is read

-----------------------------------------------------------------------------
(* Keys and rows.                                                          *)

(* Mutant: the addresses are joined as they are spelled. *)
chat_guid_as_spelled(who, svc) == [service |-> svc, who |-> who]

(* A chat guid is the service and the set of lower-cased addresses: sorting
   and removing duplicates before joining makes the string a function of the
   set, and addresses hold no comma, so of nothing less. *)
chat_guid_for(who, svc) == [service |-> svc, who |-> {Lower[a] : a \in who}]

Chat == {chat_guid_for(who, svc) : who \in Conversation, svc \in Service}

(* UNIQUE(address, service): the pair stands for the AUTOINCREMENT id. *)
Handle == Address \X Service

MsgGuid == RemoteGuid \cup TempGuid

Date == 1 .. MaxDate

ChatRow == [unread : Nat, last : Nat, pinned : BOOLEAN, archived : BOOLEAN]

(* The DEFAULTs of the chats table. *)
NewChatRow == [unread |-> 0, last |-> 0, pinned |-> FALSE, archived |-> FALSE]

MessageRow ==
    [chat : Chat, handle : Handle \cup {NoHandle}, fromMe : BOOLEAN, date : Date,
     read : BOOLEAN, edited : BOOLEAN, unsent : BOOLEAN, attached : BOOLEAN]

(* What a MessageInst carries that reaches the store. *)
FrameType ==
    [guid : RemoteGuid, who : Conversation, service : Service,
     sender : Address \cup {NoHandle}, date : Date, attached : BOOLEAN]

(* An insert holding the mutex: its next statement and its arguments.  todo
   are the participants whose handles are still to be upserted. *)
Statement ==
    {"upsert_chat", "upsert_handle", "set_participants", "upsert_sender",
     "insert_row", "touch_chat", "bump_unread",
     "insert_attachment", "flag_attachment"}

Insert ==
    [pc : Statement, who : SUBSET Handle, todo : SUBSET Handle,
     guid : MsgGuid, row : MessageRow, att : SUBSET AttGuid]

ASSUME LowerAssumption == Lower \in [Address -> Address]

ASSUME ConversationAssumption == Conversation \subseteq SUBSET Address

ASSUME FrameAssumption == Frame \subseteq FrameType

ASSUME GuidAssumption == IsFiniteSet(RemoteGuid) /\ IsFiniteSet(TempGuid)
                         /\ RemoteGuid \cap TempGuid = {}

ASSUME BoundAssumption == {MaxDate, MaxUnread, MaxReactions, MaxAborts} \subseteq Nat

ASSUME NullAssumption == /\ NoRow \notin ChatRow \cup MessageRow
                         /\ NoHandle \notin Handle
                         /\ NoHandle \notin Address
                         /\ Free \notin Insert

-----------------------------------------------------------------------------
VARIABLES
    chats,        \* table chats: guid -> row or NoRow
    handles,      \* table handles
    chatHandles,  \* table chat_handles, <<chat guid, handle>>
    messages,     \* table messages: guid -> row or NoRow
    reactions,    \* table reactions: rows per <<message guid, tapback>>
    attachments,  \* table attachments, <<attachment guid, message guid>>
    files,        \* copies under <data_dir>/attachments, by attachment guid
    insert,       \* the insert that holds the mutex, or Free
    marking,      \* the chat a mark_chat_read that holds the mutex is about
    lost,         \* history: bumps of unread_count cut off, per chat
    untouched     \* history: chats with a row whose date never reached them

tables == <<chats, handles, chatHandles, messages, reactions, attachments>>
vars == <<tables, files, insert, marking, lost, untouched>>

LockFree == insert = Free /\ marking = {}

IsChat(c) == chats[c] # NoRow
IsMessage(g) == messages[g] # NoRow

Init ==
    /\ chats = [c \in Chat |-> NoRow]
    /\ handles = {}
    /\ chatHandles = {}
    /\ messages = [g \in MsgGuid |-> NoRow]
    /\ reactions = [x \in MsgGuid \X Reaction |-> 0]
    /\ attachments = {}
    /\ files = {}
    /\ insert = Free
    /\ marking = {}
    /\ lost = [c \in Chat |-> 0]
    /\ untouched = {}

-----------------------------------------------------------------------------
(* Operations that start an insert.                                        *)

(* store_message takes the mutex.  Everything it writes is decided here: the
   guid and the flags of the row, and is_from_me = 0 whoever the sender is. *)
StoreMessage(f) ==
    LET c == chat_guid_for(f.who, f.service)
        H == {<<a, f.service>> : a \in f.who}
    IN
    /\ LockFree
    /\ IsChat(c) => chats[c].unread < MaxUnread
    /\ insert' = [pc |-> "upsert_chat", who |-> H, todo |-> H, guid |-> f.guid,
                  row |-> [chat |-> c,
                           handle |-> IF f.sender = NoHandle THEN NoHandle
                                      ELSE <<f.sender, f.service>>,
                           fromMe |-> FALSE, date |-> f.date, read |-> FALSE,
                           edited |-> FALSE, unsent |-> FALSE,
                           attached |-> f.attached],
                  att |-> {}]
    /\ UNCHANGED <<tables, files, marking, lost, untouched>>

(* The row a local message is written with; now is the clock's reading. *)
LocalRow(c, now, hasFile) ==
    [chat |-> c, handle |-> NoHandle, fromMe |-> TRUE, date |-> now,
     read |-> FALSE, edited |-> FALSE, unsent |-> FALSE, attached |-> hasFile]

(* Mutant: the guid of a local message is not unique. *)
SendMessageReusingGuid(g, c, now) ==
    /\ LockFree /\ IsChat(c)
    /\ insert' = [pc |-> "insert_row", who |-> {}, todo |-> {}, guid |-> g,
                  row |-> LocalRow(c, now, FALSE), att |-> {}]
    /\ UNCHANGED <<tables, files, marking, lost, untouched>>

(* send_message_local: a fresh temp guid, no handle.  The task that hands the
   message to the network touches no table. *)
SendMessage(g, c, now) ==
    /\ LockFree /\ IsChat(c) /\ ~IsMessage(g)
    /\ insert' = [pc |-> "insert_row", who |-> {}, todo |-> {}, guid |-> g,
                  row |-> LocalRow(c, now, FALSE), att |-> {}]
    /\ UNCHANGED <<tables, files, marking, lost, untouched>>

(* Mutant: the rows are written first and the copy is made later. *)
AttachFileUncopied(a, g, c, now) ==
    /\ LockFree /\ IsChat(c) /\ ~IsMessage(g) /\ a \notin files
    /\ insert' = [pc |-> "insert_row", who |-> {}, todo |-> {}, guid |-> g,
                  row |-> LocalRow(c, now, TRUE), att |-> {a}]
    /\ UNCHANGED <<tables, files, marking, lost, untouched>>

(* attach_file_local copies the file, then takes the mutex.  Both in one
   action: until the row exists nothing else can name the copy. *)
AttachFile(a, g, c, now) ==
    /\ LockFree /\ IsChat(c) /\ ~IsMessage(g) /\ a \notin files
    /\ files' = files \cup {a}
    /\ insert' = [pc |-> "insert_row", who |-> {}, todo |-> {}, guid |-> g,
                  row |-> LocalRow(c, now, TRUE), att |-> {a}]
    /\ UNCHANGED <<tables, marking, lost, untouched>>

-----------------------------------------------------------------------------
(* The statements of an insert, in program order.  An UPDATE that matches no
   row changes nothing.                                                    *)

At(pc) == insert # Free /\ insert.pc = pc

(* Where insert_message returns to: attach_file_local goes on. *)
AfterMessage == IF insert.att = {} THEN Free
                ELSE [insert EXCEPT !.pc = "insert_attachment"]

(* The loop over the participants, which may be none. *)
AfterHandles(todo) == IF todo = {} THEN "set_participants" ELSE "upsert_handle"

(* Mutant: INSERT OR REPLACE, as for the other tables. *)
UpsertChatReplacing ==
    /\ At("upsert_chat")
    /\ chats' = [chats EXCEPT ![insert.row.chat] = NewChatRow]
    /\ insert' = [insert EXCEPT !.pc = AfterHandles(insert.todo)]
    /\ UNCHANGED <<handles, chatHandles, messages, reactions, attachments, files,
                   marking, lost, untouched>>

(* upsert_chat: ON CONFLICT rewrites only title, service and is_group. *)
UpsertChat ==
    /\ At("upsert_chat")
    /\ chats' = [chats EXCEPT ![insert.row.chat] = IF @ = NoRow THEN NewChatRow ELSE @]
    /\ insert' = [insert EXCEPT !.pc = AfterHandles(insert.todo)]
    /\ UNCHANGED <<handles, chatHandles, messages, reactions, attachments, files,
                   marking, lost, untouched>>

(* upsert_handle, once per participant. *)
UpsertHandle ==
    /\ At("upsert_handle")
    /\ \E h \in insert.todo :
          /\ handles' = handles \cup {h}
          /\ insert' = [insert EXCEPT
                !.todo = @ \ {h}, !.pc = AfterHandles(insert.todo \ {h})]
    /\ UNCHANGED <<chats, chatHandles, messages, reactions, attachments, files,
                   marking, lost, untouched>>

(* set_chat_participants, the one transaction of the store. *)
SetChatParticipants ==
    /\ At("set_participants")
    /\ chatHandles' = {x \in chatHandles : x[1] # insert.row.chat}
                      \cup ({insert.row.chat} \X insert.who)
    /\ insert' = [insert EXCEPT !.pc = "upsert_sender"]
    /\ UNCHANGED <<chats, handles, messages, reactions, attachments, files,
                   marking, lost, untouched>>

(* Mutant: the sender is taken to be a participant. *)
UpsertSenderSkipped ==
    /\ At("upsert_sender")
    /\ insert' = [insert EXCEPT !.pc = "insert_row"]
    /\ UNCHANGED <<tables, files, marking, lost, untouched>>

(* The sender need not be one of the participants. *)
UpsertSender ==
    /\ At("upsert_sender")
    /\ handles' = handles \cup ({insert.row.handle} \ {NoHandle})
    /\ insert' = [insert EXCEPT !.pc = "insert_row"]
    /\ UNCHANGED <<chats, chatHandles, messages, reactions, attachments, files,
                   marking, lost, untouched>>

(* What messages.chat_guid and messages.handle_id must refer to. *)
RowReferencesExist(row) == /\ IsChat(row.chat)
                           /\ row.handle \in handles \cup {NoHandle}

(* INSERT OR REPLACE deletes the row it replaces, and the foreign keys of
   reactions and attachments cascade from it. *)
InsertRow ==
    /\ At("insert_row")
    /\ RowReferencesExist(insert.row)
    /\ messages' = [messages EXCEPT ![insert.guid] = insert.row]
    /\ reactions' = [x \in MsgGuid \X Reaction |->
                        IF x[1] = insert.guid THEN 0 ELSE reactions[x]]
    /\ attachments' = {x \in attachments : x[2] # insert.guid}
    /\ insert' = [insert EXCEPT !.pc = "touch_chat"]
    /\ UNCHANGED <<chats, handles, chatHandles, files, marking, lost, untouched>>

(* Mutant: the date of the last arrival, without MAX. *)
TouchedLastArrival(row, date) ==
    IF row = NoRow THEN NoRow ELSE [row EXCEPT !.last = date]

(* last_message_date only grows. *)
Touched(row, date) ==
    IF row = NoRow THEN NoRow
    ELSE [row EXCEPT !.last = IF @ < date THEN date ELSE @]

TouchChat ==
    /\ At("touch_chat")
    /\ chats' = [chats EXCEPT ![insert.row.chat] = Touched(@, insert.row.date)]
    /\ insert' = IF insert.row.fromMe THEN AfterMessage
                 ELSE [insert EXCEPT !.pc = "bump_unread"]
    /\ UNCHANGED <<handles, chatHandles, messages, reactions, attachments, files,
                   marking, lost, untouched>>

(* Mutant: a flag instead of a count. *)
BumpedToOne(row) == IF row = NoRow THEN NoRow ELSE [row EXCEPT !.unread = 1]

Bumped(row) == IF row = NoRow THEN NoRow ELSE [row EXCEPT !.unread = @ + 1]

BumpUnread ==
    /\ At("bump_unread")
    /\ chats' = [chats EXCEPT ![insert.row.chat] = Bumped(@)]
    /\ insert' = AfterMessage
    /\ UNCHANGED <<handles, chatHandles, messages, reactions, attachments, files,
                   marking, lost, untouched>>

InsertAttachment ==
    /\ At("insert_attachment")
    /\ IsMessage(insert.guid)
    /\ attachments' = {x \in attachments : x[1] \notin insert.att}
                      \cup (insert.att \X {insert.guid})
    /\ insert' = [insert EXCEPT !.pc = "flag_attachment"]
    /\ UNCHANGED <<chats, handles, chatHandles, messages, reactions, files,
                   marking, lost, untouched>>

FlagAttachment ==
    /\ At("flag_attachment")
    /\ messages' = [messages EXCEPT ![insert.guid] =
                       IF @ = NoRow THEN NoRow ELSE [@ EXCEPT !.attached = TRUE]]
    /\ insert' = Free
    /\ UNCHANGED <<chats, handles, chatHandles, reactions, attachments, files,
                   marking, lost, untouched>>

(* A statement fails and `?' returns early, or the process dies: what has run
   stays, the rest never runs, and the mutex is free again (for the next
   caller or for the next process). *)
AbortInsert ==
    LET c == insert.row.chat IN
    /\ insert # Free
    /\ lost[c] < MaxAborts
    /\ insert' = Free
    /\ lost' = IF insert.pc \in {"touch_chat", "bump_unread"} /\ ~insert.row.fromMe
               THEN [lost EXCEPT ![c] = @ + 1] ELSE lost
    /\ untouched' = IF insert.pc = "touch_chat" THEN untouched \cup {c}
                    ELSE untouched
    /\ UNCHANGED <<tables, files, marking>>

-----------------------------------------------------------------------------
(* mark_chat_read: two statements.                                         *)

MarkMessages(c) ==
    /\ LockFree /\ IsChat(c)
    /\ messages' = [g \in MsgGuid |->
          IF IsMessage(g) /\ messages[g].chat = c /\ ~messages[g].fromMe
          THEN [messages[g] EXCEPT !.read = TRUE] ELSE messages[g]]
    /\ marking' = {c}
    /\ UNCHANGED <<chats, handles, chatHandles, reactions, attachments, files,
                   insert, lost, untouched>>

ZeroUnread(c) ==
    /\ c \in marking
    /\ chats' = [chats EXCEPT ![c] =
                    IF @ = NoRow THEN NoRow ELSE [@ EXCEPT !.unread = 0]]
    /\ lost' = [lost EXCEPT ![c] = 0]
    /\ marking' = {}
    /\ UNCHANGED <<handles, chatHandles, messages, reactions, attachments, files,
                   insert, untouched>>

AbortMark ==
    /\ marking # {}
    /\ marking' = {}
    /\ UNCHANGED <<tables, files, insert, lost, untouched>>

-----------------------------------------------------------------------------
(* Operations of one statement.                                            *)

PinChat(c, pinned) ==
    /\ LockFree /\ IsChat(c)
    /\ chats' = [chats EXCEPT ![c].pinned = pinned]
    /\ UNCHANGED <<handles, chatHandles, messages, reactions, attachments, files,
                   insert, marking, lost, untouched>>

ArchiveChat(c, archived) ==
    /\ LockFree /\ IsChat(c)
    /\ chats' = [chats EXCEPT ![c].archived = archived]
    /\ UNCHANGED <<handles, chatHandles, messages, reactions, attachments, files,
                   insert, marking, lost, untouched>>

(* tapback_local: handle_id is NULL, and a NULL in the primary key conflicts
   with nothing, so OR REPLACE never replaces: a second tap is a second row. *)
AddReaction(g, r) ==
    /\ LockFree /\ IsMessage(g)
    /\ reactions[<<g, r>>] < MaxReactions
    /\ reactions' = [reactions EXCEPT ![<<g, r>>] = @ + 1]
    /\ UNCHANGED <<chats, handles, chatHandles, messages, attachments, files,
                   insert, marking, lost, untouched>>

(* The message menu offers Edit and Unsend on one's own messages only.  It
   hides Edit on an unsent one, but an edit begun before the unsend is still
   submitted, so is_unsent is no guard here. *)
EditMessage(g) ==
    /\ LockFree /\ IsMessage(g) /\ messages[g].fromMe
    /\ messages' = [messages EXCEPT ![g].edited = TRUE]
    /\ UNCHANGED <<chats, handles, chatHandles, reactions, attachments, files,
                   insert, marking, lost, untouched>>

UnsendMessage(g) ==
    /\ LockFree /\ IsMessage(g) /\ messages[g].fromMe
    /\ messages' = [messages EXCEPT ![g].unsent = TRUE]
    /\ UNCHANGED <<chats, handles, chatHandles, reactions, attachments, files,
                   insert, marking, lost, untouched>>

-----------------------------------------------------------------------------
Begin ==
    \/ \E f \in Frame : StoreMessage(f)
    \/ \E g \in TempGuid, c \in Chat, now \in Date : SendMessage(g, c, now)
    \/ \E a \in AttGuid, g \in TempGuid, c \in Chat, now \in Date :
          AttachFile(a, g, c, now)

InsertStep ==
    \/ UpsertChat \/ UpsertHandle \/ SetChatParticipants \/ UpsertSender
    \/ InsertRow \/ TouchChat \/ BumpUnread
    \/ InsertAttachment \/ FlagAttachment \/ AbortInsert

MarkStep ==
    \/ \E c \in Chat : MarkMessages(c) \/ ZeroUnread(c)
    \/ AbortMark

SingleStep ==
    \/ \E c \in Chat, b \in BOOLEAN : PinChat(c, b) \/ ArchiveChat(c, b)
    \/ \E g \in MsgGuid, r \in Reaction : AddReaction(g, r)
    \/ \E g \in MsgGuid : EditMessage(g) \/ UnsendMessage(g)

Next == Begin \/ InsertStep \/ MarkStep \/ SingleStep

Spec == Init /\ [][Next]_vars

-----------------------------------------------------------------------------
(* Properties.                                                             *)

(* The tables, the files and the bookkeeping of the running operation are
   well formed, and no two operations hold the mutex. *)
TypeOK ==
    /\ chats \in [Chat -> ChatRow \cup {NoRow}]
    /\ handles \subseteq Handle
    /\ chatHandles \subseteq Chat \X Handle
    /\ messages \in [MsgGuid -> MessageRow \cup {NoRow}]
    /\ reactions \in [MsgGuid \X Reaction -> Nat]
    /\ attachments \subseteq AttGuid \X MsgGuid
    /\ files \subseteq AttGuid
    /\ insert \in Insert \cup {Free}
    /\ marking \subseteq Chat
    /\ lost \in [Chat -> Nat]
    /\ untouched \subseteq Chat
    /\ insert = Free \/ marking = {}

(* store_message upserts what a row refers to before it inserts the row: the
   foreign keys, which would fail the statement and drop the message, never
   refuse one, and the transaction of set_chat_participants neither. *)
InsertNeverRefused ==
    /\ At("insert_row") => RowReferencesExist(insert.row)
    /\ At("set_participants") => IsChat(insert.row.chat) /\ insert.who \subseteq handles
    /\ At("insert_attachment") => IsMessage(insert.guid)

Unread(c) == {g \in MsgGuid : /\ IsMessage(g)
                              /\ messages[g].chat = c
                              /\ ~messages[g].fromMe
                              /\ ~messages[g].read}

(* The bump of the unread count an insert still owes chat c. *)
Owed(c) == IF /\ insert # Free
              /\ insert.pc \in {"touch_chat", "bump_unread"}
              /\ ~insert.row.fromMe
              /\ insert.row.chat = c
           THEN 1 ELSE 0

(* The badge of a chat never falls short of its unread messages by more than
   the inserts that were cut off before their last statement since the chat
   was last read (and the one that is running).  Re-delivery makes it too
   large, never too small. *)
UnreadAccounted ==
    \A c \in Chat : IsChat(c) =>
        Cardinality(Unread(c)) <= chats[c].unread + lost[c] + Owed(c)

(* A chat sorts in the sidebar by last_message_date, which is never older
   than one of its messages, whatever the order of arrival, unless an insert
   was cut off between the row and the chat. *)
LastDateCovers ==
    \A g \in MsgGuid : IsMessage(g) =>
        \/ messages[g].date <= chats[messages[g].chat].last
        \/ messages[g].chat \in untouched
        \/ At("touch_chat") /\ insert.guid = g

(* The participants stored for a chat are all of the chat's service and are,
   case apart, the set its guid was computed from (or none, when the first
   insert was cut off): a reply is addressed to exactly the participants of the
   thread it is shown in, and a participant set has no second thread. *)
ThreadKey ==
    \A c \in Chat :
        LET P == {x[2] : x \in {y \in chatHandles : y[1] = c}} IN
        P # {} => /\ {Lower[h[1]] : h \in P} = c.who
                  /\ \A h \in P : h[2] = c.service

(* attach_file_local copies before it inserts: an attachment row always names
   a copy that exists, and a message flagged for it. *)
AttachmentHasFile ==
    \A x \in attachments :
        x[1] \in files /\ IsMessage(x[2]) /\ messages[x[2]].attached

(* No step removes a chat, a message or an attachment, and unsending is
   final: INSERT OR REPLACE, with its cascades, only ever meets inbound
   messages, which are never unsent here and own no attachment row. *)
NothingVanishes ==
    [][/\ \A c \in Chat : IsChat(c) => IsChat(c)'
       /\ \A g \in MsgGuid : IsMessage(g) =>
             IsMessage(g)' /\ (messages[g].unsent => messages'[g].unsent)
       /\ attachments \subseteq attachments']_vars

(* A multi-statement operation, an arriving message above all, leaves what
   the user set on any chat alone (pin, archive), and takes back a read mark
   only from the message being delivered again. *)
UserStateKept ==
    [][~LockFree =>
        /\ \A c \in Chat : IsChat(c) =>
              /\ chats'[c].pinned = chats[c].pinned
              /\ chats'[c].archived = chats[c].archived
        /\ \A g \in MsgGuid : IsMessage(g) /\ messages[g].read =>
              messages'[g].read \/ insert.guid = g]_vars

-----------------------------------------------------------------------------
(* The inductive invariant behind the safety properties.  Each conjunct says
   what an operation in progress has already established.                  *)

(* An insert past a statement has that statement's effect to rely on. *)
InsertProgress ==
    insert # Free =>
        /\ insert.pc # "upsert_chat" => IsChat(insert.row.chat)
        /\ insert.who \ insert.todo \subseteq handles
        /\ insert.pc \notin {"upsert_chat", "upsert_handle"} => insert.todo = {}
        /\ insert.pc \notin {"upsert_chat", "upsert_handle", "set_participants", "upsert_sender"}
              => insert.row.handle \in handles \cup {NoHandle}
        /\ insert.pc \in {"touch_chat", "bump_unread", "insert_attachment", "flag_attachment"}
              => messages[insert.guid] = insert.row

(* A message's chat is stored, and mark_chat_read has left nothing unread. *)
MessagesHaveChats == \A g \in MsgGuid : IsMessage(g) => IsChat(messages[g].chat)
MarkProgress == \A c \in marking : Unread(c) = {}

IInv == TypeOK /\ InsertProgress /\ MessagesHaveChats /\ MarkProgress

(* The participants P are, case apart, the set chat c is named after. *)
Addressed(c, P) == /\ {Lower[h[1]] : h \in P} = c.who
                   /\ \A h \in P : h[2] = c.service

(* Where an insert comes from shows in its guid: a temp guid is the user's own
   message, new until its row is written, whose file, if it has one, is copied
   and not yet attached; any other came from the network and names the
   participants of its thread. *)
InsertOrigin ==
    insert # Free =>
        /\ insert.row.fromMe <=> insert.guid \in TempGuid
        /\ ~insert.row.unsent
        /\ insert.pc \in {"upsert_chat", "upsert_handle", "set_participants"}
              => Addressed(insert.row.chat, insert.who)
        /\ insert.pc = "insert_row" /\ insert.guid \in TempGuid => ~IsMessage(insert.guid)
        /\ insert.pc \in {"upsert_chat", "upsert_handle", "set_participants", "upsert_sender"}
              => insert.guid \notin TempGuid
        /\ insert.att # {} => insert.row.fromMe /\ insert.row.attached
        /\ \A a \in insert.att : a \in files
        /\ \A x \in attachments : x[1] \in insert.att => insert.pc = "flag_attachment"

(* Only the user's own messages are ever unsent or own an attachment row. *)
RowOrigins ==
    /\ \A g \in MsgGuid : IsMessage(g) =>
          /\ messages[g].fromMe <=> g \in TempGuid
          /\ messages[g].unsent => messages[g].fromMe
    /\ \A x \in attachments : x[2] \in TempGuid

Origins == InsertOrigin /\ RowOrigins /\ ThreadKey /\ AttachmentHasFile
=============================================================================
