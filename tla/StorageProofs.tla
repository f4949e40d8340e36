--------------------------- MODULE StorageProofs ---------------------------
(* Theorems about Storage, for every value of its constants.               *)
EXTENDS Storage, FiniteSetTheorems, TLAPS

(* What store_message and the local senders hand to insert_message is a row
   of the messages table. *)
LEMMA InboundInsertType ==
    ASSUME NEW f \in Frame, NEW pc \in Statement
    PROVE  LET c == chat_guid_for(f.who, f.service)
               H == {<<a, f.service>> : a \in f.who}
           IN  [pc |-> pc, who |-> H, todo |-> H, guid |-> f.guid,
                row |-> [chat |-> c,
                         handle |-> IF f.sender = NoHandle THEN NoHandle
                                    ELSE <<f.sender, f.service>>,
                         fromMe |-> FALSE, date |-> f.date, read |-> FALSE,
                         edited |-> FALSE, unsent |-> FALSE,
                         attached |-> f.attached],
                att |-> {}] \in Insert
<1> DEFINE c == chat_guid_for(f.who, f.service)
           H == {<<a, f.service>> : a \in f.who}
           h == IF f.sender = NoHandle THEN NoHandle ELSE <<f.sender, f.service>>
           r == [chat |-> c, handle |-> h, fromMe |-> FALSE, date |-> f.date,
                 read |-> FALSE, edited |-> FALSE, unsent |-> FALSE,
                 attached |-> f.attached]
<1>1. /\ f.guid \in RemoteGuid /\ f.who \in Conversation /\ f.service \in Service
      /\ f.sender \in Address \cup {NoHandle} /\ f.date \in Date
      /\ f.attached \in BOOLEAN
  BY FrameAssumption DEF FrameType
<1>2. c \in Chat
  BY <1>1 DEF Chat
<1>3. H \in SUBSET Handle
  BY <1>1, ConversationAssumption DEF Handle
<1>4. h \in Handle \cup {NoHandle}
  BY <1>1 DEF Handle
<1>5. r \in MessageRow
  <2> HIDE DEF c, h
  <2> QED BY <1>1, <1>2, <1>4 DEF MessageRow
<1>6. [pc |-> pc, who |-> H, todo |-> H, guid |-> f.guid, row |-> r, att |-> {}] \in Insert
  <2> HIDE DEF r, H
  <2> QED BY <1>1, <1>3, <1>5 DEF Insert, MsgGuid
<1> QED BY <1>6

(* The row a local send or attachment stores has the type of a message row. *)
LEMMA LocalInsertType ==
    ASSUME NEW g \in TempGuid, NEW c \in Chat, NEW now \in Date,
           NEW hasFile \in BOOLEAN, NEW A \in SUBSET AttGuid
    PROVE  /\ LocalRow(c, now, hasFile) \in MessageRow
           /\ [pc |-> "insert_row", who |-> {}, todo |-> {}, guid |-> g,
               row |-> LocalRow(c, now, hasFile), att |-> A] \in Insert
<1>1. LocalRow(c, now, hasFile) \in MessageRow
  BY DEF LocalRow, MessageRow
<1> QED BY <1>1 DEF Insert, MsgGuid, Statement

(* The columns the UPDATEs of the messages table set. *)
LEMMA UpdatedRowType ==
    ASSUME NEW r \in MessageRow
    PROVE  /\ [r EXCEPT !.read = TRUE] \in MessageRow
           /\ [r EXCEPT !.edited = TRUE] \in MessageRow
           /\ [r EXCEPT !.unsent = TRUE] \in MessageRow
           /\ [r EXCEPT !.attached = TRUE] \in MessageRow
BY DEF MessageRow

(* Every step of the program keeps the tables well formed. *)
LEMMA TypeStep == TypeOK /\ [Next]_vars => TypeOK'
<1> SUFFICES ASSUME TypeOK, [Next]_vars PROVE TypeOK'
  OBVIOUS
<1> USE DEF TypeOK
<1>0. ASSUME insert # Free
      PROVE  /\ insert \in Insert /\ insert.row \in MessageRow
             /\ insert.row.chat \in Chat /\ insert.guid \in MsgGuid
             /\ insert.row.date \in Nat
             /\ \A pc \in Statement : [insert EXCEPT !.pc = pc] \in Insert
  <2>1. insert \in Insert
    BY <1>0
  <2>2. insert.row \in MessageRow /\ insert.guid \in MsgGuid
    BY <2>1 DEF Insert
  <2>3. insert.row.chat \in Chat /\ insert.row.date \in Nat
    BY <2>2, BoundAssumption DEF MessageRow, Date
  <2>4. \A pc \in Statement : [insert EXCEPT !.pc = pc] \in Insert
    BY <2>1 DEF Insert
  <2> QED BY <2>1, <2>2, <2>3, <2>4
<1>1. CASE \E f \in Frame : StoreMessage(f)
  <2> PICK f \in Frame : StoreMessage(f)
    BY <1>1
  <2>1. insert' \in Insert
    BY InboundInsertType DEF StoreMessage, Statement
  <2> QED BY <2>1 DEF StoreMessage, LockFree, tables
<1>2. CASE \E g \in TempGuid, c \in Chat, now \in Date : SendMessage(g, c, now)
  <2> PICK g \in TempGuid, c \in Chat, now \in Date : SendMessage(g, c, now)
    BY <1>2
  <2> QED BY LocalInsertType DEF SendMessage, LockFree, tables
<1>3. CASE \E a \in AttGuid, g \in TempGuid, c \in Chat, now \in Date :
              AttachFile(a, g, c, now)
  <2> PICK a \in AttGuid, g \in TempGuid, c \in Chat, now \in Date : AttachFile(a, g, c, now)
    BY <1>3
  <2>1. insert' \in Insert
    BY LocalInsertType DEF AttachFile
  <2> QED BY <2>1 DEF AttachFile, LockFree, tables
<1>4. CASE UpsertChat
  <2>1. insert # Free /\ insert' = [insert EXCEPT !.pc = AfterHandles(insert.todo)]
    BY <1>4 DEF UpsertChat, At
  <2>2. NewChatRow \in ChatRow
    BY DEF NewChatRow, ChatRow
  <2>3. chats' \in [Chat -> ChatRow \cup {NoRow}]
    BY <1>0, <1>4, <2>1, <2>2 DEF UpsertChat
  <2> QED BY <1>0, <1>4, <2>1, <2>3 DEF UpsertChat, AfterHandles, Statement
<1>5. CASE UpsertHandle
  <2>1. insert # Free
    BY <1>5 DEF UpsertHandle, At
  <2>2. PICK h \in insert.todo :
           /\ handles' = handles \cup {h}
           /\ insert' = [insert EXCEPT
                !.todo = @ \ {h}, !.pc = AfterHandles(insert.todo \ {h})]
    BY <1>5 DEF UpsertHandle
  <2>3. h \in Handle /\ insert.todo \in SUBSET Handle
    BY <1>0, <2>1, <2>2 DEF Insert
  <2> DEFINE T == insert.todo \ {h}
             p == AfterHandles(T)
  <2>4. T \in SUBSET Handle /\ p \in Statement
    BY <2>3 DEF AfterHandles, Statement
  <2>5. insert' = [insert EXCEPT !.todo = T, !.pc = p]
    BY <2>2
  <2>6. insert' \in Insert
    <3> HIDE DEF T, p
    <3> QED BY <1>0, <2>1, <2>4, <2>5 DEF Insert
  <2> QED BY <1>5, <2>1, <2>2, <2>3, <2>6 DEF UpsertHandle
<1>6. CASE SetChatParticipants
  <2>1. insert # Free
    BY <1>6 DEF SetChatParticipants, At
  <2>2. chatHandles' \subseteq Chat \X Handle
    BY <1>0, <1>6, <2>1 DEF SetChatParticipants, Insert
  <2> QED BY <1>0, <1>6, <2>1, <2>2 DEF SetChatParticipants, Statement
<1>7. CASE UpsertSender
  <2>1. insert # Free
    BY <1>7 DEF UpsertSender, At
  <2>2. handles' \subseteq Handle
    BY <1>0, <1>7, <2>1 DEF UpsertSender, MessageRow
  <2> QED BY <1>0, <1>7, <2>1, <2>2 DEF UpsertSender, Statement
<1>8. CASE InsertRow
  <2>1. insert # Free
    BY <1>8 DEF InsertRow, At
  <2>2. reactions' \in [MsgGuid \X Reaction -> Nat]
    BY <1>8 DEF InsertRow
  <2>3. messages' \in [MsgGuid -> MessageRow \cup {NoRow}]
    BY <1>0, <1>8, <2>1 DEF InsertRow
  <2> QED BY <1>0, <1>8, <2>1, <2>2, <2>3 DEF InsertRow, Statement
<1>9. CASE TouchChat
  <2>1. insert # Free
    BY <1>9 DEF TouchChat, At
  <2>2. chats' \in [Chat -> ChatRow \cup {NoRow}]
    BY <1>0, <1>9, <2>1 DEF TouchChat, Touched, ChatRow
  <2> QED BY <1>0, <1>9, <2>1, <2>2 DEF TouchChat, AfterMessage, Statement
<1>10. CASE BumpUnread
  <2>1. insert # Free
    BY <1>10 DEF BumpUnread, At
  <2>2. chats' \in [Chat -> ChatRow \cup {NoRow}]
    BY <1>0, <1>10, <2>1 DEF BumpUnread, Bumped, ChatRow
  <2> QED BY <1>0, <1>10, <2>1, <2>2 DEF BumpUnread, AfterMessage, Statement
<1>11. CASE InsertAttachment
  <2>1. insert # Free
    BY <1>11 DEF InsertAttachment, At
  <2>2. attachments' \subseteq AttGuid \X MsgGuid
    BY <1>0, <1>11, <2>1 DEF InsertAttachment, Insert
  <2> QED BY <1>0, <1>11, <2>1, <2>2 DEF InsertAttachment, Statement
<1>12. CASE FlagAttachment
  <2>1. insert # Free
    BY <1>12 DEF FlagAttachment, At
  <2>2. messages' \in [MsgGuid -> MessageRow \cup {NoRow}]
    BY <1>0, <1>12, <2>1, UpdatedRowType DEF FlagAttachment
  <2> QED BY <1>12, <2>1, <2>2 DEF FlagAttachment
<1>13. CASE AbortInsert
  BY <1>0, <1>13 DEF AbortInsert, tables
<1>14. CASE \E c \in Chat : MarkMessages(c)
  <2> PICK c \in Chat : MarkMessages(c)
    BY <1>14
  <2>1. messages' \in [MsgGuid -> MessageRow \cup {NoRow}]
    BY UpdatedRowType DEF MarkMessages, IsMessage
  <2> QED BY <2>1 DEF MarkMessages, LockFree
<1>15. CASE \E c \in Chat : ZeroUnread(c)
  <2> PICK c \in Chat : ZeroUnread(c)
    BY <1>15
  <2>1. chats' \in [Chat -> ChatRow \cup {NoRow}]
    BY DEF ZeroUnread, ChatRow
  <2> QED BY <2>1 DEF ZeroUnread
<1>16. CASE AbortMark
  BY <1>16 DEF AbortMark, tables
<1>17. CASE \E c \in Chat, b \in BOOLEAN : PinChat(c, b) \/ ArchiveChat(c, b)
  <2>1. chats' \in [Chat -> ChatRow \cup {NoRow}]
    BY <1>17 DEF PinChat, ArchiveChat, IsChat, ChatRow
  <2> QED BY <1>17, <2>1 DEF PinChat, ArchiveChat
<1>18. CASE \E g \in MsgGuid, r \in Reaction : AddReaction(g, r)
  BY <1>18 DEF AddReaction
<1>19. CASE \E g \in MsgGuid : EditMessage(g) \/ UnsendMessage(g)
  <2> PICK g \in MsgGuid : EditMessage(g) \/ UnsendMessage(g)
    BY <1>19
  <2>1. messages[g] \in MessageRow
    BY DEF EditMessage, UnsendMessage, IsMessage
  <2>2. messages' \in [MsgGuid -> MessageRow \cup {NoRow}]
    BY <2>1, UpdatedRowType DEF EditMessage, UnsendMessage
  <2> QED BY <2>2 DEF EditMessage, UnsendMessage
<1>20. CASE UNCHANGED vars
  BY <1>20 DEF vars, tables
<1> QED
  BY <1>1, <1>2, <1>3, <1>4, <1>5, <1>6, <1>7, <1>8, <1>9, <1>10, <1>11, <1>12,
     <1>13, <1>14, <1>15, <1>16, <1>17, <1>18, <1>19, <1>20
     DEF Next, Begin, InsertStep, MarkStep, SingleStep

(* The store is well formed in every reachable state, however operations are
   cut off. *)
THEOREM TypeCorrect == Spec => []TypeOK
<1>1. Init => TypeOK
  BY DEF Init, TypeOK
<1> QED BY <1>1, TypeStep, PTL DEF Spec

(* An UPDATE of the chats table yields a chats row, never the absence of one. *)
LEMMA UpdatedChatType ==
    ASSUME NEW r \in ChatRow, NEW n \in Nat, NEW b \in BOOLEAN
    PROVE  /\ [r EXCEPT !.unread = n] \in ChatRow
           /\ [r EXCEPT !.last = n] \in ChatRow
           /\ [r EXCEPT !.pinned = b] \in ChatRow
           /\ [r EXCEPT !.archived = b] \in ChatRow
BY DEF ChatRow

(* The row upsert_chat inserts for a chat it does not know is a chat row. *)
LEMMA NewChatType == NewChatRow \in ChatRow
BY DEF NewChatRow, ChatRow

(* No statement deletes a chat or takes its date back, and only the second
   statement of mark_chat_read lowers its badge. *)
LEMMA ChatsStay ==
    ASSUME TypeOK, [Next]_vars, NEW c \in Chat, IsChat(c)
    PROVE  /\ IsChat(c)'
           /\ chats'[c].last >= chats[c].last
           /\ \/ chats'[c].unread >= chats[c].unread
              \/ c \in marking /\ ZeroUnread(c)
<1> USE DEF IsChat
<1>0. chats[c] \in ChatRow /\ chats[c].last \in Nat /\ chats[c].unread \in Nat
      /\ NoRow \notin ChatRow
  BY NullAssumption DEF TypeOK, ChatRow
<1> DEFINE Goal(r) == /\ r \in ChatRow
                      /\ r.last >= chats[c].last
                      /\ r.unread >= chats[c].unread
<1>1. chats' = chats => Goal(chats'[c])
  BY <1>0
<1>2. CASE UpsertChat
  <2>1. chats'[c] = chats[c]
    BY <1>0, <1>2 DEF UpsertChat, TypeOK
  <2> QED BY <1>0, <2>1
<1>3. CASE TouchChat
  <2>1. insert.row.date \in Nat
    BY <1>3, BoundAssumption DEF TouchChat, At, TypeOK, Insert, MessageRow, Date
  <2>2. chats'[c] = IF c = insert.row.chat THEN Touched(chats[c], insert.row.date) ELSE chats[c]
    BY <1>3 DEF TouchChat, TypeOK
  <2>3. Goal(Touched(chats[c], insert.row.date))
    <3>1. \A n \in Nat : Goal([chats[c] EXCEPT !.last = n]) \/ n < chats[c].last
      BY <1>0, UpdatedChatType DEF ChatRow
    <3> QED BY <1>0, <2>1, <3>1 DEF Touched, ChatRow
  <2> QED BY <1>0, <2>2, <2>3
<1>4. CASE BumpUnread
  <2>1. chats'[c] = IF c = insert.row.chat THEN Bumped(chats[c]) ELSE chats[c]
    BY <1>4 DEF BumpUnread, TypeOK
  <2>2. Goal(Bumped(chats[c]))
    BY <1>0 DEF Bumped, ChatRow
  <2> QED BY <1>0, <2>1, <2>2
<1>5. CASE \E d \in Chat : ZeroUnread(d)
  <2> PICK d \in Chat : ZeroUnread(d)
    BY <1>5
  <2>1. CASE d = c
    <3>1. chats'[c] = [chats[c] EXCEPT !.unread = 0]
      BY <1>0, <2>1 DEF ZeroUnread, TypeOK
    <3> QED BY <1>0, <2>1, <3>1, UpdatedChatType DEF ZeroUnread, ChatRow
  <2>2. CASE d # c
    <3>1. chats'[c] = chats[c]
      BY <2>2 DEF ZeroUnread, TypeOK
    <3> QED BY <1>0, <3>1
  <2> QED BY <2>1, <2>2
<1>6. CASE \E d \in Chat, b \in BOOLEAN : PinChat(d, b) \/ ArchiveChat(d, b)
  <2> PICK d \in Chat, b \in BOOLEAN : PinChat(d, b) \/ ArchiveChat(d, b)
    BY <1>6
  <2>1. \/ chats'[c] = chats[c]
        \/ chats'[c] = [chats[c] EXCEPT !.pinned = b]
        \/ chats'[c] = [chats[c] EXCEPT !.archived = b]
    BY DEF PinChat, ArchiveChat, TypeOK
  <2> QED BY <1>0, <2>1, UpdatedChatType DEF ChatRow
<1>7. CASE chats' = chats
  BY <1>0, <1>1, <1>7
<1> QED
  BY <1>2, <1>3, <1>4, <1>5, <1>6, <1>7
     DEF Next, Begin, InsertStep, MarkStep, SingleStep, vars, tables,
         StoreMessage, SendMessage, AttachFile, UpsertHandle, SetChatParticipants,
         UpsertSender, InsertRow, InsertAttachment, FlagAttachment, AbortInsert,
         MarkMessages, AbortMark, AddReaction, EditMessage, UnsendMessage

(* Every step of the program keeps what an insert in progress relies on. *)
LEMMA InsertProgressStep == IInv /\ [Next]_vars => InsertProgress'
<1> SUFFICES ASSUME IInv, [Next]_vars, insert' # Free PROVE InsertProgress'
  BY DEF InsertProgress
<1> USE DEF IInv
<1>0. TypeOK'
  BY TypeStep
<1>1. \A c \in Chat : IsChat(c) => IsChat(c)'
  BY ChatsStay
<1>2. ASSUME insert # Free
      PROVE  /\ insert \in Insert /\ insert.row.chat \in Chat /\ insert.guid \in MsgGuid
  BY <1>2 DEF TypeOK, Insert, MessageRow
<1>3. CASE \E f \in Frame : StoreMessage(f)
  BY <1>3 DEF StoreMessage, InsertProgress
<1>4. CASE \E g \in TempGuid, c \in Chat, now \in Date : SendMessage(g, c, now)
  BY <1>1, <1>4 DEF SendMessage, InsertProgress, LocalRow
<1>5. CASE \E a \in AttGuid, g \in TempGuid, c \in Chat, now \in Date :
              AttachFile(a, g, c, now)
  BY <1>1, <1>5 DEF AttachFile, InsertProgress, LocalRow
<1>6. CASE UpsertChat
  <2>1. IsChat(insert.row.chat)'
    <3>1. NewChatRow # NoRow
      BY NullAssumption, NewChatType
    <3> QED BY <1>2, <1>6, <3>1 DEF UpsertChat, At, IsChat, TypeOK
  <2> QED BY <1>2, <1>6, <2>1
          DEF UpsertChat, At, AfterHandles, InsertProgress, Insert
<1>7. CASE UpsertHandle
  <2>1. PICK h \in insert.todo :
           /\ handles' = handles \cup {h}
           /\ insert' = [insert EXCEPT
                !.todo = @ \ {h}, !.pc = AfterHandles(insert.todo \ {h})]
    BY <1>7 DEF UpsertHandle
  <2>2. /\ insert'.todo = insert.todo \ {h} /\ insert'.who = insert.who
        /\ insert'.row = insert.row
        /\ insert'.pc = AfterHandles(insert.todo \ {h})
    BY <1>2, <1>7, <2>1 DEF UpsertHandle, At, Insert
  <2>3. IsChat(insert.row.chat)'
    BY <1>1, <1>2, <1>7, <2>2 DEF UpsertHandle, At, InsertProgress
  <2> QED BY <1>7, <2>1, <2>2, <2>3 DEF UpsertHandle, At, AfterHandles, InsertProgress
<1>8. CASE SetChatParticipants
  BY <1>1, <1>2, <1>8 DEF SetChatParticipants, At, InsertProgress, Insert
<1>9. CASE UpsertSender
  BY <1>1, <1>2, <1>9 DEF UpsertSender, At, InsertProgress, Insert
<1>10. CASE InsertRow
  <2>1. messages'[insert.guid] = insert.row
    BY <1>2, <1>10 DEF InsertRow, At, TypeOK
  <2> QED BY <1>1, <1>2, <1>10, <2>1 DEF InsertRow, At, InsertProgress, Insert
<1>11. CASE TouchChat
  BY <1>1, <1>2, <1>11 DEF TouchChat, AfterMessage, At, InsertProgress, Insert
<1>12. CASE BumpUnread
  BY <1>1, <1>2, <1>12 DEF BumpUnread, AfterMessage, At, InsertProgress, Insert
<1>13. CASE InsertAttachment
  BY <1>1, <1>2, <1>13 DEF InsertAttachment, At, InsertProgress, Insert
<1>14. CASE UNCHANGED vars
  BY <1>14 DEF InsertProgress, IsChat, vars, tables
<1> QED
  BY <1>3, <1>4, <1>5, <1>6, <1>7, <1>8, <1>9, <1>10, <1>11, <1>12, <1>13, <1>14
     DEF Next, Begin, InsertStep, MarkStep, SingleStep, FlagAttachment, AbortInsert,
         MarkMessages, ZeroUnread, AbortMark, PinChat, ArchiveChat, AddReaction,
         EditMessage, UnsendMessage, LockFree, TypeOK

(* A statement on the messages table either writes the row of the insert, or
   leaves every row's chat, date and sender side alone and marks none unread. *)
LEMMA RowsStay ==
    ASSUME TypeOK, [Next]_vars, NEW g \in MsgGuid, IsMessage(g)',
           ~(InsertRow /\ g = insert.guid)
    PROVE  /\ IsMessage(g)
           /\ messages'[g].chat = messages[g].chat
           /\ messages'[g].date = messages[g].date
           /\ messages'[g].fromMe = messages[g].fromMe
           /\ messages[g].read => messages'[g].read
<1> USE DEF IsMessage
<1>0. messages[g] \in MessageRow \cup {NoRow}
  BY DEF TypeOK
<1> DEFINE Goal == /\ messages[g] # NoRow
                   /\ messages'[g].chat = messages[g].chat
                   /\ messages'[g].date = messages[g].date
                   /\ messages'[g].fromMe = messages[g].fromMe
                   /\ messages[g].read => messages'[g].read
<1>1. CASE messages' = messages
  BY <1>1
<1>2. CASE InsertRow
  <2>1. messages'[g] = messages[g]
    BY <1>2 DEF InsertRow, TypeOK
  <2> QED BY <2>1
<1>3. CASE FlagAttachment
  <2>1. messages'[g] = messages[g] \/ (/\ messages[g] # NoRow
                                      /\ messages'[g] = [messages[g] EXCEPT !.attached = TRUE])
    BY <1>3 DEF FlagAttachment, TypeOK
  <2> QED BY <1>0, <2>1 DEF MessageRow
<1>4. CASE \E c \in Chat : MarkMessages(c)
  <2>1. messages'[g] = messages[g] \/ (/\ messages[g] # NoRow
                                      /\ messages'[g] = [messages[g] EXCEPT !.read = TRUE])
    BY <1>4 DEF MarkMessages, TypeOK
  <2> QED BY <1>0, <2>1 DEF MessageRow
<1>5. CASE \E h \in MsgGuid : EditMessage(h) \/ UnsendMessage(h)
  <2> PICK h \in MsgGuid : EditMessage(h) \/ UnsendMessage(h)
    BY <1>5
  <2>1. messages'[g] = messages[g]
        \/ (messages[g] # NoRow /\ messages'[g] = [messages[g] EXCEPT !.edited = TRUE])
        \/ (messages[g] # NoRow /\ messages'[g] = [messages[g] EXCEPT !.unsent = TRUE])
    BY DEF EditMessage, UnsendMessage, TypeOK
  <2> QED BY <1>0, <2>1 DEF MessageRow
<1> QED
  BY <1>1, <1>2, <1>3, <1>4, <1>5
     DEF Next, Begin, InsertStep, MarkStep, SingleStep, vars, tables,
         StoreMessage, SendMessage, AttachFile, UpsertChat, UpsertHandle,
         SetChatParticipants, UpsertSender, TouchChat, BumpUnread, InsertAttachment,
         AbortInsert, ZeroUnread, AbortMark, PinChat, ArchiveChat, AddReaction

(* The row insert_message writes. *)
LEMMA InsertedRow ==
    ASSUME TypeOK, InsertRow
    PROVE  /\ insert.guid \in MsgGuid /\ insert.row \in MessageRow
           /\ messages'[insert.guid] = insert.row
           /\ IsChat(insert.row.chat)
           /\ chats' = chats /\ lost' = lost /\ marking' = marking
           /\ insert' = [insert EXCEPT !.pc = "touch_chat"]
           /\ insert # Free /\ insert \in Insert /\ insert.pc = "insert_row"
<1>1. insert \in Insert /\ insert.guid \in MsgGuid /\ insert.row \in MessageRow
  BY DEF TypeOK, InsertRow, At, Insert
<1> QED BY <1>1 DEF TypeOK, InsertRow, At, RowReferencesExist

(* Every step keeps the messages in stored chats. *)
LEMMA MessagesHaveChatsStep == IInv /\ [Next]_vars => MessagesHaveChats'
<1> SUFFICES ASSUME IInv, [Next]_vars, NEW g \in MsgGuid, IsMessage(g)'
             PROVE  IsChat(messages[g].chat)'
  BY DEF MessagesHaveChats
<1>1. CASE InsertRow /\ g = insert.guid
  BY <1>1, InsertedRow DEF IInv, IsChat
<1>2. CASE ~(InsertRow /\ g = insert.guid)
  <2>1. IsMessage(g) /\ messages'[g].chat = messages[g].chat
    BY <1>2, RowsStay DEF IInv
  <2>2. messages[g].chat \in Chat /\ IsChat(messages[g].chat)
    BY <2>1 DEF IInv, TypeOK, MessagesHaveChats, MessageRow, IsMessage
  <2>3. IsChat(messages[g].chat) => chats'[messages[g].chat] # NoRow
    BY <2>2, ChatsStay DEF IInv, IsChat
  <2> QED BY <2>1, <2>2, <2>3 DEF IsChat
<1> QED BY <1>1, <1>2

(* Between the two statements of mark_chat_read nothing becomes unread. *)
LEMMA MarkProgressStep == IInv /\ [Next]_vars => MarkProgress'
<1> SUFFICES ASSUME IInv, [Next]_vars, NEW c \in marking' PROVE Unread(c)' = {}
  BY DEF MarkProgress
<1>1. CASE MarkMessages(c) /\ c \in Chat
  <2>1. \A g \in MsgGuid : messages'[g] =
          IF IsMessage(g) /\ messages[g].chat = c /\ ~messages[g].fromMe
          THEN [messages[g] EXCEPT !.read = TRUE] ELSE messages[g]
    BY <1>1 DEF MarkMessages
  <2>2. \A g \in MsgGuid : IsMessage(g) => messages[g] \in MessageRow
    BY DEF IInv, TypeOK, IsMessage
  <2> QED BY <2>1, <2>2 DEF Unread, IsMessage, MessageRow
<1>2. CASE c \in marking /\ messages' = messages
  BY <1>2 DEF IInv, MarkProgress, Unread, IsMessage
<1> QED
  BY <1>1, <1>2
     DEF Next, Begin, InsertStep, MarkStep, SingleStep, vars, tables, IInv, TypeOK,
         LockFree, At, StoreMessage, SendMessage, AttachFile, UpsertChat, UpsertHandle,
         SetChatParticipants, UpsertSender, InsertRow, TouchChat, BumpUnread,
         InsertAttachment, FlagAttachment, AbortInsert, MarkMessages, ZeroUnread,
         AbortMark, PinChat, ArchiveChat, AddReaction, EditMessage, UnsendMessage

(* The tables are well formed, an insert in progress finds what its earlier
   statements established, every message has its chat, and a chat being marked
   read has nothing unread: in every reachable state. *)
THEOREM Inductive == Spec => []IInv
<1>1. Init => IInv
  <2>1. Init => TypeOK
    BY DEF Init, TypeOK
  <2> QED BY <2>1 DEF Init, IInv, InsertProgress, MessagesHaveChats, MarkProgress, IsMessage
<1>2. IInv /\ [Next]_vars => IInv'
  BY TypeStep, InsertProgressStep, MessagesHaveChatsStep, MarkProgressStep DEF IInv
<1> QED BY <1>1, <1>2, PTL DEF Spec

(* The foreign keys never refuse a statement of store_message or of a local
   insert: the statements come in the right order and nothing between them
   removes what they have established. *)
THEOREM NeverRefused == Spec => []InsertNeverRefused
<1>1. IInv => InsertNeverRefused
  <2> SUFFICES ASSUME IInv PROVE InsertNeverRefused
    OBVIOUS
  <2>1. insert # Free => insert.guid \in MsgGuid /\ insert.row \in MessageRow
    BY DEF IInv, TypeOK, Insert
  <2>2. MessageRow \cap {NoRow} = {}
    BY NullAssumption
  <2> QED BY <2>1, <2>2 DEF IInv, InsertProgress, InsertNeverRefused, At,
             RowReferencesExist, IsMessage
<1> QED BY <1>1, Inductive, PTL

-----------------------------------------------------------------------------
(* last_message_date.                                                      *)

(* The step that gives up the claim "the date is about to be covered" has
   covered it, or has put the chat among the untouched. *)
LEMMA LastDateStep == IInv /\ LastDateCovers /\ [Next]_vars => LastDateCovers'
<1> SUFFICES ASSUME IInv, LastDateCovers, [Next]_vars,
                    NEW g \in MsgGuid, IsMessage(g)'
             PROVE  \/ messages'[g].date <= chats'[messages'[g].chat].last
                    \/ messages'[g].chat \in untouched'
                    \/ At("touch_chat")' /\ insert'.guid = g
  BY DEF LastDateCovers
<1>1. CASE InsertRow /\ g = insert.guid
  <2>1. insert' # Free /\ insert'.pc = "touch_chat" /\ insert'.guid = g
    <3>1. insert'.pc = "touch_chat" /\ insert'.guid = g /\ insert' \in Insert
      BY <1>1, InsertedRow DEF IInv, Insert, Statement
    <3> QED BY <3>1, NullAssumption
  <2> QED BY <2>1 DEF At
<1>2. CASE ~(InsertRow /\ g = insert.guid)
  <2> DEFINE c == messages[g].chat
  <2>1. /\ IsMessage(g) /\ messages'[g].chat = c
        /\ messages'[g].date = messages[g].date
    BY <1>2, RowsStay DEF IInv
  <2>2. messages[g] \in MessageRow /\ c \in Chat /\ messages[g].date \in Nat
    BY <2>1, BoundAssumption DEF IInv, TypeOK, IsMessage, MessageRow, Date
  <2>3. IsChat(c) /\ chats[c] \in ChatRow /\ chats[c].last \in Nat
    BY <2>1, <2>2 DEF IInv, TypeOK, MessagesHaveChats, IsChat, ChatRow
  <2>4. chats'[c].last >= chats[c].last /\ chats'[c] \in ChatRow
    BY <2>2, <2>3, ChatsStay, TypeStep DEF IInv, TypeOK, IsChat
  <2>5. chats'[c].last \in Nat
    BY <2>4 DEF ChatRow
  <2>6. untouched \subseteq untouched'
    BY DEF Next, Begin, InsertStep, MarkStep, SingleStep, vars, tables,
         StoreMessage, SendMessage, AttachFile, UpsertChat, UpsertHandle,
         SetChatParticipants, UpsertSender, InsertRow, TouchChat, BumpUnread,
         InsertAttachment, FlagAttachment, AbortInsert, MarkMessages, ZeroUnread,
         AbortMark, PinChat, ArchiveChat, AddReaction, EditMessage, UnsendMessage
  <2>7. CASE messages[g].date <= chats[c].last
    BY <2>1, <2>2, <2>3, <2>4, <2>5, <2>7
  <2>8. CASE c \in untouched
    BY <2>1, <2>6, <2>8
  <2>9. CASE At("touch_chat") /\ insert.guid = g
    <3>1. insert # Free /\ insert \in Insert /\ messages[g] = insert.row
      BY <2>9 DEF At, IInv, TypeOK, InsertProgress
    <3>2. CASE TouchChat
      <4>1. chats'[c] = Touched(chats[c], messages[g].date)
        BY <2>2, <3>1, <3>2 DEF TouchChat, IInv, TypeOK
      <4>2. messages[g].date <= chats'[c].last
        BY <2>2, <2>3, <4>1 DEF Touched, ChatRow, IsChat
      <4> QED BY <2>1, <4>2
    <3>3. CASE AbortInsert
      BY <2>1, <2>9, <3>1, <3>3 DEF AbortInsert, At
    <3>4. CASE insert' = insert
      BY <2>9, <3>4 DEF At
    <3> QED
      BY <2>9, <3>1, <3>2, <3>3, <3>4
         DEF At, Next, Begin, InsertStep, MarkStep, SingleStep, vars, LockFree,
             StoreMessage, SendMessage, AttachFile, UpsertChat, UpsertHandle,
             SetChatParticipants, UpsertSender, InsertRow, BumpUnread,
             InsertAttachment, FlagAttachment, MarkMessages, ZeroUnread, AbortMark,
             PinChat, ArchiveChat, AddReaction, EditMessage, UnsendMessage
  <2> QED BY <2>1, <2>7, <2>8, <2>9 DEF LastDateCovers
<1> QED BY <1>1, <1>2

(* The order of chats in the sidebar is never older than their messages, in
   whatever order they arrive, up to inserts cut off between two statements. *)
THEOREM LastDateAlwaysCovers == Spec => []LastDateCovers
<1>1. Init => LastDateCovers
  BY DEF Init, LastDateCovers, IsMessage
<1>2. IInv /\ LastDateCovers /\ [Next]_vars => LastDateCovers'
  BY LastDateStep
<1> QED BY <1>1, <1>2, Inductive, PTL DEF Spec

-----------------------------------------------------------------------------
(* unread_count.                                                           *)

(* Unread messages of a chat are counted. *)
LEMMA UnreadFinite ==
    ASSUME NEW c
    PROVE  IsFiniteSet(Unread(c)) /\ Cardinality(Unread(c)) \in Nat
<1>1. IsFiniteSet(MsgGuid)
  BY GuidAssumption, FS_Union DEF MsgGuid
<1>2. Unread(c) \in SUBSET MsgGuid
  BY DEF Unread
<1>3. IsFiniteSet(Unread(c))
  BY <1>1, <1>2, FS_Subset
<1> QED BY <1>3, FS_CardinalityType

(* Only the insert's own row can become unread. *)
LEMMA UnreadGrowsByInsert ==
    ASSUME TypeOK, [Next]_vars, NEW c \in Chat
    PROVE  /\ ~InsertRow => Cardinality(Unread(c)') <= Cardinality(Unread(c))
           /\ InsertRow => Cardinality(Unread(c)') <= Cardinality(Unread(c)) + 1
           /\ InsertRow /\ (insert.row.fromMe \/ insert.row.chat # c) =>
                 Cardinality(Unread(c)') <= Cardinality(Unread(c))
<1> DEFINE U == Unread(c)
           V == Unread(c)'
<1>1. IsFiniteSet(U) /\ Cardinality(U) \in Nat
  BY UnreadFinite
<1>2. \A g \in V : (InsertRow /\ g = insert.guid) \/ g \in U
  <2> SUFFICES ASSUME NEW g \in V, ~(InsertRow /\ g = insert.guid) PROVE g \in U
    OBVIOUS
  <2>1. /\ g \in MsgGuid /\ IsMessage(g)' /\ messages'[g].chat = c
        /\ ~messages'[g].fromMe /\ ~messages'[g].read
    BY DEF Unread
  <2> QED BY <2>1, RowsStay DEF Unread
<1>3. InsertRow /\ (insert.row.fromMe \/ insert.row.chat # c) => insert.guid \notin V
  BY InsertedRow DEF Unread
<1>4. IsFiniteSet(U \cup {insert.guid})
      /\ Cardinality(U \cup {insert.guid}) \in {Cardinality(U), Cardinality(U) + 1}
  BY <1>1, FS_AddElement
<1>5. V \in SUBSET (U \cup {insert.guid}) /\ (~InsertRow => V \in SUBSET U)
      /\ (insert.guid \notin V => V \in SUBSET U)
  BY <1>2
<1>6. V \in SUBSET U => Cardinality(V) <= Cardinality(U)
  BY <1>1, FS_Subset
<1>7. IsFiniteSet(V) /\ Cardinality(V) <= Cardinality(U \cup {insert.guid})
  BY <1>4, <1>5, FS_Subset
<1>8. Cardinality(V) \in Nat
  BY <1>7, FS_CardinalityType
<1> HIDE DEF U, V
<1>9. /\ ~InsertRow => Cardinality(V) <= Cardinality(U)
      /\ InsertRow => Cardinality(V) <= Cardinality(U) + 1
      /\ InsertRow /\ (insert.row.fromMe \/ insert.row.chat # c) =>
            Cardinality(V) <= Cardinality(U)
  BY <1>1, <1>3, <1>4, <1>5, <1>6, <1>7, <1>8
<1> QED BY <1>9 DEF U, V

(* A bump that a step no longer owes has been made or is counted as lost. *)
LEMMA OwedSettled ==
    ASSUME TypeOK, [Next]_vars, ~InsertRow, NEW c \in Chat, IsChat(c), ~ZeroUnread(c)
    PROVE  chats[c].unread + lost[c] + Owed(c) <= chats'[c].unread + lost'[c] + Owed(c)'
<1>0. chats[c].unread \in Nat /\ lost[c] \in Nat /\ chats'[c].unread \in Nat
      /\ lost'[c] \in Nat /\ chats'[c].unread >= chats[c].unread
  <2>1. chats[c] \in ChatRow /\ lost[c] \in Nat
    BY DEF TypeOK, IsChat
  <2>2. TypeOK' /\ IsChat(c)' /\ chats'[c].unread >= chats[c].unread
    BY TypeStep, ChatsStay
  <2>3. chats'[c] \in ChatRow /\ lost'[c] \in Nat
    BY <2>2 DEF TypeOK, IsChat
  <2> QED BY <2>1, <2>2, <2>3 DEF ChatRow
<1>1. Owed(c) \in {0, 1} /\ Owed(c)' \in {0, 1}
  BY DEF Owed
<1>2. CASE TouchChat
  <2>1. Owed(c) = 1 => Owed(c)' = 1
    <3> SUFFICES ASSUME Owed(c) = 1 PROVE Owed(c)' = 1
      BY <1>1
    <3>1. insert \in Insert /\ ~insert.row.fromMe /\ insert.row.chat = c
      BY DEF Owed, TypeOK
    <3>2. insert' = [insert EXCEPT !.pc = "bump_unread"]
      BY <1>2, <3>1 DEF TouchChat
    <3>3. insert'.pc = "bump_unread" /\ insert'.row = insert.row /\ insert' \in Insert
      BY <3>1, <3>2 DEF Insert, Statement
    <3> QED BY <3>1, <3>3, NullAssumption DEF Owed
  <2>2. lost' = lost
    BY <1>2 DEF TouchChat
  <2> QED BY <1>0, <1>1, <2>1, <2>2
<1>3. CASE BumpUnread
  <2>1. lost' = lost
    BY <1>3 DEF BumpUnread
  <2>2. CASE insert.row.chat = c
    <3>1. chats'[c].unread = chats[c].unread + 1
      BY <1>3, <2>2 DEF BumpUnread, Bumped, TypeOK, IsChat, ChatRow
    <3> QED BY <1>0, <1>1, <2>1, <3>1
  <2>3. CASE insert.row.chat # c
    <3>1. Owed(c) = 0
      BY <2>3 DEF Owed
    <3> QED BY <1>0, <1>1, <2>1, <3>1
  <2> QED BY <2>2, <2>3
<1>4. CASE AbortInsert
  <2>1. lost'[c] >= lost[c] + Owed(c)
    BY <1>0, <1>4 DEF AbortInsert, Owed, TypeOK
  <2> QED BY <1>0, <1>1, <2>1
<1>5. CASE UNCHANGED vars
  BY <1>0, <1>1, <1>5 DEF Owed, vars, tables
<1>6. ASSUME Owed(c) = 0, lost'[c] = lost[c]
      PROVE  chats[c].unread + lost[c] + Owed(c) <= chats'[c].unread + lost'[c] + Owed(c)'
  BY <1>0, <1>1, <1>6
<1>7. CASE \E d \in Chat : ZeroUnread(d)
  BY <1>6, <1>7 DEF ZeroUnread, Owed, TypeOK
<1>8. CASE Begin \/ SingleStep \/ AbortMark \/ (\E d \in Chat : MarkMessages(d))
  BY <1>6, <1>8 DEF Begin, SingleStep, Owed, LockFree, TypeOK, StoreMessage, SendMessage,
     AttachFile, PinChat, ArchiveChat, AddReaction, EditMessage, UnsendMessage,
     AbortMark, MarkMessages
<1>9. CASE \/ UpsertChat \/ UpsertHandle \/ SetChatParticipants \/ UpsertSender
           \/ InsertAttachment \/ FlagAttachment
  BY <1>6, <1>9 DEF Owed, At, UpsertChat, UpsertHandle, SetChatParticipants,
     UpsertSender, InsertAttachment, FlagAttachment
<1> QED BY <1>2, <1>3, <1>4, <1>5, <1>7, <1>8, <1>9 DEF Next, InsertStep, MarkStep

(* Every step keeps the account of a chat's unread messages. *)
LEMMA UnreadStep == IInv /\ UnreadAccounted /\ [Next]_vars => UnreadAccounted'
<1> SUFFICES ASSUME IInv, UnreadAccounted, [Next]_vars, NEW c \in Chat, IsChat(c)'
             PROVE  Cardinality(Unread(c)') <= chats'[c].unread + lost'[c] + Owed(c)'
  BY DEF UnreadAccounted
<1>0. chats'[c].unread \in Nat /\ lost'[c] \in Nat /\ Owed(c)' \in {0, 1}
  <2>1. chats'[c] \in ChatRow /\ lost'[c] \in Nat
    BY TypeStep DEF IInv, TypeOK, IsChat
  <2> QED BY <2>1 DEF ChatRow, Owed
<1>1. Cardinality(Unread(c)) \in Nat
  BY UnreadFinite
<1>2. Cardinality(Unread(c)') \in Nat
  <2>1. IsFiniteSet(MsgGuid) /\ Unread(c)' \in SUBSET MsgGuid
    BY GuidAssumption, FS_Union DEF MsgGuid, Unread
  <2>2. IsFiniteSet(Unread(c)')
    BY <2>1, FS_Subset
  <2> QED BY <2>2, FS_CardinalityType
<1>3. CASE Unread(c) = {} /\ ~InsertRow
  <2>1. Cardinality(Unread(c)') <= 0
    BY <1>3, UnreadGrowsByInsert, FS_EmptySet DEF IInv
  <2> QED BY <1>0, <1>2, <2>1
<1>4. CASE ~IsChat(c)
  <2>1. Unread(c) = {}
    BY <1>4 DEF IInv, MessagesHaveChats, Unread
  <2>2. ~InsertRow
    BY <1>4 DEF InsertRow, IsChat
  <2> QED BY <1>3, <2>1, <2>2
<1>5. CASE ZeroUnread(c)
  <2>1. Unread(c) = {}
    BY <1>5 DEF IInv, MarkProgress, ZeroUnread
  <2>2. ~InsertRow
    BY <1>5 DEF IInv, TypeOK, ZeroUnread, InsertRow, At
  <2> QED BY <1>3, <2>1, <2>2
<1>6. CASE IsChat(c) /\ ~ZeroUnread(c) /\ ~InsertRow
  <2>1. Cardinality(Unread(c)') <= Cardinality(Unread(c))
    BY <1>6, UnreadGrowsByInsert DEF IInv
  <2>2. Cardinality(Unread(c)) <= chats[c].unread + lost[c] + Owed(c)
    BY <1>6 DEF UnreadAccounted
  <2>3. chats[c].unread + lost[c] + Owed(c) <= chats'[c].unread + lost'[c] + Owed(c)'
    BY <1>6, OwedSettled DEF IInv
  <2>4. chats[c].unread + lost[c] + Owed(c) \in Nat
    BY <1>6 DEF IInv, TypeOK, IsChat, ChatRow, Owed
  <2> QED BY <1>0, <1>1, <1>2, <2>1, <2>2, <2>3, <2>4
<1>7. CASE IsChat(c) /\ InsertRow
  <2>1. Cardinality(Unread(c)) <= chats[c].unread + lost[c] + Owed(c) /\ chats[c] \in ChatRow
    BY <1>7 DEF UnreadAccounted, IInv, TypeOK, IsChat
  <2>2. /\ insert # Free /\ insert \in Insert /\ insert.pc = "insert_row"
        /\ insert' = [insert EXCEPT !.pc = "touch_chat"]
        /\ chats' = chats /\ lost' = lost
    BY <1>7, InsertedRow DEF IInv
  <2>3. Owed(c) = 0
    BY <2>2 DEF Owed
  <2>4. CASE insert.row.fromMe \/ insert.row.chat # c
    <3>1. Cardinality(Unread(c)') <= Cardinality(Unread(c))
      BY <1>7, <2>4, UnreadGrowsByInsert DEF IInv
    <3> QED BY <1>0, <1>1, <1>2, <2>1, <2>2, <2>3, <3>1
  <2>5. CASE ~insert.row.fromMe /\ insert.row.chat = c
    <3>1. insert'.pc = "touch_chat" /\ insert'.row = insert.row /\ insert' \in Insert
      BY <2>2 DEF Insert, Statement
    <3>2. Owed(c)' = 1
      BY <2>5, <3>1, NullAssumption DEF Owed
    <3>3. Cardinality(Unread(c)') <= Cardinality(Unread(c)) + 1
      BY <1>7, UnreadGrowsByInsert DEF IInv
    <3> QED BY <1>0, <1>1, <1>2, <2>1, <2>2, <2>3, <3>2, <3>3
  <2> QED BY <2>4, <2>5
<1> QED BY <1>4, <1>5, <1>6, <1>7

(* The badge never falls short of the unread messages by more than the bumps
   that were cut off, for any number of chats, messages and re-deliveries. *)
THEOREM UnreadAlwaysAccounted == Spec => []UnreadAccounted
<1>1. Init => UnreadAccounted
  BY DEF Init, UnreadAccounted, IsChat
<1>2. IInv /\ UnreadAccounted /\ [Next]_vars => UnreadAccounted'
  BY UnreadStep
<1> QED BY <1>1, <1>2, Inductive, PTL DEF Spec

-----------------------------------------------------------------------------
(* Where rows come from: threads, attachments, and what never vanishes.    *)

(* A statement that is not the insert of this message keeps its row, its side,
   its attachment flag and its unsending; only Unsend unsends. *)
LEMMA RowsKept ==
    ASSUME TypeOK, [Next]_vars, NEW g \in MsgGuid, IsMessage(g),
           ~(InsertRow /\ g = insert.guid)
    PROVE  /\ IsMessage(g)'
           /\ messages'[g].fromMe = messages[g].fromMe
           /\ messages[g].attached => messages'[g].attached
           /\ messages[g].unsent => messages'[g].unsent
           /\ messages'[g].unsent => messages[g].unsent \/ messages[g].fromMe
<1> USE DEF IsMessage
<1>0. messages[g] \in MessageRow /\ NoRow \notin MessageRow
  BY NullAssumption DEF TypeOK
<1> DEFINE Kept(r) == /\ r # NoRow
                      /\ r.fromMe = messages[g].fromMe
                      /\ messages[g].attached => r.attached
                      /\ messages[g].unsent => r.unsent
                      /\ r.unsent => messages[g].unsent \/ messages[g].fromMe
<1>a. Kept([messages[g] EXCEPT !.attached = TRUE])
  <2> DEFINE r == [messages[g] EXCEPT !.attached = TRUE]
  <2>1. r # NoRow
    BY <1>0, UpdatedRowType
  <2>2. /\ r.fromMe = messages[g].fromMe /\ r.unsent = messages[g].unsent
        /\ messages[g].attached => r.attached
    BY <1>0 DEF MessageRow
  <2>3. Kept(r)
    <3> HIDE DEF r
    <3> QED BY <2>1, <2>2
  <2> QED BY <2>3
<1>b. Kept([messages[g] EXCEPT !.read = TRUE])
  <2> DEFINE r == [messages[g] EXCEPT !.read = TRUE]
  <2>1. r # NoRow
    BY <1>0, UpdatedRowType
  <2>2. /\ r.fromMe = messages[g].fromMe /\ r.unsent = messages[g].unsent
        /\ messages[g].attached => r.attached
    BY <1>0 DEF MessageRow
  <2>3. Kept(r)
    <3> HIDE DEF r
    <3> QED BY <2>1, <2>2
  <2> QED BY <2>3
<1>c. Kept([messages[g] EXCEPT !.edited = TRUE])
  <2> DEFINE r == [messages[g] EXCEPT !.edited = TRUE]
  <2>1. r # NoRow
    BY <1>0, UpdatedRowType
  <2>2. /\ r.fromMe = messages[g].fromMe /\ r.unsent = messages[g].unsent
        /\ messages[g].attached => r.attached
    BY <1>0 DEF MessageRow
  <2>3. Kept(r)
    <3> HIDE DEF r
    <3> QED BY <2>1, <2>2
  <2> QED BY <2>3
<1>d. messages[g].fromMe => Kept([messages[g] EXCEPT !.unsent = TRUE])
  BY <1>0, UpdatedRowType DEF MessageRow
<1>e. Kept(messages[g])
  BY <1>0
<1>f. SUFFICES Kept(messages'[g])
  OBVIOUS
<1> HIDE DEF Kept
<1>1. CASE messages' = messages
  BY <1>1, <1>e
<1>2. CASE InsertRow
  <2>1. messages'[g] = messages[g]
    BY <1>2 DEF InsertRow, TypeOK
  <2> QED BY <2>1, <1>e
<1>3. CASE FlagAttachment
  <2>1. messages'[g] = messages[g] \/ messages'[g] = [messages[g] EXCEPT !.attached = TRUE]
    BY <1>0, <1>3 DEF FlagAttachment, TypeOK
  <2> QED BY <2>1, <1>e, <1>a
<1>4. CASE \E c \in Chat : MarkMessages(c)
  <2>1. messages'[g] = messages[g] \/ messages'[g] = [messages[g] EXCEPT !.read = TRUE]
    BY <1>4 DEF MarkMessages, TypeOK
  <2> QED BY <2>1, <1>e, <1>b
<1>5. CASE \E h \in MsgGuid : EditMessage(h) \/ UnsendMessage(h)
  <2> PICK h \in MsgGuid : EditMessage(h) \/ UnsendMessage(h)
    BY <1>5
  <2>1. \/ messages'[g] = messages[g]
        \/ messages'[g] = [messages[g] EXCEPT !.edited = TRUE]
        \/ messages[g].fromMe /\ messages'[g] = [messages[g] EXCEPT !.unsent = TRUE]
    BY DEF EditMessage, UnsendMessage, TypeOK
  <2> QED BY <2>1, <1>e, <1>c, <1>d
<1> QED
  BY <1>1, <1>2, <1>3, <1>4, <1>5
     DEF Next, Begin, InsertStep, MarkStep, SingleStep, vars, tables,
         StoreMessage, SendMessage, AttachFile, UpsertChat, UpsertHandle,
         SetChatParticipants, UpsertSender, TouchChat, BumpUnread, InsertAttachment,
         AbortInsert, ZeroUnread, AbortMark, PinChat, ArchiveChat, AddReaction

(* The handles store_message builds from a frame are those of its chat. *)
LEMMA FrameAddressed ==
    ASSUME NEW f \in Frame
    PROVE  Addressed(chat_guid_for(f.who, f.service), {<<a, f.service>> : a \in f.who})
<1> DEFINE H == {<<a, f.service>> : a \in f.who}
<1>1. {Lower[h[1]] : h \in H} = {Lower[a] : a \in f.who}
  <2>1. ASSUME NEW h \in H PROVE Lower[h[1]] \in {Lower[a] : a \in f.who}
    OBVIOUS
  <2>2. ASSUME NEW a \in f.who PROVE Lower[a] \in {Lower[h[1]] : h \in H}
    <3>1. <<a, f.service>> \in H /\ <<a, f.service>>[1] = a
      OBVIOUS
    <3> HIDE DEF H
    <3> QED BY <3>1
  <2> QED BY <2>1, <2>2
<1>2. \A h \in H : h[2] = f.service
  OBVIOUS
<1> QED BY <1>1, <1>2 DEF Addressed, chat_guid_for

(* Every step keeps what the guid of a running insert says of it. *)
LEMMA InsertOriginStep == IInv /\ Origins /\ [Next]_vars => InsertOrigin'
<1> SUFFICES ASSUME IInv, Origins, [Next]_vars, insert' # Free PROVE InsertOrigin'
  BY DEF InsertOrigin
<1> USE DEF IInv, Origins, InsertOrigin
<1>2. ASSUME insert # Free
      PROVE  /\ insert \in Insert /\ insert.guid \in MsgGuid
             /\ InsertOrigin
             /\ DOMAIN insert = {"pc", "who", "todo", "guid", "row", "att"}
  BY <1>2 DEF TypeOK, Insert
<1> DEFINE Same(i) == /\ i.who = insert.who /\ i.guid = insert.guid
                      /\ i.row = insert.row /\ i.att = insert.att
<1>3. CASE \E f \in Frame : StoreMessage(f)
  <2> PICK f \in Frame : StoreMessage(f)
    BY <1>3
  <2>1. f.guid \in RemoteGuid /\ f.guid \notin TempGuid
    BY FrameAssumption, GuidAssumption DEF FrameType
  <2> DEFINE H == {<<a, f.service>> : a \in f.who}
             c == chat_guid_for(f.who, f.service)
  <2>2. Addressed(c, H)
    BY FrameAddressed
  <2>3. /\ insert'.row.chat = c /\ insert'.who = H /\ insert'.guid = f.guid
        /\ insert'.row.fromMe = FALSE /\ insert'.row.unsent = FALSE
        /\ insert'.pc = "upsert_chat" /\ insert'.att = {}
    <3> HIDE DEF H, c
    <3> QED BY DEF StoreMessage, H, c
  <2> HIDE DEF H, c
  <2> QED BY <2>1, <2>2, <2>3
<1>4. CASE \E g \in TempGuid, c \in Chat, now \in Date : SendMessage(g, c, now)
  BY <1>4 DEF SendMessage, LocalRow, IsMessage, tables
<1>5. CASE \E a \in AttGuid, g \in TempGuid, c \in Chat, now \in Date :
              AttachFile(a, g, c, now)
  <2> PICK a \in AttGuid, g \in TempGuid, c \in Chat, now \in Date : AttachFile(a, g, c, now)
    BY <1>5
  <2>1. \A x \in attachments : x[1] # a
    BY DEF AttachFile, AttachmentHasFile
  <2> QED BY <2>1 DEF AttachFile, LocalRow, IsMessage, tables
<1>6. CASE UpsertChat
  BY <1>2, <1>6 DEF UpsertChat, At, AfterHandles
<1>7. CASE UpsertHandle
  <2>1. PICK h \in insert.todo :
           insert' = [insert EXCEPT
                !.todo = @ \ {h}, !.pc = AfterHandles(insert.todo \ {h})]
    BY <1>7 DEF UpsertHandle
  <2>2. insert # Free /\ insert.pc = "upsert_handle"
    BY <1>7 DEF UpsertHandle, At
  <2>3. Same(insert') /\ insert'.pc \in {"upsert_handle", "set_participants"}
    BY <1>2, <2>1, <2>2 DEF AfterHandles
  <2> QED BY <1>2, <1>7, <2>2, <2>3 DEF UpsertHandle
<1>8. CASE SetChatParticipants
  BY <1>2, <1>8 DEF SetChatParticipants, At
<1>9. CASE UpsertSender
  <2>1. insert # Free /\ insert.pc = "upsert_sender" /\ Same(insert')
        /\ insert'.pc = "insert_row" /\ messages' = messages
        /\ attachments' = attachments /\ files' = files
    BY <1>2, <1>9 DEF UpsertSender, At
  <2>2. insert.guid \notin TempGuid
    BY <1>2, <2>1
  <2> QED BY <1>2, <2>1, <2>2
<1>10. CASE InsertRow
  <2>1. insert # Free /\ insert.pc = "insert_row" /\ Same(insert')
        /\ insert'.pc = "touch_chat" /\ files' = files
        /\ attachments' \subseteq attachments
    BY <1>2, <1>10 DEF InsertRow, At
  <2> QED BY <1>2, <2>1
<1>11. CASE TouchChat \/ BumpUnread
  <2>1. insert # Free /\ Same(insert')
        /\ insert'.pc \in {"bump_unread", "insert_attachment"} /\ files' = files
        /\ (insert'.pc = "insert_attachment" => insert.att # {})
        /\ attachments' = attachments /\ insert.pc # "flag_attachment"
    BY <1>2, <1>11 DEF TouchChat, BumpUnread, AfterMessage, At
  <2> QED BY <1>2, <2>1
<1>13. CASE InsertAttachment
  <2>1. insert # Free /\ Same(insert') /\ insert'.pc = "flag_attachment" /\ files' = files
    BY <1>2, <1>13 DEF InsertAttachment, At
  <2> QED BY <1>2, <2>1
<1>14. CASE UNCHANGED vars
  BY <1>14 DEF IsMessage, vars, tables
<1> QED
  BY <1>3, <1>4, <1>5, <1>6, <1>7, <1>8, <1>9, <1>10, <1>11, <1>13, <1>14
     DEF Next, Begin, InsertStep, MarkStep, SingleStep, FlagAttachment, AbortInsert,
         MarkMessages, ZeroUnread, AbortMark, PinChat, ArchiveChat, AddReaction,
         EditMessage, UnsendMessage, LockFree, TypeOK

(* Only the user's own messages are unsent or own attachments, after any step. *)
LEMMA RowOriginsStep == IInv /\ Origins /\ [Next]_vars => RowOrigins'
<1> SUFFICES ASSUME IInv, Origins, [Next]_vars PROVE RowOrigins'
  OBVIOUS
<1>0. TypeOK
  BY DEF IInv
<1>1. ASSUME NEW g \in MsgGuid, IsMessage(g)'
      PROVE  /\ messages'[g].fromMe <=> g \in TempGuid
             /\ messages'[g].unsent => messages'[g].fromMe
  <2>1. CASE InsertRow /\ g = insert.guid
    <3>1. insert # Free /\ messages'[g] = insert.row
      BY <1>0, <2>1, InsertedRow
    <3> QED BY <2>1, <3>1 DEF Origins, InsertOrigin
  <2>2. CASE ~(InsertRow /\ g = insert.guid)
    <3>1. IsMessage(g)
      BY <1>0, <1>1, <2>2, RowsStay
    <3>2. /\ messages'[g].fromMe = messages[g].fromMe
          /\ messages'[g].unsent => messages[g].unsent \/ messages[g].fromMe
      BY <1>0, <2>2, <3>1, RowsKept
    <3> QED BY <3>1, <3>2 DEF Origins, RowOrigins
  <2> QED BY <2>1, <2>2
<1>2. ASSUME NEW x \in attachments' PROVE x[2] \in TempGuid
  <2>1. CASE x \in attachments
    BY <2>1 DEF Origins, RowOrigins
  <2>2. CASE InsertAttachment /\ x \in insert.att \X {insert.guid}
    <3>1. insert # Free /\ insert.att # {} /\ x[2] = insert.guid
      BY <2>2 DEF InsertAttachment, At
    <3> QED BY <3>1 DEF Origins, InsertOrigin
  <2>3. x \in attachments \/ (InsertAttachment /\ x \in insert.att \X {insert.guid})
    BY <1>2
       DEF Next, Begin, InsertStep, MarkStep, SingleStep, vars, tables, StoreMessage,
           SendMessage, AttachFile, UpsertChat, UpsertHandle, SetChatParticipants,
           UpsertSender, InsertRow, TouchChat, BumpUnread, InsertAttachment,
           FlagAttachment, AbortInsert, MarkMessages, ZeroUnread, AbortMark, PinChat,
           ArchiveChat, AddReaction, EditMessage, UnsendMessage
  <2> QED BY <2>1, <2>2, <2>3
<1>3. /\ (\A g \in MsgGuid : IsMessage(g) =>
            /\ messages[g].fromMe <=> g \in TempGuid
            /\ messages[g].unsent => messages[g].fromMe)'
      /\ (\A x \in attachments : x[2] \in TempGuid)'
  BY <1>1, <1>2
<1> QED BY <1>3 DEF RowOrigins

(* Every step keeps an attachment row pointing at a copy and a flagged message. *)
LEMMA AttachmentStep == IInv /\ Origins /\ [Next]_vars => AttachmentHasFile'
<1> SUFFICES ASSUME IInv, Origins, [Next]_vars, NEW x \in attachments'
             PROVE  x[1] \in files' /\ IsMessage(x[2])' /\ messages'[x[2]].attached
  BY DEF AttachmentHasFile
<1>0. TypeOK /\ files \subseteq files'
  BY DEF IInv, Next, Begin, InsertStep, MarkStep, SingleStep, vars, tables, StoreMessage,
         SendMessage, AttachFile, UpsertChat, UpsertHandle, SetChatParticipants,
         UpsertSender, InsertRow, TouchChat, BumpUnread, InsertAttachment,
         FlagAttachment, AbortInsert, MarkMessages, ZeroUnread, AbortMark, PinChat,
         ArchiveChat, AddReaction, EditMessage, UnsendMessage
<1>1. CASE InsertAttachment /\ x \in insert.att \X {insert.guid}
  <2>1. /\ insert # Free /\ insert.att # {} /\ x[1] \in insert.att /\ x[2] = insert.guid
        /\ insert.pc = "insert_attachment" /\ messages' = messages /\ files' = files
        /\ IsMessage(insert.guid)
    BY <1>1 DEF InsertAttachment, At
  <2>2. messages[insert.guid] = insert.row /\ insert.row.attached /\ x[1] \in files
    BY <2>1 DEF IInv, InsertProgress, Origins, InsertOrigin
  <2> QED BY <2>1, <2>2 DEF IsMessage
<1>2. CASE x \in attachments /\ ~(InsertRow /\ x[2] = insert.guid)
  <2>1. x[1] \in files /\ IsMessage(x[2]) /\ messages[x[2]].attached /\ x[2] \in MsgGuid
    BY <1>0, <1>2 DEF Origins, AttachmentHasFile, TypeOK
  <2> QED BY <1>0, <1>2, <2>1, RowsKept
<1>3. \/ InsertAttachment /\ x \in insert.att \X {insert.guid}
      \/ x \in attachments /\ ~(InsertRow /\ x[2] = insert.guid)
  BY DEF Next, Begin, InsertStep, MarkStep, SingleStep, vars, tables, StoreMessage,
         SendMessage, AttachFile, UpsertChat, UpsertHandle, SetChatParticipants,
         UpsertSender, InsertRow, TouchChat, BumpUnread, InsertAttachment,
         FlagAttachment, AbortInsert, MarkMessages, ZeroUnread, AbortMark, PinChat,
         ArchiveChat, AddReaction, EditMessage, UnsendMessage, At, LockFree
<1> QED BY <1>1, <1>2, <1>3

(* Every step keeps the stored participants those of the chat's guid: only the
   transaction writes them, and it writes the set the guid was computed from. *)
LEMMA ThreadStep == IInv /\ Origins /\ [Next]_vars => ThreadKey'
<1> DEFINE Of(T, c) == {x[2] : x \in {y \in T : y[1] = c}}
<1> SUFFICES ASSUME IInv, Origins, [Next]_vars, NEW c \in Chat, Of(chatHandles', c) # {}
             PROVE  Addressed(c, Of(chatHandles', c))
  BY DEF ThreadKey, Addressed
<1>1. CASE chatHandles' = chatHandles
  <2>1. Of(chatHandles, c) # {} => Addressed(c, Of(chatHandles, c))
    BY DEF Origins, ThreadKey, Addressed
  <2> QED BY <1>1, <2>1
<1>2. CASE SetChatParticipants
  <2>1. /\ insert # Free /\ insert.pc = "set_participants"
        /\ chatHandles' = {x \in chatHandles : x[1] # insert.row.chat}
                          \cup ({insert.row.chat} \X insert.who)
    BY <1>2 DEF SetChatParticipants, At
  <2>2. Addressed(insert.row.chat, insert.who)
    BY <2>1 DEF Origins, InsertOrigin
  <2>3. CASE c = insert.row.chat
    <3>1. Of(chatHandles', c) = insert.who
      <4>1. ASSUME NEW h \in insert.who PROVE h \in Of(chatHandles', c)
        <5>1. <<c, h>> \in chatHandles' /\ <<c, h>>[1] = c /\ <<c, h>>[2] = h
          BY <2>1, <2>3
        <5> QED BY <5>1
      <4>2. ASSUME NEW x \in chatHandles', x[1] = c PROVE x[2] \in insert.who
        BY <2>1, <2>3, <4>2
      <4> QED BY <4>1, <4>2
    <3> QED BY <2>2, <2>3, <3>1
  <2>4. CASE c # insert.row.chat
    <3>1. Of(chatHandles', c) = Of(chatHandles, c)
      BY <2>1, <2>4
    <3>2. Of(chatHandles, c) # {} => Addressed(c, Of(chatHandles, c))
      BY DEF Origins, ThreadKey, Addressed
    <3> QED BY <3>1, <3>2
  <2> QED BY <2>3, <2>4
<1>3. chatHandles' = chatHandles \/ SetChatParticipants
  BY DEF Next, Begin, InsertStep, MarkStep, SingleStep, vars, tables, StoreMessage,
         SendMessage, AttachFile, UpsertChat, UpsertHandle,
         UpsertSender, InsertRow, TouchChat, BumpUnread, InsertAttachment,
         FlagAttachment, AbortInsert, MarkMessages, ZeroUnread, AbortMark, PinChat,
         ArchiveChat, AddReaction, EditMessage, UnsendMessage
<1> QED BY <1>1, <1>2, <1>3

(* Rows and running inserts are what their guids say, threads hold their own
   participants, and attachments their files, in every reachable state. *)
THEOREM OriginsInductive == Spec => [](IInv /\ Origins)
<1>1. Init => Origins
  BY DEF Init, Origins, InsertOrigin, RowOrigins, ThreadKey, AttachmentHasFile, IsMessage
<1>2. IInv /\ Origins /\ [Next]_vars => Origins'
  BY InsertOriginStep, RowOriginsStep, ThreadStep, AttachmentStep DEF Origins
<1> QED BY <1>1, <1>2, Inductive, PTL DEF Spec

(* A thread's stored participants are exactly the set its guid names, on the
   guid's service, whatever spelling each message used and wherever an insert
   was cut off (receive.rs store_message, storage.rs set_chat_participants). *)
THEOREM ThreadsKeepTheirKey == Spec => []ThreadKey
<1>1. Origins => ThreadKey
  BY DEF Origins
<1> QED BY <1>1, OriginsInductive, PTL

(* An attachment row names a copy on disk and a message flagged as having one:
   attach_file_local copies before it writes, and nothing takes either away. *)
THEOREM AttachmentsHaveFiles == Spec => []AttachmentHasFile
<1>1. Origins => AttachmentHasFile
  BY DEF Origins
<1> QED BY <1>1, OriginsInductive, PTL

(* No step removes a chat, a message or an attachment row, or takes back an
   unsend, although messages are written with INSERT OR REPLACE and cascades. *)
THEOREM NothingEverVanishes == Spec => NothingVanishes
<1> DEFINE Stay == /\ \A c \in Chat : IsChat(c) => IsChat(c)'
                   /\ \A g \in MsgGuid : IsMessage(g) =>
                         IsMessage(g)' /\ (messages[g].unsent => messages'[g].unsent)
                   /\ attachments \subseteq attachments'
<1>1. IInv /\ Origins /\ [Next]_vars => Stay
  <2> SUFFICES ASSUME IInv, Origins, [Next]_vars PROVE Stay
    OBVIOUS
  <2>0. TypeOK
    BY DEF IInv
  <2>1. \A c \in Chat : IsChat(c) => IsChat(c)'
    BY <2>0, ChatsStay
  <2>2. ASSUME NEW g \in MsgGuid, IsMessage(g)
        PROVE  IsMessage(g)' /\ (messages[g].unsent => messages'[g].unsent)
    <3>1. CASE InsertRow /\ g = insert.guid
      <4>1. /\ insert # Free /\ messages'[g] = insert.row /\ insert.row \in MessageRow
            /\ insert.pc = "insert_row"
        BY <2>0, <3>1, InsertedRow
      <4>2. g \notin TempGuid
        BY <2>2, <3>1, <4>1 DEF Origins, InsertOrigin
      <4>3. ~messages[g].unsent
        BY <2>2, <4>2 DEF Origins, RowOrigins
      <4> QED BY <4>1, <4>3, NullAssumption DEF IsMessage
    <3>2. CASE ~(InsertRow /\ g = insert.guid)
      BY <2>0, <2>2, <3>2, RowsKept
    <3> QED BY <3>1, <3>2
  <2>3. attachments \subseteq attachments'
    <3>1. CASE InsertRow
      <4>1. insert # Free /\ insert.pc = "insert_row" /\ insert.guid \in MsgGuid
        BY <2>0, <3>1, InsertedRow
      <4>2. \A x \in attachments : x[2] # insert.guid
        BY <4>1 DEF Origins, InsertOrigin, RowOrigins, AttachmentHasFile
      <4> QED BY <3>1, <4>2 DEF InsertRow
    <3>2. CASE InsertAttachment
      <4>1. insert # Free /\ insert.pc = "insert_attachment"
        BY <3>2 DEF InsertAttachment, At
      <4>2. \A x \in attachments : x[1] \notin insert.att
        BY <4>1 DEF Origins, InsertOrigin
      <4> QED BY <3>2, <4>2 DEF InsertAttachment
    <3>3. attachments' = attachments \/ InsertRow \/ InsertAttachment
      BY DEF Next, Begin, InsertStep, MarkStep, SingleStep, vars, tables, StoreMessage,
         SendMessage, AttachFile, UpsertChat, UpsertHandle, SetChatParticipants,
         UpsertSender, TouchChat, BumpUnread,
         FlagAttachment, AbortInsert, MarkMessages, ZeroUnread, AbortMark, PinChat,
         ArchiveChat, AddReaction, EditMessage, UnsendMessage
    <3> QED BY <3>1, <3>2, <3>3
  <2> QED BY <2>1, <2>2, <2>3
<1> HIDE DEF Stay
<1>2. [](IInv /\ Origins) /\ [][Next]_vars => [][Stay]_vars
  BY <1>1, PTL
<1>3. [][Stay]_vars => NothingVanishes
  BY DEF Stay, NothingVanishes
<1> QED BY <1>2, <1>3, OriginsInductive, PTL DEF Spec

(* An operation of several statements leaves pins and archive flags alone. *)
LEMMA FlagsKept ==
    ASSUME TypeOK, [Next]_vars, ~LockFree, NEW c \in Chat, IsChat(c)
    PROVE  /\ chats'[c].pinned = chats[c].pinned
           /\ chats'[c].archived = chats[c].archived
<1>0. chats[c] \in ChatRow
  BY DEF TypeOK, IsChat
<1>1. CASE UpsertChat
  BY <1>0, <1>1, NullAssumption DEF UpsertChat, TypeOK
<1>2. CASE TouchChat
  <2>1. chats'[c] = chats[c] \/ \E n : chats'[c] = [chats[c] EXCEPT !.last = n]
    BY <1>2 DEF TouchChat, Touched, TypeOK, IsChat
  <2> QED BY <1>0, <2>1 DEF ChatRow
<1>3. CASE BumpUnread
  <2>1. chats'[c] = chats[c] \/ \E n : chats'[c] = [chats[c] EXCEPT !.unread = n]
    BY <1>3 DEF BumpUnread, Bumped, TypeOK, IsChat
  <2> QED BY <1>0, <2>1 DEF ChatRow
<1>4. CASE \E d \in Chat : ZeroUnread(d)
  <2>1. chats'[c] = chats[c] \/ \E n : chats'[c] = [chats[c] EXCEPT !.unread = n]
    BY <1>4 DEF ZeroUnread, TypeOK, IsChat
  <2> QED BY <1>0, <2>1 DEF ChatRow
<1>5. CASE chats' = chats
  BY <1>5
<1> QED
  BY <1>1, <1>2, <1>3, <1>4, <1>5
     DEF Next, Begin, InsertStep, MarkStep, SingleStep, vars, tables, StoreMessage,
         SendMessage, AttachFile, UpsertHandle, SetChatParticipants, UpsertSender,
         InsertRow, InsertAttachment, FlagAttachment, AbortInsert, MarkMessages,
         AbortMark, PinChat, ArchiveChat, AddReaction, EditMessage, UnsendMessage

(* An arriving message leaves pins, archive flags and every other message's
   read mark alone, at whichever statement it is cut off. *)
THEOREM UserStateAlwaysKept == Spec => UserStateKept
<1> DEFINE Kept == ~LockFree =>
             /\ \A c \in Chat : IsChat(c) =>
                   /\ chats'[c].pinned = chats[c].pinned
                   /\ chats'[c].archived = chats[c].archived
             /\ \A g \in MsgGuid : IsMessage(g) /\ messages[g].read =>
                   messages'[g].read \/ insert.guid = g
<1>1. IInv /\ [Next]_vars => Kept
  <2> SUFFICES ASSUME IInv, [Next]_vars, ~LockFree
               PROVE  /\ \A c \in Chat : IsChat(c) =>
                            /\ chats'[c].pinned = chats[c].pinned
                            /\ chats'[c].archived = chats[c].archived
                      /\ \A g \in MsgGuid : IsMessage(g) /\ messages[g].read =>
                            messages'[g].read \/ insert.guid = g
    OBVIOUS
  <2>0. TypeOK
    BY DEF IInv
  <2>1. ASSUME NEW c \in Chat, IsChat(c)
        PROVE  chats'[c].pinned = chats[c].pinned /\ chats'[c].archived = chats[c].archived
    BY <2>0, <2>1, FlagsKept
  <2>2. ASSUME NEW g \in MsgGuid, IsMessage(g), messages[g].read, insert.guid # g
        PROVE  messages'[g].read
    <3>1. ~(InsertRow /\ g = insert.guid)
      BY <2>2
    <3>2. IsMessage(g)'
      BY <2>0, <2>2, <3>1, RowsKept
    <3> QED BY <2>0, <2>2, <3>1, <3>2, RowsStay
  <2> QED BY <2>1, <2>2
<1> HIDE DEF Kept
<1>2. []IInv /\ [][Next]_vars => [][Kept]_vars
  BY <1>1, PTL
<1>3. [][Kept]_vars => UserStateKept
  BY DEF Kept, UserStateKept
<1> QED BY <1>2, <1>3, Inductive, PTL DEF Spec
=============================================================================
