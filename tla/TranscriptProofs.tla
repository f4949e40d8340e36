-------------------------- MODULE TranscriptProofs --------------------------
(***************************************************************************)
(* Proofs about Transcript: the view holds the lines of the model, in      *)
(* order, and the model misses no write to the store, for any number of    *)
(* chats and messages, any limit on the rows fetched, bursts of any length *)
(* and any interleaving of arrivals, edits, polls and selections.          *)
(***************************************************************************)
EXTENDS Transcript, SequenceTheorems, WellFoundedInduction, TLAPS

(* ViewInStep is inductive next to the types: an append is told from a reset
   by comparing the new rows with the old ones, which the view has. *)
Inv == TypeOK /\ ViewInStep

-----------------------------------------------------------------------------
(* A sequence with a row put in anywhere is a sequence of rows. *)
LEMMA InsertAtType ==
    ASSUME NEW s \in Seq(Row), NEW e \in Row, NEW k \in 1 .. Len(s) + 1
    PROVE  InsertAt(s, k, e) \in Seq(Row)
<1>1. Len(s) \in Nat /\ \A i \in 1 .. Len(s) : s[i] \in Row
  BY LenProperties, ElementOfSeq
<1>2. SubSeq(s, 1, k - 1) \in Seq(Row)
  BY <1>1, SubSeqProperties
<1>3. SubSeq(s, k, Len(s)) \in Seq(Row)
  BY <1>1, SubSeqProperties
<1> QED BY <1>2, <1>3, ConcatProperties DEF InsertAt

(* Taking one row out leaves a sequence of rows, one shorter. *)
LEMMA RemoveAtType ==
    ASSUME NEW s \in Seq(Row), NEW i \in 1 .. Len(s)
    PROVE  RemoveAt(s, i) \in Seq(Row) /\ Len(RemoveAt(s, i)) = Len(s) - 1
<1>1. Len(s) \in Nat /\ \A j \in 1 .. Len(s) : s[j] \in Row
  BY LenProperties, ElementOfSeq
<1>2. SubSeq(s, 1, i - 1) \in Seq(Row) /\ Len(SubSeq(s, 1, i - 1)) = i - 1
  BY <1>1, SubSeqProperties
<1>3. SubSeq(s, i + 1, Len(s)) \in Seq(Row) /\ Len(SubSeq(s, i + 1, Len(s))) = Len(s) - i
  BY <1>1, SubSeqProperties
<1> DEFINE l == SubSeq(s, 1, i - 1)
           r == SubSeq(s, i + 1, Len(s))
<1>4. l \o r \in Seq(Row) /\ Len(l \o r) = Len(l) + Len(r)
  BY <1>2, <1>3, ConcatProperties
<1>5. RemoveAt(s, i) = l \o r
  BY DEF RemoveAt
<1>6. Len(l) = i - 1 /\ Len(r) = Len(s) - i
  BY <1>2, <1>3
<1>7. (i - 1) + (Len(s) - i) = Len(s) - 1
  <2>1. Len(s) \in Nat
    BY <1>1
  <2> QED BY <2>1
<1> HIDE DEF l, r
<1> QED BY <1>4, <1>5, <1>6, <1>7

(* Wherever INSERT OR REPLACE puts a message, its chat stays a sequence of rows. *)
LEMMA LandingType ==
    ASSUME TypeOK, NEW c \in Chat, NEW g \in Remote \cup Local, NEW s \in Landing(c, g)
    PROVE  s \in Seq(Row)
<1> DEFINE row == [guid |-> g, version |-> 0]
           i == CHOOSE k \in DOMAIN store[c] : store[c][k].guid = g
<1>1. store[c] \in Seq(Row) /\ Len(store[c]) \in Nat /\ DOMAIN store[c] = 1 .. Len(store[c])
  BY LenProperties DEF TypeOK
<1>2. row \in Row
  BY TranscriptAssumption DEF Row
<1>3. CASE g \in Stored(c)
  <2>1. i \in 1 .. Len(store[c])
    BY <1>1, <1>3 DEF Stored
  <2>2. RemoveAt(store[c], i) \in Seq(Row) /\ Len(RemoveAt(store[c], i)) = Len(store[c]) - 1
    BY <1>1, <2>1, RemoveAtType
  <2>3. PICK k \in i .. Len(store[c]) : s = InsertAt(RemoveAt(store[c], i), k, row)
    BY <1>3 DEF Landing
  <2>4. k \in 1 .. Len(RemoveAt(store[c], i)) + 1
    BY <1>1, <2>1, <2>2, <2>3
  <2> QED BY <1>2, <2>2, <2>3, <2>4, InsertAtType
<1>4. CASE g \notin Stored(c)
  <2>1. PICK k \in 1 .. Len(store[c]) + 1 : s = InsertAt(store[c], k, row)
    BY <1>4 DEF Landing
  <2> QED BY <1>1, <1>2, <2>1, InsertAtType
<1> QED BY <1>3, <1>4

(* fetchRows gives rows of the chat that is open, or none. *)
LEMMA FetchType ==
    ASSUME NEW st \in [Chat -> Seq(Row)], NEW c \in Chat \cup {NoChat}
    PROVE  Fetch(st, c) \in Seq(Row)
<1>1. CASE c = NoChat
  BY <1>1, EmptySeq DEF Fetch
<1>2. CASE c # NoChat
  <2>1. st[c] \in Seq(Row) /\ Len(st[c]) \in Nat /\ \A i \in 1 .. Len(st[c]) : st[c][i] \in Row
    BY <1>2, LenProperties, ElementOfSeq
  <2>2. Limit \in Nat
    BY TranscriptAssumption
  <2>3. Len(st[c]) > Limit => SubSeq(st[c], Len(st[c]) - Limit + 1, Len(st[c])) \in Seq(Row)
    BY <2>1, <2>2, SubSeqProperties
  <2> QED BY <1>2, <2>1, <2>2, <2>3 DEF Fetch, Newest
<1> QED BY <1>1, <1>2

-----------------------------------------------------------------------------
(* refresh keeps the view in step: after an append the old lines have the
   guids of the new rows and the rest is built from them; after a reset
   everything is. *)
LEMMA RefreshKeeps ==
    ASSUME Inv, NEW next \in Seq(Row), Refresh(next)
    PROVE  /\ rows' \in Seq(Row) /\ onScreen' \in Seq(Row)
           /\ signal' \in {"append", "reset"}
           /\ ViewInStep'
<1>1. /\ rows \in Seq(Row) /\ onScreen \in Seq(Row)
      /\ Len(rows) \in Nat /\ DOMAIN rows = 1 .. Len(rows)
      /\ Len(onScreen) \in Nat /\ DOMAIN onScreen = 1 .. Len(onScreen)
      /\ Len(next) \in Nat /\ DOMAIN next = 1 .. Len(next)
      /\ \A i \in 1 .. Len(next) : next[i] \in Row
  BY LenProperties, ElementOfSeq DEF Inv, TypeOK
<1>2. DOMAIN onScreen = DOMAIN rows /\ \A i \in DOMAIN rows : onScreen[i].guid = rows[i].guid
  <2>1. DOMAIN Guids(onScreen) = DOMAIN onScreen /\ DOMAIN Guids(rows) = DOMAIN rows
    BY DEF Guids
  <2>2. Guids(onScreen) = Guids(rows)
    BY DEF Inv, ViewInStep
  <2>3. DOMAIN onScreen = DOMAIN rows
    BY <2>1, <2>2
  <2>4. ASSUME NEW i \in DOMAIN rows PROVE onScreen[i].guid = rows[i].guid
    <3>1. Guids(onScreen)[i] = onScreen[i].guid /\ Guids(rows)[i] = rows[i].guid
      BY <2>3 DEF Guids
    <3> QED BY <2>2, <3>1
  <2> QED BY <2>3, <2>4
<1>3. Len(onScreen) = Len(rows)
  <2>1. Len(onScreen) <= Len(rows)
    <3>1. Len(onScreen) > 0 => Len(onScreen) \in DOMAIN rows
      BY <1>1, <1>2
    <3> QED BY <1>1, <3>1
  <2>2. Len(rows) <= Len(onScreen)
    <3>1. Len(rows) > 0 => Len(rows) \in DOMAIN onScreen
      BY <1>1, <1>2
    <3> QED BY <1>1, <3>1
  <2>3. Len(onScreen) \in Nat /\ Len(rows) \in Nat
    BY <1>1
  <2> QED BY <2>1, <2>2, <2>3
<1>4. CASE IsAppend(next)
  <2> DEFINE new == SubSeq(next, Len(rows) + 1, Len(next))
  <2>1. Len(next) > Len(rows) /\ \A i \in 1 .. Len(rows) : rows[i].guid = next[i].guid
    BY <1>1, <1>4 DEF IsAppend
  <2>2. /\ new \in Seq(Row) /\ Len(new) = Len(next) - Len(rows)
        /\ \A i \in 1 .. Len(next) - Len(rows) : new[i] = next[Len(rows) + i]
    <3>1. \A i \in Len(rows) + 1 .. Len(next) : next[i] \in Row
      BY <1>1
    <3>2. /\ new \in Seq(Row)
          /\ Len(new) = IF Len(rows) + 1 <= Len(next) THEN Len(next) - (Len(rows) + 1) + 1 ELSE 0
          /\ \A i \in 1 .. Len(next) - (Len(rows) + 1) + 1 : new[i] = next[(Len(rows) + 1) + i - 1]
      BY <1>1, <3>1, SubSeqProperties
    <3> HIDE DEF new
    <3>3. Len(new) = Len(next) - Len(rows)
      <4>1. Len(rows) \in Nat /\ Len(next) \in Nat
        BY <1>1
      <4>2. Len(rows) + 1 <= Len(next) /\ Len(next) - (Len(rows) + 1) + 1 = Len(next) - Len(rows)
        BY <2>1, <4>1
      <4> QED BY <3>2, <4>2
    <3>4. ASSUME NEW i \in 1 .. Len(next) - Len(rows) PROVE new[i] = next[Len(rows) + i]
      <4>1. i \in 1 .. Len(next) - (Len(rows) + 1) + 1 /\ (Len(rows) + 1) + i - 1 = Len(rows) + i
        BY <1>1
      <4> QED BY <3>2, <4>1
    <3> QED BY <3>2, <3>3, <3>4
  <2>3. rows' = next /\ onScreen' = onScreen \o new /\ signal' = "append"
    BY <1>4 DEF Refresh
  <2>4. /\ onScreen' \in Seq(Row) /\ Len(onScreen') = Len(next)
        /\ \A i \in 1 .. Len(next) :
              onScreen'[i] = IF i <= Len(rows) THEN onScreen[i] ELSE new[i - Len(rows)]
    <3>1. /\ onScreen \o new \in Seq(Row) /\ Len(onScreen \o new) = Len(onScreen) + Len(new)
          /\ \A i \in 1 .. Len(onScreen) + Len(new) :
                (onScreen \o new)[i] = IF i <= Len(onScreen) THEN onScreen[i] ELSE new[i - Len(onScreen)]
      BY <1>1, <2>2, ConcatProperties
    <3> HIDE DEF new
    <3>2. Len(onScreen) + Len(new) = Len(next)
      BY <1>1, <1>3, <2>2
    <3> QED BY <1>3, <2>3, <3>1, <3>2
  <2>5. ASSUME NEW i \in 1 .. Len(next) PROVE onScreen'[i].guid = next[i].guid
    <3>1. CASE i <= Len(rows)
      BY <1>1, <1>2, <2>1, <2>4, <3>1
    <3>2. CASE i > Len(rows)
      <4>1. i - Len(rows) \in 1 .. Len(next) - Len(rows) /\ Len(rows) + (i - Len(rows)) = i
        BY <1>1, <3>2
      <4> QED BY <2>2, <2>4, <3>2, <4>1, <1>1
    <3> QED BY <1>1, <3>1, <3>2
  <2>6. DOMAIN onScreen' = 1 .. Len(next)
    BY <2>4, LenProperties
  <2>7. Guids(onScreen)' = Guids(rows)'
    BY <1>1, <2>3, <2>5, <2>6 DEF Guids
  <2> QED BY <2>3, <2>4, <2>7 DEF ViewInStep
<1>5. CASE ~IsAppend(next)
  BY <1>5 DEF Refresh, ViewInStep
<1> QED BY <1>4, <1>5

(* So does a refresh whose list_messages may fail. *)
LEMMA ReloadKeeps ==
    ASSUME Inv, NEW st \in [Chat -> Seq(Row)], NEW c \in Chat \cup {NoChat}, Reload(st, c)
    PROVE  /\ rows' \in Seq(Row) /\ onScreen' \in Seq(Row)
           /\ signal' \in {"append", "reset"} /\ missed' \in BOOLEAN
           /\ ViewInStep'
<1>1. PICK next \in Seq(Row) : Refresh(next)
  BY FetchType, EmptySeq DEF Reload
<1>2. missed' \in BOOLEAN
  BY DEF Reload
<1> QED BY <1>1, <1>2, RefreshKeeps

(* onCoreMessagesChanged refreshes the open chat or does nothing at all. *)
LEMMA ChangedKeeps ==
    ASSUME Inv, NEW guid, NEW st \in [Chat -> Seq(Row)], MessagesChanged(guid, st)
    PROVE  /\ rows' \in Seq(Row) /\ onScreen' \in Seq(Row)
           /\ signal' \in {"none", "append", "reset"} /\ missed' \in BOOLEAN
           /\ ViewInStep'
<1>1. open \in Chat \cup {NoChat}
  BY DEF Inv, TypeOK
<1>2. CASE guid \in {NoChat, open}
  BY <1>1, <1>2, ReloadKeeps DEF MessagesChanged
<1>3. CASE guid \notin {NoChat, open}
  BY <1>3 DEF MessagesChanged, Inv, TypeOK, ViewInStep
<1> QED BY <1>2, <1>3

(* A chat of the store replaced by a sequence of rows leaves the store typed. *)
LEMMA StoreType ==
    ASSUME TypeOK, NEW c \in Chat, NEW s \in Seq(Row)
    PROVE  [store EXCEPT ![c] = s] \in [Chat -> Seq(Row)]
BY DEF TypeOK

(* One more version of a row is a row, and its chat a sequence of rows. *)
LEMMA VersionType ==
    ASSUME TypeOK, NEW c \in Chat, NEW i \in 1 .. Len(store[c]), store[c][i].version < MaxVersion
    PROVE  [store EXCEPT ![c][i].version = @ + 1] \in [Chat -> Seq(Row)]
<1> DEFINE row == [store[c][i] EXCEPT !.version = @ + 1]
<1>1. store[c] \in Seq(Row) /\ store[c][i] \in Row
  BY ElementOfSeq DEF TypeOK
<1>2. row \in Row
  <2>1. store[c][i].version \in 0 .. MaxVersion /\ MaxVersion \in Nat
    BY <1>1, TranscriptAssumption DEF Row
  <2>2. store[c][i].version + 1 \in 0 .. MaxVersion
    BY <2>1
  <2> QED BY <1>1, <2>2 DEF Row
<1>3. [store[c] EXCEPT ![i] = row] \in Seq(Row)
  BY <1>1, <1>2, ExceptSeq
<1>4. [store EXCEPT ![c] = [store[c] EXCEPT ![i] = row]] \in [Chat -> Seq(Row)]
  BY <1>3, StoreType
<1> QED BY <1>4

(* A message written here and the refresh after it keep the types and the view. *)
LEMMA WriteKeeps ==
    ASSUME Inv, NEW g \in Local, Write(g)
    PROVE  /\ store' \in [Chat -> Seq(Row)] /\ rows' \in Seq(Row) /\ onScreen' \in Seq(Row)
           /\ signal' \in {"none", "append", "reset"} /\ missed' \in BOOLEAN
           /\ ViewInStep'
<1>1. TypeOK /\ open \in Chat
  BY DEF Write, Inv, TypeOK
<1>2. PICK s \in Landing(open, g) :
        store' = [store EXCEPT ![open] = s] /\ MessagesChanged(open, store')
  BY DEF Write
<1>3. store' \in [Chat -> Seq(Row)]
  BY <1>1, <1>2, LandingType, StoreType
<1> QED BY <1>2, <1>3, ChangedKeeps

-----------------------------------------------------------------------------
(* Nothing stored, nothing open. *)
LEMMA InitInv == Init => Inv
<1> SUFFICES ASSUME Init PROVE Inv
  OBVIOUS
<1>0. missed \in BOOLEAN
  BY DEF Init
<1>1. TypeOK
  BY <1>0, EmptySeq, TranscriptAssumption DEF Init, TypeOK
<1>2. ViewInStep
  BY DEF Init, ViewInStep
<1> QED BY <1>1, <1>2 DEF Inv

(* Every step of the receive loop, the window and the view keeps Inv. *)
LEMMA StepInv == Inv /\ [Next]_vars => Inv'
<1> SUFFICES ASSUME Inv, [Next]_vars PROVE Inv'
  OBVIOUS
<1>1. TypeOK /\ ViewInStep /\ MaxEvents \in Nat /\ Len(events) \in Nat
  BY TranscriptAssumption, LenProperties DEF Inv, TypeOK
<1>2. ASSUME NEW g \in Remote, Arrive(g) PROVE Inv'
  <2>1. Home[g] \in Chat
    BY TranscriptAssumption
  <2>2. PICK s \in Landing(Home[g], g) : store' = [store EXCEPT ![Home[g]] = s]
    BY <1>2 DEF Arrive
  <2>3. store' \in [Chat -> Seq(Row)]
    BY <1>1, <2>1, <2>2, LandingType, StoreType
  <2>4. landed' = Home[g] /\ UNCHANGED <<events, failed, open, rows, onScreen, signal, missed>>
    BY <1>2 DEF Arrive
  <2> QED BY <1>1, <2>1, <2>3, <2>4 DEF Inv, TypeOK, ViewInStep
<1>2a. ASSUME NEW g \in Remote, ArriveFails(g) PROVE Inv'
  <2>1. Home[g] \in Chat
    BY TranscriptAssumption
  <2>2. PICK s \in Landing(Home[g], g) : store' = [store EXCEPT ![Home[g]] = s]
    BY <1>2a DEF ArriveFails
  <2>3. store' \in [Chat -> Seq(Row)]
    BY <1>1, <2>1, <2>2, LandingType, StoreType
  <2>4. missed' \in BOOLEAN /\ UNCHANGED <<landed, events, failed, open, rows, onScreen, signal>>
    BY <1>2a DEF ArriveFails
  <2> QED BY <1>1, <2>3, <2>4 DEF Inv, TypeOK, ViewInStep
<1>3. ASSUME Announce PROVE Inv'
  <2>1. /\ landed \in Chat /\ Len(events) < MaxEvents
        /\ events' = Append(events, landed) /\ landed' = NoChat
        /\ UNCHANGED <<store, failed, open, rows, onScreen, signal, missed>>
    BY <1>1, <1>3 DEF Announce, TypeOK
  <2>2. events' \in Seq(Chat) /\ Len(events') <= MaxEvents
    BY <1>1, <2>1, AppendProperties DEF TypeOK
  <2> QED BY <1>1, <2>1, <2>2 DEF Inv, TypeOK, ViewInStep
<1>4. ASSUME NEW c \in Chat, SelectChat(c) PROVE Inv'
  <2>1. store \in [Chat -> Seq(Row)]
    BY <1>1 DEF TypeOK
  <2>2. open' = c /\ Reload(store, c) /\ UNCHANGED <<store, landed, events, failed>>
    BY <1>4 DEF SelectChat
  <2>3. /\ rows' \in Seq(Row) /\ onScreen' \in Seq(Row)
        /\ signal' \in {"append", "reset"} /\ missed' \in BOOLEAN /\ ViewInStep'
    BY <2>1, <2>2, ReloadKeeps
  <2> QED BY <1>1, <2>2, <2>3 DEF Inv, TypeOK
<1>5. ASSUME NEW g \in Local, SendMessage(g) PROVE Inv'
  <2>1. open \in Chat /\ Len(events) < MaxEvents /\ Write(g)
    BY <1>1, <1>5 DEF SendMessage, Write, TypeOK
  <2>3. store' \in [Chat -> Seq(Row)]
    BY <2>1, WriteKeeps
  <2>4. /\ rows' \in Seq(Row) /\ onScreen' \in Seq(Row)
        /\ signal' \in {"none", "append", "reset"} /\ missed' \in BOOLEAN /\ ViewInStep'
    BY <2>1, WriteKeeps
  <2>5. events' = Append(events, open) /\ UNCHANGED <<landed, failed, open>>
    BY <1>5 DEF SendMessage
  <2>6. events' \in Seq(Chat) /\ Len(events') <= MaxEvents
    BY <1>1, <2>1, <2>5, AppendProperties DEF TypeOK
  <2> QED BY <1>1, <2>3, <2>4, <2>5, <2>6 DEF Inv, TypeOK
<1>5a. ASSUME NEW g \in Local, SendCutShort(g) PROVE Inv'
  <2>1. Write(g) /\ failed' = failed \cup {g} /\ UNCHANGED <<landed, events, open>>
    BY <1>5a DEF SendCutShort
  <2>2. /\ store' \in [Chat -> Seq(Row)] /\ rows' \in Seq(Row) /\ onScreen' \in Seq(Row)
        /\ signal' \in {"none", "append", "reset"} /\ missed' \in BOOLEAN /\ ViewInStep'
    BY <2>1, WriteKeeps
  <2> QED BY <1>1, <2>1, <2>2 DEF Inv, TypeOK
<1>6. ASSUME NEW g \in Local, SendFails(g) PROVE Inv'
  <2>1. PICK c \in Chat : events' = Append(events, c)
    BY <1>6 DEF SendFails
  <2>2. /\ Len(events) < MaxEvents /\ failed' = failed \cup {g}
        /\ UNCHANGED <<store, landed, open, rows, onScreen, signal, missed>>
    BY <1>6 DEF SendFails
  <2>3. events' \in Seq(Chat) /\ Len(events') <= MaxEvents
    BY <1>1, <2>1, <2>2, AppendProperties DEF TypeOK
  <2> QED BY <1>1, <2>2, <2>3 DEF Inv, TypeOK, ViewInStep
<1>7. ASSUME NEW g \in Local, ChangeMessage(g) PROVE Inv'
  <2>1. PICK c \in Chat, i \in 1 .. Cardinality(Remote \cup Local) :
          /\ i <= Len(store[c]) /\ store[c][i].version < MaxVersion
          /\ store' = [store EXCEPT ![c][i].version = @ + 1]
    BY <1>7 DEF ChangeMessage
  <2>2. store' \in [Chat -> Seq(Row)]
    <3>1. Len(store[c]) \in Nat
      BY <1>1, LenProperties DEF TypeOK
    <3>2. i \in 1 .. Len(store[c])
      BY <2>1, <3>1
    <3> QED BY <1>1, <2>1, <3>2, VersionType
  <2>3. MessagesChanged(NoChat, store') /\ UNCHANGED <<landed, events, failed, open>>
    BY <1>7 DEF ChangeMessage
  <2>4. /\ rows' \in Seq(Row) /\ onScreen' \in Seq(Row)
        /\ signal' \in {"none", "append", "reset"} /\ missed' \in BOOLEAN /\ ViewInStep'
    BY <2>2, <2>3, ChangedKeeps
  <2> QED BY <1>1, <2>2, <2>3, <2>4 DEF Inv, TypeOK
<1>8. ASSUME Tapback PROVE Inv'
  <2>1. MessagesChanged(NoChat, store) /\ UNCHANGED <<store, landed, events, failed, open>>
    BY <1>8 DEF Tapback
  <2>2. /\ rows' \in Seq(Row) /\ onScreen' \in Seq(Row)
        /\ signal' \in {"none", "append", "reset"} /\ missed' \in BOOLEAN /\ ViewInStep'
    BY <1>1, <2>1, ChangedKeeps DEF TypeOK
  <2> QED BY <1>1, <2>1, <2>2 DEF Inv, TypeOK
<1>9. ASSUME PollEvents PROVE Inv'
  <2>1. PICK guid : MessagesChanged(guid, store)
    BY <1>9 DEF PollEvents
  <2>2. /\ rows' \in Seq(Row) /\ onScreen' \in Seq(Row)
        /\ signal' \in {"none", "append", "reset"} /\ missed' \in BOOLEAN /\ ViewInStep'
    BY <1>1, <2>1, ChangedKeeps DEF TypeOK
  <2>3. events' = <<>> /\ UNCHANGED <<store, landed, failed, open>>
    BY <1>9 DEF PollEvents
  <2>4. events' \in Seq(Chat) /\ Len(events') <= MaxEvents
    BY <1>1, <2>3, EmptySeq
  <2> QED BY <1>1, <2>2, <2>3, <2>4 DEF Inv, TypeOK
<1>10. ASSUME NEW i \in 1 .. Limit, RebuildDelegate(i) PROVE Inv'
  <2>1. /\ i \in DOMAIN onScreen /\ onScreen' = [onScreen EXCEPT ![i] = rows[i]]
        /\ UNCHANGED <<store, landed, events, failed, open, rows, signal, missed>>
    BY <1>10 DEF RebuildDelegate
  <2>2. DOMAIN onScreen = DOMAIN rows /\ Guids(onScreen) = Guids(rows)
    <3>1. DOMAIN Guids(onScreen) = DOMAIN onScreen /\ DOMAIN Guids(rows) = DOMAIN rows
      BY DEF Guids
    <3> QED BY <1>1, <3>1 DEF ViewInStep
  <2>3. /\ onScreen \in Seq(Row) /\ rows \in Seq(Row)
        /\ DOMAIN onScreen = 1 .. Len(onScreen) /\ DOMAIN rows = 1 .. Len(rows)
    BY <1>1, LenProperties DEF TypeOK
  <2>4. rows[i] \in Row
    BY <2>1, <2>2, <2>3, ElementOfSeq
  <2>5. onScreen' \in Seq(Row)
    BY <2>1, <2>3, <2>4, ExceptSeq
  <2>6. DOMAIN onScreen' = DOMAIN onScreen
        /\ \A j \in DOMAIN onScreen : onScreen'[j] = IF j = i THEN rows[i] ELSE onScreen[j]
    BY <2>1
  <2>7. \A j \in DOMAIN rows : Guids(onScreen)[j] = onScreen[j].guid /\ Guids(rows)[j] = rows[j].guid
    BY <2>2 DEF Guids
  <2>8. \A j \in DOMAIN rows : onScreen'[j].guid = rows[j].guid
    BY <2>2, <2>6, <2>7
  <2>9. ViewInStep'
    BY <2>1, <2>2, <2>6, <2>8 DEF ViewInStep, Guids
  <2> QED BY <1>1, <2>1, <2>5, <2>9 DEF Inv, TypeOK
<1>11. ASSUME UNCHANGED vars PROVE Inv'
  BY <1>1, <1>11 DEF vars, Inv, TypeOK, ViewInStep
<1> QED BY <1>2, <1>2a, <1>3, <1>4, <1>5, <1>5a, <1>6, <1>7, <1>8, <1>9, <1>10, <1>11 DEF Next

-----------------------------------------------------------------------------
(* What the loop over a burst of events computes.                          *)

(* A set of numbers that is not empty has a least one: what a recursive
   definition computes is shown by looking at the first place where it would
   fail. *)
LEMMA Least ==
  ASSUME NEW B, B \subseteq Nat, B # {} PROVE \E m \in B : \A n \in B : m <= n
<1> DEFINE R == OpToRel(<, Nat)
<1>1. IsWellFoundedOn(R, Nat)
  BY NatLessThanWellFounded
<1>2. \A i, j \in Nat : i < j => <<i, j>> \in R
  BY DEF OpToRel
<1> HIDE DEF R
<1>3. PICK m \in B : \A n \in B : ~(<<n, m>> \in R)
  BY <1>1, WFMin
<1>4. ASSUME NEW n \in B PROVE m <= n
  <2>1. m \in Nat /\ n \in Nat /\ ~(n < m)
    BY <1>2, <1>3
  <2> QED BY <2>1
<1> QED BY <1>4

(* The marks of pollEvents after each of the first n events of a burst. *)
MarksOf(burst, n, mark) ==
    mark = [i \in 0 .. n |-> IF i = 0 THEN [any |-> FALSE, for |-> NoChat]
                             ELSE MarkMessages(mark[i - 1], burst[i])]

(* The loop has a mark after every event: the recursion is well founded. *)
LEMMA MarksExist ==
    ASSUME NEW burst \in Seq(Chat), NEW n \in 0 .. Len(burst)
    PROVE  \E mark : MarksOf(burst, n, mark)
<1> DEFINE B == {k \in 0 .. Len(burst) : ~\E mark : MarksOf(burst, k, mark)}
<1>0. Len(burst) \in Nat
  BY LenProperties
<1>1. SUFFICES ASSUME B # {} PROVE FALSE
  OBVIOUS
<1>2. B \subseteq Nat
  BY <1>0
<1>3. PICK m \in B : \A k \in B : m <= k
  <2> HIDE DEF B
  <2> QED BY <1>1, <1>2, Least
<1>4. m \in 0 .. Len(burst)
  BY <1>3
<1>5. m # 0
  <2>1. MarksOf(burst, 0, [i \in 0 .. 0 |-> [any |-> FALSE, for |-> NoChat]])
    BY DEF MarksOf
  <2> QED BY <1>3, <2>1
<1>6. m - 1 \in 0 .. Len(burst) /\ ~(m <= m - 1)
  BY <1>0, <1>4, <1>5
<1>7. m - 1 \notin B
  <2> HIDE DEF B
  <2> QED BY <1>3, <1>6
<1>8. PICK old : MarksOf(burst, m - 1, old)
  BY <1>6, <1>7
<1> DEFINE new == [i \in 0 .. m |-> IF i <= m - 1 THEN old[i]
                                    ELSE MarkMessages(old[m - 1], burst[m])]
<1>9. \A i \in 0 .. m - 1 : old[i] = IF i = 0 THEN [any |-> FALSE, for |-> NoChat]
                             ELSE MarkMessages(old[i - 1], burst[i])
  BY <1>8 DEF MarksOf
<1>10. ASSUME NEW i \in 0 .. m
       PROVE  new[i] = IF i = 0 THEN [any |-> FALSE, for |-> NoChat]
                       ELSE MarkMessages(new[i - 1], burst[i])
  <2>1. CASE i = 0
    <3>1. i \in 0 .. m - 1 /\ i <= m - 1
      BY <1>4, <1>5, <2>1
    <3> QED BY <1>9, <2>1, <3>1
  <2>2. CASE i # 0 /\ i <= m - 1
    <3>1. i \in 0 .. m - 1 /\ i - 1 \in 0 .. m /\ i - 1 <= m - 1
      BY <1>4, <2>2
    <3>2. new[i] = old[i] /\ new[i - 1] = old[i - 1]
      BY <2>2, <3>1
    <3> HIDE DEF new
    <3> QED BY <1>9, <2>2, <3>1, <3>2
  <2>3. CASE ~(i <= m - 1)
    <3>1. i = m /\ i # 0 /\ m - 1 \in 0 .. m /\ m - 1 <= m - 1 
      BY <1>4, <1>5, <2>3
    <3>2. new[i] = MarkMessages(old[m - 1], burst[m]) /\ new[i - 1] = old[i - 1]
      BY <2>3, <3>1
    <3> HIDE DEF new
    <3> QED BY <3>1, <3>2
  <2> QED BY <2>1, <2>2, <2>3
<1>11. MarksOf(burst, m, new)
  <2>1. DOMAIN new = 0 .. m /\ new = [i \in 0 .. m |-> new[i]]
    OBVIOUS
  <2> HIDE DEF new
  <2> QED BY <1>10, <2>1 DEF MarksOf
<1> QED BY <1>3, <1>11

(* What pollEvents passes on is the last of those marks. *)
LEMMA CoalescedMarks ==
    ASSUME NEW burst \in Seq(Chat)
    PROVE  \E mark : MarksOf(burst, Len(burst), mark) /\ Coalesced(burst) = mark[Len(burst)].for
<1> DEFINE m == CHOOSE mark : MarksOf(burst, Len(burst), mark)
<1>1. Len(burst) \in 0 .. Len(burst)
  BY LenProperties
<1>2. MarksOf(burst, Len(burst), m)
  BY <1>1, MarksExist
<1>3. Coalesced(burst) = m[Len(burst)].for
  BY DEF Coalesced, MarksOf
<1> QED BY <1>2, <1>3

(* A burst of events is coalesced to the one chat all of them name, or to the
   empty guid. *)
LEMMA CoalescedChat ==
    ASSUME NEW burst \in Seq(Chat), burst # <<>>
    PROVE  \/ Coalesced(burst) = NoChat
           \/ \A j \in 1 .. Len(burst) : burst[j] = Coalesced(burst)
<1> DEFINE len == Len(burst)
           Told(d, i) == d.any = TRUE /\ (d.for = NoChat \/ \A j \in 1 .. i : burst[j] = d.for)
<1>1. len \in Nat /\ len # 0 /\ \A i \in 1 .. len : burst[i] \in Chat
  BY LenProperties, ElementOfSeq, EmptySeq
<1>2. PICK mark : MarksOf(burst, len, mark) /\ Coalesced(burst) = mark[len].for
  BY CoalescedMarks
<1> HIDE DEF len
<1>3. \A i \in 0 .. len : mark[i] = IF i = 0 THEN [any |-> FALSE, for |-> NoChat]
                                   ELSE MarkMessages(mark[i - 1], burst[i])
  BY <1>2 DEF MarksOf
<1>4. mark[0] = [any |-> FALSE, for |-> NoChat]
  <2>1. 0 \in 0 .. len
    BY <1>1
  <2> QED BY <1>3, <2>1
<1> DEFINE B == {i \in 1 .. len : ~Told(mark[i], i)}
<1>5. SUFFICES ASSUME B # {} PROVE FALSE
  <2>1. len \in 1 .. len
    BY <1>1
  <2>2. Told(mark[len], len) => 
             \/ mark[len].for = NoChat
             \/ \A j \in 1 .. len : burst[j] = mark[len].for
    OBVIOUS
  <2> QED BY <1>2, <2>1, <2>2 DEF len
<1>6. B \subseteq Nat
  BY <1>1
<1>7. PICK m \in B : \A k \in B : m <= k
  <2> HIDE DEF B
  <2> QED BY <1>5, <1>6, Least
<1>8. m \in 1 .. len /\ ~Told(mark[m], m)
  BY <1>7
<1>9. mark[m] = MarkMessages(mark[m - 1], burst[m]) /\ burst[m] \in Chat
  BY <1>1, <1>3, <1>8
<1>10. CASE m = 1
  <2>1. mark[m - 1] = [any |-> FALSE, for |-> NoChat]
    BY <1>4, <1>10
  <2>2. mark[m] = [any |-> TRUE, for |-> burst[m]]
    BY <1>9, <2>1 DEF MarkMessages
  <2>3. \A j \in 1 .. m : j = m
    BY <1>10
  <2>4. \A j \in 1 .. m : burst[j] = mark[m].for
    BY <2>2, <2>3
  <2> QED BY <1>8, <2>2, <2>4
<1>11. CASE m # 1
  <2>1. m - 1 \in 1 .. len /\ ~(m <= m - 1)
    BY <1>1, <1>8, <1>11
  <2>2. m - 1 \notin B
    <3> HIDE DEF B
    <3> QED BY <1>7, <2>1
  <2>3. Told(mark[m - 1], m - 1)
    BY <2>1, <2>2
  <2> DEFINE d == mark[m - 1]
  <2>4. /\ d.any = TRUE
        /\ d.for = NoChat \/ \A j \in 1 .. m - 1 : burst[j] = d.for
    BY <2>3
  <2> HIDE DEF d
  <2>5. mark[m] = MarkMessages(d, burst[m])
    BY <1>9 DEF d
  <2>6. CASE d.for # burst[m]
    <3>1. mark[m] = [any |-> TRUE, for |-> NoChat]
      BY <2>4, <2>5, <2>6 DEF MarkMessages
    <3> QED BY <1>8, <3>1
  <2>7. CASE d.for = burst[m]
    <3>1. mark[m] = d
      BY <2>4, <2>5, <2>7 DEF MarkMessages
    <3>2. d.for # NoChat
      BY <1>9, <2>7, TranscriptAssumption
    <3>3. ASSUME NEW j \in 1 .. m PROVE burst[j] = d.for
      <4>1. j \in 1 .. m - 1 \/ j = m
        BY <1>8
      <4> QED BY <2>4, <2>7, <3>2, <4>1
    <3> QED BY <1>8, <2>4, <3>1, <3>3
  <2> QED BY <2>6, <2>7
<1> QED BY <1>10, <1>11
-----------------------------------------------------------------------------
(* No write is missed.                                                     *)

(* A refresh of the open chat leaves its rows those of the store, or fails. *)
LEMMA RefreshCatchesUp ==
    ASSUME NEW guid \in {NoChat, open}, MessagesChanged(guid, store'), open' = open
    PROVE  missed' \/ rows' = Fetch(store', open')
BY DEF MessagesChanged, Reload, Refresh

(* A chat named by an event stays so when one more event is sent. *)
LEMMA EventsGrow ==
    ASSUME NEW s \in Seq(Chat), NEW c \in Chat
    PROVE  /\ c \in ToSet(Append(s, c))
           /\ \A d : d \in ToSet(s) => d \in ToSet(Append(s, c))
<1> DEFINE t == Append(s, c)
<1>1. /\ t \in Seq(Chat) /\ Len(t) = Len(s) + 1 /\ t[Len(s) + 1] = c
      /\ \A i \in 1 .. Len(s) : t[i] = s[i]
  BY AppendProperties
<1> HIDE DEF t
<1>2. Len(s) \in Nat /\ DOMAIN s = 1 .. Len(s) /\ DOMAIN t = 1 .. Len(t)
  BY <1>1, LenProperties
<1>3. Len(s) + 1 \in DOMAIN t /\ \A i \in DOMAIN s : i \in DOMAIN t
  BY <1>1, <1>2
<1>4. c \in ToSet(t)
  BY <1>1, <1>3 DEF ToSet
<1>5. ASSUME NEW d, d \in ToSet(s) PROVE d \in ToSet(t)
  <2>1. PICK i \in DOMAIN s : d = s[i]
    BY <1>5 DEF ToSet
  <2>2. i \in DOMAIN t /\ d = t[i]
    BY <1>1, <1>2, <1>3, <2>1
  <2> QED BY <2>2 DEF ToSet
<1> QED BY <1>4, <1>5 DEF t

(* With no chat open there are no rows.  StaleIsAnnounced needs it: the empty
   guid also says that nothing has landed. *)
NothingOpen == open = NoChat => rows = <<>>

(* Every step keeps NothingOpen: selecting a chat opens one, and a refresh
   with none open fetches nothing. *)
LEMMA StepNothingOpen == TypeOK /\ NothingOpen /\ [Next]_vars => NothingOpen'
<1> SUFFICES ASSUME TypeOK, NothingOpen, [Next]_vars PROVE NothingOpen'
  OBVIOUS
<1>1. ASSUME NEW guid, NEW st, MessagesChanged(guid, st), open' = open PROVE NothingOpen'
  BY <1>1 DEF MessagesChanged, Reload, Refresh, Fetch, NothingOpen
<1>2. ASSUME rows' = rows, open' = open PROVE NothingOpen'
  BY <1>2 DEF NothingOpen
<1>3. ASSUME NEW c \in Chat, SelectChat(c) PROVE NothingOpen'
  <2>1. open' = c
    BY <1>3 DEF SelectChat
  <2> QED BY <2>1, TranscriptAssumption DEF NothingOpen
<1>4. ASSUME NEW g \in Local, SendMessage(g) \/ SendCutShort(g) PROVE NothingOpen'
  BY <1>1, <1>4 DEF SendMessage, SendCutShort, Write
<1>5. ASSUME NEW g \in Local, ChangeMessage(g) PROVE NothingOpen'
  BY <1>1, <1>5 DEF ChangeMessage
<1>6. ASSUME Tapback PROVE NothingOpen'
  BY <1>1, <1>6 DEF Tapback
<1>7. ASSUME PollEvents PROVE NothingOpen'
  BY <1>1, <1>7 DEF PollEvents
<1>8. ASSUME \/ \E g \in Remote : Arrive(g) \/ ArriveFails(g)
             \/ Announce
             \/ \E g \in Local : SendFails(g)
             \/ \E i \in 1 .. Limit : RebuildDelegate(i)
             \/ UNCHANGED vars
      PROVE  NothingOpen'
  BY <1>2, <1>8 DEF Arrive, ArriveFails, Announce, SendFails, RebuildDelegate, vars
<1> QED BY <1>3, <1>4, <1>5, <1>6, <1>7, <1>8 DEF Next

(* Every step keeps StaleIsAnnounced: a write announces its chat, refreshes or
   has failed, and a poll refreshes if any event of the burst names the open
   chat. *)
LEMMA StepAnnounced == TypeOK /\ NothingOpen /\ StaleIsAnnounced /\ [Next]_vars => StaleIsAnnounced'
<1> SUFFICES ASSUME TypeOK, NothingOpen, StaleIsAnnounced, [Next]_vars PROVE StaleIsAnnounced'
  OBVIOUS
<1>1. ASSUME NEW g \in Remote, Arrive(g) PROVE StaleIsAnnounced'
  <2>1. PICK s : store' = [store EXCEPT ![Home[g]] = s]
    BY <1>1 DEF Arrive
  <2>2. landed = NoChat /\ landed' = Home[g] /\ UNCHANGED <<events, open, rows, missed>>
    BY <1>1 DEF Arrive
  <2>3. CASE open = Home[g]
    BY <2>2, <2>3 DEF StaleIsAnnounced
  <2>4. CASE open # Home[g]
    <3>1. Fetch(store, open)' = Fetch(store, open)
      BY <2>1, <2>2, <2>4 DEF Fetch, TypeOK
    <3>2. open = NoChat => rows = Fetch(store, open)
      BY DEF Fetch, NothingOpen
    <3> QED BY <2>2, <3>1, <3>2 DEF StaleIsAnnounced
  <2> QED BY <2>3, <2>4
<1>1a. ASSUME NEW g \in Remote, ArriveFails(g) PROVE StaleIsAnnounced'
  <2>1. PICK s : store' = [store EXCEPT ![Home[g]] = s]
    BY <1>1a DEF ArriveFails
  <2>2. missed' = (missed \/ open = Home[g]) /\ UNCHANGED <<landed, events, open, rows>>
    BY <1>1a DEF ArriveFails
  <2>3. CASE open = Home[g]
    BY <2>2, <2>3 DEF StaleIsAnnounced
  <2>4. CASE open # Home[g]
    <3>1. Fetch(store, open)' = Fetch(store, open)
      BY <2>1, <2>2, <2>4 DEF Fetch, TypeOK
    <3> QED BY <2>2, <3>1 DEF StaleIsAnnounced
  <2> QED BY <2>3, <2>4
<1>2. ASSUME Announce PROVE StaleIsAnnounced'
  <2>1. landed \in Chat /\ events' = Append(events, landed) /\ UNCHANGED <<store, open, rows, missed>>
    BY <1>2 DEF Announce, TypeOK
  <2>2. landed \in ToSet(events') /\ \A d : d \in ToSet(events) => d \in ToSet(events')
    BY <2>1, EventsGrow DEF TypeOK
  <2>3. Fetch(store, open)' = Fetch(store, open)
    BY <2>1 DEF Fetch
  <2> QED BY <2>1, <2>2, <2>3 DEF StaleIsAnnounced
<1>3. ASSUME NEW c \in Chat, SelectChat(c) PROVE StaleIsAnnounced'
  <2>1. (missed' \/ rows' = Fetch(store, c)) /\ open' = c /\ store' = store
    BY <1>3 DEF SelectChat, Reload, Refresh
  <2> QED BY <2>1 DEF StaleIsAnnounced
<1>4. ASSUME NEW g \in Local, SendMessage(g) \/ SendCutShort(g) PROVE StaleIsAnnounced'
  <2>1. MessagesChanged(open, store') /\ open' = open
    BY <1>4 DEF SendMessage, SendCutShort, Write
  <2>2. missed' \/ rows' = Fetch(store', open')
    BY <2>1, RefreshCatchesUp
  <2> QED BY <2>2 DEF StaleIsAnnounced
<1>5. ASSUME NEW g \in Local, SendFails(g) PROVE StaleIsAnnounced'
  <2>1. PICK c \in Chat : events' = Append(events, c)
    BY <1>5 DEF SendFails
  <2>2. UNCHANGED <<store, landed, open, rows, missed>>
    BY <1>5 DEF SendFails
  <2>3. \A d : d \in ToSet(events) => d \in ToSet(events')
    BY <2>1, EventsGrow DEF TypeOK
  <2>4. Fetch(store, open)' = Fetch(store, open)
    BY <2>2 DEF Fetch
  <2> QED BY <2>2, <2>3, <2>4 DEF StaleIsAnnounced
<1>6. ASSUME NEW g \in Local, ChangeMessage(g) PROVE StaleIsAnnounced'
  <2>1. MessagesChanged(NoChat, store') /\ open' = open
    BY <1>6 DEF ChangeMessage
  <2>2. missed' \/ rows' = Fetch(store', open')
    BY <2>1, RefreshCatchesUp
  <2> QED BY <2>2 DEF StaleIsAnnounced
<1>7. ASSUME Tapback PROVE StaleIsAnnounced'
  <2>1. MessagesChanged(NoChat, store) /\ store' = store /\ open' = open
    BY <1>7 DEF Tapback
  <2>2. missed' \/ rows' = Fetch(store', open')
    BY <2>1, RefreshCatchesUp
  <2> QED BY <2>2 DEF StaleIsAnnounced
<1>8. ASSUME PollEvents PROVE StaleIsAnnounced'
  <2>1. /\ events \in Seq(Chat) /\ events # <<>>
        /\ MessagesChanged(Coalesced(events), store) /\ UNCHANGED <<store, landed, open>>
    BY <1>8 DEF PollEvents, TypeOK
  <2>2. CASE Coalesced(events) \in {NoChat, open}
    <3>1. MessagesChanged(Coalesced(events), store')
      BY <2>1
    <3>2. missed' \/ rows' = Fetch(store', open')
      BY <2>1, <2>2, <3>1, RefreshCatchesUp
    <3> QED BY <3>2 DEF StaleIsAnnounced
  <2>3. CASE Coalesced(events) \notin {NoChat, open}
    <3>1. rows' = rows /\ missed' = missed
      BY <2>1, <2>3 DEF MessagesChanged
    <3>2. \A j \in 1 .. Len(events) : events[j] = Coalesced(events)
      BY <2>1, <2>3, CoalescedChat
    <3>3. DOMAIN events = 1 .. Len(events)
      BY <2>1, LenProperties
    <3>4. open \notin ToSet(events)
      BY <2>3, <3>2, <3>3 DEF ToSet
    <3>5. Fetch(store, open)' = Fetch(store, open)
      BY <2>1 DEF Fetch
    <3> QED BY <2>1, <3>1, <3>4, <3>5 DEF StaleIsAnnounced
  <2> QED BY <2>2, <2>3
<1>9. ASSUME NEW i \in 1 .. Limit, RebuildDelegate(i) PROVE StaleIsAnnounced'
  <2>1. UNCHANGED <<store, landed, events, open, rows, missed>>
    BY <1>9 DEF RebuildDelegate
  <2> QED BY <2>1 DEF StaleIsAnnounced, Fetch
<1>10. ASSUME UNCHANGED vars PROVE StaleIsAnnounced'
  BY <1>10 DEF vars, StaleIsAnnounced, Fetch
<1> QED BY <1>1, <1>1a, <1>2, <1>3, <1>4, <1>5, <1>6, <1>7, <1>8, <1>9, <1>10 DEF Next

-----------------------------------------------------------------------------
(* The types and the agreement of model and view hold in every state. *)
THEOREM Invariance == Spec => []Inv
BY InitInv, StepInv, PTL DEF Spec

(* The store, the model and the view hold rows, and every event in the channel
   names a chat (SendMessage, SendFails and the receive loop send no other). *)
THEOREM TypeCorrect == Spec => []TypeOK
<1>1. Inv => TypeOK
  BY DEF Inv
<1> QED BY <1>1, Invariance, PTL

(* The view has exactly the lines of MessageListModel's rows, in order,
   whatever refresh took for an append (message_list_model.cpp:154-170). *)
THEOREM ViewStaysInStep == Spec => []ViewInStep
<1>1. Inv => ViewInStep
  BY DEF Inv
<1> QED BY <1>1, Invariance, PTL

(* The rows of the open chat differ from the store's only while an event that
   names the chat is in the channel or about to be sent, or after a failed
   store or read that no refresh has followed: whatever a poll coalesces
   (core_bridge.cpp, pollEvents), no write that succeeded is missed. *)
THEOREM NoWriteMissed == Spec => []StaleIsAnnounced
<1>1. Init => StaleIsAnnounced
  BY DEF Init, StaleIsAnnounced, Fetch
<1>2. Init => NothingOpen
  BY DEF Init, NothingOpen
<1> QED BY <1>1, <1>2, TypeCorrect, StepNothingOpen, StepAnnounced, PTL DEF Spec
=============================================================================
