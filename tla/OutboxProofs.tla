---------------------------- MODULE OutboxProofs ----------------------------
(***************************************************************************)
(* Theorems about Outbox for any chats, sends and changes: a send is       *)
(* addressed to its whole conversation or to nobody, and no operation ends *)
(* without having reached everyone or having been accounted for.           *)
(***************************************************************************)
EXTENDS Outbox, TLAPS

(* What AddressedInFull and NoSilentDrop rest on: the store's participant
   lists are whole or empty, and a send under way has its row. *)
Whole ==
    /\ \A c \in Chat : members[c] \in {{}, Members[c]}
    /\ \A g \in Send : UnderWay(g) => row[g] # NoRow
    /\ \A g \in Send : pc[g] \in {"unused", "storing"} => to[g] = {}

Inv == TypeOK /\ Whole /\ AddressedInFull /\ NoSilentDrop

-----------------------------------------------------------------------------
(* Every chat's members are addresses. *)
LEMMA MembersAreAddresses == \A c \in Chat : Members[c] \in SUBSET Address
  BY DEF Address

(* The initial states satisfy the invariant: nothing has been started. *)
LEMMA InvInit == Init => Inv
<1> SUFFICES ASSUME Init PROVE Inv
  OBVIOUS
<1>1. PICK known \in SUBSET Chat :
          members = [c \in Chat |-> IF c \in known THEN Members[c] ELSE {}]
  BY DEF Init
<1>2. members \in [Chat -> SUBSET Address]
  BY <1>1, MembersAreAddresses
<1>3. TypeOK
  BY <1>2 DEF Init, TypeOK, Step, Op
<1>4. Whole
  BY <1>1 DEF Init, Whole, UnderWay, Op
<1>5. AddressedInFull /\ NoSilentDrop
  BY DEF Init, AddressedInFull, NoSilentDrop
<1> QED
  BY <1>3, <1>4, <1>5 DEF Inv

-----------------------------------------------------------------------------
(* Steps that leave an operation where it is, told what was told, keep it
   accounted for. *)
LEMMA DropKept ==
    ASSUME Inv,
           UNCHANGED <<pc, row, bus>>,
           \A g \in Send : reached[g] \subseteq reached'[g],
           told \subseteq told', lost \subseteq lost'
    PROVE  NoSilentDrop'
<1> SUFFICES ASSUME NEW o \in Op, pc[o] = "settled"
             PROVE  ReachedAll(o)' \/ Waiting(o)' \/ o \in told' \cup lost'
  BY DEF NoSilentDrop
<1>1. ReachedAll(o) \/ Waiting(o) \/ o \in told \cup lost
  BY DEF Inv, NoSilentDrop
<1>2. ReachedAll(o) => ReachedAll(o)'
  BY DEF ReachedAll
<1>3. Waiting(o) => Waiting(o)'
  BY DEF Waiting
<1> QED
  BY <1>1, <1>2, <1>3

(* A step that only moves one operation, to a place that is not the end. *)
LEMMA DropMoved ==
    ASSUME Inv, NEW o \in Op, NEW step \in Step \ {"settled"}, Goto(o, step),
           UNCHANGED <<reached, bus, told, lost>>,
           \A g \in Send \ {o} : row'[g] = row[g]
    PROVE  NoSilentDrop'
<1> SUFFICES ASSUME NEW p \in Op, pc'[p] = "settled"
             PROVE  ReachedAll(p)' \/ Waiting(p)' \/ p \in told' \cup lost'
  BY DEF NoSilentDrop
<1>1. p # o /\ pc[p] = "settled"
  BY DEF Goto, Inv, TypeOK
<1>2. ReachedAll(p) \/ Waiting(p) \/ p \in told \cup lost
  BY <1>1 DEF Inv, NoSilentDrop
<1>3. ReachedAll(p) => ReachedAll(p)'
  BY <1>1 DEF ReachedAll
<1>4. Waiting(p) => Waiting(p)'
  BY DEF Waiting
<1> QED
  BY <1>2, <1>3, <1>4

(* A step that ends one operation, which is reported, delivered or announced. *)
LEMMA DropEnded ==
    ASSUME Inv, NEW o \in Op, Goto(o, "settled"),
           ReachedAll(o)' \/ Waiting(o)' \/ o \in told',
           UNCHANGED <<reached, lost>>, told \subseteq told',
           \A p \in Op : Waiting(p) => Waiting(p)',
           \A g \in Send \ {o} : row'[g] = row[g]
    PROVE  NoSilentDrop'
<1> SUFFICES ASSUME NEW p \in Op, pc'[p] = "settled", p # o
             PROVE  ReachedAll(p)' \/ Waiting(p)' \/ p \in told' \cup lost'
  BY DEF NoSilentDrop
<1>1. pc[p] = "settled"
  BY DEF Goto, Inv, TypeOK
<1>2. ReachedAll(p) \/ Waiting(p) \/ p \in told \cup lost
  BY <1>1 DEF Inv, NoSilentDrop
<1>3. ReachedAll(p) => ReachedAll(p)'
  BY DEF ReachedAll
<1> QED
  BY <1>2, <1>3

-----------------------------------------------------------------------------
(* Storing a row keeps the invariant: the message has not been addressed yet. *)
LEMMA StoreRowStep ==
    ASSUME Inv, NEW g \in Send, NEW c \in Chat, StoreRow(g, c) PROVE Inv'
<1> USE DEF Op
<1>1. TypeOK'
  BY DEF Inv, TypeOK, StoreRow, Goto, Step, historyVars
<1>2. Whole'
  BY OutboxAssumption DEF Inv, TypeOK, Whole, StoreRow, Goto, UnderWay
<1>3. AddressedInFull'
  BY DEF Inv, TypeOK, Whole, AddressedInFull, StoreRow
<1>4. NoSilentDrop'
  BY DropMoved DEF Inv, TypeOK, StoreRow, historyVars, Step
<1> QED
  BY <1>1, <1>2, <1>3, <1>4 DEF Inv

(* A call that fails keeps the invariant: guarded reports it. *)
LEMMA StoreRowFailsStep ==
    ASSUME Inv, NEW g \in Send, NEW c \in Chat, StoreRowFails(g, c) PROVE Inv'
<1> USE DEF Op
<1>1. TypeOK'
  BY DEF Inv, TypeOK, StoreRowFails, Refused, Goto, Step
<1>2. Whole'
  BY DEF Inv, TypeOK, Whole, StoreRowFails, Refused, Goto, UnderWay
<1>3. AddressedInFull'
  BY DEF Inv, TypeOK, Whole, AddressedInFull, StoreRowFails
<1>4. NoSilentDrop'
  <2>1. \A p \in Op : Waiting(p) => Waiting(p)'
    BY DEF StoreRowFails, Waiting
  <2>2. \A h \in Send \ {g} : row'[h] = row[h]
    BY DEF Inv, TypeOK, StoreRowFails
  <2> QED
    BY <2>1, <2>2, DropEnded DEF StoreRowFails, Refused
<1> QED
  BY <1>1, <1>2, <1>3, <1>4 DEF Inv

(* A failed read of the participants, reported by the call, keeps Inv. *)
LEMMA ReadParticipantsFailsStep ==
    ASSUME Inv, NEW g \in Send, ReadParticipantsFails(g) PROVE Inv'
<1> USE DEF Op
<1>1. TypeOK'
  BY DEF Inv, TypeOK, ReadParticipantsFails, Refused, Goto, Step
<1>2. Whole'
  BY DEF Inv, TypeOK, Whole, ReadParticipantsFails, Refused, Goto, UnderWay
<1>3. AddressedInFull'
  BY DEF Inv, AddressedInFull, ReadParticipantsFails
<1>4. NoSilentDrop'
  <2>1. \A p \in Op : Waiting(p) => Waiting(p)'
    BY DEF ReadParticipantsFails, Waiting
  <2> QED
    BY <2>1, DropEnded DEF ReadParticipantsFails, Refused
<1> QED
  BY <1>1, <1>2, <1>3, <1>4 DEF Inv

(* The task captures a list that is whole or empty. *)
LEMMA SpawnSendStep ==
    ASSUME Inv, NEW g \in Send, SpawnSend(g) PROVE Inv'
<1> USE DEF Op
<1>1. row[g] \in Chat /\ members[row[g]] \in {{}, Members[row[g]]}
  BY DEF Inv, TypeOK, Whole, SpawnSend, UnderWay
<1>2. TypeOK'
  <2>1. members[row[g]] \in SUBSET Address
    BY <1>1 DEF Inv, TypeOK
  <2>2. signedIn' \subseteq Send
    BY DEF Inv, TypeOK, SpawnSend
  <2> QED
    BY <2>1, <2>2 DEF Inv, TypeOK, SpawnSend, Goto, Step, historyVars
<1>3. Whole'
  BY DEF Inv, TypeOK, Whole, SpawnSend, Goto, UnderWay
<1>4. AddressedInFull'
  BY <1>1, OutboxAssumption DEF Inv, TypeOK, AddressedInFull, SpawnSend
<1>5. NoSilentDrop'
  BY DropMoved DEF SpawnSend, historyVars, Step
<1> QED
  BY <1>2, <1>3, <1>4, <1>5 DEF Inv

(* Edits, unsends and tapbacks. *)
LEMMA ChangeStep ==
    ASSUME Inv, NEW o \in Change, SpawnChange(o) \/ ChangeFails(o) PROVE Inv'
<1> USE DEF Op
<1>0. o \notin Send
  BY OutboxAssumption
<1>1. CASE SpawnChange(o)
  <2>1. TypeOK'
    BY <1>0, <1>1 DEF Inv, TypeOK, SpawnChange, Goto, Step, historyVars
  <2>2. Whole' /\ AddressedInFull'
    BY <1>0, <1>1 DEF Inv, TypeOK, Whole, AddressedInFull, SpawnChange, Goto, UnderWay
  <2>3. NoSilentDrop'
    BY <1>1, DropMoved DEF SpawnChange, historyVars, Step
  <2> QED
    BY <2>1, <2>2, <2>3 DEF Inv
<1>2. CASE ChangeFails(o)
  <2>1. TypeOK'
    BY <1>0, <1>2 DEF Inv, TypeOK, ChangeFails, Refused, Goto, Step
  <2>2. Whole' /\ AddressedInFull'
    BY <1>0, <1>2 DEF Inv, TypeOK, Whole, AddressedInFull, ChangeFails, Refused, Goto, UnderWay
  <2>3. \A p \in Op : Waiting(p) => Waiting(p)'
    BY <1>2 DEF ChangeFails, Waiting
  <2>4. NoSilentDrop'
    BY <1>2, <2>3, DropEnded DEF ChangeFails, Refused
  <2> QED
    BY <2>1, <2>2, <2>4 DEF Inv
<1> QED
  BY <1>1, <1>2

-----------------------------------------------------------------------------
(* A send's task, up to its end. *)
LEMMA SendTaskStep ==
    ASSUME Inv, NEW g \in Send, SendTask(g) PROVE Inv'
<1> USE DEF Op
<1>1. CASE Upload(g)
  <2>1. TypeOK'
    BY <1>1 DEF Inv, TypeOK, Upload, Goto, Step, historyVars
  <2>2. Whole' /\ AddressedInFull'
    BY <1>1 DEF Inv, TypeOK, Whole, AddressedInFull, Upload, Goto, UnderWay
  <2>3. NoSilentDrop'
    BY <1>1, DropMoved DEF Upload, historyVars, Step
  <2> QED
    BY <2>1, <2>2, <2>3 DEF Inv
<1>2. CASE Dispatch(g)
  <2>1. TypeOK'
    BY <1>2 DEF Inv, TypeOK, Dispatch, CanDispatch, Goto, Step, historyVars
  <2>2. Whole' /\ AddressedInFull'
    BY <1>2 DEF Inv, TypeOK, Whole, AddressedInFull, Dispatch, CanDispatch, Goto, UnderWay
  <2>3. NoSilentDrop'
    BY <1>2, DropMoved DEF Dispatch, historyVars, Step
  <2> QED
    BY <2>1, <2>2, <2>3 DEF Inv
<1>3. CASE Delivered(g)
  <2>1. TypeOK'
    BY <1>3 DEF Inv, TypeOK, Delivered, Goto, Step, historyVars
  <2>2. Whole' /\ AddressedInFull'
    BY <1>3 DEF Inv, TypeOK, Whole, AddressedInFull, Delivered, Goto, UnderWay
  <2>3. ReachedAll(g)'
    BY <1>3 DEF Inv, TypeOK, AddressedInFull, Delivered, ReachedAll
  <2>4. \A p \in Op : Waiting(p) => Waiting(p)'
    BY <1>3 DEF Delivered, Waiting
  <2>5. NoSilentDrop'
    BY <1>3, <2>3, <2>4, DropEnded DEF Delivered, historyVars
  <2> QED
    BY <2>1, <2>2, <2>5 DEF Inv
<1>4. CASE \E a \in to[g] : DeliverTo(g, a)
  <2>1. PICK a \in to[g] : DeliverTo(g, a)
    BY <1>4
  <2>2. reached' \in [Send -> SUBSET Address]
    BY <2>1 DEF Inv, TypeOK, DeliverTo
  <2>3. TypeOK'
    BY <2>1, <2>2 DEF Inv, TypeOK, DeliverTo, historyVars
  <2>4. Whole' /\ AddressedInFull'
    BY <2>1 DEF Inv, Whole, AddressedInFull, DeliverTo, UnderWay
  <2>5. NoSilentDrop'
    BY <2>1, DropKept DEF Inv, TypeOK, DeliverTo, historyVars
  <2> QED
    BY <2>3, <2>4, <2>5 DEF Inv
<1> QED
  BY <1>1, <1>2, <1>3, <1>4 DEF SendTask

(* A task that fails leaves its event behind those that wait already. *)
LEMMA TaskFailsStep ==
    ASSUME Inv, NEW o \in Op, TaskFails(o) PROVE Inv'
<1>1. bus \in Seq(Op) /\ bus' = Append(bus, o)
  BY DEF Inv, TypeOK, TaskFails
<1>2. bus' \in Seq(Op)
  BY <1>1
<1>3. TypeOK'
  BY <1>2 DEF Inv, TypeOK, TaskFails, Goto, Step, historyVars, Op
<1>4. Whole' /\ AddressedInFull'
  BY DEF Inv, TypeOK, Whole, AddressedInFull, TaskFails, Goto, UnderWay, Op
<1>5. Waiting(o)'
  <2>1. bus'[Len(bus) + 1] = o /\ Len(bus) + 1 \in DOMAIN bus'
    BY <1>1
  <2> QED
    BY <2>1 DEF Waiting
<1>6. \A p \in Op : Waiting(p) => Waiting(p)'
  <2>1. \A i \in DOMAIN bus : i \in DOMAIN bus' /\ bus'[i] = bus[i]
    BY <1>1
  <2> QED
    BY <2>1 DEF Waiting
<1>7. NoSilentDrop'
  BY <1>5, <1>6, DropEnded DEF TaskFails, historyVars
<1> QED
  BY <1>3, <1>4, <1>7 DEF Inv

(* A poll tells of everything that waited. *)
LEMMA PollStep == ASSUME Inv, PollEvents PROVE Inv'
<1> DEFINE drained == {bus[i] : i \in DOMAIN bus}
<1>1. drained \subseteq Op
  BY DEF Inv, TypeOK
<1>2. told' = told \cup drained
  BY DEF PollEvents
<1>3. TypeOK'
  BY <1>1, <1>2 DEF Inv, TypeOK, PollEvents
<1>4. Whole' /\ AddressedInFull'
  BY DEF Inv, Whole, AddressedInFull, PollEvents, UnderWay
<1>5. NoSilentDrop'
  <2> SUFFICES ASSUME NEW o \in Op, pc'[o] = "settled"
               PROVE  ReachedAll(o)' \/ o \in told' \cup lost'
    BY DEF NoSilentDrop
  <2>1. ReachedAll(o) \/ Waiting(o) \/ o \in told \cup lost
    BY DEF Inv, NoSilentDrop, PollEvents
  <2>2. ReachedAll(o) => ReachedAll(o)'
    BY DEF ReachedAll, PollEvents
  <2>3. Waiting(o) => o \in told'
    BY <1>2 DEF Waiting
  <2> QED
    BY <1>2, <2>1, <2>2, <2>3 DEF PollEvents
<1> QED
  BY <1>3, <1>4, <1>5 DEF Inv

(* The end of the process loses what was under way or waiting. *)
LEMMA ExitStep == ASSUME Inv, Exit PROVE Inv'
<1>1. TypeOK'
  BY DEF Inv, TypeOK, Exit, Step, UnderWay, Op
<1>2. Whole' /\ AddressedInFull'
  BY DEF Inv, TypeOK, Whole, AddressedInFull, Exit, UnderWay, Op
<1>3. NoSilentDrop'
  <2> SUFFICES ASSUME NEW o \in Op, pc'[o] = "settled"
               PROVE  ReachedAll(o)' \/ o \in told' \cup lost'
    BY DEF NoSilentDrop
  <2>1. CASE UnderWay(o) \/ Waiting(o)
    BY <2>1 DEF Exit
  <2>2. CASE ~UnderWay(o) /\ ~Waiting(o)
    <3>1. pc[o] = "settled"
      BY <2>2 DEF Inv, TypeOK, Exit
    <3>2. ReachedAll(o) \/ o \in told \cup lost
      BY <2>2, <3>1 DEF Inv, NoSilentDrop
    <3> QED
      BY <3>2 DEF Exit, ReachedAll
  <2> QED
    BY <2>1, <2>2
<1> QED
  BY <1>1, <1>2, <1>3 DEF Inv

(* The sign-in, the receive loop and the toasts leave the operations alone. *)
LEMMA OtherStep ==
    ASSUME Inv,
           \/ \E c \in Chat : LearnParticipants(c)
           \/ EnsureSession \/ ClientReady \/ ToastStep \/ UNCHANGED vars
    PROVE  Inv'
<1>1. CASE \E c \in Chat : LearnParticipants(c)
  <2>1. PICK c \in Chat : LearnParticipants(c)
    BY <1>1
  <2>2. TypeOK'
    BY <2>1, MembersAreAddresses DEF Inv, TypeOK, LearnParticipants, historyVars
  <2>3. Whole' /\ AddressedInFull'
    BY <2>1 DEF Inv, TypeOK, Whole, AddressedInFull, LearnParticipants, UnderWay
  <2>4. NoSilentDrop'
    BY <2>1, DropKept DEF LearnParticipants, historyVars
  <2> QED
    BY <2>2, <2>3, <2>4 DEF Inv
<1>2. CASE EnsureSession \/ ClientReady \/ ToastStep \/ UNCHANGED vars
  <2>1. /\ UNCHANGED <<members, row, pc, signedIn, to, reached, bus, told, lost>>
        /\ session' \in {session, "connected", "ready"}
    BY <1>2 DEF EnsureSession, ClientReady, ToastStep, vars, coreVars, historyVars
  <2>2. TypeOK'
    BY <2>1 DEF Inv, TypeOK
  <2>3. Whole' /\ AddressedInFull'
    BY <2>1 DEF Inv, Whole, AddressedInFull, UnderWay
  <2>4. NoSilentDrop'
    BY <2>1, DropKept
  <2> QED
    BY <2>2, <2>3, <2>4 DEF Inv
<1> QED
  BY <1>1, <1>2

-----------------------------------------------------------------------------
(* Inv is inductive: participant lists are whole or empty, a send under way
   has its row, and nothing ends unaccounted for. *)
THEOREM OutboxInductive == Spec => []Inv
<1>1. Inv /\ [Next]_vars => Inv'
  <2> SUFFICES ASSUME Inv, [Next]_vars PROVE Inv'
    OBVIOUS
  <2>1. ASSUME NEW g \in Send, UiSend(g) PROVE Inv'
    BY <2>1, StoreRowStep, StoreRowFailsStep DEF UiSend
  <2>2. ASSUME NEW g \in Send, EndCall(g) PROVE Inv'
    BY <2>2, ReadParticipantsFailsStep, SpawnSendStep DEF EndCall
  <2> QED
    BY <2>1, <2>2, SendTaskStep, ChangeStep, TaskFailsStep, PollStep, ExitStep,
       OtherStep DEF Next
<1> QED
  BY InvInit, <1>1, PTL DEF Spec

(* A send is addressed to its whole conversation or to nobody, for any number
   of chats, participants and sends (storage.rs:267-278, ffi.rs:426). *)
THEOREM AlwaysAddressedInFull == Spec => []AddressedInFull
<1>1. Inv => AddressedInFull
  BY DEF Inv
<1> QED
  BY OutboxInductive, <1>1, PTL

(* No operation ends silently without having reached everyone, whatever fails
   and whenever the process ends (integration.rs:192-194). *)
THEOREM NeverDroppedSilently == Spec => []NoSilentDrop
<1>1. Inv => NoSilentDrop
  BY DEF Inv
<1> QED
  BY OutboxInductive, <1>1, PTL

-----------------------------------------------------------------------------
(* The send pipeline implements Outcome.                                   *)

(* What the history says of an operation it says of one that is over, and an
   event that waits is the only word of its operation so far. *)
Accounts ==
    \A o \in Op : /\ o \in told \cup lost \/ Waiting(o) => pc[o] = "settled"
                  /\ Waiting(o) => o \notin told \cup lost

(* OutcomeOf, as Inv and Accounts allow it to be read. *)
View(o) ==
    IF o \in told THEN "reported"
    ELSE IF o \in lost THEN "lost"
    ELSE IF pc[o] = "unused" THEN "unused"
    ELSE IF pc[o] = "settled" /\ ~Waiting(o) THEN "delivered"
    ELSE "open"

(* Nothing is ever dropped, so OutcomeOf is View. *)
LEMMA OutcomeIsView ==
    Inv /\ Accounts => \A o \in Op : OutcomeOf(o) = View(o)
<1> SUFFICES ASSUME Inv, Accounts, NEW o \in Op PROVE OutcomeOf(o) = View(o)
  OBVIOUS
<1>1. CASE o \in told \cup lost
  BY <1>1 DEF OutcomeOf, View, Accounts
<1>2. CASE o \notin told \cup lost
  BY <1>2 DEF OutcomeOf, View, Inv, NoSilentDrop
<1> QED BY <1>1, <1>2

(* An operation the step leaves alone looks the same after it. *)
LEMMA SameView ==
    ASSUME NEW p \in Op, pc'[p] = pc[p], p \in told' <=> p \in told,
           p \in lost' <=> p \in lost, Waiting(p)' <=> Waiting(p)
    PROVE  View(p)' = View(p)
BY DEF View

(* Every step keeps the accounts. *)
LEMMA AccountsStep == Inv /\ Accounts /\ [Next]_vars => Accounts'
<1> SUFFICES ASSUME Inv, Accounts, [Next]_vars, NEW o \in Op
             PROVE  /\ o \in told' \cup lost' \/ Waiting(o)' => pc'[o] = "settled"
                    /\ Waiting(o)' => o \notin told' \cup lost'
  BY DEF Accounts
<1> USE DEF Op
<1>0. /\ o \in told \cup lost \/ Waiting(o) => pc[o] = "settled"
      /\ Waiting(o) => o \notin told \cup lost
      /\ pc \in [Op -> Step] /\ bus \in Seq(Op)
  BY DEF Accounts, Inv, TypeOK
<1>1. CASE \E g \in Send : UiSend(g) \/ EndCall(g)
  <2>1. PICK g \in Send : UiSend(g) \/ EndCall(g)
    BY <1>1
  <2>2. /\ pc[g] \in {"unused", "storing"}
        /\ \E step \in Step : Goto(g, step) /\ (told' = told \/ (told' = told \cup {g} /\ step = "settled"))
        /\ UNCHANGED <<bus, lost>>
    BY <2>1 DEF UiSend, EndCall, StoreRow, StoreRowFails, ReadParticipantsFails, SpawnSend,
                Refused, historyVars, Step
  <2>3. Waiting(o)' <=> Waiting(o)
    BY <2>2 DEF Waiting
  <2> QED BY <1>0, <2>2, <2>3 DEF Goto
<1>2. CASE \E p \in Change : SpawnChange(p) \/ ChangeFails(p)
  <2>1. PICK g \in Change : SpawnChange(g) \/ ChangeFails(g)
    BY <1>2
  <2>2. /\ pc[g] = "unused"
        /\ \E step \in Step : Goto(g, step) /\ (told' = told \/ (told' = told \cup {g} /\ step = "settled"))
        /\ UNCHANGED <<bus, lost>>
    BY <2>1 DEF SpawnChange, ChangeFails, Refused, historyVars, Step
  <2>3. Waiting(o)' <=> Waiting(o)
    BY <2>2 DEF Waiting
  <2> QED BY <1>0, <2>2, <2>3 DEF Goto
<1>3. CASE \E g \in Send : SendTask(g)
  <2>1. PICK g \in Send : SendTask(g)
    BY <1>3
  <2>2. /\ pc[g] \in {"spawned", "uploaded", "sending"}
        /\ pc' = pc \/ \E step \in Step : Goto(g, step)
        /\ UNCHANGED <<bus, told, lost>>
    BY <2>1 DEF SendTask, Upload, Dispatch, CanDispatch, Delivered, DeliverTo, historyVars, Step
  <2>3. Waiting(o)' <=> Waiting(o)
    BY <2>2 DEF Waiting
  <2> QED BY <1>0, <2>2, <2>3 DEF Goto
<1>4. CASE \E p \in Op : TaskFails(p)
  <2>1. PICK p \in Op : TaskFails(p)
    BY <1>4
  <2>2. /\ pc[p] # "settled" /\ Goto(p, "settled") /\ bus' = Append(bus, p)
        /\ UNCHANGED <<told, lost>>
    BY <2>1 DEF TaskFails, historyVars
  <2>3. Waiting(o)' => Waiting(o) \/ o = p
    BY <1>0, <2>2 DEF Waiting
  <2>4. p \notin told \cup lost
    BY <2>2 DEF Accounts
  <2> QED BY <1>0, <2>2, <2>3, <2>4 DEF Goto
<1>5. CASE PollEvents
  <2>1. bus' = <<>> /\ UNCHANGED <<pc, lost>> /\ told' = told \cup {bus[i] : i \in DOMAIN bus}
    BY <1>5 DEF PollEvents
  <2>2. ~Waiting(o)'
    BY <2>1 DEF Waiting
  <2>3. o \in told' => o \in told \/ Waiting(o)
    BY <2>1 DEF Waiting
  <2> QED BY <1>0, <2>1, <2>2, <2>3
<1>6. CASE Exit
  <2>1. /\ bus' = <<>> /\ told' = told
        /\ lost' = lost \cup {p \in Op : UnderWay(p) \/ Waiting(p)}
        /\ pc'[o] = IF UnderWay(o) THEN "settled" ELSE pc[o]
    BY <1>6 DEF Exit
  <2>2. ~Waiting(o)'
    BY <2>1 DEF Waiting
  <2> QED BY <1>0, <2>1, <2>2 DEF UnderWay
<1>7. CASE \/ \E c \in Chat : LearnParticipants(c)
           \/ EnsureSession \/ ClientReady \/ ToastStep \/ UNCHANGED vars
  <2>1. UNCHANGED <<pc, bus, told, lost>>
    BY <1>7 DEF LearnParticipants, EnsureSession, ClientReady, ToastStep, vars, coreVars,
                historyVars
  <2> QED BY <1>0, <2>1 DEF Waiting
<1> QED BY <1>1, <1>2, <1>3, <1>4, <1>5, <1>6, <1>7 DEF Next

(* A step that moves one operation takes Outcome's step for it. *)
LEMMA OneMoves ==
    ASSUME outcomes = [p \in Op |-> View(p)], outcomes' = [p \in Op |-> View(p)'],
           NEW o \in Op, \A p \in Op \ {o} : View(p)' = View(p)
    PROVE  /\ outcomes[o] = View(o)
           /\ outcomes' = [outcomes EXCEPT ![o] = View(o)']
BY ZenonT(30)

(* Every step of the pipeline is a step of Outcome under the mapping outcomes,
   or changes nothing the user can tell. *)
LEMMA PromiseStep ==
    ASSUME Inv, Accounts, [Next]_vars,
           outcomes = [p \in Op |-> View(p)], outcomes' = [p \in Op |-> View(p)']
    PROVE  Promise!OutcomeNext \/ outcomes' = outcomes
<1> USE DEF Op
<1>0. /\ pc \in [Op -> Step] /\ bus \in Seq(Op)
      /\ \A o \in Op : o \in told \cup lost \/ Waiting(o) => pc[o] = "settled"
      /\ \A o \in Op : Waiting(o) => o \notin told \cup lost
  BY DEF Accounts, Inv, TypeOK
<1>a. (\A p \in Op : View(p)' = View(p)) => outcomes' = outcomes
  OBVIOUS
<1>1. ASSUME NEW o \in Op, pc[o] = "unused", Goto(o, "storing") \/ Goto(o, "spawned"),
             UNCHANGED <<bus, told, lost>>
      PROVE  Promise!OutcomeNext
  <2>1. \A p \in Op : Waiting(p)' <=> Waiting(p)
    BY <1>1 DEF Waiting
  <2>2. \A p \in Op \ {o} : View(p)' = View(p)
    BY <1>0, <1>1, <2>1, SameView DEF Goto
  <2>3. View(o) = "unused" /\ View(o)' = "open"
    BY <1>0, <1>1, <2>1 DEF View, Goto
  <2>4. outcomes[o] = "unused" /\ outcomes' = [outcomes EXCEPT ![o] = "open"]
    BY <2>2, <2>3, OneMoves
  <2> QED BY <2>4 DEF Promise!OutcomeNext, Promise!Begin
<1>2. ASSUME NEW o \in Op, pc[o] \in {"unused", "storing"}, Refused(o), UNCHANGED bus
      PROVE  Promise!OutcomeNext
  <2>1. \A p \in Op : Waiting(p)' <=> Waiting(p)
    BY <1>2 DEF Waiting
  <2>2. \A p \in Op \ {o} : View(p)' = View(p)
    BY <1>0, <1>2, <2>1, SameView DEF Goto, Refused
  <2>3. View(o) \in {"unused", "open"} /\ View(o)' = "reported"
    BY <1>0, <1>2, <2>1 DEF View, Refused
  <2>4. outcomes[o] \in {"unused", "open"} /\ outcomes' = [outcomes EXCEPT ![o] = "reported"]
    BY <2>2, <2>3, OneMoves
  <2> QED BY <2>4 DEF Promise!OutcomeNext, Promise!Report
<1>3. ASSUME NEW o \in Op, pc[o] \in {"storing", "spawned", "uploaded", "sending"},
             NEW step \in {"spawned", "uploaded", "sending"}, Goto(o, step),
             UNCHANGED <<bus, told, lost>>
      PROVE  outcomes' = outcomes
  <2>1. \A p \in Op : Waiting(p)' <=> Waiting(p)
    BY <1>3 DEF Waiting
  <2>2. \A p \in Op \ {o} : View(p)' = View(p)
    BY <1>0, <1>3, <2>1, SameView DEF Goto
  <2>3. View(o) = "open" /\ View(o)' = "open"
    BY <1>0, <1>3, <2>1 DEF View, Goto
  <2> QED BY <1>a, <2>2, <2>3
<1>4. ASSUME NEW o \in Op, Delivered(o) PROVE Promise!OutcomeNext
  <2>0. pc[o] = "sending" /\ Goto(o, "settled") /\ UNCHANGED <<bus, told, lost>>
    BY <1>4 DEF Delivered, historyVars
  <2>1. \A p \in Op : Waiting(p)' <=> Waiting(p)
    BY <2>0 DEF Waiting
  <2>2. \A p \in Op \ {o} : View(p)' = View(p)
    BY <1>0, <2>0, <2>1, SameView DEF Goto
  <2>3. View(o) = "open" /\ View(o)' = "delivered"
    BY <1>0, <2>0, <2>1 DEF View, Goto
  <2>4. outcomes[o] = "open" /\ outcomes' = [outcomes EXCEPT ![o] = "delivered"]
    BY <2>2, <2>3, OneMoves
  <2> QED BY <2>4 DEF Promise!OutcomeNext, Promise!Deliver
<1>5. ASSUME NEW o \in Op, TaskFails(o) PROVE outcomes' = outcomes
  <2>0. /\ pc[o] \in {"spawned", "uploaded", "sending"} /\ Goto(o, "settled")
        /\ bus' = Append(bus, o) /\ UNCHANGED <<told, lost>>
    BY <1>5 DEF TaskFails, historyVars
  <2>1. /\ DOMAIN bus' = 1..(Len(bus) + 1) /\ bus'[Len(bus) + 1] = o
        /\ DOMAIN bus = 1..Len(bus) /\ Len(bus) \in Nat
        /\ \A i \in DOMAIN bus : i \in DOMAIN bus' /\ bus'[i] = bus[i]
    BY <1>0, <2>0
  <2>2. Waiting(o)' /\ \A p \in Op \ {o} : Waiting(p)' <=> Waiting(p)
    BY <2>1 DEF Waiting
  <2>3. \A p \in Op \ {o} : View(p)' = View(p)
    BY <1>0, <2>0, <2>2, SameView DEF Goto
  <2>4. View(o) = "open" /\ View(o)' = "open"
    BY <1>0, <2>0, <2>2 DEF View, Goto
  <2> QED BY <1>a, <2>3, <2>4
<1>6. ASSUME PollEvents PROVE Promise!OutcomeNext
  <2> DEFINE S == {o \in Op : Waiting(o)}
  <2>0. /\ bus # <<>> /\ bus' = <<>> /\ UNCHANGED <<pc, lost>>
        /\ told' = told \cup {bus[i] : i \in DOMAIN bus}
    BY <1>6 DEF PollEvents
  <2>1. S # {}
    <3>1. 1 \in DOMAIN bus /\ bus[1] \in Op
      BY <1>0, <2>0
    <3> QED BY <3>1 DEF Waiting
  <2>2. ASSUME NEW o \in S PROVE View(o) = "open" /\ View(o)' = "reported"
    <3>1. View(o) = "open"
      BY <1>0 DEF View
    <3>2. o \in told'
      BY <2>0 DEF Waiting
    <3> QED BY <3>1, <3>2 DEF View
  <2>3. ASSUME NEW o \in Op \ S PROVE View(o)' = View(o)
    <3>1. o \in told' <=> o \in told
      BY <2>0 DEF Waiting
    <3>2. ~Waiting(o) /\ ~Waiting(o)'
      BY <2>0 DEF Waiting
    <3> QED BY <2>0, <3>1, <3>2, SameView
  <2>4. /\ \A o \in S : outcomes[o] = "open"
        /\ outcomes' = [o \in Op |-> IF o \in S THEN "reported" ELSE outcomes[o]]
    <3> HIDE DEF S
    <3>1. S \subseteq Op
      BY DEF S
    <3> QED BY <2>2, <2>3, <3>1
  <2>5. Promise!ReportAll(S)
    BY <2>1, <2>4 DEF Promise!ReportAll
  <2>6. S \in SUBSET Op
    OBVIOUS
  <2> HIDE DEF S
  <2> QED BY <2>5, <2>6 DEF Promise!OutcomeNext
<1>7. ASSUME Exit PROVE Promise!OutcomeNext
  <2>0. /\ bus' = <<>> /\ told' = told
        /\ lost' = lost \cup {p \in Op : UnderWay(p) \/ Waiting(p)}
        /\ \A o \in Op : pc'[o] = IF UnderWay(o) THEN "settled" ELSE pc[o]
    BY <1>7 DEF Exit
  <2>1. ASSUME NEW o \in Op
        PROVE  View(o)' = IF View(o) = "open" THEN "lost" ELSE View(o)
    <3>1. ~Waiting(o)'
      BY <2>0 DEF Waiting
    <3>2. CASE UnderWay(o) \/ Waiting(o)
      <4>1. View(o) = "open" /\ o \notin told
        BY <1>0, <3>2 DEF View, UnderWay
      <4> QED BY <2>0, <3>2, <4>1 DEF View
    <3>3. CASE ~UnderWay(o) /\ ~Waiting(o)
      <4>1. View(o) # "open"
        BY <1>0, <3>3 DEF View, UnderWay
      <4>2. View(o)' = View(o)
        BY <2>0, <3>1, <3>3, SameView
      <4> QED BY <4>1, <4>2
    <3> QED BY <3>2, <3>3
  <2> QED BY <2>1 DEF Promise!OutcomeNext, Promise!Lose
<1>8. ASSUME UNCHANGED <<pc, bus, told, lost>> PROVE outcomes' = outcomes
  <2>1. \A p \in Op : Waiting(p)' <=> Waiting(p)
    BY <1>8 DEF Waiting
  <2> QED BY <1>8, <1>a, <2>1, SameView
<1>9. ASSUME NEW g \in Send, UiSend(g) \/ EndCall(g)
      PROVE  Promise!OutcomeNext \/ outcomes' = outcomes
  BY <1>1, <1>2, <1>3, <1>9 DEF UiSend, EndCall, StoreRow, StoreRowFails,
     ReadParticipantsFails, SpawnSend, historyVars
<1>10. ASSUME NEW g \in Send, SendTask(g) PROVE Promise!OutcomeNext \/ outcomes' = outcomes
  <2>1. CASE Upload(g) \/ Dispatch(g)
    <3>1. pc[g] \in {"spawned", "uploaded"}
      BY <2>1 DEF Upload, Dispatch, CanDispatch
    <3> QED BY <1>3, <2>1, <3>1 DEF Upload, Dispatch, historyVars
  <2>2. CASE \E a \in to[g] : DeliverTo(g, a)
    BY <1>8, <2>2 DEF DeliverTo, historyVars
  <2> QED BY <1>4, <1>10, <2>1, <2>2 DEF SendTask
<1>11. ASSUME NEW o \in Change, SpawnChange(o) \/ ChangeFails(o) PROVE Promise!OutcomeNext
  BY <1>1, <1>2, <1>11 DEF SpawnChange, ChangeFails, historyVars
<1>12. ASSUME \/ \E c \in Chat : LearnParticipants(c)
              \/ EnsureSession \/ ClientReady \/ ToastStep \/ UNCHANGED vars
       PROVE  outcomes' = outcomes
  <2>1. UNCHANGED <<pc, bus, told, lost>>
    BY <1>12 DEF LearnParticipants, EnsureSession, ClientReady, ToastStep, vars, coreVars,
                 historyVars
  <2> QED BY <1>8, <2>1
<1> QED BY <1>5, <1>6, <1>7, <1>9, <1>10, <1>11, <1>12 DEF Next

(* The send pipeline implements the safety part of Outcome, for any chats,
   sends, changes and ends of the process: an operation opens once, ends
   delivered, reported or lost with the process, and its end is final.  That it
   does end is checked by TLC. *)
THEOREM ImplementsOutcome == Spec => Promise!OutcomeSafety
<1> DEFINE Mapped == outcomes = [p \in Op |-> View(p)]
<1>1. Inv /\ Accounts => Mapped
  BY OutcomeIsView DEF outcomes
<1>2. Init => Accounts
  BY DEF Init, Accounts, Waiting
<1>3. Spec => [](Inv /\ Accounts)
  BY OutboxInductive, AccountsStep, <1>2, PTL DEF Spec
<1>4. Init => Promise!OutcomeInit
  <2> SUFFICES ASSUME Init PROVE Promise!OutcomeInit
    OBVIOUS
  <2>1. Inv /\ Accounts
    BY <1>2, InvInit
  <2>2. \A p \in Op : View(p) = "unused"
    BY DEF Init, View
  <2> QED BY <1>1, <2>1, <2>2 DEF Promise!OutcomeInit
<1>5. Inv /\ Accounts /\ Mapped /\ Mapped' /\ [Next]_vars => [Promise!OutcomeNext]_outcomes
  BY PromiseStep
<1> HIDE DEF Mapped
<1> QED BY <1>1, <1>3, <1>4, <1>5, PTL DEF Spec, Promise!OutcomeSafety
=============================================================================
