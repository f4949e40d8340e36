------------------------------- MODULE Outbox -------------------------------
(***************************************************************************)
(* What happens to a message after it is in the store: the calls           *)
(* send_message_local, attach_file_local, tapback_local,                   *)
(* edit_message_local and unsend_message_local (rust/src/ffi.rs), the      *)
(* detached task each of them spawns (rust/src/integration.rs), the event  *)
(* a failed task leaves on the bus, and the toast the window makes of it   *)
(* (app/core_bridge.cpp, ToastLayer).                                      *)
(*                                                                         *)
(* The calls run on the UI thread one at a time, the poll timer runs on it *)
(* too, and the tasks, the sign-in and the receive loop run beside it.     *)
(* The statements of the store are Storage's; here a call stores its row   *)
(* or fails, possibly with the row stored.                                 *)
(***************************************************************************)
EXTENDS Integers, Sequences, FiniteSets

CONSTANTS
    Chat,
    Members,      \* chat -> the addresses of its conversation
    Send,         \* "temp-<uuid>" guids of messages written locally
    WithFile,     \* those of them that carry a file
    Change,       \* edits, unsends and tapbacks
    NoRow,        \* not in the store
    maxVisible    \* toasts on screen

Op == Send \cup Change
Address == UNION {Members[c] : c \in Chat}

ASSUME OutboxAssumption ==
    /\ IsFiniteSet(Op)
    /\ WithFile \subseteq Send
    /\ Send \cap Change = {}
    /\ NoRow \notin Chat
    /\ \A c \in Chat : Members[c] # {}

VARIABLES
    session,      \* AppState.session: none, connected, or with a client
    members,      \* participant_addresses by chat, from the store
    row,          \* table messages: the chat of a message written locally
    pc,           \* where an operation is
    signedIn,     \* the tasks that captured a session
    to,           \* the participants a send captured
    reached,      \* the addresses a send was delivered to
    bus,          \* the undrained events that become toasts, by operation
    told,         \* history: the operations a toast was posted for
    lost,         \* history: the operations under way when the process ended
    toasts, nextSerial, hovered, expired

coreVars == <<session, members, row, pc, signedIn, to, reached, bus>>
historyVars == <<told, lost>>
toastVars == <<toasts, nextSerial, hovered, expired>>
vars == <<coreVars, historyVars, toastVars>>

(* Every operation is the subject of one toast at most. *)
Toasts == INSTANCE ToastLayer WITH Body <- Op, MaxPosts <- Cardinality(Op)

Step == {"unused", "storing", "spawned", "uploaded", "sending", "settled"}

(* The tasks, and the call the UI thread is in. *)
UnderWay(o) == pc[o] \notin {"unused", "settled"}
UiFree == \A o \in Op : pc[o] # "storing"
Waiting(o) == \E i \in DOMAIN bus : bus[i] = o

Init ==
    /\ session = "none"
    /\ \E known \in SUBSET Chat :
           members = [c \in Chat |-> IF c \in known THEN Members[c] ELSE {}]
    /\ row = [g \in Send |-> NoRow]
    /\ pc = [o \in Op |-> "unused"]
    /\ signedIn = {}
    /\ to = [g \in Send |-> {}]
    /\ reached = [g \in Send |-> {}]
    /\ bus = <<>>
    /\ told = {}
    /\ lost = {}
    /\ Toasts!ToastInit

-----------------------------------------------------------------------------
(* The UI thread.                                                          *)

Goto(o, step) == pc' = [pc EXCEPT ![o] = step]

(* CoreBridge::guarded turns the error of a call into a toast. *)
Refused(o) ==
    /\ Goto(o, "settled")
    /\ told' = told \cup {o}
    /\ Toasts!Post(<<o>>)
    /\ UNCHANGED lost

(* A send or an attachment: the row is stored and announced. *)
StoreRow(g, c) ==
    /\ UiFree /\ pc[g] = "unused"
    /\ row' = [row EXCEPT ![g] = c]
    /\ Goto(g, "storing")
    /\ UNCHANGED <<session, members, signedIn, to, reached, bus, historyVars, toastVars>>

(* The file is missing or cannot be copied, or a statement fails: the row may
   be in the store, since its statements commit one by one. *)
StoreRowFails(g, c) ==
    /\ UiFree /\ pc[g] = "unused"
    /\ \E stored \in {NoRow, c} : row' = [row EXCEPT ![g] = stored]
    /\ Refused(g)
    /\ UNCHANGED <<session, members, signedIn, to, reached, bus>>

(* Mutant: the error of participant_addresses is taken for nobody to send to,
   and the call returns. *)
ReadParticipantsFailsQuietly(g) ==
    /\ pc[g] = "storing"
    /\ Goto(g, "settled")
    /\ UNCHANGED <<session, members, row, signedIn, to, reached, bus, historyVars, toastVars>>

(* participant_addresses fails: the row is stored, no task is spawned. *)
ReadParticipantsFails(g) ==
    /\ pc[g] = "storing"
    /\ Refused(g)
    /\ UNCHANGED <<session, members, row, signedIn, to, reached, bus>>

(* The task takes along the participants and the session of this moment. *)
SpawnSend(g) ==
    /\ pc[g] = "storing"
    /\ to' = [to EXCEPT ![g] = members[row[g]]]
    /\ signedIn' = IF session = "none" THEN signedIn ELSE signedIn \cup {g}
    /\ Goto(g, "spawned")
    /\ UNCHANGED <<session, members, row, reached, bus, historyVars, toastVars>>

(* An edit, an unsend or a tapback: the store is changed and a task spawned,
   or the statement fails. *)
SpawnChange(o) ==
    /\ UiFree /\ pc[o] = "unused"
    /\ Goto(o, "spawned")
    /\ UNCHANGED <<session, members, row, signedIn, to, reached, bus, historyVars, toastVars>>

ChangeFails(o) ==
    /\ UiFree /\ pc[o] = "unused"
    /\ Refused(o)
    /\ UNCHANGED <<session, members, row, signedIn, to, reached, bus>>

(* The poll timer: every event that waits becomes a toast, in order. *)
PollEvents ==
    /\ UiFree /\ bus # <<>>
    /\ bus' = <<>>
    /\ told' = told \cup {bus[i] : i \in DOMAIN bus}
    /\ Toasts!Post(bus)
    /\ UNCHANGED <<session, members, row, pc, signedIn, to, reached, lost>>

(* Sign-in: ensure_session fills the slot on the UI thread, and its task puts
   the client in later. *)
EnsureSession ==
    /\ UiFree /\ session = "none"
    /\ session' = "connected"
    /\ UNCHANGED <<members, row, pc, signedIn, to, reached, bus, historyVars, toastVars>>

-----------------------------------------------------------------------------
(* The tasks.                                                              *)

ClientReady ==
    /\ session = "connected"
    /\ session' = "ready"
    /\ UNCHANGED <<members, row, pc, signedIn, to, reached, bus, historyVars, toastVars>>

(* Mutant: the participants are committed one by one. *)
LearnOneParticipant(c) ==
    /\ session = "ready" /\ members[c] # Members[c]
    /\ \E a \in Members[c] \ members[c] :
           members' = [members EXCEPT ![c] = @ \cup {a}]
    /\ UNCHANGED <<session, row, pc, signedIn, to, reached, bus, historyVars, toastVars>>

(* The receive loop stores the participants of a chat, in one transaction. *)
LearnParticipants(c) ==
    /\ session = "ready" /\ members[c] = {}
    /\ members' = [members EXCEPT ![c] = Members[c]]
    /\ UNCHANGED <<session, row, pc, signedIn, to, reached, bus, historyVars, toastVars>>

(* attachment_part *)
Upload(g) ==
    /\ pc[g] = "spawned" /\ g \in signedIn \cap WithFile
    /\ Goto(g, "uploaded")
    /\ UNCHANGED <<session, members, row, signedIn, to, reached, bus, historyVars, toastVars>>

(* send_parts up to client.send: the captured session is asked for its client
   only now. *)
CanDispatch(g) ==
    /\ pc[g] = IF g \in WithFile THEN "uploaded" ELSE "spawned"
    /\ g \in signedIn
    /\ to[g] # {}
    /\ session = "ready"

(* Mutant: the handle that client.send returns is dropped. *)
DispatchUnawaited(g) ==
    /\ CanDispatch(g)
    /\ Goto(g, "settled")
    /\ UNCHANGED <<session, members, row, signedIn, to, reached, bus, historyVars, toastVars>>

Dispatch(g) ==
    /\ CanDispatch(g)
    /\ Goto(g, "sending")
    /\ UNCHANGED <<session, members, row, signedIn, to, reached, bus, historyVars, toastVars>>

(* rustpush delivers to one recipient after the other; the handle resolves
   when all of them have it. *)
DeliverTo(g, a) ==
    /\ pc[g] = "sending" /\ a \in to[g] \ reached[g]
    /\ reached' = [reached EXCEPT ![g] = @ \cup {a}]
    /\ UNCHANGED <<session, members, row, pc, signedIn, to, bus, historyVars, toastVars>>

Delivered(g) ==
    /\ pc[g] = "sending" /\ reached[g] = to[g]
    /\ Goto(g, "settled")
    /\ UNCHANGED <<session, members, row, signedIn, to, reached, bus, historyVars, toastVars>>

(* Every step of a task can fail, and the stubs of edit, unsend and tapback
   always do.  Whatever failed, one event says so. *)
TaskFails(o) ==
    /\ pc[o] \in {"spawned", "uploaded", "sending"}
    /\ Goto(o, "settled")
    /\ bus' = Append(bus, o)
    /\ UNCHANGED <<session, members, row, signedIn, to, reached, historyVars, toastVars>>

(* The process ends, by Quit or otherwise, and is started again: tasks,
   events and the session lived in memory. *)
Exit ==
    /\ lost' = lost \cup {o \in Op : UnderWay(o) \/ Waiting(o)}
    /\ pc' = [o \in Op |-> IF UnderWay(o) THEN "settled" ELSE pc[o]]
    /\ session' = "none"
    /\ bus' = <<>>
    /\ toasts' = <<>> /\ nextSerial' = 0 /\ hovered' = {} /\ expired' = {}
    /\ UNCHANGED <<members, row, signedIn, to, reached, told>>

-----------------------------------------------------------------------------
ToastStep ==
    /\ Toasts!Hover \/ \E s \in Toasts!OnScreen : Toasts!Expire(s)
    /\ UNCHANGED <<coreVars, historyVars>>

UiSend(g) == \E c \in Chat : StoreRow(g, c) \/ StoreRowFails(g, c)
EndCall(g) == ReadParticipantsFails(g) \/ SpawnSend(g)

SendTask(g) ==
    \/ Upload(g) \/ Dispatch(g) \/ Delivered(g)
    \/ \E a \in to[g] : DeliverTo(g, a)

Next ==
    \/ \E g \in Send : UiSend(g) \/ EndCall(g) \/ SendTask(g)
    \/ \E o \in Change : SpawnChange(o) \/ ChangeFails(o)
    \/ \E o \in Op : TaskFails(o)
    \/ \E c \in Chat : LearnParticipants(c)
    \/ PollEvents \/ EnsureSession \/ ClientReady \/ Exit \/ ToastStep

Spec == Init /\ [][Next]_vars

(* The call goes on, the poll timer fires, and a spawned task runs until it
   is delivered or fails: every await of rustpush ends. *)
Fairness ==
    /\ \A g \in Send : WF_vars(EndCall(g)) /\ WF_vars(SendTask(g) \/ TaskFails(g))
    /\ \A o \in Change : WF_vars(TaskFails(o))
    /\ WF_vars(PollEvents)

FairSpec == Spec /\ Fairness

-----------------------------------------------------------------------------
(* The types of the variables; a task that waits for its delivery has
   somebody to deliver to (integration.rs:169-171). *)
TypeOK ==
    /\ session \in {"none", "connected", "ready"}
    /\ members \in [Chat -> SUBSET Address]
    /\ row \in [Send -> Chat \cup {NoRow}]
    /\ pc \in [Op -> Step]
    /\ signedIn \subseteq Send
    /\ to \in [Send -> SUBSET Address]
    /\ reached \in [Send -> SUBSET Address]
    /\ bus \in Seq(Op)
    /\ told \subseteq Op /\ lost \subseteq Op
    /\ \A g \in Send : pc[g] = "sending" => to[g] # {}

(* A send is addressed to the whole conversation its row is in, or to nobody
   and then it fails: a task never takes along a list of participants that
   the receive loop is in the middle of writing (storage.rs:267-278,
   ffi.rs:426). *)
AddressedInFull ==
    \A g \in Send : to[g] # {} => row[g] # NoRow /\ to[g] = Members[row[g]]

(* Everyone in the conversation the message is shown in has it. *)
ReachedAll(o) == o \in Send /\ row[o] # NoRow /\ Members[row[o]] \subseteq reached[o]

(* An operation that is over and of which the user was told nothing, with no
   event on the way and no end of the process to blame, reached everyone in
   its conversation ("a failed delivery surfaces as a failed send rather than
   a silent drop", integration.rs:192-194; stubs end in a warning,
   ffi.rs:483-511). *)
NoSilentDrop ==
    \A o \in Op : pc[o] = "settled" =>
        ReachedAll(o) \/ Waiting(o) \/ o \in told \cup lost

(* What the user can say of an operation. *)
OutcomeOf(o) ==
    CASE o \in told -> "reported"
      [] o \in lost \ told -> "lost"
      [] pc[o] = "unused" -> "unused"
      [] pc[o] = "settled" /\ ~Waiting(o) /\ o \notin told \cup lost ->
             IF ReachedAll(o) THEN "delivered" ELSE "dropped"
      [] OTHER -> "open"

outcomes == [o \in Op |-> OutcomeOf(o)]

Promise == INSTANCE Outcome WITH outcome <- outcomes

(* The send pipeline implements Outcome: every operation is delivered or
   reported, sooner or later, unless the process ends first
   (integration.rs:164-203, ffi.rs:359-449). *)
KeepsPromise == Promise!OutcomeSpec
=============================================================================
