----------------------------- MODULE AuthProofs -----------------------------
(***************************************************************************)
(* Proofs about AuthFlow: the account state in memory, kv row, event and   *)
(* pairing file, for any number of devices, tasks, loops and restarts.     *)
(*                                                                         *)
(* None of the five properties is inductive.  Each is about moments when   *)
(* nothing is in progress, and says nothing of a call or a task half way   *)
(* through its writes; Inv says what each has established at each step.    *)
(***************************************************************************)
EXTENDS AuthFlow, TLAPS

(* What the call on the UI thread knows at each of its steps.  Only that
   thread writes the pairing slot, and a session, once made, stays. *)
CallInv ==
    /\ ui.pc \in {"truncate", "write", "pair_mem"} =>
           ui.device \in Device /\ ui.label = "needs_credentials"
    /\ ui.pc \in {"remove", "clear_mem"} =>
           ui.device = None /\ ui.label = "needs_pairing"
    /\ ui.pc = "session" => osMem # None /\ ui.label = "authenticating"
    /\ ui.pc \in {"auth_mem", "auth_kv", "auth_event", "spawn"} =>
           /\ ui.label \in {"needs_pairing", "needs_credentials", "authenticating"}
           /\ (ui.label = "needs_pairing") <=> (osMem = None)
           /\ ui.label = "authenticating" => session # None
    /\ ui.pc = "spawn" => ui.label = "authenticating"

(* The pairing slot is what the file loads to, except between the write of
   the file and that of the slot. *)
FileInv ==
    /\ ui.pc = "write" => osFile = Corrupt
    /\ ui.pc \in {"pair_mem", "clear_mem"} => osFile = ui.device
    /\ ui.pc \notin {"pair_mem", "clear_mem"} =>
           osFile = Corrupt \/ LoadDevice(osFile) = osMem

(* What a task has behind it. *)
TaskInv ==
    \A t \in Task :
        /\ tasks[t].pc # "none" => session # None /\ tasks[t].label # "needs_pairing"
        /\ tasks[t].pc = "prepare" => session.ids
        /\ tasks[t].pc = "listen" => session.client
        /\ tasks[t].pc # "none" /\ tasks[t].label = "ready" => session.client

(* A label "ready" restored at the start outlives the making of a session by
   one step, the one that replaces it. *)
ClientInv ==
    auth = "ready" /\ session # None =>
        session.client \/ (ui.pc = "auth_mem" /\ ui.label = "authenticating")

(* After a clean write its writer is the only one under way, until its event. *)
PubInv ==
    ~unclean =>
        /\ UiPublishing =>
               /\ auth = ui.label /\ ~TaskPublishing(Task)
               /\ ui.pc = "auth_event" => kv = auth
        /\ \A t \in Task : Publishing(tasks[t].pc) =>
               /\ auth = tasks[t].label /\ ~UiPublishing /\ ~TaskPublishing(Task \ {t})
               /\ tasks[t].pc = "auth_event" => kv = auth

Settled == ~UiPublishing /\ ~TaskPublishing(Task)

(* A clean state is one a restart can restore, and the stored label does so
   once its writer has come past kv; not while the UI is about to write. *)
StoreInv ==
    ~unclean /\ osFile # Corrupt /\ ui.pc \notin {"pair_mem", "clear_mem", "auth_mem"} =>
        /\ Restored(osFile, auth) = auth
        /\ Settled => Restored(osFile, kv) = auth

(* The newest event of a clean state carries it. *)
WindowInv ==
    ~unclean /\ Settled => queued = auth \/ (queued = None /\ shown = auth)

Inv == /\ TypeOK /\ CallInv /\ FileInv /\ TaskInv /\ ClientInv
       /\ PubInv /\ StoreInv /\ WindowInv

-----------------------------------------------------------------------------
(* Sign-in fills the slots of a session and leaves it a session. *)
LEMMA SessionKept ==
    ASSUME NEW s \in Session
    PROVE  /\ s # None
           /\ LET i == [s EXCEPT !.ids = TRUE] IN
                 i \in Session /\ i # None /\ i.ids /\ i.client = s.client
           /\ LET c == [s EXCEPT !.client = TRUE] IN
                 c \in Session /\ c # None /\ c.client /\ c.ids = s.ids
<1>1. [s EXCEPT !.ids = TRUE] \in Session /\ [s EXCEPT !.client = TRUE] \in Session
  BY Zenon DEF Session
<1>2. \A r \in Session : r # None
  BY AuthAssumption
<1>3. /\ [s EXCEPT !.ids = TRUE].ids /\ [s EXCEPT !.client = TRUE].client
      /\ [s EXCEPT !.ids = TRUE].client = s.client
      /\ [s EXCEPT !.client = TRUE].ids = s.ids
  BY DEF Session
<1> QED
  BY <1>1, <1>2, <1>3

(* AppState::open only ever restores a label. *)
LEMMA RestoredLabel ==
    ASSUME NEW f, NEW l
    PROVE  Restored(f, l) \in Label
BY DEF Restored, Label

(* Every write of the account flow keeps the state well formed: a session is
   made for the paired device, and what a restart restores is a label. *)
LEMMA TypeOKStep ==
    ASSUME Inv, [Next]_vars
    PROVE  TypeOK'
<1> USE AuthAssumption, AnswerAssumption DEF Inv
<1>1. ASSUME NEW d \in Device, CompletePairing(d)
      PROVE TypeOK'
  BY <1>1 DEF CompletePairing, TypeOK, CallInv, TaskInv, UiPc, TaskPc, Label,
         Session, stores
<1>2. CASE ClearPairing
  BY <1>2 DEF ClearPairing, TypeOK, CallInv, TaskInv, UiPc, TaskPc, Label, Session,
         stores
<1>3. CASE SignIn
  BY <1>3 DEF SignIn, TypeOK, CallInv, TaskInv, UiPc, TaskPc, Label, Session, stores
<1>4. CASE SubmitTwoFactorCode
  BY <1>4 DEF SubmitTwoFactorCode, SpawnTask, TypeOK, CallInv, TaskInv, UiPc, TaskPc,
         Label, Session, stores
<1>5. CASE SaveDevice
  BY <1>5 DEF SaveDevice, TypeOK, CallInv, TaskInv, UiPc, TaskPc, Label, Session, stores
<1>6. CASE RemoveDevice
  BY <1>6 DEF RemoveDevice, TypeOK, CallInv, TaskInv, UiPc, TaskPc, Label, Session,
         stores
<1>7. CASE SetDeviceSlot
  BY <1>7 DEF SetDeviceSlot, TypeOK, CallInv, TaskInv, UiPc, TaskPc, Label, Session,
         stores
<1>8. CASE FileError
  BY <1>8 DEF FileError, TypeOK, CallInv, TaskInv, UiPc, TaskPc, Label, Session, stores
<1>9. CASE EnsureSession
  <2>1. session' \in Session \cup {None}
    <3>1. osMem \in Device
      BY <1>9 DEF EnsureSession, TypeOK, CallInv
    <3>2. [device |-> osMem, ids |-> FALSE, client |-> FALSE] \in Session
      BY <3>1 DEF Session
    <3> QED
      BY <1>9, <3>2 DEF EnsureSession, TypeOK
  <2>2. ui' \in [pc : UiPc, label : Label, device : Device \cup {None}]
    BY <1>9 DEF EnsureSession, Idle, TypeOK, UiPc, Label
  <2> QED
    BY <1>9, <2>1, <2>2 DEF EnsureSession, TypeOK, stores
<1>10. CASE UiAuthMem
  BY <1>10 DEF UiAuthMem, Publish, TypeOK, CallInv, TaskInv, UiPc, TaskPc, Label,
         Session, stores
<1>11. CASE UiAuthKv
  <2>1. kv' \in Label \cup {None}
    BY <1>11 DEF UiAuthKv, TypeOK
  <2>2. ui' \in [pc : UiPc, label : Label, device : Device \cup {None}]
    BY <1>11 DEF UiAuthKv, TypeOK, UiPc, TaskPc
  <2>3. unclean' \in BOOLEAN
    BY <1>11, Zenon DEF UiAuthKv, TypeOK
  <2> QED
    BY <1>11, <2>1, <2>2, <2>3 DEF UiAuthKv, TypeOK, stores
<1>12. CASE UiAuthEvent
  BY <1>12 DEF UiAuthEvent, TypeOK, CallInv, TaskInv, UiPc, TaskPc, Label, Session,
         stores
<1>13. CASE SpawnSignIn
  BY <1>13 DEF SpawnSignIn, Idle, SpawnTask, TypeOK, CallInv, TaskInv, UiPc, TaskPc,
         Label, Session, stores
<1>14. CASE RereadLabel
  BY <1>14 DEF RereadLabel, Idle, TypeOK, CallInv, TaskInv, UiPc, TaskPc, Label,
         Session, stores
<1>15. ASSUME NEW t \in Task, RemoteAnswer(t)
      PROVE TypeOK'
  BY <1>15 DEF RemoteAnswer, Settle, TypeOK, CallInv, TaskInv, UiPc, TaskPc, Label,
         Session, stores
<1>16. ASSUME NEW t \in Task, FinalizeLogin(t)
      PROVE TypeOK'
  <2>1. session \in Session
    BY <1>16 DEF FinalizeLogin, TypeOK, TaskInv
  <2>2. session' \in Session
    BY <1>16, <2>1, SessionKept DEF FinalizeLogin
  <2>3. tasks' \in [Task -> [pc : TaskPc, label : Label]]
    BY <1>16 DEF FinalizeLogin, Settle, TypeOK, TaskPc, Label
  <2> QED
    BY <1>16, <2>2, <2>3 DEF FinalizeLogin, TypeOK, stores
<1>17. ASSUME NEW t \in Task, PrepareImClient(t)
      PROVE TypeOK'
  <2>1. session \in Session
    BY <1>17 DEF PrepareImClient, TypeOK, TaskInv
  <2>2. session' \in Session
    BY <1>17, <2>1, SessionKept DEF PrepareImClient
  <2>3. tasks' \in [Task -> [pc : TaskPc, label : Label]]
    BY <1>17 DEF PrepareImClient, Settle, TypeOK, TaskPc, Label
  <2> QED
    BY <1>17, <2>2, <2>3 DEF PrepareImClient, TypeOK, stores
<1>18. ASSUME NEW t \in Task, SpawnReceiveLoop(t)
      PROVE TypeOK'
  BY <1>18 DEF SpawnReceiveLoop, Settle, TypeOK, CallInv, TaskInv, UiPc, TaskPc,
         Label, Session, stores
<1>19. ASSUME NEW t \in Task, TaskAuthMem(t)
      PROVE TypeOK'
  BY <1>19 DEF TaskAuthMem, Publish, TypeOK, CallInv, TaskInv, UiPc, TaskPc, Label,
         Session, stores
<1>20. ASSUME NEW t \in Task, TaskAuthKv(t)
      PROVE TypeOK'
  <2>1. kv' \in Label \cup {None}
    BY <1>20 DEF TaskAuthKv, TypeOK
  <2>2. tasks' \in [Task -> [pc : TaskPc, label : Label]]
    BY <1>20 DEF TaskAuthKv, TypeOK, UiPc, TaskPc
  <2>3. unclean' \in BOOLEAN
    BY <1>20, Zenon DEF TaskAuthKv, TypeOK
  <2> QED
    BY <1>20, <2>1, <2>2, <2>3 DEF TaskAuthKv, TypeOK, stores
<1>21. ASSUME NEW t \in Task, TaskAuthEvent(t)
      PROVE TypeOK'
  BY <1>21 DEF TaskAuthEvent, NoTask, TypeOK, CallInv, TaskInv, UiPc, TaskPc, Label,
         Session, stores
<1>22. CASE ConnectionClosed
  BY <1>22 DEF ConnectionClosed, TypeOK, CallInv, TaskInv, UiPc, TaskPc, Label,
         Session, stores
<1>23. CASE PollEvents
  BY <1>23 DEF PollEvents, TypeOK, CallInv, TaskInv, UiPc, TaskPc, Label, Session,
         stores
<1>24. CASE Restart
  <2>1. auth' \in Label /\ shown' \in Label
    BY <1>24, RestoredLabel DEF Restart
  <2>2. ui' \in [pc : UiPc, label : Label, device : Device \cup {None}]
    BY <1>24 DEF Restart, Idle, UiPc, Label
  <2>3. tasks' \in [Task -> [pc : TaskPc, label : Label]]
    BY <1>24 DEF Restart, NoTask, TaskPc, Label
  <2>4. /\ osMem' \in Device \cup {None}
        /\ loops' \in 0 .. MaxLoops /\ restarts' \in 0 .. MaxRestarts
    BY <1>24 DEF Restart, LoadDevice, TypeOK
  <2>5. unclean' \in BOOLEAN
    BY <1>24, Zenon DEF Restart
  <2> QED
    BY <1>24, <2>1, <2>2, <2>3, <2>4, <2>5 DEF Restart, TypeOK, stores
<1>25. CASE UNCHANGED vars
  BY <1>25 DEF vars, TypeOK, CallInv, TaskInv, UiPc, TaskPc, Label, Session, stores
<1> QED
  BY <1>1, <1>2, <1>3, <1>4, <1>5, <1>6, <1>7, <1>8, <1>9, <1>10, <1>11, <1>12,
         <1>13, <1>14, <1>15, <1>16, <1>17, <1>18, <1>19, <1>20, <1>21, <1>22, <1>23,
         <1>24, <1>25 DEF Next, UiStart, UiStep, TaskStep

(* Each step of a call on the UI thread hands the next what it needs; no task
   interferes. *)
LEMMA CallInvStep ==
    ASSUME Inv, [Next]_vars
    PROVE  CallInv'
<1> USE AuthAssumption, AnswerAssumption DEF Inv
<1>1. ASSUME NEW d \in Device, CompletePairing(d)
      PROVE CallInv'
  BY <1>1 DEF CompletePairing, TypeOK, CallInv, UiPc, Label, stores
<1>2. CASE ClearPairing
  BY <1>2 DEF ClearPairing, TypeOK, CallInv, UiPc, Label, stores
<1>3. CASE SignIn
  BY <1>3 DEF SignIn, TypeOK, CallInv, UiPc, Label, stores
<1>4. CASE SubmitTwoFactorCode
  BY <1>4 DEF SubmitTwoFactorCode, SpawnTask, TypeOK, CallInv, UiPc, Label, stores
<1>5. CASE SaveDevice
  BY <1>5 DEF SaveDevice, TypeOK, CallInv, UiPc, Label, stores
<1>6. CASE RemoveDevice
  BY <1>6 DEF RemoveDevice, TypeOK, CallInv, UiPc, Label, stores
<1>7. CASE SetDeviceSlot
  BY <1>7 DEF SetDeviceSlot, TypeOK, CallInv, UiPc, Label, stores
<1>8. CASE FileError
  BY <1>8 DEF FileError, TypeOK, CallInv, UiPc, Label, stores
<1>9. CASE EnsureSession
  <2>1. osMem \in Device
    BY <1>9 DEF EnsureSession, TypeOK, CallInv
  <2>2. [device |-> osMem, ids |-> FALSE, client |-> FALSE] \in Session
    BY <2>1 DEF Session
  <2>3. [device |-> osMem, ids |-> FALSE, client |-> FALSE] # None
    BY <2>2
  <2> QED
    BY <1>9, <2>3 DEF EnsureSession, Idle, TypeOK, CallInv, stores
<1>10. CASE UiAuthMem
  BY <1>10 DEF UiAuthMem, Publish, TypeOK, CallInv, UiPc, Label, stores
<1>11. CASE UiAuthKv
  BY <1>11 DEF UiAuthKv, TypeOK, CallInv, UiPc, Label, stores
<1>12. CASE UiAuthEvent
  BY <1>12 DEF UiAuthEvent, TypeOK, CallInv, UiPc, Label, stores
<1>13. CASE SpawnSignIn
  BY <1>13 DEF SpawnSignIn, Idle, SpawnTask, TypeOK, CallInv, UiPc, Label, stores
<1>14. CASE RereadLabel
  BY <1>14 DEF RereadLabel, Idle, TypeOK, CallInv, UiPc, Label, stores
<1>15. ASSUME NEW t \in Task, RemoteAnswer(t)
      PROVE CallInv'
  BY <1>15 DEF RemoteAnswer, Settle, TypeOK, CallInv, UiPc, Label, stores
<1>16. ASSUME NEW t \in Task, FinalizeLogin(t)
      PROVE CallInv'
  <2>1. session \in Session
    BY <1>16 DEF FinalizeLogin, TypeOK, TaskInv
  <2>2. session' # None
    BY <1>16, <2>1, SessionKept DEF FinalizeLogin
  <2> QED
    BY <1>16, <2>2 DEF FinalizeLogin, CallInv, stores
<1>17. ASSUME NEW t \in Task, PrepareImClient(t)
      PROVE CallInv'
  <2>1. session \in Session
    BY <1>17 DEF PrepareImClient, TypeOK, TaskInv
  <2>2. session' # None
    BY <1>17, <2>1, SessionKept DEF PrepareImClient
  <2> QED
    BY <1>17, <2>2 DEF PrepareImClient, CallInv, stores
<1>18. ASSUME NEW t \in Task, SpawnReceiveLoop(t)
      PROVE CallInv'
  BY <1>18 DEF SpawnReceiveLoop, Settle, TypeOK, CallInv, UiPc, Label, stores
<1>19. ASSUME NEW t \in Task, TaskAuthMem(t)
      PROVE CallInv'
  BY <1>19 DEF TaskAuthMem, Publish, TypeOK, CallInv, UiPc, Label, stores
<1>20. ASSUME NEW t \in Task, TaskAuthKv(t)
      PROVE CallInv'
  BY <1>20 DEF TaskAuthKv, TypeOK, CallInv, UiPc, Label, stores
<1>21. ASSUME NEW t \in Task, TaskAuthEvent(t)
      PROVE CallInv'
  BY <1>21 DEF TaskAuthEvent, NoTask, TypeOK, CallInv, UiPc, Label, stores
<1>22. CASE ConnectionClosed
  BY <1>22 DEF ConnectionClosed, TypeOK, CallInv, UiPc, Label, stores
<1>23. CASE PollEvents
  BY <1>23 DEF PollEvents, TypeOK, CallInv, UiPc, Label, stores
<1>24. CASE Restart
  BY <1>24 DEF Restart, Restored, LoadDevice, NoTask, Idle, TypeOK, CallInv, UiPc,
         Label, stores
<1>25. CASE UNCHANGED vars
  BY <1>25 DEF vars, TypeOK, CallInv, UiPc, Label, stores
<1> QED
  BY <1>1, <1>2, <1>3, <1>4, <1>5, <1>6, <1>7, <1>8, <1>9, <1>10, <1>11, <1>12,
         <1>13, <1>14, <1>15, <1>16, <1>17, <1>18, <1>19, <1>20, <1>21, <1>22, <1>23,
         <1>24, <1>25 DEF Next, UiStart, UiStep, TaskStep

(* The pairing file is written or removed before the slot follows. *)
LEMMA FileInvStep ==
    ASSUME Inv, [Next]_vars
    PROVE  FileInv'
<1> USE AuthAssumption, AnswerAssumption DEF Inv
<1>1. ASSUME NEW d \in Device, CompletePairing(d)
      PROVE FileInv'
  BY <1>1 DEF CompletePairing, TypeOK, CallInv, FileInv, LoadDevice, UiPc, stores
<1>2. CASE ClearPairing
  BY <1>2 DEF ClearPairing, TypeOK, CallInv, FileInv, LoadDevice, UiPc, stores
<1>3. CASE SignIn
  BY <1>3 DEF SignIn, TypeOK, CallInv, FileInv, LoadDevice, UiPc, stores
<1>4. CASE SubmitTwoFactorCode
  BY <1>4 DEF SubmitTwoFactorCode, SpawnTask, TypeOK, CallInv, FileInv, LoadDevice,
         UiPc, stores
<1>5. CASE SaveDevice
  BY <1>5 DEF SaveDevice, TypeOK, CallInv, FileInv, LoadDevice, UiPc, stores
<1>6. CASE RemoveDevice
  BY <1>6 DEF RemoveDevice, TypeOK, CallInv, FileInv, LoadDevice, UiPc, stores
<1>7. CASE SetDeviceSlot
  BY <1>7 DEF SetDeviceSlot, TypeOK, CallInv, FileInv, LoadDevice, UiPc, stores
<1>8. CASE FileError
  BY <1>8 DEF FileError, TypeOK, CallInv, FileInv, LoadDevice, UiPc, stores
<1>9. CASE EnsureSession
  BY <1>9 DEF EnsureSession, Idle, TypeOK, CallInv, FileInv, LoadDevice, UiPc, stores
<1>10. CASE UiAuthMem
  BY <1>10 DEF UiAuthMem, Publish, TypeOK, CallInv, FileInv, LoadDevice, UiPc, stores
<1>11. CASE UiAuthKv
  BY <1>11 DEF UiAuthKv, TypeOK, CallInv, FileInv, LoadDevice, UiPc, stores
<1>12. CASE UiAuthEvent
  BY <1>12 DEF UiAuthEvent, TypeOK, CallInv, FileInv, LoadDevice, UiPc, stores
<1>13. CASE SpawnSignIn
  BY <1>13 DEF SpawnSignIn, Idle, SpawnTask, TypeOK, CallInv, FileInv, LoadDevice,
         UiPc, stores
<1>14. CASE RereadLabel
  BY <1>14 DEF RereadLabel, Idle, TypeOK, CallInv, FileInv, LoadDevice, UiPc, stores
<1>15. ASSUME NEW t \in Task, RemoteAnswer(t)
      PROVE FileInv'
  BY <1>15 DEF RemoteAnswer, Settle, TypeOK, CallInv, FileInv, LoadDevice, UiPc, stores
<1>16. ASSUME NEW t \in Task, FinalizeLogin(t)
      PROVE FileInv'
  BY <1>16 DEF FinalizeLogin, Settle, TypeOK, CallInv, FileInv, LoadDevice, UiPc, stores
<1>17. ASSUME NEW t \in Task, PrepareImClient(t)
      PROVE FileInv'
  BY <1>17 DEF PrepareImClient, Settle, TypeOK, CallInv, FileInv, LoadDevice, UiPc,
         stores
<1>18. ASSUME NEW t \in Task, SpawnReceiveLoop(t)
      PROVE FileInv'
  BY <1>18 DEF SpawnReceiveLoop, Settle, TypeOK, CallInv, FileInv, LoadDevice, UiPc,
         stores
<1>19. ASSUME NEW t \in Task, TaskAuthMem(t)
      PROVE FileInv'
  BY <1>19 DEF TaskAuthMem, Publish, TypeOK, CallInv, FileInv, LoadDevice, UiPc, stores
<1>20. ASSUME NEW t \in Task, TaskAuthKv(t)
      PROVE FileInv'
  BY <1>20 DEF TaskAuthKv, TypeOK, CallInv, FileInv, LoadDevice, UiPc, stores
<1>21. ASSUME NEW t \in Task, TaskAuthEvent(t)
      PROVE FileInv'
  BY <1>21 DEF TaskAuthEvent, NoTask, TypeOK, CallInv, FileInv, LoadDevice, UiPc, stores
<1>22. CASE ConnectionClosed
  BY <1>22 DEF ConnectionClosed, TypeOK, CallInv, FileInv, LoadDevice, UiPc, stores
<1>23. CASE PollEvents
  BY <1>23 DEF PollEvents, TypeOK, CallInv, FileInv, LoadDevice, UiPc, stores
<1>24. CASE Restart
  BY <1>24 DEF Restart, Restored, LoadDevice, NoTask, Idle, TypeOK, CallInv, FileInv,
         LoadDevice, UiPc, stores
<1>25. CASE UNCHANGED vars
  BY <1>25 DEF vars, TypeOK, CallInv, FileInv, LoadDevice, UiPc, stores
<1> QED
  BY <1>1, <1>2, <1>3, <1>4, <1>5, <1>6, <1>7, <1>8, <1>9, <1>10, <1>11, <1>12,
         <1>13, <1>14, <1>15, <1>16, <1>17, <1>18, <1>19, <1>20, <1>21, <1>22, <1>23,
         <1>24, <1>25 DEF Next, UiStart, UiStep, TaskStep

(* A task keeps its session, and its client once it has one: nothing takes a slot back. *)
LEMMA TaskInvStep ==
    ASSUME Inv, [Next]_vars
    PROVE  TaskInv'
<1> USE AuthAssumption, AnswerAssumption DEF Inv
<1>1. ASSUME NEW d \in Device, CompletePairing(d)
      PROVE TaskInv'
  BY <1>1 DEF CompletePairing, TypeOK, CallInv, TaskInv, TaskPc, Label, Session, stores
<1>2. CASE ClearPairing
  BY <1>2 DEF ClearPairing, TypeOK, CallInv, TaskInv, TaskPc, Label, Session, stores
<1>3. CASE SignIn
  BY <1>3 DEF SignIn, TypeOK, CallInv, TaskInv, TaskPc, Label, Session, stores
<1>4. CASE SubmitTwoFactorCode
  BY <1>4 DEF SubmitTwoFactorCode, SpawnTask, TypeOK, CallInv, TaskInv, TaskPc,
         Label, Session, stores
<1>5. CASE SaveDevice
  BY <1>5 DEF SaveDevice, TypeOK, CallInv, TaskInv, TaskPc, Label, Session, stores
<1>6. CASE RemoveDevice
  BY <1>6 DEF RemoveDevice, TypeOK, CallInv, TaskInv, TaskPc, Label, Session, stores
<1>7. CASE SetDeviceSlot
  BY <1>7 DEF SetDeviceSlot, TypeOK, CallInv, TaskInv, TaskPc, Label, Session, stores
<1>8. CASE FileError
  BY <1>8 DEF FileError, TypeOK, CallInv, TaskInv, TaskPc, Label, Session, stores
<1>9. CASE EnsureSession
  BY <1>9 DEF EnsureSession, Idle, TypeOK, CallInv, TaskInv, TaskPc, Label, Session,
         stores
<1>10. CASE UiAuthMem
  BY <1>10 DEF UiAuthMem, Publish, TypeOK, CallInv, TaskInv, TaskPc, Label, Session,
         stores
<1>11. CASE UiAuthKv
  BY <1>11 DEF UiAuthKv, TypeOK, CallInv, TaskInv, TaskPc, Label, Session, stores
<1>12. CASE UiAuthEvent
  BY <1>12 DEF UiAuthEvent, TypeOK, CallInv, TaskInv, TaskPc, Label, Session, stores
<1>13. CASE SpawnSignIn
  BY <1>13 DEF SpawnSignIn, Idle, SpawnTask, TypeOK, CallInv, TaskInv, TaskPc, Label,
         Session, stores
<1>14. CASE RereadLabel
  BY <1>14 DEF RereadLabel, Idle, TypeOK, CallInv, TaskInv, TaskPc, Label, Session,
         stores
<1>15. ASSUME NEW t \in Task, RemoteAnswer(t)
      PROVE TaskInv'
  BY <1>15 DEF RemoteAnswer, Settle, TypeOK, CallInv, TaskInv, TaskPc, Label,
         Session, stores
<1>16. ASSUME NEW t \in Task, FinalizeLogin(t)
      PROVE TaskInv'
  <2>1. session \in Session
    BY <1>16 DEF FinalizeLogin, TypeOK, TaskInv
  <2>2. /\ session' # None
        /\ (session.ids => session'.ids) /\ (session.client => session'.client)
    BY <1>16, <2>1, SessionKept DEF FinalizeLogin
  <2>3. tasks'[t].pc = "prepare" => session'.ids
    <3>1. CASE Settle(t, "error")
      BY <3>1 DEF Settle, TypeOK
    <3>2. CASE session' = [session EXCEPT !.ids = TRUE]
      BY <3>2, <2>1, SessionKept
    <3> QED
      BY <1>16, <3>1, <3>2 DEF FinalizeLogin
  <2> QED
    BY <1>16, <2>2, <2>3 DEF FinalizeLogin, Settle, TypeOK, TaskInv
<1>17. ASSUME NEW t \in Task, PrepareImClient(t)
      PROVE TaskInv'
  <2>1. session \in Session
    BY <1>17 DEF PrepareImClient, TypeOK, TaskInv
  <2>2. /\ session' # None
        /\ (session.ids => session'.ids) /\ (session.client => session'.client)
    BY <1>17, <2>1, SessionKept DEF PrepareImClient
  <2>3. tasks'[t].pc = "listen" => session'.client
    <3>1. CASE Settle(t, "error")
      BY <3>1 DEF Settle, TypeOK
    <3>2. CASE session' = [session EXCEPT !.client = TRUE]
      BY <3>2, <2>1, SessionKept
    <3> QED
      BY <1>17, <3>1, <3>2 DEF PrepareImClient
  <2> QED
    BY <1>17, <2>2, <2>3 DEF PrepareImClient, Settle, TypeOK, TaskInv
<1>18. ASSUME NEW t \in Task, SpawnReceiveLoop(t)
      PROVE TaskInv'
  BY <1>18 DEF SpawnReceiveLoop, Settle, TypeOK, CallInv, TaskInv, TaskPc, Label,
         Session, stores
<1>19. ASSUME NEW t \in Task, TaskAuthMem(t)
      PROVE TaskInv'
  BY <1>19 DEF TaskAuthMem, Publish, TypeOK, CallInv, TaskInv, TaskPc, Label,
         Session, stores
<1>20. ASSUME NEW t \in Task, TaskAuthKv(t)
      PROVE TaskInv'
  BY <1>20 DEF TaskAuthKv, TypeOK, CallInv, TaskInv, TaskPc, Label, Session, stores
<1>21. ASSUME NEW t \in Task, TaskAuthEvent(t)
      PROVE TaskInv'
  BY <1>21 DEF TaskAuthEvent, NoTask, TypeOK, CallInv, TaskInv, TaskPc, Label,
         Session, stores
<1>22. CASE ConnectionClosed
  BY <1>22 DEF ConnectionClosed, TypeOK, CallInv, TaskInv, TaskPc, Label, Session,
         stores
<1>23. CASE PollEvents
  BY <1>23 DEF PollEvents, TypeOK, CallInv, TaskInv, TaskPc, Label, Session, stores
<1>24. CASE Restart
  BY <1>24 DEF Restart, Restored, LoadDevice, NoTask, Idle, TypeOK, CallInv, TaskInv,
         TaskPc, Label, Session, stores
<1>25. CASE UNCHANGED vars
  BY <1>25 DEF vars, TypeOK, CallInv, TaskInv, TaskPc, Label, Session, stores
<1> QED
  BY <1>1, <1>2, <1>3, <1>4, <1>5, <1>6, <1>7, <1>8, <1>9, <1>10, <1>11, <1>12,
         <1>13, <1>14, <1>15, <1>16, <1>17, <1>18, <1>19, <1>20, <1>21, <1>22, <1>23,
         <1>24, <1>25 DEF Next, UiStart, UiStep, TaskStep

(* A write of "ready" comes from a task with a client. *)
LEMMA ClientInvStep ==
    ASSUME Inv, [Next]_vars
    PROVE  ClientInv'
<1> USE AuthAssumption, AnswerAssumption DEF Inv
<1>1. ASSUME NEW d \in Device, CompletePairing(d)
      PROVE ClientInv'
  BY <1>1 DEF CompletePairing, TypeOK, CallInv, TaskInv, ClientInv, Label, Session,
         stores
<1>2. CASE ClearPairing
  BY <1>2 DEF ClearPairing, TypeOK, CallInv, TaskInv, ClientInv, Label, Session, stores
<1>3. CASE SignIn
  BY <1>3 DEF SignIn, TypeOK, CallInv, TaskInv, ClientInv, Label, Session, stores
<1>4. CASE SubmitTwoFactorCode
  BY <1>4 DEF SubmitTwoFactorCode, SpawnTask, TypeOK, CallInv, TaskInv, ClientInv,
         Label, Session, stores
<1>5. CASE SaveDevice
  BY <1>5 DEF SaveDevice, TypeOK, CallInv, TaskInv, ClientInv, Label, Session, stores
<1>6. CASE RemoveDevice
  BY <1>6 DEF RemoveDevice, TypeOK, CallInv, TaskInv, ClientInv, Label, Session, stores
<1>7. CASE SetDeviceSlot
  BY <1>7 DEF SetDeviceSlot, TypeOK, CallInv, TaskInv, ClientInv, Label, Session, stores
<1>8. CASE FileError
  BY <1>8 DEF FileError, TypeOK, CallInv, TaskInv, ClientInv, Label, Session, stores
<1>9. CASE EnsureSession
  BY <1>9 DEF EnsureSession, Idle, TypeOK, CallInv, TaskInv, ClientInv, Label,
         Session, stores
<1>10. CASE UiAuthMem
  BY <1>10 DEF UiAuthMem, Publish, TypeOK, CallInv, TaskInv, ClientInv, Label,
         Session, stores
<1>11. CASE UiAuthKv
  BY <1>11 DEF UiAuthKv, TypeOK, CallInv, TaskInv, ClientInv, Label, Session, stores
<1>12. CASE UiAuthEvent
  BY <1>12 DEF UiAuthEvent, TypeOK, CallInv, TaskInv, ClientInv, Label, Session, stores
<1>13. CASE SpawnSignIn
  BY <1>13 DEF SpawnSignIn, Idle, SpawnTask, TypeOK, CallInv, TaskInv, ClientInv,
         Label, Session, stores
<1>14. CASE RereadLabel
  BY <1>14 DEF RereadLabel, Idle, TypeOK, CallInv, TaskInv, ClientInv, Label,
         Session, stores
<1>15. ASSUME NEW t \in Task, RemoteAnswer(t)
      PROVE ClientInv'
  BY <1>15 DEF RemoteAnswer, Settle, TypeOK, CallInv, TaskInv, ClientInv, Label,
         Session, stores
<1>16. ASSUME NEW t \in Task, FinalizeLogin(t)
      PROVE ClientInv'
  BY <1>16 DEF FinalizeLogin, Settle, TypeOK, CallInv, TaskInv, ClientInv, Label,
         Session, stores
<1>17. ASSUME NEW t \in Task, PrepareImClient(t)
      PROVE ClientInv'
  BY <1>17 DEF PrepareImClient, Settle, TypeOK, CallInv, TaskInv, ClientInv, Label,
         Session, stores
<1>18. ASSUME NEW t \in Task, SpawnReceiveLoop(t)
      PROVE ClientInv'
  BY <1>18 DEF SpawnReceiveLoop, Settle, TypeOK, CallInv, TaskInv, ClientInv, Label,
         Session, stores
<1>19. ASSUME NEW t \in Task, TaskAuthMem(t)
      PROVE ClientInv'
  BY <1>19 DEF TaskAuthMem, Publish, TypeOK, CallInv, TaskInv, ClientInv, Label,
         Session, stores
<1>20. ASSUME NEW t \in Task, TaskAuthKv(t)
      PROVE ClientInv'
  BY <1>20 DEF TaskAuthKv, TypeOK, CallInv, TaskInv, ClientInv, Label, Session, stores
<1>21. ASSUME NEW t \in Task, TaskAuthEvent(t)
      PROVE ClientInv'
  BY <1>21 DEF TaskAuthEvent, NoTask, TypeOK, CallInv, TaskInv, ClientInv, Label,
         Session, stores
<1>22. CASE ConnectionClosed
  BY <1>22 DEF ConnectionClosed, TypeOK, CallInv, TaskInv, ClientInv, Label, Session,
         stores
<1>23. CASE PollEvents
  BY <1>23 DEF PollEvents, TypeOK, CallInv, TaskInv, ClientInv, Label, Session, stores
<1>24. CASE Restart
  BY <1>24 DEF Restart, Restored, LoadDevice, NoTask, Idle, TypeOK, CallInv, TaskInv,
         ClientInv, Label, Session, stores
<1>25. CASE UNCHANGED vars
  BY <1>25 DEF vars, TypeOK, CallInv, TaskInv, ClientInv, Label, Session, stores
<1> QED
  BY <1>1, <1>2, <1>3, <1>4, <1>5, <1>6, <1>7, <1>8, <1>9, <1>10, <1>11, <1>12,
         <1>13, <1>14, <1>15, <1>16, <1>17, <1>18, <1>19, <1>20, <1>21, <1>22, <1>23,
         <1>24, <1>25 DEF Next, UiStart, UiStep, TaskStep

(* A second writer inside the window of the first makes the state unclean. *)
LEMMA PubInvStep ==
    ASSUME Inv, [Next]_vars
    PROVE  PubInv'
<1> USE AuthAssumption, AnswerAssumption DEF Inv
<1>1. ASSUME NEW d \in Device, CompletePairing(d)
      PROVE PubInv'
  BY <1>1 DEF CompletePairing, TypeOK, CallInv, PubInv, Publishing, UiPublishing,
         TaskPublishing, TaskPc, Label, stores
<1>2. CASE ClearPairing
  BY <1>2 DEF ClearPairing, TypeOK, CallInv, PubInv, Publishing, UiPublishing,
         TaskPublishing, TaskPc, Label, stores
<1>3. CASE SignIn
  BY <1>3 DEF SignIn, TypeOK, CallInv, PubInv, Publishing, UiPublishing,
         TaskPublishing, TaskPc, Label, stores
<1>4. CASE SubmitTwoFactorCode
  BY <1>4 DEF SubmitTwoFactorCode, SpawnTask, TypeOK, CallInv, PubInv, Publishing,
         UiPublishing, TaskPublishing, TaskPc, Label, stores
<1>5. CASE SaveDevice
  BY <1>5 DEF SaveDevice, TypeOK, CallInv, PubInv, Publishing, UiPublishing,
         TaskPublishing, TaskPc, Label, stores
<1>6. CASE RemoveDevice
  BY <1>6 DEF RemoveDevice, TypeOK, CallInv, PubInv, Publishing, UiPublishing,
         TaskPublishing, TaskPc, Label, stores
<1>7. CASE SetDeviceSlot
  BY <1>7 DEF SetDeviceSlot, TypeOK, CallInv, PubInv, Publishing, UiPublishing,
         TaskPublishing, TaskPc, Label, stores
<1>8. CASE FileError
  BY <1>8 DEF FileError, TypeOK, CallInv, PubInv, Publishing, UiPublishing,
         TaskPublishing, TaskPc, Label, stores
<1>9. CASE EnsureSession
  BY <1>9 DEF EnsureSession, Idle, TypeOK, CallInv, PubInv, Publishing, UiPublishing,
         TaskPublishing, TaskPc, Label, stores
<1>10. CASE UiAuthMem
  BY <1>10 DEF UiAuthMem, Publish, TypeOK, CallInv, PubInv, Publishing, UiPublishing,
         TaskPublishing, TaskPc, Label, stores
<1>11. CASE UiAuthKv
  BY <1>11 DEF UiAuthKv, TypeOK, CallInv, PubInv, Publishing, UiPublishing,
         TaskPublishing, TaskPc, Label, stores
<1>12. CASE UiAuthEvent
  BY <1>12 DEF UiAuthEvent, TypeOK, CallInv, PubInv, Publishing, UiPublishing,
         TaskPublishing, TaskPc, Label, stores
<1>13. CASE SpawnSignIn
  BY <1>13 DEF SpawnSignIn, Idle, SpawnTask, TypeOK, CallInv, PubInv, Publishing,
         UiPublishing, TaskPublishing, TaskPc, Label, stores
<1>14. CASE RereadLabel
  BY <1>14 DEF RereadLabel, Idle, TypeOK, CallInv, PubInv, Publishing, UiPublishing,
         TaskPublishing, TaskPc, Label, stores
<1>15. ASSUME NEW t \in Task, RemoteAnswer(t)
      PROVE PubInv'
  BY <1>15 DEF RemoteAnswer, Settle, TypeOK, CallInv, PubInv, Publishing,
         UiPublishing, TaskPublishing, TaskPc, Label, stores
<1>16. ASSUME NEW t \in Task, FinalizeLogin(t)
      PROVE PubInv'
  BY <1>16 DEF FinalizeLogin, Settle, TypeOK, CallInv, PubInv, Publishing,
         UiPublishing, TaskPublishing, TaskPc, Label, stores
<1>17. ASSUME NEW t \in Task, PrepareImClient(t)
      PROVE PubInv'
  BY <1>17 DEF PrepareImClient, Settle, TypeOK, CallInv, PubInv, Publishing,
         UiPublishing, TaskPublishing, TaskPc, Label, stores
<1>18. ASSUME NEW t \in Task, SpawnReceiveLoop(t)
      PROVE PubInv'
  BY <1>18 DEF SpawnReceiveLoop, Settle, TypeOK, CallInv, PubInv, Publishing,
         UiPublishing, TaskPublishing, TaskPc, Label, stores
<1>19. ASSUME NEW t \in Task, TaskAuthMem(t)
      PROVE PubInv'
  <2>1. /\ auth' = tasks[t].label
        /\ unclean' = (UiPublishing \/ TaskPublishing(Task \ {t}) \/ osMem = None)
        /\ tasks' = [tasks EXCEPT ![t].pc = "auth_kv"] /\ ui' = ui /\ kv' = kv
    BY <1>19 DEF TaskAuthMem, Publish, stores
  <2>2. CASE unclean'
    BY <2>2 DEF PubInv
  <2>3. CASE ~unclean'
    <3>1. ~UiPublishing /\ \A u \in Task \ {t} : ~Publishing(tasks[u].pc)
      BY <2>1, <2>3 DEF TaskPublishing
    <3>2. /\ tasks'[t].pc = "auth_kv" /\ tasks'[t].label = tasks[t].label
          /\ \A u \in Task \ {t} : tasks'[u] = tasks[u]
      BY <2>1 DEF TypeOK
    <3>3. ~UiPublishing'
      BY <2>1, <3>1 DEF UiPublishing
    <3>4. \A u \in Task \ {t} : ~Publishing(tasks'[u].pc)
      BY <3>1, <3>2
    <3>5. ~TaskPublishing(Task \ {t})'
      BY <3>4 DEF TaskPublishing
    <3>6. ASSUME NEW u \in Task, Publishing(tasks'[u].pc)
          PROVE  /\ auth' = tasks'[u].label /\ ~UiPublishing' /\ ~TaskPublishing(Task \ {u})'
                 /\ tasks'[u].pc = "auth_event" => kv' = auth'
      <4>1. u = t
        BY <3>4, <3>6
      <4> QED BY <2>1, <3>2, <3>3, <3>5, <4>1
    <3> QED BY <3>3, <3>6 DEF PubInv
  <2> QED BY <2>2, <2>3
<1>20. ASSUME NEW t \in Task, TaskAuthKv(t)
      PROVE PubInv'
  BY <1>20 DEF TaskAuthKv, TypeOK, CallInv, PubInv, Publishing, UiPublishing,
         TaskPublishing, TaskPc, Label, stores
<1>21. ASSUME NEW t \in Task, TaskAuthEvent(t)
      PROVE PubInv'
  BY <1>21 DEF TaskAuthEvent, NoTask, TypeOK, CallInv, PubInv, Publishing,
         UiPublishing, TaskPublishing, TaskPc, Label, stores
<1>22. CASE ConnectionClosed
  BY <1>22 DEF ConnectionClosed, TypeOK, CallInv, PubInv, Publishing, UiPublishing,
         TaskPublishing, TaskPc, Label, stores
<1>23. CASE PollEvents
  BY <1>23 DEF PollEvents, TypeOK, CallInv, PubInv, Publishing, UiPublishing,
         TaskPublishing, TaskPc, Label, stores
<1>24. CASE Restart
  BY <1>24 DEF Restart, Restored, LoadDevice, NoTask, Idle, TypeOK, CallInv, PubInv,
         Publishing, UiPublishing, TaskPublishing, TaskPc, Label, stores
<1>25. CASE UNCHANGED vars
  BY <1>25 DEF vars, TypeOK, CallInv, PubInv, Publishing, UiPublishing,
         TaskPublishing, TaskPc, Label, stores
<1> QED
  BY <1>1, <1>2, <1>3, <1>4, <1>5, <1>6, <1>7, <1>8, <1>9, <1>10, <1>11, <1>12,
         <1>13, <1>14, <1>15, <1>16, <1>17, <1>18, <1>19, <1>20, <1>21, <1>22, <1>23,
         <1>24, <1>25 DEF Next, UiStart, UiStep, TaskStep

(* Every clean write is of a label that the pairing file allows a restart to restore. *)
LEMMA StoreInvStep ==
    ASSUME Inv, [Next]_vars
    PROVE  StoreInv'
<1> USE AuthAssumption, AnswerAssumption DEF Inv
<1>1. ASSUME NEW d \in Device, CompletePairing(d)
      PROVE StoreInv'
  BY <1>1 DEF CompletePairing, TypeOK, CallInv, FileInv, TaskInv, PubInv, StoreInv,
         Settled, Restored, LoadDevice, Publishing, UiPublishing, TaskPublishing,
         Label, stores
<1>2. CASE ClearPairing
  BY <1>2 DEF ClearPairing, TypeOK, CallInv, FileInv, TaskInv, PubInv, StoreInv,
         Settled, Restored, LoadDevice, Publishing, UiPublishing, TaskPublishing,
         Label, stores
<1>3. CASE SignIn
  BY <1>3 DEF SignIn, TypeOK, CallInv, FileInv, TaskInv, PubInv, StoreInv, Settled,
         Restored, LoadDevice, Publishing, UiPublishing, TaskPublishing, Label, stores
<1>4. CASE SubmitTwoFactorCode
  BY <1>4 DEF SubmitTwoFactorCode, SpawnTask, TypeOK, CallInv, FileInv, TaskInv,
         PubInv, StoreInv, Settled, Restored, LoadDevice, Publishing, UiPublishing,
         TaskPublishing, Label, stores
<1>5. CASE SaveDevice
  BY <1>5 DEF SaveDevice, TypeOK, CallInv, FileInv, TaskInv, PubInv, StoreInv,
         Settled, Restored, LoadDevice, Publishing, UiPublishing, TaskPublishing,
         Label, stores
<1>6. CASE RemoveDevice
  BY <1>6 DEF RemoveDevice, TypeOK, CallInv, FileInv, TaskInv, PubInv, StoreInv,
         Settled, Restored, LoadDevice, Publishing, UiPublishing, TaskPublishing,
         Label, stores
<1>7. CASE SetDeviceSlot
  BY <1>7 DEF SetDeviceSlot, TypeOK, CallInv, FileInv, TaskInv, PubInv, StoreInv,
         Settled, Restored, LoadDevice, Publishing, UiPublishing, TaskPublishing,
         Label, stores
<1>8. CASE FileError
  BY <1>8 DEF FileError, TypeOK, CallInv, FileInv, TaskInv, PubInv, StoreInv,
         Settled, Restored, LoadDevice, Publishing, UiPublishing, TaskPublishing,
         Label, stores
<1>9. CASE EnsureSession
  BY <1>9 DEF EnsureSession, Idle, TypeOK, CallInv, FileInv, TaskInv, PubInv,
         StoreInv, Settled, Restored, LoadDevice, Publishing, UiPublishing,
         TaskPublishing, Label, stores
<1>10. CASE UiAuthMem
  BY <1>10 DEF UiAuthMem, Publish, TypeOK, CallInv, FileInv, TaskInv, PubInv,
         StoreInv, Settled, Restored, LoadDevice, Publishing, UiPublishing,
         TaskPublishing, Label, stores
<1>11. CASE UiAuthKv
  BY <1>11 DEF UiAuthKv, TypeOK, CallInv, FileInv, TaskInv, PubInv, StoreInv,
         Settled, Restored, LoadDevice, Publishing, UiPublishing, TaskPublishing,
         Label, stores
<1>12. CASE UiAuthEvent
  BY <1>12 DEF UiAuthEvent, TypeOK, CallInv, FileInv, TaskInv, PubInv, StoreInv,
         Settled, Restored, LoadDevice, Publishing, UiPublishing, TaskPublishing,
         Label, stores
<1>13. CASE SpawnSignIn
  BY <1>13 DEF SpawnSignIn, Idle, SpawnTask, TypeOK, CallInv, FileInv, TaskInv,
         PubInv, StoreInv, Settled, Restored, LoadDevice, Publishing, UiPublishing,
         TaskPublishing, Label, stores
<1>14. CASE RereadLabel
  BY <1>14 DEF RereadLabel, Idle, TypeOK, CallInv, FileInv, TaskInv, PubInv,
         StoreInv, Settled, Restored, LoadDevice, Publishing, UiPublishing,
         TaskPublishing, Label, stores
<1>15. ASSUME NEW t \in Task, RemoteAnswer(t)
      PROVE StoreInv'
  BY <1>15 DEF RemoteAnswer, Settle, TypeOK, CallInv, FileInv, TaskInv, PubInv,
         StoreInv, Settled, Restored, LoadDevice, Publishing, UiPublishing,
         TaskPublishing, Label, stores
<1>16. ASSUME NEW t \in Task, FinalizeLogin(t)
      PROVE StoreInv'
  BY <1>16 DEF FinalizeLogin, Settle, TypeOK, CallInv, FileInv, TaskInv, PubInv,
         StoreInv, Settled, Restored, LoadDevice, Publishing, UiPublishing,
         TaskPublishing, Label, stores
<1>17. ASSUME NEW t \in Task, PrepareImClient(t)
      PROVE StoreInv'
  BY <1>17 DEF PrepareImClient, Settle, TypeOK, CallInv, FileInv, TaskInv, PubInv,
         StoreInv, Settled, Restored, LoadDevice, Publishing, UiPublishing,
         TaskPublishing, Label, stores
<1>18. ASSUME NEW t \in Task, SpawnReceiveLoop(t)
      PROVE StoreInv'
  BY <1>18 DEF SpawnReceiveLoop, Settle, TypeOK, CallInv, FileInv, TaskInv, PubInv,
         StoreInv, Settled, Restored, LoadDevice, Publishing, UiPublishing,
         TaskPublishing, Label, stores
<1>19. ASSUME NEW t \in Task, TaskAuthMem(t)
      PROVE StoreInv'
  BY <1>19 DEF TaskAuthMem, Publish, TypeOK, CallInv, FileInv, TaskInv, PubInv,
         StoreInv, Settled, Restored, LoadDevice, Publishing, UiPublishing,
         TaskPublishing, Label, stores
<1>20. ASSUME NEW t \in Task, TaskAuthKv(t)
      PROVE StoreInv'
  BY <1>20 DEF TaskAuthKv, TypeOK, CallInv, FileInv, TaskInv, PubInv, StoreInv,
         Settled, Restored, LoadDevice, Publishing, UiPublishing, TaskPublishing,
         Label, stores
<1>21. ASSUME NEW t \in Task, TaskAuthEvent(t)
      PROVE StoreInv'
  BY <1>21 DEF TaskAuthEvent, NoTask, TypeOK, CallInv, FileInv, TaskInv, PubInv,
         StoreInv, Settled, Restored, LoadDevice, Publishing, UiPublishing,
         TaskPublishing, Label, stores
<1>22. CASE ConnectionClosed
  BY <1>22 DEF ConnectionClosed, TypeOK, CallInv, FileInv, TaskInv, PubInv, StoreInv,
         Settled, Restored, LoadDevice, Publishing, UiPublishing, TaskPublishing,
         Label, stores
<1>23. CASE PollEvents
  BY <1>23 DEF PollEvents, TypeOK, CallInv, FileInv, TaskInv, PubInv, StoreInv,
         Settled, Restored, LoadDevice, Publishing, UiPublishing, TaskPublishing,
         Label, stores
<1>24. CASE Restart
  BY <1>24 DEF Restart, Restored, LoadDevice, NoTask, Idle, TypeOK, CallInv, FileInv,
         TaskInv, PubInv, StoreInv, Settled, Restored, LoadDevice, Publishing,
         UiPublishing, TaskPublishing, Label, stores
<1>25. CASE UNCHANGED vars
  BY <1>25 DEF vars, TypeOK, CallInv, FileInv, TaskInv, PubInv, StoreInv, Settled,
         Restored, LoadDevice, Publishing, UiPublishing, TaskPublishing, Label, stores
<1> QED
  BY <1>1, <1>2, <1>3, <1>4, <1>5, <1>6, <1>7, <1>8, <1>9, <1>10, <1>11, <1>12,
         <1>13, <1>14, <1>15, <1>16, <1>17, <1>18, <1>19, <1>20, <1>21, <1>22, <1>23,
         <1>24, <1>25 DEF Next, UiStart, UiStep, TaskStep

(* The event of a clean write is the newest there is. *)
LEMMA WindowInvStep ==
    ASSUME Inv, [Next]_vars
    PROVE  WindowInv'
<1> USE AuthAssumption, AnswerAssumption DEF Inv
<1>1. ASSUME NEW d \in Device, CompletePairing(d)
      PROVE WindowInv'
  BY <1>1 DEF CompletePairing, TypeOK, PubInv, WindowInv, Settled, Publishing,
         UiPublishing, TaskPublishing, stores
<1>2. CASE ClearPairing
  BY <1>2 DEF ClearPairing, TypeOK, PubInv, WindowInv, Settled, Publishing,
         UiPublishing, TaskPublishing, stores
<1>3. CASE SignIn
  BY <1>3 DEF SignIn, TypeOK, PubInv, WindowInv, Settled, Publishing, UiPublishing,
         TaskPublishing, stores
<1>4. CASE SubmitTwoFactorCode
  BY <1>4 DEF SubmitTwoFactorCode, SpawnTask, TypeOK, PubInv, WindowInv, Settled,
         Publishing, UiPublishing, TaskPublishing, stores
<1>5. CASE SaveDevice
  BY <1>5 DEF SaveDevice, TypeOK, PubInv, WindowInv, Settled, Publishing,
         UiPublishing, TaskPublishing, stores
<1>6. CASE RemoveDevice
  BY <1>6 DEF RemoveDevice, TypeOK, PubInv, WindowInv, Settled, Publishing,
         UiPublishing, TaskPublishing, stores
<1>7. CASE SetDeviceSlot
  BY <1>7 DEF SetDeviceSlot, TypeOK, PubInv, WindowInv, Settled, Publishing,
         UiPublishing, TaskPublishing, stores
<1>8. CASE FileError
  BY <1>8 DEF FileError, TypeOK, PubInv, WindowInv, Settled, Publishing,
         UiPublishing, TaskPublishing, stores
<1>9. CASE EnsureSession
  BY <1>9 DEF EnsureSession, Idle, TypeOK, PubInv, WindowInv, Settled, Publishing,
         UiPublishing, TaskPublishing, stores
<1>10. CASE UiAuthMem
  BY <1>10 DEF UiAuthMem, Publish, TypeOK, PubInv, WindowInv, Settled, Publishing,
         UiPublishing, TaskPublishing, stores
<1>11. CASE UiAuthKv
  BY <1>11 DEF UiAuthKv, TypeOK, PubInv, WindowInv, Settled, Publishing,
         UiPublishing, TaskPublishing, stores
<1>12. CASE UiAuthEvent
  BY <1>12 DEF UiAuthEvent, TypeOK, PubInv, WindowInv, Settled, Publishing,
         UiPublishing, TaskPublishing, stores
<1>13. CASE SpawnSignIn
  BY <1>13 DEF SpawnSignIn, Idle, SpawnTask, TypeOK, PubInv, WindowInv, Settled,
         Publishing, UiPublishing, TaskPublishing, stores
<1>14. CASE RereadLabel
  BY <1>14 DEF RereadLabel, Idle, TypeOK, PubInv, WindowInv, Settled, Publishing,
         UiPublishing, TaskPublishing, stores
<1>15. ASSUME NEW t \in Task, RemoteAnswer(t)
      PROVE WindowInv'
  BY <1>15 DEF RemoteAnswer, Settle, TypeOK, PubInv, WindowInv, Settled, Publishing,
         UiPublishing, TaskPublishing, stores
<1>16. ASSUME NEW t \in Task, FinalizeLogin(t)
      PROVE WindowInv'
  BY <1>16 DEF FinalizeLogin, Settle, TypeOK, PubInv, WindowInv, Settled, Publishing,
         UiPublishing, TaskPublishing, stores
<1>17. ASSUME NEW t \in Task, PrepareImClient(t)
      PROVE WindowInv'
  BY <1>17 DEF PrepareImClient, Settle, TypeOK, PubInv, WindowInv, Settled,
         Publishing, UiPublishing, TaskPublishing, stores
<1>18. ASSUME NEW t \in Task, SpawnReceiveLoop(t)
      PROVE WindowInv'
  BY <1>18 DEF SpawnReceiveLoop, Settle, TypeOK, PubInv, WindowInv, Settled,
         Publishing, UiPublishing, TaskPublishing, stores
<1>19. ASSUME NEW t \in Task, TaskAuthMem(t)
      PROVE WindowInv'
  BY <1>19 DEF TaskAuthMem, Publish, TypeOK, PubInv, WindowInv, Settled, Publishing,
         UiPublishing, TaskPublishing, stores
<1>20. ASSUME NEW t \in Task, TaskAuthKv(t)
      PROVE WindowInv'
  BY <1>20 DEF TaskAuthKv, TypeOK, PubInv, WindowInv, Settled, Publishing,
         UiPublishing, TaskPublishing, stores
<1>21. ASSUME NEW t \in Task, TaskAuthEvent(t)
      PROVE WindowInv'
  BY <1>21 DEF TaskAuthEvent, NoTask, TypeOK, PubInv, WindowInv, Settled, Publishing,
         UiPublishing, TaskPublishing, stores
<1>22. CASE ConnectionClosed
  BY <1>22 DEF ConnectionClosed, TypeOK, PubInv, WindowInv, Settled, Publishing,
         UiPublishing, TaskPublishing, stores
<1>23. CASE PollEvents
  BY <1>23 DEF PollEvents, TypeOK, PubInv, WindowInv, Settled, Publishing,
         UiPublishing, TaskPublishing, stores
<1>24. CASE Restart
  BY <1>24 DEF Restart, Restored, LoadDevice, NoTask, Idle, TypeOK, PubInv,
         WindowInv, Settled, Publishing, UiPublishing, TaskPublishing, stores
<1>25. CASE UNCHANGED vars
  BY <1>25 DEF vars, TypeOK, PubInv, WindowInv, Settled, Publishing, UiPublishing,
         TaskPublishing, stores
<1> QED
  BY <1>1, <1>2, <1>3, <1>4, <1>5, <1>6, <1>7, <1>8, <1>9, <1>10, <1>11, <1>12,
         <1>13, <1>14, <1>15, <1>16, <1>17, <1>18, <1>19, <1>20, <1>21, <1>22, <1>23,
         <1>24, <1>25 DEF Next, UiStart, UiStep, TaskStep
-----------------------------------------------------------------------------
(* The invariant holds at the first start: nothing paired, nothing stored. *)
LEMMA InitInv == Init => Inv
<1> SUFFICES ASSUME Init PROVE Inv
  OBVIOUS
<1> USE AuthAssumption
<1>1. TypeOK
  <2>1. ui \in [pc : UiPc, label : Label, device : Device \cup {None}]
    BY DEF Init, Idle, UiPc, Label
  <2>2. tasks \in [Task -> [pc : TaskPc, label : Label]]
    BY DEF Init, NoTask, TaskPc, Label
  <2>3. unclean \in BOOLEAN
    BY Zenon DEF Init
  <2> QED
    BY <2>1, <2>2, <2>3 DEF Init, TypeOK, Label
<1>2. CallInv /\ FileInv /\ TaskInv /\ ClientInv
  BY DEF Init, Idle, NoTask, LoadDevice, CallInv, FileInv, TaskInv, ClientInv
<1>3. PubInv /\ StoreInv /\ WindowInv
  BY DEF Init, Idle, NoTask, LoadDevice, Restored, PubInv, StoreInv, WindowInv, Settled,
         UiPublishing, TaskPublishing, Publishing
<1> QED
  BY <1>1, <1>2, <1>3 DEF Inv

(* Inv holds throughout: every call on the UI thread and every task has
   established what its next step relies on, however they interleave and
   wherever the process dies. *)
THEOREM Invariance == Spec => []Inv
<1>1. Inv /\ [Next]_vars => Inv'
  BY TypeOKStep, CallInvStep, FileInvStep, TaskInvStep, ClientInvStep, PubInvStep,
     StoreInvStep, WindowInvStep DEF Inv
<1> QED
  BY <1>1, InitInv, PTL DEF Spec

(* No label but a state's is ever in force, stored, announced or shown, and no
   session is made without a device. *)
THEOREM TypeCorrect == Spec => []TypeOK
<1>1. Inv => TypeOK
  BY DEF Inv
<1> QED
  BY <1>1, Invariance, PTL

(* Between calls the pairing in use is the one a restart loads, unless a failed
   write destroyed the file (persist_os_config, clear_os_config). *)
THEOREM KeepsPairing == Spec => []PairingSurvives
<1>1. Inv => PairingSurvives
  BY DEF Inv, FileInv, PairingSurvives
<1> QED
  BY <1>1, Invariance, PTL

(* A restart restores the account state the app is in, when nothing is under way and the
   last write of it was clean (set_auth, persist_auth_label, AppState::open). *)
THEOREM RestoresState == Spec => []RestartRestores
<1>1. Inv => RestartRestores
  BY DEF Inv, StoreInv, RestartRestores, Quiet, Settled, UiPublishing, TaskPublishing,
         Publishing
<1> QED
  BY <1>1, Invariance, PTL

(* Once drained, the window shows the state the core is in, unless writers
   overlapped (CoreBridge::pollEvents and its direct reads of the label). *)
THEOREM WindowAlwaysAgrees == Spec => []WindowAgrees
<1>1. Inv => WindowAgrees
  <2> SUFFICES ASSUME Inv, Quiet, ~unclean, queued = None
               PROVE  shown = auth
    BY DEF WindowAgrees
  <2>1. Settled
    BY DEF Quiet, Settled, UiPublishing, TaskPublishing, Publishing
  <2>2. auth # None
    BY AuthAssumption DEF Inv, TypeOK
  <2> QED
    BY <2>1, <2>2 DEF Inv, WindowInv
<1> QED
  BY <1>1, Invariance, PTL

(* With a session around, "ready" means that the session has its client
   (apply_login_state, prepare_im_client). *)
THEOREM ReadyAlwaysEarned == Spec => []ReadyIsEarned
<1>1. Inv => ReadyIsEarned
  BY DEF Inv, ClientInv, ReadyIsEarned
<1> QED
  BY <1>1, Invariance, PTL

(* The guards at the head of receive::run and prepare_im_client never fire. *)
THEOREM LoopAlwaysFindsClient == Spec => []LoopFindsClient
<1>1. Inv => LoopFindsClient
  BY DEF Inv, TaskInv, LoopFindsClient
<1> QED
  BY <1>1, Invariance, PTL
=============================================================================
