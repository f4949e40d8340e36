------------------------------ MODULE AuthFlow ------------------------------
(***************************************************************************)
(* Pairing, sign-in and the receive loop: rust/src/app.rs, the account     *)
(* functions of rust/src/ffi.rs, rust/src/session.rs, the pairing file of  *)
(* rust/src/os_config.rs, and the window that drives them.                 *)
(*                                                                         *)
(* The UI thread runs one call at a time to its end.  Sign-in and 2FA      *)
(* calls leave a task behind on the tokio workers.  The state of the       *)
(* account lives in four places, written one after the other and never     *)
(* under one lock: AppState.auth, the row auth.state of the kv table, the  *)
(* event that tells the window, and the pairing file and slot.  A step of  *)
(* this module is one such write.  The process can die between any two.    *)
(*                                                                         *)
(* The kinds of second factor are one label here, and so are the texts of  *)
(* needs_extra and of errors.                                              *)
(***************************************************************************)
EXTENDS Naturals, FiniteSets

CONSTANTS
    Device,      \* device identities a pairing code can stand for
    Task,        \* slots for spawned sign-in and 2FA tasks
    Answer,      \* labels of the service's answers other than LoggedIn
    None,        \* no file, no session, nothing queued
    Corrupt,     \* a pairing file that does not parse
    MaxLoops,    \* bound: the count of receive loops stops here
    MaxRestarts  \* bound: deaths of the process

(* AuthState::from_login_state maps every answer but LoggedIn to one of these
   labels; an error on the way is the last. *)
ASSUME AnswerAssumption == Answer \subseteq {"needs_2fa", "needs_credentials", "error"}

(* AuthState::label *)
Label == {"needs_pairing", "needs_credentials", "authenticating", "needs_2fa",
          "ready", "error"}

Session == [device : Device, ids : BOOLEAN, client : BOOLEAN]

ASSUME AuthAssumption ==
    /\ None \notin Device \cup Label \cup Session
    /\ Corrupt \notin Device \cup {None}
    /\ MaxLoops \in Nat /\ MaxRestarts \in Nat

UiPc == {"idle", "truncate", "write", "pair_mem", "remove", "clear_mem", "session",
         "auth_mem", "auth_kv", "auth_event", "spawn", "reread"}
TaskPc == {"none", "remote", "finalize", "prepare", "listen",
           "auth_mem", "auth_kv", "auth_event"}

VARIABLES
    auth,        \* AppState.auth
    kv,          \* row auth.state of the kv table
    osFile,      \* os_config.json
    osMem,       \* AppState.os_config
    session,     \* AppState.session
    loops,       \* receive loops pumping the session's connection
    queued,      \* newest auth_state event not drained yet
    shown,       \* CoreBridge::m_authLabel
    ui,          \* the call on the UI thread: next step, label, device
    tasks,       \* spawned tasks: next step and label to publish
    unclean,     \* history: see Publish
    restarts

stores == <<kv, osFile>>
vars == <<auth, stores, osMem, session, loops, queued, shown, ui, tasks, unclean, restarts>>

Idle == [pc |-> "idle", label |-> "needs_pairing", device |-> None]
NoTask == [pc |-> "none", label |-> "needs_pairing"]

(* os_config::load as AppState::open uses it: an unreadable file is no file. *)
LoadDevice(file) == IF file \in Device THEN file ELSE None

(* The account state AppState::open restores. *)
Restored(file, label) ==
    CASE LoadDevice(file) = None -> "needs_pairing"
      [] LoadDevice(file) # None /\ label \in {"ready", "authenticating", "needs_2fa", "error"}
           -> label
      [] OTHER -> "needs_credentials"

Init ==
    /\ auth = "needs_pairing" /\ kv = None
    /\ osFile = None /\ osMem = None
    /\ session = None /\ loops = 0
    /\ queued = None /\ shown = "needs_pairing"
    /\ ui = Idle /\ tasks = [t \in Task |-> NoTask]
    /\ unclean = FALSE /\ restarts = 0

-----------------------------------------------------------------------------
(* Publishing an account state: memory, kv, event.  set_auth does it on the
   UI thread, persist_auth_label in a task.                                *)

Publishing(pc) == pc \in {"auth_kv", "auth_event"}

(* unclean says that the last write of AppState.auth overlapped another
   writer that had not come to its event, or came from a task after the
   pairing was cleared, or was not stored. *)
Publish(label, others, orphan) ==
    /\ auth' = label
    /\ unclean' = (others \/ orphan)

UiPublishing == Publishing(ui.pc)
TaskPublishing(T) == \E t \in T : Publishing(tasks[t].pc)

UiAuthMem ==
    /\ ui.pc = "auth_mem"
    /\ Publish(ui.label, TaskPublishing(Task), FALSE)
    /\ ui' = [ui EXCEPT !.pc = "auth_kv"]
    /\ UNCHANGED <<stores, osMem, session, loops, queued, shown, tasks, restarts>>

(* kv_set may fail, which is a toast and no more. *)
UiAuthKv ==
    /\ ui.pc = "auth_kv"
    /\ \/ kv' = ui.label /\ UNCHANGED unclean
       \/ unclean' = TRUE /\ UNCHANGED kv
    /\ ui' = [ui EXCEPT !.pc = "auth_event"]
    /\ UNCHANGED <<auth, osFile, osMem, session, loops, queued, shown, tasks, restarts>>

UiAuthEvent ==
    /\ ui.pc = "auth_event"
    /\ queued' = ui.label
    /\ ui' = [ui EXCEPT !.pc = IF ui.label = "authenticating" THEN "spawn" ELSE "reread"]
    /\ UNCHANGED <<auth, stores, osMem, session, loops, shown, tasks, unclean, restarts>>

TaskAuthMem(t) ==
    /\ tasks[t].pc = "auth_mem"
    /\ Publish(tasks[t].label, UiPublishing \/ TaskPublishing(Task \ {t}), osMem = None)
    /\ tasks' = [tasks EXCEPT ![t].pc = "auth_kv"]
    /\ UNCHANGED <<stores, osMem, session, loops, queued, shown, ui, restarts>>

(* Mutant: persist_auth_label without its kv_set. *)
TaskAuthKvSkipped(t) ==
    /\ tasks[t].pc = "auth_kv"
    /\ tasks' = [tasks EXCEPT ![t].pc = "auth_event"]
    /\ UNCHANGED <<auth, stores, osMem, session, loops, queued, shown, ui, unclean,
                   restarts>>

TaskAuthKv(t) ==
    /\ tasks[t].pc = "auth_kv"
    /\ \/ kv' = tasks[t].label /\ UNCHANGED unclean
       \/ unclean' = TRUE /\ UNCHANGED kv
    /\ tasks' = [tasks EXCEPT ![t].pc = "auth_event"]
    /\ UNCHANGED <<auth, osFile, osMem, session, loops, queued, shown, ui, restarts>>

(* Mutant: persist_auth_label sends no event. *)
TaskAuthEventSkipped(t) ==
    /\ tasks[t].pc = "auth_event"
    /\ tasks' = [tasks EXCEPT ![t] = NoTask]
    /\ UNCHANGED <<auth, stores, osMem, session, loops, queued, shown, ui, unclean,
                   restarts>>

TaskAuthEvent(t) ==
    /\ tasks[t].pc = "auth_event"
    /\ queued' = tasks[t].label
    /\ tasks' = [tasks EXCEPT ![t] = NoTask]
    /\ UNCHANGED <<auth, stores, osMem, session, loops, shown, ui, unclean, restarts>>

-----------------------------------------------------------------------------
(* Pairing, on the UI thread.                                              *)

(* complete_pairing, once os_config::pair has turned the code into a device.
   A code that does not pair changes nothing. *)
CompletePairing(d) ==
    /\ ui.pc = "idle"
    /\ ui' = [pc |-> "truncate", label |-> "needs_credentials", device |-> d]
    /\ UNCHANGED <<auth, stores, osMem, session, loops, queued, shown, tasks, unclean,
                   restarts>>

(* fs::write opens the file empty and then fills it. *)
SaveDevice ==
    /\ \/ ui.pc = "truncate" /\ osFile' = Corrupt /\ ui' = [ui EXCEPT !.pc = "write"]
       \/ ui.pc = "write" /\ osFile' = ui.device /\ ui' = [ui EXCEPT !.pc = "pair_mem"]
    /\ UNCHANGED <<auth, kv, osMem, session, loops, queued, shown, tasks, unclean,
                   restarts>>

(* The CLEAR button is enabled while there is a pairing. *)
ClearPairing ==
    /\ ui.pc = "idle" /\ osMem # None
    /\ ui' = [pc |-> "remove", label |-> "needs_pairing", device |-> None]
    /\ UNCHANGED <<auth, stores, osMem, session, loops, queued, shown, tasks, unclean,
                   restarts>>

(* Mutant: the pairing is forgotten in memory only. *)
RemoveDeviceSkipped ==
    /\ ui.pc = "remove"
    /\ ui' = [ui EXCEPT !.pc = "clear_mem"]
    /\ UNCHANGED <<auth, stores, osMem, session, loops, queued, shown, tasks, unclean,
                   restarts>>

RemoveDevice ==
    /\ ui.pc = "remove"
    /\ osFile' = None
    /\ ui' = [ui EXCEPT !.pc = "clear_mem"]
    /\ UNCHANGED <<auth, kv, osMem, session, loops, queued, shown, tasks, unclean,
                   restarts>>

(* The slot follows the file; the cached session stays whatever it was. *)
SetDeviceSlot ==
    /\ ui.pc \in {"pair_mem", "clear_mem"}
    /\ osMem' = ui.device
    /\ ui' = [ui EXCEPT !.pc = "auth_mem"]
    /\ UNCHANGED <<auth, stores, session, loops, queued, shown, tasks, unclean, restarts>>

(* A file operation fails: the error is toasted, nothing further is written.
   Failing to fill the file leaves it empty. *)
FileError ==
    /\ ui.pc \in {"truncate", "write", "remove"}
    /\ ui' = [ui EXCEPT !.pc = "reread"]
    /\ UNCHANGED <<auth, stores, osMem, session, loops, queued, shown, tasks, unclean,
                   restarts>>

(* CoreBridge reads the label back when the pairing call returns. *)
RereadLabel ==
    /\ ui.pc = "reread"
    /\ shown' = auth
    /\ ui' = Idle
    /\ UNCHANGED <<auth, stores, osMem, session, loops, queued, tasks, unclean, restarts>>

-----------------------------------------------------------------------------
(* Sign-in, on the UI thread.                                              *)

(* start_apple_id_auth.  Step 2 of Setup is enabled while there is a pairing,
   also when already signed in. *)
SignIn ==
    /\ ui.pc = "idle" /\ osMem # None
    /\ \E t \in Task : tasks[t].pc = "none"
    /\ ui' = [pc |-> "session", label |-> "authenticating", device |-> None]
    /\ UNCHANGED <<auth, stores, osMem, session, loops, queued, shown, tasks, unclean,
                   restarts>>

(* ensure_session: the cached session, or a new one for the paired device,
   or an error (no APS connection), which ends the call. *)
EnsureSession ==
    /\ ui.pc = "session"
    /\ \/ /\ session # None
          /\ ui' = [ui EXCEPT !.pc = "auth_mem"]
          /\ UNCHANGED session
       \/ /\ session = None
          /\ session' = [device |-> osMem, ids |-> FALSE, client |-> FALSE]
          /\ ui' = [ui EXCEPT !.pc = "auth_mem"]
       \/ /\ session = None
          /\ ui' = Idle
          /\ UNCHANGED session
    /\ UNCHANGED <<auth, stores, osMem, loops, queued, shown, tasks, unclean, restarts>>

SpawnTask(t) ==
    /\ tasks[t].pc = "none"
    /\ tasks' = [tasks EXCEPT ![t] = [pc |-> "remote", label |-> "authenticating"]]

SpawnSignIn ==
    /\ ui.pc = "spawn"
    /\ \E t \in Task : SpawnTask(t)
    /\ ui' = Idle
    /\ UNCHANGED <<auth, stores, osMem, session, loops, queued, shown, unclean, restarts>>

(* submit_two_factor_code needs a session, whatever the account state. *)
SubmitTwoFactorCode ==
    /\ ui.pc = "idle" /\ osMem # None /\ session # None
    /\ \E t \in Task : SpawnTask(t)
    /\ UNCHANGED <<auth, stores, osMem, session, loops, queued, shown, ui, unclean,
                   restarts>>

-----------------------------------------------------------------------------
(* A sign-in or 2FA task: the account service's answer, then               *)
(* apply_login_state.                                                      *)

Settle(t, label) == tasks' = [tasks EXCEPT ![t] = [pc |-> "auth_mem", label |-> label]]

(* Mutant: an error ends the task before it publishes a state. *)
RemoteAnswerEarlyReturn(t) ==
    /\ tasks[t].pc = "remote"
    /\ \/ tasks' = [tasks EXCEPT ![t].pc = "finalize"]
       \/ tasks' = [tasks EXCEPT ![t] = NoTask]
    /\ UNCHANGED <<auth, stores, osMem, session, loops, queued, shown, ui, unclean,
                   restarts>>

RemoteAnswer(t) ==
    /\ tasks[t].pc = "remote"
    /\ \/ tasks' = [tasks EXCEPT ![t].pc = "finalize"]
       \/ \E label \in Answer : Settle(t, label)
    /\ UNCHANGED <<auth, stores, osMem, session, loops, queued, shown, ui, unclean,
                   restarts>>

(* finalize_login_and_register_ids.  ids_user.json is left out: the slot a new
   session loads from it is overwritten here before anything reads it. *)
FinalizeLogin(t) ==
    /\ tasks[t].pc = "finalize"
    /\ \/ /\ session' = [session EXCEPT !.ids = TRUE]
          /\ tasks' = [tasks EXCEPT ![t].pc = "prepare"]
       \/ Settle(t, "error") /\ UNCHANGED session
    /\ UNCHANGED <<auth, stores, osMem, loops, queued, shown, ui, unclean, restarts>>

(* Mutant: the client is built and not put into its slot. *)
PrepareImClientDropped(t) ==
    /\ tasks[t].pc = "prepare"
    /\ session.ids
    /\ tasks' = [tasks EXCEPT ![t].pc = "listen"]
    /\ UNCHANGED <<auth, stores, osMem, session, loops, queued, shown, ui, unclean,
                   restarts>>

(* prepare_im_client: refuses without an IDS user, registers, puts a new
   client into the slot. *)
PrepareImClient(t) ==
    /\ tasks[t].pc = "prepare"
    /\ \/ /\ session.ids
          /\ session' = [session EXCEPT !.client = TRUE]
          /\ tasks' = [tasks EXCEPT ![t].pc = "listen"]
       \/ Settle(t, "error") /\ UNCHANGED session
    /\ UNCHANGED <<auth, stores, osMem, loops, queued, shown, ui, unclean, restarts>>

(* apply_login_state spawns receive::run each time it gets this far.  The
   loop ends at once if it finds no client. *)
SpawnReceiveLoop(t) ==
    /\ tasks[t].pc = "listen"
    /\ loops' = IF session.client /\ loops < MaxLoops THEN loops + 1 ELSE loops
    /\ Settle(t, "ready")
    /\ UNCHANGED <<auth, stores, osMem, session, queued, shown, ui, unclean, restarts>>

(* The APS connection closes and every loop on it breaks. *)
ConnectionClosed ==
    /\ loops > 0
    /\ loops' = 0
    /\ UNCHANGED <<auth, stores, osMem, session, queued, shown, ui, tasks, unclean,
                   restarts>>

-----------------------------------------------------------------------------
(* CoreBridge::pollEvents, auth_state events only: the last one drained stays. *)
PollEvents ==
    /\ ui.pc = "idle" /\ queued # None
    /\ shown' = queued
    /\ queued' = None
    /\ UNCHANGED <<auth, stores, osMem, session, loops, ui, tasks, unclean, restarts>>

(* The process ends, anywhere, and is started again: AppState::open, then
   CoreBridge's constructor. *)
Restart ==
    /\ restarts < MaxRestarts
    /\ restarts' = restarts + 1
    /\ auth' = Restored(osFile, kv)
    /\ osMem' = LoadDevice(osFile)
    /\ session' = None /\ loops' = 0
    /\ queued' = None /\ shown' = auth'
    /\ ui' = Idle /\ tasks' = [t \in Task |-> NoTask]
    /\ unclean' = FALSE
    /\ UNCHANGED stores

-----------------------------------------------------------------------------
UiStart == (\E d \in Device : CompletePairing(d)) \/ ClearPairing \/ SignIn
           \/ SubmitTwoFactorCode

UiStep == SaveDevice \/ RemoveDevice \/ SetDeviceSlot \/ FileError
          \/ EnsureSession \/ UiAuthMem \/ UiAuthKv \/ UiAuthEvent
          \/ SpawnSignIn \/ RereadLabel

TaskStep(t) == RemoteAnswer(t) \/ FinalizeLogin(t) \/ PrepareImClient(t)
               \/ SpawnReceiveLoop(t)
               \/ TaskAuthMem(t) \/ TaskAuthKv(t) \/ TaskAuthEvent(t)

Next == UiStart \/ UiStep \/ (\E t \in Task : TaskStep(t))
        \/ ConnectionClosed \/ PollEvents \/ Restart

Spec == Init /\ [][Next]_vars

(* A call on the UI thread runs to its end, the workers run every task, each
   request to the account service is answered or fails, and the poll timer
   fires.  Nothing obliges the user to start a call. *)
Fairness == /\ WF_vars(UiStep)
            /\ \A t \in Task : WF_vars(TaskStep(t))
            /\ WF_vars(PollEvents)

FairSpec == Spec /\ Fairness

-----------------------------------------------------------------------------
(* Properties.                                                             *)

(* The four places the account state lives in, the calls and the tasks are well
   formed; above all, no stored label but a state's comes up after a restart. *)
TypeOK ==
    /\ auth \in Label /\ kv \in Label \cup {None}
    /\ osFile \in Device \cup {None, Corrupt} /\ osMem \in Device \cup {None}
    /\ session \in Session \cup {None}
    /\ loops \in 0 .. MaxLoops
    /\ queued \in Label \cup {None} /\ shown \in Label
    /\ ui \in [pc : UiPc, label : Label, device : Device \cup {None}]
    /\ tasks \in [Task -> [pc : TaskPc, label : Label]]
    /\ unclean \in BOOLEAN /\ restarts \in 0 .. MaxRestarts

Quiet == ui.pc = "idle" /\ \A t \in Task : tasks[t].pc = "none"

(* persist_os_config and clear_os_config write the file first: between calls
   the pairing in use is the one a restart would load, unless a failed write
   destroyed the file. *)
PairingSurvives ==
    ui.pc = "idle" => osFile = Corrupt \/ LoadDevice(osFile) = osMem

(* Between account operations a restart would come up in the very state the
   app is in, provided the last write of it was clean and the pairing file
   is whole: memory, kv row and pairing file cannot drift apart otherwise. *)
RestartRestores ==
    Quiet /\ ~unclean /\ osFile # Corrupt => Restored(osFile, kv) = auth

(* Once the queue is drained the window shows the account state the core is
   in, unless its last write was not clean (writers overlapped, a task
   outlived the pairing, or the row was not stored): no event is lost between
   the direct reads of the label and the drained ones. *)
WindowAgrees ==
    Quiet /\ ~unclean /\ queued = None => shown = auth

(* With a session around, "ready" was earned by it: the state only comes from
   a task that has set up this session's client, never from a stored label. *)
ReadyIsEarned ==
    auth = "ready" /\ session # None /\ ui.pc = "idle" => session.client

(* The guards at the head of receive::run and prepare_im_client never fire: a
   loop that is spawned finds a client, a client is built for an IDS user,
   and no task ever runs without its session. *)
LoopFindsClient ==
    \A t \in Task :
        /\ tasks[t].pc # "none" => session # None
        /\ tasks[t].pc = "prepare" => session.ids
        /\ tasks[t].pc = "listen" => session.client

(* Sign-in settles: "authenticating" in a process that has a session gives way
   to the task's outcome (or the process ends), however UI calls and other
   tasks interleave. *)
SignInSettles ==
    (auth = "authenticating" /\ session # None)
        ~> (auth # "authenticating" \/ session = None)

(* receive.rs: "Spawned once, after the IMClient is built." *)
SpawnedOnce == loops <= 1
=============================================================================
