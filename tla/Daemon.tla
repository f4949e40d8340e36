------------------------------- MODULE Daemon -------------------------------
(***************************************************************************)
(* The receive loop of the Flutter-era layer (rust/src/native.rs and       *)
(* recv_wait, send, ptr_to_dart and complete_msg of rust/src/api/api.rs,   *)
(* kept and not compiled), composed with the circle sessions it drives.    *)
(*                                                                         *)
(* The loop takes one message at a time from the push connection, from its *)
(* own channel or from the registration state, or the request to stop.  A  *)
(* message for the app is put in QUEUED_MESSAGES under a new key, a task   *)
(* is spawned that emits the key again every 30 seconds while it is still  *)
(* queued and drops it after five times, and the key is emitted.  The app  *)
(* fetches the message by its key and completes it, late or never.         *)
(***************************************************************************)
EXTENDS CircleSessions

CONSTANTS
    Push,        \* messages of the push connection other than circle steps
    Reply,       \* what each client makes of each: "pass", "take" or "fail"
    Albums,      \* of each, the pending albums photostream finds in it
    RegState,    \* changes of the registration state
    Sent,        \* sends whose delivery the app is told of
    Nothing,     \* no message
    MaxRetry,    \* re-emissions of a key (5 in the code)
    LocalCap,    \* capacity of the loop's own channel (999 in the code)
    MaxStops,    \* bound: requests to stop
    MaxInputs,   \* bound: what makes a message for the app
    MaxKey       \* bound: the messages those can make

ImClient == {"fmfd", "statuskit", "passwords", "idms", "ft", "im"}
Kind == {"beacon", "status", "idms", "facetime", "imessage"}

ASSUME DaemonAssumption ==
    /\ Reply \in [Push -> [ImClient -> {"pass", "take", "fail"}]]
    /\ Albums \in [Push -> Nat]
    /\ MaxRetry \in Nat \ {0} /\ LocalCap \in Nat \ {0}
    /\ MaxStops \in Nat /\ MaxInputs \in Nat /\ MaxKey \in Nat

(* A message for the app: what it is and what it is about. *)
AppMessage == [kind : Kind \cup {"circle", "album", "confirm", "twofa", "finish", "registration"},
               of : Push \cup Atxn \cup Sent \cup {Nothing}]

VARIABLES
    arriving,  \* messages of the connection the loop has not taken
    local,     \* the loop's own channel
    sending,   \* sends whose delivery is awaited by a task
    loop,      \* "poll", "insert", "emit", "wedged" or "stopped"
    hand,      \* the message or key the loop is at
    stop,      \* whether the cancel channel (of one) holds a request
    stops,     \* requests made
    queued,    \* QUEUED_MESSAGES: key k is the k-th message of `given`
    given,     \* history: messages put in the queue, in the order of their keys
    task,      \* per key, its task: "sleep", "emit", "drop" or "done"
    retry,     \* per key, its task's count
    emitted,   \* per key, how often the app was told of it
    fetched,   \* keys whose message the app has and has not completed
    completed, \* history: keys completed
    confirmed, \* history: sends whose end was put on the loop's channel
    crashed,   \* history: sends whose delivery task died, and with it the
               \* task that was to tell
    inputs     \* number of inputs so far

loopVars == <<arriving, local, sending, loop, hand, stop, stops, confirmed, crashed>>
queueVars == <<queued, given, task, retry, emitted, fetched, completed>>
daemonVars == <<loopVars, queueVars, inputs>>
vars == <<daemonVars, circleVars>>

TypeOK ==
    /\ arriving \subseteq Push \cup RegState
    /\ local \in Seq(AppMessage) /\ Len(local) <= LocalCap
    /\ sending \subseteq Sent
    /\ loop \in {"poll", "insert", "emit", "wedged", "stopped"}
    /\ hand \in AppMessage \cup {Nothing}
    /\ stop \in BOOLEAN /\ stops \in 0..MaxStops
    /\ given \in Seq(AppMessage)
    /\ queued \subseteq DOMAIN given /\ fetched \subseteq DOMAIN given
    /\ completed \subseteq DOMAIN given
    /\ task \in Seq({"sleep", "emit", "drop", "done"}) /\ Len(task) = Len(given)
    /\ retry \in Seq(0..(MaxRetry + 1)) /\ Len(retry) = Len(given)
    /\ emitted \in Seq(0..(MaxRetry + 1)) /\ Len(emitted) = Len(given)
    /\ confirmed \subseteq Sent /\ crashed \subseteq Sent
    /\ inputs \in 0..MaxInputs

Init ==
    /\ CircleInit
    /\ arriving = Push \cup RegState
    /\ local = <<>> /\ sending = {} /\ confirmed = {} /\ crashed = {}
    /\ loop = "poll" /\ hand = Nothing
    /\ stop = FALSE /\ stops = 0
    /\ queued = {} /\ given = <<>> /\ fetched = {} /\ completed = {}
    /\ task = <<>> /\ retry = <<>> /\ emitted = <<>>
    /\ inputs = 0

Input ==
    /\ inputs < MaxInputs
    /\ inputs' = inputs + 1

----------------------------------------------------------------------------
(* recv_wait *)

Msg(kind, of) == [kind |-> kind, of |-> of]

(* The clients are asked in this order; photostream, which takes nothing, comes
   after fmfd.  A failure of fmfd and of the passwords is logged and the next
   is asked, a failure of another one drops the message, and so does a message
   nobody takes. *)
Asked == <<"fmfd", "statuskit", "passwords", "idms", "ft", "im">>
Ends(c, reply) ==
    /\ c # "passwords"
    /\ reply = "take" \/ (reply = "fail" /\ c # "fmfd")

KindOf == [c \in ImClient \ {"passwords"} |->
              CASE c = "fmfd" -> "beacon" [] c = "statuskit" -> "status"
                [] c = "idms" -> "idms" [] c = "ft" -> "facetime" [] OTHER -> "imessage"]

Dispatched(m) ==
    LET ends == {n \in DOMAIN Asked : Ends(Asked[n], Reply[m][Asked[n]])}
    IN  IF ends = {} THEN Nothing
        ELSE LET c == Asked[CHOOSE n \in ends : \A j \in ends : n <= j]
             IN  IF Reply[m][c] = "take" THEN Msg(KindOf[c], m) ELSE Nothing

(* What recv_wait returns goes to the queue, or the loop comes round again. *)
Return(msg) ==
    /\ loop' = IF msg = Nothing THEN "poll" ELSE "insert"
    /\ hand' = msg

(* A send of the loop to its own channel waits for ever when that is full. *)
SendLocal(msg, then) ==
    IF Len(local) < LocalCap
    THEN local' = Append(local, msg) /\ Return(then)
    ELSE loop' = "wedged" /\ UNCHANGED <<local, hand>>

(* handle_photostream: one send per pending album of message m. *)
SendAlbums(m) ==
    LET room == LocalCap - Len(local)
        sent == IF Albums[m] <= room THEN Albums[m] ELSE room
    IN  /\ local' = local \o [i \in 1..sent |-> Msg("album", m)]
        /\ IF sent = Albums[m] THEN Return(Dispatched(m))
           ELSE loop' = "wedged" /\ UNCHANGED hand

(* recv_wait looks at the cancel channel before anything else. *)
Polling == loop = "poll" /\ ~stop

(* A message of the connection; photostream's pending albums come back through
   the local channel.  A panic on the way is caught and the message is lost. *)
RecvPush(m) ==
    /\ Polling /\ m \in arriving /\ Input
    /\ arriving' = arriving \ {m}
    /\ \/ IF Ends("fmfd", Reply[m]["fmfd"])
          THEN Return(Dispatched(m)) /\ UNCHANGED local
          ELSE SendAlbums(m)
       \/ Return(Nothing) /\ UNCHANGED local
    /\ UNCHANGED <<sending, stop, stops, queueVars, confirmed, crashed, circleVars>>

(* An odd circle step.  A sign-in request that comes with it is shown by the
   app; handle_2fa drops one for another account, modelled as not arriving.
   The third step, when handled, tells whether the code was right. *)
RecvCircle(m) ==
    /\ Polling
    /\ HandleServerStep(m)
    /\ IF m.signin THEN Input ELSE UNCHANGED inputs
    /\ LET prompt == IF m.signin THEN Msg("circle", m.atxn) ELSE Nothing
       IN  IF m.step = 3 /\ Known(m.atxn)
           THEN \/ SendLocal(Msg("twofa", m.atxn), prompt)
                \/ Return(prompt) /\ UNCHANGED local
           ELSE Return(prompt) /\ UNCHANGED local
    /\ UNCHANGED <<arriving, sending, stop, stops, queueVars, confirmed, crashed>>

RecvClientStep(done) ==
    /\ Polling
    /\ HandleClientStep(done)
    /\ IF done THEN SendLocal(Msg("finish", Nothing), Nothing)
       ELSE Return(Nothing) /\ UNCHANGED local
    /\ UNCHANGED <<arriving, sending, stop, stops, queueVars, confirmed, crashed, inputs>>

(* The registration state changed, once or more since it was last looked at. *)
RecvRegState ==
    /\ Polling /\ arriving \cap RegState # {} /\ Input
    /\ \E seen \in SUBSET (arriving \cap RegState) :
          seen # {} /\ arriving' = arriving \ seen
    /\ Return(Msg("registration", Nothing))
    /\ UNCHANGED <<local, sending, stop, stops, queueVars, confirmed, crashed, circleVars>>

(* TwoFaAuthEvent goes straight to the app, everything else to the queue. *)
RecvLocal ==
    /\ Polling /\ local # <<>>
    /\ local' = Tail(local)
    /\ Return(IF Head(local).kind = "twofa" THEN Nothing ELSE Head(local))
    /\ UNCHANGED <<arriving, sending, stop, stops, queueVars, confirmed, crashed, inputs, circleVars>>

(* Mutant: the request to stop is read and the loop goes on. *)
RecvStopIgnored ==
    /\ loop = "poll" /\ stop
    /\ stop' = FALSE
    /\ UNCHANGED <<arriving, local, sending, loop, hand, stops, queueVars, confirmed, crashed, inputs, circleVars>>

RecvStop ==
    /\ loop = "poll" /\ stop
    /\ stop' = FALSE
    /\ loop' = "stopped"
    /\ UNCHANGED <<arriving, local, sending, hand, stops, queueVars, confirmed, crashed, inputs, circleVars>>

----------------------------------------------------------------------------
(* start_loop *)

Insert ==
    /\ loop = "insert"
    /\ loop' = "emit"
    /\ given' = Append(given, hand)
    /\ queued' = queued \cup {Len(given) + 1}
    /\ task' = Append(task, "sleep") /\ retry' = Append(retry, 0)
    /\ emitted' = Append(emitted, 0)
    /\ UNCHANGED <<arriving, local, sending, hand, stop, stops, fetched, completed,
                   confirmed, crashed, inputs, circleVars>>

Emit ==
    /\ loop = "emit"
    /\ loop' = "poll" /\ hand' = Nothing
    /\ emitted' = [emitted EXCEPT ![Len(given)] = @ + 1]
    /\ UNCHANGED <<arriving, local, sending, stop, stops, queued, given, task, retry,
                   fetched, completed, confirmed, crashed, inputs, circleVars>>

taskFrame == <<arriving, local, sending, loop, hand, stop, stops, given, fetched,
               completed, confirmed, crashed, inputs, circleVars>>

(* Mutant: one re-emission less. *)
TaskWakeShort(k) ==
    /\ task[k] = "sleep"
    /\ retry' = [retry EXCEPT ![k] = IF k \in queued THEN @ + 1 ELSE @]
    /\ task' = [task EXCEPT ![k] =
                   IF k \notin queued THEN "done"
                   ELSE IF retry[k] + 1 >= MaxRetry THEN "drop" ELSE "emit"]
    /\ UNCHANGED <<queued, emitted, taskFrame>>

(* The task of key k wakes up and looks for it. *)
TaskWake(k) ==
    /\ task[k] = "sleep"
    /\ retry' = [retry EXCEPT ![k] = IF k \in queued THEN @ + 1 ELSE @]
    /\ task' = [task EXCEPT ![k] =
                   IF k \notin queued THEN "done"
                   ELSE IF retry[k] + 1 > MaxRetry THEN "drop" ELSE "emit"]
    /\ UNCHANGED <<queued, emitted, taskFrame>>

TaskEmit(k) ==
    /\ task[k] = "emit"
    /\ task' = [task EXCEPT ![k] = "sleep"]
    /\ emitted' = [emitted EXCEPT ![k] = @ + 1]
    /\ UNCHANGED <<queued, retry, taskFrame>>

(* Mutant: the task gives up and leaves the message. *)
TaskDropKept(k) ==
    /\ task[k] = "drop"
    /\ task' = [task EXCEPT ![k] = "done"]
    /\ UNCHANGED <<queued, retry, emitted, taskFrame>>

TaskDrop(k) ==
    /\ task[k] = "drop"
    /\ task' = [task EXCEPT ![k] = "done"]
    /\ queued' = queued \ {k}
    /\ UNCHANGED <<retry, emitted, taskFrame>>

----------------------------------------------------------------------------
(* The app. *)

appFrame == <<arriving, local, sending, loop, hand, stop, stops, given, task, retry,
              emitted, confirmed, crashed, inputs, circleVars>>

(* Mutant: the message is handed out whether or not it is still queued. *)
PtrToDartUnchecked(k) ==
    /\ emitted[k] > 0
    /\ fetched' = fetched \cup {k}
    /\ UNCHANGED <<queued, completed, appFrame>>

(* ptr_to_dart, told of key k: the message, or nothing when it is gone. *)
PtrToDart(k) ==
    /\ emitted[k] > 0
    /\ fetched' = IF k \in queued THEN fetched \cup {k} ELSE fetched
    /\ UNCHANGED <<queued, completed, appFrame>>

CompleteMsg(k) ==
    /\ k \in fetched
    /\ fetched' = fetched \ {k}
    /\ completed' = completed \cup {k}
    /\ queued' = queued \ {k}
    /\ UNCHANGED appFrame

(* send with a delivery handle spawns a task that awaits it. *)
Send(u) ==
    /\ u \notin sending \cup confirmed \cup crashed /\ Input
    /\ sending' = sending \cup {u}
    /\ UNCHANGED <<arriving, local, loop, hand, stop, stops, queueVars, confirmed, crashed, circleVars>>

(* Mutant: the end of a send is told only while nothing else waits. *)
SendConfirmTried(u) ==
    /\ u \in sending
    /\ sending' = sending \ {u}
    /\ local' = IF local = <<>> THEN Append(local, Msg("confirm", u)) ELSE local
    /\ confirmed' = IF local = <<>> THEN confirmed \cup {u} ELSE confirmed
    /\ UNCHANGED <<arriving, loop, hand, stop, stops, crashed, queueVars, inputs, circleVars>>

SendConfirm(u) ==
    /\ u \in sending
    /\ Len(local) < LocalCap
    /\ sending' = sending \ {u}
    /\ local' = Append(local, Msg("confirm", u))
    /\ confirmed' = confirmed \cup {u}
    /\ UNCHANGED <<arriving, loop, hand, stop, stops, crashed, queueVars, inputs, circleVars>>

(* The delivery task dies: handle.await.unwrap() panics, nothing is sent. *)
SendCrashes(u) ==
    /\ u \in sending
    /\ sending' = sending \ {u}
    /\ crashed' = crashed \cup {u}
    /\ UNCHANGED <<arriving, local, loop, hand, stop, stops, confirmed, queueVars, inputs, circleVars>>

(* cancel_poll and reset_state: try_send on a channel of one. *)
CancelPoll ==
    /\ stops < MaxStops
    /\ stop' = TRUE
    /\ stops' = stops + 1
    /\ UNCHANGED <<arriving, local, sending, loop, hand, queueVars, confirmed, crashed, inputs, circleVars>>

(* start_loop again on the same watcher. *)
StartLoop ==
    /\ loop = "stopped"
    /\ loop' = "poll" /\ hand' = Nothing
    /\ UNCHANGED <<arriving, local, sending, stop, stops, queueVars, confirmed, crashed, inputs, circleVars>>

----------------------------------------------------------------------------
LoopStep ==
    \/ \E m \in Push : RecvPush(m)
    \/ \E m \in CircleMessage : RecvCircle(m)
    \/ \E done \in BOOLEAN : RecvClientStep(done)
    \/ RecvRegState
    \/ RecvLocal
    \/ RecvStop
    \/ Insert
    \/ Emit

TaskStep(k) == TaskWake(k) \/ TaskEmit(k) \/ TaskDrop(k)

Next ==
    \/ LoopStep
    \/ \E k \in DOMAIN given : TaskStep(k) \/ PtrToDart(k) \/ CompleteMsg(k)
    \/ \E u \in Sent : Send(u) \/ SendConfirm(u) \/ SendCrashes(u)
    \/ CancelPoll
    \/ StartLoop
    \/ BeginClient /\ Input /\ UNCHANGED <<loopVars, queueVars>>
    \/ UNCHANGED daemonVars /\ (\/ \E t \in Txn : ApproveCircle(t)
                                \/ \E x \in Atxn : RunApproval(x))

Spec == Init /\ [][Next]_vars

(* tokio runs every task that can go on, and serves the senders that wait for
   room in a channel in their order.  The app, the peers and the user are under
   no obligation. *)
FairSpec ==
    /\ Spec
    /\ WF_vars(RecvStop) /\ WF_vars(RecvLocal) /\ WF_vars(Insert) /\ WF_vars(Emit)
    /\ \A k \in 1..MaxKey : WF_vars(k \in DOMAIN given /\ TaskStep(k))
    /\ \A u \in Sent : SF_vars(SendConfirm(u))

----------------------------------------------------------------------------
(* At least once: a message put in the queue stays there until the app has
   completed it or its task has told the app of it MaxRetry times, whatever the
   order of the loop's emission, the task's and the app's calls.  (The loop's
   own emission is one more, but it may come after the task gave up.) *)
AtLeastOnce ==
    \A k \in DOMAIN given :
        \/ k \in queued
        \/ k \in completed
        \/ retry[k] > MaxRetry /\ emitted[k] >= MaxRetry

(* A completed message is never handed to the app again: an emission that is
   late finds nothing under its key. *)
CompletedForGood ==
    [][\A k \in fetched' \ fetched : k \notin completed]_vars

(* Every message leaves the queue in the end, completed or given up. *)
Drains == \A k \in 1..MaxKey : k \in queued ~> k \notin queued

(* A request to stop ends a running loop (reset_state: "tell any poll to
   stop"), unless the loop hangs on its own full channel. *)
CancelStops == stop /\ loop # "stopped" ~> loop \in {"stopped", "wedged"}

(* A send the app was promised the end of (send returned true) ends as a
   message in the queue for the app, unless its delivery task died, or the loop
   was stopped or hangs on its own full channel. *)
SendsConfirmed ==
    \A u \in Sent :
        u \in sending ~> \/ \E k \in DOMAIN given : given[k] = Msg("confirm", u)
                        \/ u \in crashed
                        \/ loop \in {"stopped", "wedged"}
=============================================================================
