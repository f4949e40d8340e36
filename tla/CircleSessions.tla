--------------------------- MODULE CircleSessions ---------------------------
(***************************************************************************)
(* Sign-ins of other devices that this one may approve, and its own:       *)
(* handle_2fa, handle_circle, approve_circle and circle_setup_clique of    *)
(* rust/src/api/api.rs (kept, not compiled).                               *)
(*                                                                         *)
(* A sign-in is an exchange of numbered messages: its device sends the odd *)
(* steps, the approving device answers with the even ones.  The first step *)
(* waits in the session until the user approves; approve_circle takes it   *)
(* and leaves a task that looks the session up again.  Nothing is assumed  *)
(* of the devices: any step can arrive at any time, any number of times.   *)
(***************************************************************************)
EXTENDS Naturals, Sequences, FiniteSets

CONSTANTS
    Atxn,        \* circle exchanges, each started by one device
    Txn,         \* sign-in transactions
    TxnOf,       \* the sign-in an exchange belongs to
    MaxSessions  \* sessions kept (5 in the code)

ASSUME CircleAssumption ==
    /\ TxnOf \in [Atxn -> Txn]
    /\ MaxSessions \in Nat \ {0}

(* ActiveCircleSession; waiting: init_message is still there. *)
Session == [atxn : Atxn, waiting : BOOLEAN]

(* An odd step, with the sign-in request of its exchange or without. *)
CircleMessage == [atxn : Atxn, step : {1, 3, 5}, signin : BOOLEAN]

VARIABLES
    sessions,  \* active_circle_sessions, oldest first
    approvals, \* spawned tasks that are to handle the first step of an exchange
    client,    \* client_session, our own sign-in: "none", "active" or "done"
    answered,  \* history: <<exchange whose step was handled, session that did>>
    lost,      \* history: exchanges whose session went while the task that is
               \* to handle their first step had yet to run
    ended      \* history: exchanges a last step ended, until they open again

circleVars == <<sessions, approvals, client, answered, lost, ended>>

CircleTypeOK ==
    /\ sessions \in Seq(Session) /\ Len(sessions) <= MaxSessions
    /\ approvals \subseteq Atxn
    /\ client \in {"none", "active", "done"}
    /\ answered \subseteq Atxn \X Atxn
    /\ lost \subseteq Atxn /\ ended \subseteq Atxn

CircleInit ==
    /\ sessions = <<>>
    /\ approvals = {}
    /\ client = "none"
    /\ answered = {} /\ lost = {} /\ ended = {}

Known(x) == \E k \in DOMAIN sessions : sessions[k].atxn = x

(* retain: the session of exchange x, its only one, goes. *)
Drop(x) ==
    LET at == CHOOSE k \in DOMAIN sessions : sessions[k].atxn = x
    IN  [j \in 1..(Len(sessions) - 1) |-> IF j < at THEN sessions[j] ELSE sessions[j + 1]]

Opened(x) ==
    LET all == Append(sessions, [atxn |-> x, waiting |-> TRUE]) IN
    IF Len(all) > MaxSessions THEN Tail(all) ELSE all

(* The exchange that an opened session pushes out of a full list. *)
Evicted == IF Len(sessions) = MaxSessions THEN {sessions[1].atxn} ELSE {}

(* A first step of an unknown exchange that comes with its sign-in opens a
   session; other steps of it are ignored. *)
OpenSession(m) ==
    /\ ~Known(m.atxn)
    /\ IF m.step = 1 /\ m.signin
       THEN /\ sessions' = Opened(m.atxn)
            /\ lost' = lost \cup (Evicted \cap approvals)
            /\ ended' = ended \ {m.atxn}
       ELSE UNCHANGED <<sessions, lost, ended>>
    /\ UNCHANGED answered

(* Mutant: the last step ends every session of its sign-in. *)
StepSessionOfSignIn(m) ==
    LET rest == SelectSeq(sessions, LAMBDA e : TxnOf[e.atxn] # TxnOf[m.atxn]) IN
    /\ Known(m.atxn)
    /\ answered' = answered \cup {<<m.atxn, m.atxn>>}
    /\ IF m.step = 5
       THEN /\ sessions' = rest
            /\ lost' = lost \cup ({m.atxn} \cap approvals)
            /\ ended' = ended \cup {m.atxn}
       ELSE UNCHANGED <<sessions, lost, ended>>

(* Any step of a known exchange is handed to its session, approved or not, and
   the session goes with the last. *)
StepSession(m) ==
    /\ Known(m.atxn)
    /\ answered' = answered \cup {<<m.atxn, m.atxn>>}
    /\ IF m.step = 5
       THEN /\ sessions' = Drop(m.atxn)
            /\ lost' = lost \cup ({m.atxn} \cap approvals)
            /\ ended' = ended \cup {m.atxn}
       ELSE UNCHANGED <<sessions, lost, ended>>

HandleServerStep(m) ==
    /\ OpenSession(m) \/ StepSession(m)
    /\ UNCHANGED <<approvals, client>>

(* make_client_session: a sign-in of our own is handed to the loop. *)
BeginClient ==
    /\ client = "none"
    /\ client' = "active"
    /\ UNCHANGED <<sessions, approvals, answered, lost, ended>>

(* An even step; the session ends with LoggedIn. *)
HandleClientStep(done) ==
    /\ client = "active"
    /\ client' = IF done THEN "done" ELSE client
    /\ UNCHANGED <<sessions, approvals, answered, lost, ended>>

(* approve_circle finds the first session of the sign-in. *)
IsFirstOf(k, t) ==
    /\ TxnOf[sessions[k].atxn] = t
    /\ \A j \in 1..(k - 1) : TxnOf[sessions[j].atxn] # t

(* The user approves the sign-in and is shown the session's code; a second
   approval finds no first step and shows nothing. *)
ApproveCircle(t) ==
    \E k \in DOMAIN sessions :
        /\ IsFirstOf(k, t)
        /\ sessions[k].waiting
        /\ sessions' = [sessions EXCEPT ![k].waiting = FALSE]
        /\ approvals' = approvals \cup {sessions[k].atxn}
        /\ UNCHANGED <<client, answered, lost, ended>>

(* Mutant: the task takes the newest session, not the one of the sign-in. *)
RunApprovalOnNewest(x) ==
    /\ x \in approvals
    /\ approvals' = approvals \ {x}
    /\ answered' = IF sessions = <<>> THEN answered
                   ELSE answered \cup {<<x, sessions[Len(sessions)].atxn>>}
    /\ UNCHANGED <<sessions, client, lost, ended>>

(* The spawned task looks the sign-in up again; the session may be gone. *)
RunApproval(x) ==
    /\ x \in approvals
    /\ approvals' = approvals \ {x}
    /\ answered' = answered \cup {<<x, sessions[k].atxn>> :
                       k \in {j \in DOMAIN sessions : IsFirstOf(j, TxnOf[x])}}
    /\ UNCHANGED <<sessions, client, lost, ended>>

----------------------------------------------------------------------------
CircleNext ==
    \/ \E m \in CircleMessage : HandleServerStep(m)
    \/ BeginClient
    \/ \E done \in BOOLEAN : HandleClientStep(done)
    \/ \E t \in Txn : ApproveCircle(t)
    \/ \E x \in Atxn : RunApproval(x)

CircleSpec == CircleInit /\ [][CircleNext]_circleVars

----------------------------------------------------------------------------
(* The first step of an exchange is handled by the session whose code the user
   was shown, whatever other exchanges of the same sign-in are opened, stepped
   and ended meanwhile.  approve_circle and its task both look for the sign-in,
   not for the exchange; the exception is an exchange whose session went
   between the two, where the task can take another one of that sign-in. *)
RightSession ==
    \A p \in answered : p[2] = p[1] \/ p[1] \in lost

(* A sign-in that waits for the user is given up only as the oldest of a full
   list, or by a last step of its own exchange: no message of another exchange,
   approval or task loses it. *)
WaitingKept ==
    [][\A k \in DOMAIN sessions :
          \/ ~sessions[k].waiting
          \/ sessions[k].atxn \in ended' \ ended
          \/ k = 1 /\ Len(sessions) = MaxSessions
          \/ \E j \in DOMAIN sessions' : sessions'[j].atxn = sessions[k].atxn]_circleVars
=============================================================================
