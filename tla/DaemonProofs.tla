---------------------------- MODULE DaemonProofs ----------------------------
(***************************************************************************)
(* Proofs about Daemon: a message for the app is kept until the app has    *)
(* completed it or was told of it often enough, and once completed it is   *)
(* never handed out again, for any messages, retries and interleavings.    *)
(* Before it, the proofs about CircleSessions: the first step of a sign-in *)
(* is handled by the session the user approved, unless that went, and no   *)
(* waiting sign-in is lost to another, for any number of exchanges and     *)
(* sessions and whatever the devices send; and that the daemon implements  *)
(* those sessions.                                                         *)
(***************************************************************************)
EXTENDS Daemon, TLAPS

(* An exchange has one session, and none once a last step ended it. *)
SessionInv ==
    /\ \A j, k \in DOMAIN sessions : sessions[j].atxn = sessions[k].atxn => j = k
    /\ \A k \in DOMAIN sessions : sessions[k].atxn \notin ended

(* While the task of an approval has yet to run, the session it is for is the
   first of its sign-in, or went. *)
ApprovalInv ==
    \A x \in approvals :
        \/ x \in lost
        \/ \E k \in DOMAIN sessions : sessions[k].atxn = x /\ IsFirstOf(k, TxnOf[x])

CircleInv == CircleTypeOK /\ SessionInv /\ ApprovalInv /\ RightSession

(* What the list holds after a session is opened: the new one and what eviction left. *)
LEMMA OpenedIs ==
    ASSUME CircleTypeOK, NEW x \in Atxn
    PROVE  \E off \in {0, 1} :
              /\ off = 1 => Len(sessions) = MaxSessions
              /\ Opened(x) \in Seq(Session)
              /\ Len(Opened(x)) = Len(sessions) + 1 - off
              /\ Len(Opened(x)) <= MaxSessions
              /\ Opened(x)[Len(Opened(x))] = [atxn |-> x, waiting |-> TRUE]
              /\ \A k \in 1..(Len(Opened(x)) - 1) : Opened(x)[k] = sessions[k + off]
<1> DEFINE new == [atxn |-> x, waiting |-> TRUE]
           all == Append(sessions, new)
<1>1. new \in Session
  BY DEF Session
<1>2. sessions \in Seq(Session) /\ Len(sessions) <= MaxSessions /\ MaxSessions \in Nat \ {0}
  BY CircleAssumption DEF CircleTypeOK
<1>3. /\ all \in Seq(Session) /\ Len(all) = Len(sessions) + 1
      /\ all[Len(sessions) + 1] = new
      /\ \A k \in 1..Len(sessions) : all[k] = sessions[k]
  BY <1>1, <1>2
<1>4. CASE Len(sessions) < MaxSessions
  <2>1. Opened(x) = all
    BY <1>2, <1>3, <1>4 DEF Opened
  <2> HIDE DEF all, new
  <2>2. /\ Len(all) = Len(sessions) + 1 - 0 /\ Len(all) <= MaxSessions
        /\ all[Len(all)] = new
        /\ \A k \in 1..(Len(all) - 1) : all[k] = sessions[k + 0]
    BY <1>2, <1>3, <1>4
  <2> QED BY <1>3, <2>1, <2>2 DEF new
<1>5. CASE Len(sessions) = MaxSessions
  <2>1. Opened(x) = Tail(all)
    BY <1>2, <1>3, <1>5 DEF Opened
  <2> HIDE DEF all, new
  <2>2. /\ Tail(all) \in Seq(Session)
        /\ Len(Tail(all)) = Len(sessions) + 1 - 1
        /\ \A k \in 1..Len(sessions) : Tail(all)[k] = all[k + 1]
    BY <1>2, <1>3, <1>5
  <2>3. /\ Len(Tail(all)) <= MaxSessions
        /\ Tail(all)[Len(Tail(all))] = new
        /\ \A k \in 1..(Len(Tail(all)) - 1) : Tail(all)[k] = sessions[k + 1]
    BY <1>2, <1>3, <1>5, <2>2
  <2> QED BY <1>5, <2>1, <2>2, <2>3 DEF new
<1> QED BY <1>2, <1>4, <1>5

(* Removing a session from the list keeps the others in their order. *)
LEMMA DropIs ==
    ASSUME CircleTypeOK, NEW x \in Atxn, Known(x)
    PROVE  \E at \in DOMAIN sessions :
              /\ sessions[at].atxn = x
              /\ Drop(x) \in Seq(Session)
              /\ Len(Drop(x)) = Len(sessions) - 1
              /\ \A j \in 1..(Len(sessions) - 1) :
                    Drop(x)[j] = IF j < at THEN sessions[j] ELSE sessions[j + 1]
<1> DEFINE at == CHOOSE k \in DOMAIN sessions : sessions[k].atxn = x
<1>1. at \in DOMAIN sessions /\ sessions[at].atxn = x
  BY DEF Known
<1>2. sessions \in Seq(Session) /\ DOMAIN sessions = 1..Len(sessions) /\ Len(sessions) \in Nat \ {0}
  BY <1>1 DEF CircleTypeOK
<1>3. Drop(x) = [j \in 1..(Len(sessions) - 1) |-> IF j < at THEN sessions[j] ELSE sessions[j + 1]]
  BY DEF Drop
<1> HIDE DEF at
<1>4. \A j \in 1..(Len(sessions) - 1) : sessions[j] \in Session /\ sessions[j + 1] \in Session
  BY <1>2
<1>5. Drop(x) \in Seq(Session) /\ Len(Drop(x)) = Len(sessions) - 1
  BY <1>2, <1>3, <1>4
<1> QED BY <1>1, <1>3, <1>5

(* An empty list with no approval under way satisfies CircleInv. *)
LEMMA CircleInitInv == CircleInit => CircleInv
BY CircleAssumption
   DEF CircleInit, CircleInv, CircleTypeOK, SessionInv, ApprovalInv, RightSession

(* The facts about the list the steps need. *)
LEMMA SessionsType ==
    ASSUME CircleInv
    PROVE  /\ sessions \in Seq(Session) /\ Len(sessions) \in Nat /\ Len(sessions) <= MaxSessions
           /\ DOMAIN sessions = 1..Len(sessions)
           /\ \A k \in DOMAIN sessions : sessions[k] \in Session /\ sessions[k].atxn \in Atxn
<1>1. sessions \in Seq(Session) /\ Len(sessions) <= MaxSessions
  BY DEF CircleInv, CircleTypeOK
<1>2. /\ Len(sessions) \in Nat /\ DOMAIN sessions = 1..Len(sessions)
      /\ \A k \in DOMAIN sessions : sessions[k] \in Session
  BY <1>1
<1> QED BY <1>1, <1>2 DEF Session

(* Opening a session keeps CircleInv: the sessions that stay move up together,
   the new one comes last, and what eviction takes from an approval is lost. *)
LEMMA OpenInv ==
    ASSUME CircleInv, NEW x \in Atxn, ~Known(x), sessions' = Opened(x),
           lost' = lost \cup (Evicted \cap approvals), ended' = ended \ {x},
           UNCHANGED <<approvals, client, answered>>
    PROVE  CircleInv'
<1> USE SessionsType
<1>1. PICK off \in {0, 1} :
            /\ off = 1 => Len(sessions) = MaxSessions
            /\ sessions' \in Seq(Session)
            /\ Len(sessions') = Len(sessions) + 1 - off
            /\ Len(sessions') <= MaxSessions
            /\ sessions'[Len(sessions')] = [atxn |-> x, waiting |-> TRUE]
            /\ \A k \in 1..(Len(sessions') - 1) : sessions'[k] = sessions[k + off]
  BY OpenedIs DEF CircleInv
<1>2. DOMAIN sessions' = 1..Len(sessions') /\ Len(sessions') \in Nat
  BY <1>1
<1>3. \A k \in 1..(Len(sessions') - 1) : k + off \in DOMAIN sessions /\ sessions[k + off].atxn # x
  <2>1. \A k \in 1..(Len(sessions') - 1) : k + off \in 1..Len(sessions)
    BY <1>1, <1>2
  <2> QED BY <2>1 DEF Known
<1>4. sessions'[Len(sessions')].atxn = x
  BY <1>1
<1>5. \A k \in DOMAIN sessions' : k = Len(sessions') \/ k \in 1..(Len(sessions') - 1)
  BY <1>2
<1>6. CircleTypeOK'
  <2>1. Evicted \cap approvals \subseteq Atxn
    BY DEF CircleInv, CircleTypeOK
  <2> QED BY <1>1, <2>1 DEF CircleInv, CircleTypeOK
<1>7. SessionInv'
  <2>1. \A j, k \in DOMAIN sessions' : sessions'[j].atxn = sessions'[k].atxn => j = k
    <3> SUFFICES ASSUME NEW j \in DOMAIN sessions', NEW k \in DOMAIN sessions',
                        sessions'[j].atxn = sessions'[k].atxn
                 PROVE  j = k
      OBVIOUS
    <3>1. CASE j \in 1..(Len(sessions') - 1) /\ k \in 1..(Len(sessions') - 1)
      <4>1. sessions[j + off].atxn = sessions[k + off].atxn
        BY <1>1, <3>1
      <4>2. j + off = k + off
        BY <1>3, <3>1, <4>1 DEF CircleInv, SessionInv
      <4> QED BY <1>1, <3>1, <4>2
    <3>2. CASE j = Len(sessions') \/ k = Len(sessions')
      BY <1>1, <1>3, <1>4, <1>5, <3>2
    <3> QED BY <1>5, <3>1, <3>2
  <2>2. \A k \in DOMAIN sessions' : sessions'[k].atxn \notin ended'
    <3> SUFFICES ASSUME NEW k \in DOMAIN sessions' PROVE sessions'[k].atxn \notin ended'
      OBVIOUS
    <3>1. CASE k = Len(sessions')
      BY <1>4, <3>1
    <3>2. CASE k \in 1..(Len(sessions') - 1)
      BY <1>1, <1>3, <3>2 DEF CircleInv, SessionInv
    <3> QED BY <1>5, <3>1, <3>2
  <2> QED BY <2>1, <2>2 DEF SessionInv
<1>8. ApprovalInv'
  <2> SUFFICES ASSUME NEW y \in approvals, y \notin lost'
               PROVE  \E k \in DOMAIN sessions' : sessions'[k].atxn = y /\ IsFirstOf(k, TxnOf[y])'
    BY DEF ApprovalInv
  <2>1. PICK k \in DOMAIN sessions : sessions[k].atxn = y /\ IsFirstOf(k, TxnOf[y])
    BY DEF CircleInv, ApprovalInv
  <2>2. ~(off = 1 /\ k = 1)
    BY <1>1, <2>1 DEF Evicted
  <2>3. k - off \in 1..(Len(sessions') - 1) /\ k - off + off = k
    BY <1>1, <1>2, <2>2
  <2>4. k - off \in DOMAIN sessions' /\ sessions'[k - off] = sessions[k]
    BY <1>1, <1>2, <2>3
  <2>5. ASSUME NEW j \in 1..(k - off - 1) PROVE TxnOf[sessions'[j].atxn] # TxnOf[y]
    <3>1. j \in 1..(Len(sessions') - 1) /\ j + off \in 1..(k - 1)
      BY <1>1, <1>2, <2>3
    <3> QED BY <1>1, <2>1, <3>1 DEF IsFirstOf
  <2>6. IsFirstOf(k - off, TxnOf[y])'
    BY <2>1, <2>4, <2>5 DEF IsFirstOf
  <2> QED BY <2>1, <2>4, <2>6
<1>9. RightSession'
  BY DEF CircleInv, RightSession
<1> QED BY <1>6, <1>7, <1>8, <1>9 DEF CircleInv

(* A last step keeps CircleInv: the other sessions keep their order. *)
LEMMA EndInv ==
    ASSUME CircleInv, NEW x \in Atxn, Known(x), sessions' = Drop(x),
           lost' = lost \cup ({x} \cap approvals), ended' = ended \cup {x},
           answered' = answered \cup {<<x, x>>}, UNCHANGED <<approvals, client>>
    PROVE  CircleInv'
<1> USE SessionsType
<1>1. PICK at \in DOMAIN sessions :
            /\ sessions[at].atxn = x
            /\ sessions' \in Seq(Session)
            /\ Len(sessions') = Len(sessions) - 1
            /\ \A j \in 1..(Len(sessions) - 1) :
                  sessions'[j] = IF j < at THEN sessions[j] ELSE sessions[j + 1]
  BY DropIs DEF CircleInv
<1> DEFINE was(j) == IF j < at THEN j ELSE j + 1
<1>2. DOMAIN sessions' = 1..(Len(sessions) - 1) /\ Len(sessions') <= MaxSessions
  BY <1>1, CircleAssumption
<1>3. \A j \in DOMAIN sessions' : was(j) \in DOMAIN sessions /\ was(j) # at /\ sessions'[j] = sessions[was(j)]
  BY <1>1, <1>2
<1>4. \A j, k \in DOMAIN sessions' : was(j) = was(k) => j = k
  BY <1>2
<1>5. CircleTypeOK'
  BY <1>1, <1>2 DEF CircleInv, CircleTypeOK
<1>6. SessionInv'
  <2> HIDE DEF was
  <2>1. \A j, k \in DOMAIN sessions' : sessions'[j].atxn = sessions'[k].atxn => j = k
    BY <1>3, <1>4 DEF CircleInv, SessionInv
  <2>2. \A k \in DOMAIN sessions' : sessions'[k].atxn \notin ended'
    BY <1>1, <1>3 DEF CircleInv, SessionInv
  <2> QED BY <2>1, <2>2 DEF SessionInv
<1>7. ApprovalInv'
  <2> SUFFICES ASSUME NEW y \in approvals, y \notin lost'
               PROVE  \E k \in DOMAIN sessions' : sessions'[k].atxn = y /\ IsFirstOf(k, TxnOf[y])'
    BY DEF ApprovalInv
  <2>1. PICK k \in DOMAIN sessions : sessions[k].atxn = y /\ IsFirstOf(k, TxnOf[y])
    BY DEF CircleInv, ApprovalInv
  <2>2. k # at
    BY <1>1, <2>1
  <2> DEFINE now == IF k < at THEN k ELSE k - 1
  <2>3. now \in DOMAIN sessions' /\ was(now) = k
    BY <1>2, <2>2
  <2>4. ASSUME NEW j \in 1..(now - 1) PROVE TxnOf[sessions'[j].atxn] # TxnOf[y]
    <3>1. j \in DOMAIN sessions' /\ was(j) \in 1..(k - 1)
      BY <1>2, <2>2, <2>3
    <3> HIDE DEF was, now
    <3> QED BY <1>3, <2>1, <3>1 DEF IsFirstOf
  <2> HIDE DEF was, now
  <2>5. sessions'[now] = sessions[k]
    BY <1>3, <2>3
  <2>6. IsFirstOf(now, TxnOf[y])'
    BY <2>1, <2>4, <2>5 DEF IsFirstOf
  <2> QED BY <2>1, <2>3, <2>5, <2>6
<1>8. RightSession'
  BY DEF CircleInv, RightSession
<1> QED BY <1>5, <1>6, <1>7, <1>8 DEF CircleInv

(* The steps handle_circle handles for a server session keep CircleInv. *)
LEMMA ServerStepInv ==
    ASSUME CircleInv, NEW m \in CircleMessage, HandleServerStep(m)
    PROVE  CircleInv'
<1>1. m.atxn \in Atxn /\ UNCHANGED <<approvals, client>>
  BY DEF HandleServerStep, CircleMessage
<1>2. CASE OpenSession(m) /\ m.step = 1 /\ m.signin
  BY <1>1, <1>2, OpenInv DEF OpenSession
<1>3. CASE OpenSession(m) /\ ~(m.step = 1 /\ m.signin)
  BY <1>1, <1>3 DEF OpenSession, CircleInv, CircleTypeOK, SessionInv, ApprovalInv, RightSession, IsFirstOf
<1>4. CASE StepSession(m) /\ m.step = 5
  BY <1>1, <1>4, EndInv DEF StepSession
<1>5. CASE StepSession(m) /\ m.step # 5
  <2>1. answered' = answered \cup {<<m.atxn, m.atxn>>} /\ UNCHANGED <<sessions, lost, ended>>
    BY <1>5 DEF StepSession
  <2> QED BY <1>1, <2>1 DEF CircleInv, CircleTypeOK, SessionInv, ApprovalInv, RightSession, IsFirstOf
<1> QED BY <1>2, <1>3, <1>4, <1>5 DEF HandleServerStep

(* approve_circle keeps CircleInv. *)
LEMMA ApproveInv ==
    ASSUME CircleInv, NEW t \in Txn, ApproveCircle(t)
    PROVE  CircleInv'
<1>1. PICK k \in DOMAIN sessions :
          /\ sessions[k].waiting
          /\ sessions' = [sessions EXCEPT ![k].waiting = FALSE]
          /\ approvals' = approvals \cup {sessions[k].atxn}
          /\ IsFirstOf(k, t)
          /\ UNCHANGED <<client, answered, lost, ended>>
  BY DEF ApproveCircle
<1>2. sessions \in Seq(Session) /\ \A j \in DOMAIN sessions : sessions[j] \in Session
  BY DEF CircleInv, CircleTypeOK
<1>3. sessions[k].atxn \in Atxn
  BY <1>2 DEF Session
<1>4. /\ sessions' \in Seq(Session) /\ Len(sessions') = Len(sessions)
      /\ DOMAIN sessions' = DOMAIN sessions
      /\ \A j \in DOMAIN sessions : sessions'[j].atxn = sessions[j].atxn
      /\ \A j \in DOMAIN sessions : sessions'[j].waiting => sessions[j].waiting /\ j # k
  <2>1. [sessions[k] EXCEPT !.waiting = FALSE] \in Session
    BY <1>2 DEF Session
  <2> QED BY <1>1, <1>2, <2>1 DEF Session
<1>5. CircleTypeOK'
  BY <1>1, <1>3, <1>4 DEF CircleInv, CircleTypeOK
<1>6. SessionInv'
  BY <1>1, <1>4 DEF CircleInv, SessionInv
<1>7. ApprovalInv'
  <2>1. \A j \in DOMAIN sessions : \A u : IsFirstOf(j, u)' <=> IsFirstOf(j, u)
    <3> SUFFICES ASSUME NEW j \in DOMAIN sessions, NEW u PROVE IsFirstOf(j, u)' <=> IsFirstOf(j, u)
      OBVIOUS
    <3>1. DOMAIN sessions = 1..Len(sessions) /\ Len(sessions) \in Nat
      BY <1>2
    <3>2. \A i \in 1..(j - 1) : i \in DOMAIN sessions
      BY <3>1
    <3> QED BY <1>4, <3>2 DEF IsFirstOf
  <2>2. TxnOf[sessions[k].atxn] = t
    BY <1>1 DEF IsFirstOf
  <2> QED BY <1>1, <1>4, <2>1, <2>2 DEF CircleInv, ApprovalInv
<1> QED BY <1>1, <1>5, <1>6, <1>7 DEF CircleInv, RightSession

(* The task approve_circle leaves behind keeps CircleInv. *)
LEMMA RunApprovalInv ==
    ASSUME CircleInv, NEW x \in Atxn, RunApproval(x)
    PROVE  CircleInv'
<1> DEFINE found == {j \in DOMAIN sessions : IsFirstOf(j, TxnOf[x])}
           new == {<<x, sessions[k].atxn>> : k \in found}
<1>1. /\ x \in approvals /\ approvals' = approvals \ {x}
      /\ answered' = answered \cup new
      /\ UNCHANGED <<sessions, client, lost, ended>>
  BY DEF RunApproval
<1>2. /\ DOMAIN sessions = 1..Len(sessions) /\ Len(sessions) \in Nat
      /\ \A k \in DOMAIN sessions : sessions[k].atxn \in Atxn
  BY SessionsType
<1>3. \A p \in new : p \in Atxn \X Atxn /\ p[1] = x
  BY <1>2
<1>4. x \in lost \/ \A p \in new : p[2] = x
  <2> SUFFICES ASSUME x \notin lost, NEW k \in found PROVE sessions[k].atxn = x
    OBVIOUS
  <2>1. PICK j \in DOMAIN sessions : sessions[j].atxn = x /\ IsFirstOf(j, TxnOf[x])
    BY <1>1 DEF CircleInv, ApprovalInv
  <2>2. k \in 1..Len(sessions) /\ j \in 1..Len(sessions) /\ IsFirstOf(k, TxnOf[x])
    BY <1>2, <2>1
  <2>3. k \notin 1..(j - 1) /\ j \notin 1..(k - 1)
    BY <2>1, <2>2 DEF IsFirstOf
  <2>4. k = j
    BY <1>2, <2>2, <2>3
  <2> QED BY <2>1, <2>4
<1> HIDE DEF new
<1>5. CircleTypeOK'
  BY <1>1, <1>3 DEF CircleInv, CircleTypeOK
<1>6. SessionInv' /\ ApprovalInv'
  BY <1>1 DEF CircleInv, SessionInv, ApprovalInv, IsFirstOf
<1>7. RightSession'
  BY <1>1, <1>3, <1>4 DEF CircleInv, RightSession
<1> QED BY <1>5, <1>6, <1>7 DEF CircleInv

(* Every step of the circle sessions keeps CircleInv. *)
LEMMA CircleStepInv == CircleInv /\ [CircleNext]_circleVars => CircleInv'
<1> SUFFICES ASSUME CircleInv, [CircleNext]_circleVars PROVE CircleInv'
  OBVIOUS
<1>1. CASE \E m \in CircleMessage : HandleServerStep(m)
  BY <1>1, ServerStepInv
<1>2. CASE BeginClient \/ \E done \in BOOLEAN : HandleClientStep(done)
  BY <1>2 DEF BeginClient, HandleClientStep, CircleInv, CircleTypeOK, SessionInv, ApprovalInv,
              RightSession, IsFirstOf
<1>3. CASE \E t \in Txn : ApproveCircle(t)
  BY <1>3, ApproveInv
<1>4. CASE \E x \in Atxn : RunApproval(x)
  BY <1>4, RunApprovalInv
<1>5. CASE UNCHANGED circleVars
  BY <1>5 DEF circleVars, CircleInv, CircleTypeOK, SessionInv, ApprovalInv, RightSession, IsFirstOf
<1> QED BY <1>1, <1>2, <1>3, <1>4, <1>5 DEF CircleNext

(* The inductive invariant. *)
THEOREM CircleInvariance == CircleSpec => []CircleInv
<1>1. CircleInit => CircleInv
  BY CircleInitInv
<1>2. CircleInv /\ [CircleNext]_circleVars => CircleInv'
  BY CircleStepInv
<1> QED BY <1>1, <1>2, PTL DEF CircleSpec

(* The session list never outgrows its limit, and the state is well formed. *)
THEOREM CircleTypeCorrect == CircleSpec => []CircleTypeOK
<1>1. CircleInv => CircleTypeOK
  BY DEF CircleInv
<1> QED BY <1>1, CircleInvariance, PTL

(* The second look-up of the approval task, by the sign-in, finds the session
   the user approved, however many exchanges the sign-in has, unless that
   session went in between: by ApprovalInv it stays the first of its sign-in. *)
THEOREM FindsItsSession == CircleSpec => []RightSession
<1>1. CircleInv => RightSession
  BY DEF CircleInv
<1> QED BY <1>1, CircleInvariance, PTL

(* A waiting sign-in is lost to no other one: opening a session pushes out only
   the oldest of a full list, and a last step removes only its own exchange,
   whose one session that is by SessionInv. *)
THEOREM KeepsWaiting == CircleSpec => WaitingKept
<1> DEFINE Lost(k) ==
              ~ (\/ ~sessions[k].waiting
                 \/ sessions[k].atxn \in ended' \ ended
                 \/ k = 1 /\ Len(sessions) = MaxSessions
                 \/ \E j \in DOMAIN sessions' : sessions'[j].atxn = sessions[k].atxn)
           Kept == \A k \in DOMAIN sessions :
              \/ ~sessions[k].waiting
              \/ sessions[k].atxn \in ended' \ ended
              \/ k = 1 /\ Len(sessions) = MaxSessions
              \/ \E j \in DOMAIN sessions' : sessions'[j].atxn = sessions[k].atxn
<1>1. CircleInv /\ [CircleNext]_circleVars => [Kept]_circleVars
  <2> SUFFICES ASSUME CircleInv, CircleNext, NEW k \in DOMAIN sessions, Lost(k) PROVE FALSE
    OBVIOUS
  <2>1. /\ sessions \in Seq(Session) /\ Len(sessions) \in Nat /\ DOMAIN sessions = 1..Len(sessions)
        /\ \A j \in DOMAIN sessions : sessions[j] \in Session
    BY DEF CircleInv, CircleTypeOK
  <2>2. sessions' # sessions
    OBVIOUS
  <2>3. CASE \E m \in CircleMessage : HandleServerStep(m)
    <3>1. PICK m \in CircleMessage : HandleServerStep(m)
      BY <2>3
    <3>2. m.atxn \in Atxn
      BY DEF CircleMessage
    <3>3. CASE OpenSession(m)
      <4>1. sessions' = Opened(m.atxn)
        BY <2>2, <3>3 DEF OpenSession
      <4>2. PICK off \in {0, 1} :
              /\ off = 1 => Len(sessions) = MaxSessions
              /\ sessions' \in Seq(Session)
              /\ Len(sessions') = Len(sessions) + 1 - off
              /\ \A j \in 1..(Len(sessions') - 1) : sessions'[j] = sessions[j + off]
        BY <3>2, <4>1, OpenedIs DEF CircleInv
      <4>3. k - off \in 1..(Len(sessions') - 1)
        BY <2>1, <4>2
      <4>4. k - off \in DOMAIN sessions' /\ sessions'[k - off] = sessions[k]
        BY <2>1, <4>2, <4>3
      <4> QED BY <4>4
    <3>4. CASE StepSession(m)
      <4>1. Known(m.atxn) /\ sessions' = Drop(m.atxn) /\ ended' = ended \cup {m.atxn}
        BY <2>2, <3>4 DEF StepSession
      <4>2. PICK at \in DOMAIN sessions :
              /\ sessions[at].atxn = m.atxn
              /\ sessions' \in Seq(Session)
              /\ Len(sessions') = Len(sessions) - 1
              /\ \A j \in 1..(Len(sessions) - 1) :
                    sessions'[j] = IF j < at THEN sessions[j] ELSE sessions[j + 1]
        BY <3>2, <4>1, DropIs DEF CircleInv
      <4>3. DOMAIN sessions' = 1..(Len(sessions) - 1)
        BY <2>1, <4>2
      <4>4. CASE k = at
        BY <4>1, <4>2, <4>4 DEF CircleInv, SessionInv
      <4>5. CASE k < at
        <5>1. k \in DOMAIN sessions' /\ sessions'[k] = sessions[k]
          BY <2>1, <4>2, <4>3, <4>5
        <5> QED BY <5>1
      <4>6. CASE k > at
        <5>1. k - 1 \in DOMAIN sessions' /\ sessions'[k - 1] = sessions[k]
          BY <2>1, <4>2, <4>3, <4>6
        <5> QED BY <5>1
      <4> QED BY <2>1, <4>4, <4>5, <4>6
    <3> QED BY <3>1, <3>3, <3>4 DEF HandleServerStep
  <2>4. CASE \E t \in Txn : ApproveCircle(t)
    <3>1. k \in DOMAIN sessions' /\ sessions'[k].atxn = sessions[k].atxn
      BY <2>1, <2>4 DEF ApproveCircle, Session
    <3> QED BY <3>1
  <2> QED BY <2>2, <2>3, <2>4 DEF CircleNext, BeginClient, HandleClientStep, RunApproval
<1> QED BY <1>1, CircleInvariance, PTL DEF CircleSpec, WaitingKept

-----------------------------------------------------------------------------
(* The loop, its queue and the retry tasks. *)

(* The loop's first emission of a key is still to come. *)
Pending(k) == loop = "emit" /\ k = Len(given)

(* What the loop holds between taking a message and emitting its key. *)
HandInv ==
    /\ loop = "insert" => hand \in AppMessage
    /\ loop = "emit" => Len(given) > 0

(* How the emissions of key k keep up with its task's count. *)
TaskInv(k) ==
    /\ task[k] = "sleep" =>
          /\ retry[k] <= MaxRetry /\ emitted[k] >= retry[k]
          /\ emitted[k] <= retry[k] + 1 /\ (Pending(k) => emitted[k] <= retry[k])
    /\ task[k] = "emit" =>
          /\ 0 < retry[k] /\ retry[k] <= MaxRetry /\ emitted[k] + 1 >= retry[k]
          /\ emitted[k] <= retry[k] /\ (Pending(k) => emitted[k] + 1 <= retry[k])
    /\ task[k] = "drop" => retry[k] = MaxRetry + 1 /\ emitted[k] >= MaxRetry
    /\ task[k] \in {"drop", "done"} => (Pending(k) => emitted[k] <= MaxRetry)
    /\ task[k] = "done" => k \notin queued

QueueInv ==
    /\ AtLeastOnce
    /\ \A k \in DOMAIN given : TaskInv(k)
    /\ completed \cap queued = {}

Inv == TypeOK /\ HandInv /\ QueueInv

Message == AppMessage \cup {Nothing}

(* The loop before its first message satisfies Inv. *)
LEMMA InitInv == Init => Inv
<1> SUFFICES ASSUME Init PROVE Inv
  OBVIOUS
<1> USE DaemonAssumption DEF Init
<1>1. TypeOK
  <2>1. stop \in BOOLEAN
    OBVIOUS
  <2>2. stops \in 0..MaxStops /\ inputs \in 0..MaxInputs /\ Len(local) <= LocalCap
    OBVIOUS
  <2> QED BY <2>1, <2>2 DEF TypeOK
<1>2. HandInv /\ QueueInv
  BY DEF HandInv, QueueInv, AtLeastOnce
<1> QED BY <1>1, <1>2 DEF Inv

(* What recv_wait makes of a push, asking the clients in order, is a message or nothing. *)
LEMMA DispatchedType ==
    ASSUME NEW m \in Push
    PROVE  Dispatched(m) \in Message
<1> DEFINE ends == {n \in DOMAIN Asked : Ends(Asked[n], Reply[m][Asked[n]])}
           c == Asked[CHOOSE n \in ends : \A j \in ends : n <= j]
<1>1. CASE ends = {} \/ Reply[m][c] # "take"
  BY <1>1 DEF Dispatched, Message
<1>2. CASE ends # {} /\ Reply[m][c] = "take"
  <2>1. PICK n \in ends : \A j \in ends : n <= j
    <3>1. ends \subseteq 1..6
      BY DEF Asked
    <3> HIDE DEF ends
    <3>2. \A i \in 1..6 : i \in ends => \E n \in ends : \A j \in ends : n <= j
      BY <3>1
    <3> QED BY <1>2, <3>1, <3>2
  <2>2. (CHOOSE i \in ends : \A j \in ends : i <= j) \in ends
    BY <2>1
  <2>3. c \in ImClient \ {"passwords"}
    <3>1. \A i \in ends : Asked[i] \in ImClient \ {"passwords"}
      BY DEF Asked, Ends, ImClient
    <3> HIDE DEF ends
    <3> QED BY <2>2, <3>1
  <2>4. KindOf[c] \in Kind
    <3> HIDE DEF c
    <3> QED BY <2>3 DEF KindOf, Kind, ImClient
  <2>5. Dispatched(m) = Msg(KindOf[c], m)
    BY <1>2 DEF Dispatched
  <2> QED BY <2>4, <2>5 DEF Msg, AppMessage, Message
<1> QED BY <1>1, <1>2

(* Where the loop goes on after recv_wait is a state of the loop. *)
LEMMA ReturnType ==
    ASSUME NEW msg \in Message, Return(msg)
    PROVE  loop' \in {"poll", "insert"} /\ hand' \in Message /\ (loop' = "insert" => hand' \in AppMessage)
BY DEF Return, Message

(* A send to the loop's own channel leaves channel and loop typed. *)
LEMMA SendLocalType ==
    ASSUME TypeOK, NEW msg \in AppMessage, NEW then \in Message, SendLocal(msg, then)
    PROVE  /\ local' \in Seq(AppMessage) /\ Len(local') <= LocalCap
           /\ loop' \in {"poll", "insert", "wedged"} /\ hand' \in Message
           /\ loop' = "insert" => hand' \in AppMessage
<1>1. /\ local \in Seq(AppMessage) /\ Len(local) \in Nat /\ Len(local) <= LocalCap
      /\ LocalCap \in Nat /\ hand \in Message
  BY DaemonAssumption DEF TypeOK, Message
<1>2. CASE Len(local) < LocalCap
  <2>1. local' = Append(local, msg) /\ Return(then)
    BY <1>2 DEF SendLocal
  <2> QED BY <1>1, <1>2, <2>1, ReturnType
<1>3. CASE ~(Len(local) < LocalCap)
  BY <1>1, <1>3 DEF SendLocal
<1> QED BY <1>2, <1>3

(* So do the sends of the pending albums of a push. *)
LEMMA SendAlbumsType ==
    ASSUME TypeOK, NEW m \in Push, SendAlbums(m)
    PROVE  /\ local' \in Seq(AppMessage) /\ Len(local') <= LocalCap
           /\ loop' \in {"poll", "insert", "wedged"} /\ hand' \in Message
           /\ loop' = "insert" => hand' \in AppMessage
<1> DEFINE room == LocalCap - Len(local)
           sent == IF Albums[m] <= room THEN Albums[m] ELSE room
           new == [i \in 1..sent |-> Msg("album", m)]
<1>1. /\ local \in Seq(AppMessage) /\ Len(local) \in Nat /\ Len(local) <= LocalCap
      /\ LocalCap \in Nat /\ Albums[m] \in Nat /\ hand \in Message
  BY DaemonAssumption DEF TypeOK, Message
<1>2. sent \in Nat /\ Len(local) + sent <= LocalCap
  BY <1>1
<1>3. Msg("album", m) \in AppMessage /\ Dispatched(m) \in Message
  BY DispatchedType DEF Msg, AppMessage
<1>4. /\ local' = local \o new
      /\ Return(Dispatched(m)) \/ (loop' = "wedged" /\ hand' = hand)
  BY DEF SendAlbums
<1> HIDE DEF sent
<1>5. new \in Seq(AppMessage) /\ Len(new) = sent
  BY <1>2, <1>3
<1> HIDE DEF new
<1>6. local' \in Seq(AppMessage) /\ Len(local') <= LocalCap
  BY <1>1, <1>2, <1>4, <1>5
<1> QED BY <1>1, <1>3, <1>4, <1>6, ReturnType

(* A step that leaves the queue alone and does not come to an emission. *)
LEMMA LoopInv ==
    ASSUME Inv, UNCHANGED queueVars,
           loop' = loop \/ loop' \in {"poll", "insert", "wedged", "stopped"},
           loop' = "insert" => hand' \in AppMessage,
           hand' \in Message,
           arriving' \subseteq Push \cup RegState,
           local' \in Seq(AppMessage) /\ Len(local') <= LocalCap,
           sending' \subseteq Sent, confirmed' \subseteq Sent, crashed' \subseteq Sent,
           stop' \in BOOLEAN, stops' \in 0..MaxStops, inputs' \in 0..MaxInputs
    PROVE  Inv'
<1>1. TypeOK'
  BY DEF Inv, TypeOK, queueVars, Message
<1>2. HandInv'
  BY DEF Inv, HandInv, queueVars
<1>3. QueueInv'
  <2>1. \A k \in DOMAIN given : TaskInv(k)'
    BY DEF Inv, QueueInv, TaskInv, Pending, queueVars
  <2> QED BY <2>1 DEF Inv, QueueInv, AtLeastOnce, queueVars
<1> QED BY <1>1, <1>2, <1>3 DEF Inv

(* Each way recv_wait can return, and its end on a request to stop, keeps Inv. *)
LEMMA RecvInv ==
    ASSUME Inv,
           \/ \E m \in Push : RecvPush(m)
           \/ \E m \in CircleMessage : RecvCircle(m)
           \/ \E done \in BOOLEAN : RecvClientStep(done)
           \/ RecvRegState \/ RecvLocal \/ RecvStop
    PROVE  Inv'
<1>1. TypeOK /\ loop \in {"poll", "insert", "emit", "wedged", "stopped"} /\ hand \in Message
  BY DEF Inv, TypeOK, Message
<1>2. /\ arriving \subseteq Push \cup RegState
      /\ local \in Seq(AppMessage) /\ Len(local) <= LocalCap
      /\ sending \subseteq Sent /\ confirmed \subseteq Sent /\ crashed \subseteq Sent
      /\ stop \in BOOLEAN /\ stops \in 0..MaxStops /\ inputs \in 0..MaxInputs
  BY DEF Inv, TypeOK
<1>3. Input => inputs' \in 0..MaxInputs
  BY <1>2, DaemonAssumption DEF Input
<1>4. Nothing \in Message
  BY DEF Message
<1>5. CASE \E m \in Push : RecvPush(m)
  <2>1. PICK m \in Push : RecvPush(m)
    BY <1>5
  <2>2. Dispatched(m) \in Message /\ Msg("album", m) \in AppMessage
    BY DispatchedType DEF Msg, AppMessage
  <2>3. /\ local' \in Seq(AppMessage) /\ Len(local') <= LocalCap
        /\ loop' \in {"poll", "insert", "wedged"} /\ hand' \in Message
        /\ loop' = "insert" => hand' \in AppMessage
    <3>1. \/ SendAlbums(m)
          \/ Return(Dispatched(m)) /\ UNCHANGED local
          \/ Return(Nothing) /\ UNCHANGED local
      BY <2>1 DEF RecvPush
    <3> QED BY <1>1, <1>2, <1>4, <2>2, <3>1, ReturnType, SendAlbumsType
  <2>4. /\ UNCHANGED <<sending, stop, stops, queueVars, confirmed, crashed>>
        /\ loop = "poll" /\ arriving' \subseteq arriving /\ Input
    BY <2>1 DEF RecvPush, Polling
  <2> QED BY <1>2, <1>3, <2>3, <2>4, LoopInv
<1>6. CASE \E m \in CircleMessage : RecvCircle(m)
  <2>1. PICK m \in CircleMessage : RecvCircle(m)
    BY <1>6
  <2> DEFINE prompt == IF m.signin THEN Msg("circle", m.atxn) ELSE Nothing
  <2>2. prompt \in Message /\ Msg("twofa", m.atxn) \in AppMessage
    BY DEF Msg, AppMessage, Message, CircleMessage
  <2>3. /\ local' \in Seq(AppMessage) /\ Len(local') <= LocalCap
        /\ loop' \in {"poll", "insert", "wedged"} /\ hand' \in Message
        /\ loop' = "insert" => hand' \in AppMessage
    <3>1. \/ SendLocal(Msg("twofa", m.atxn), prompt)
          \/ Return(prompt) /\ UNCHANGED local
      BY <2>1 DEF RecvCircle
    <3> HIDE DEF prompt
    <3> QED BY <1>1, <1>2, <2>2, <3>1, ReturnType, SendLocalType
  <2>4. /\ UNCHANGED <<arriving, sending, stop, stops, queueVars, confirmed, crashed>>
        /\ loop = "poll" /\ (Input \/ UNCHANGED inputs)
    BY <2>1 DEF RecvCircle, Polling
  <2> QED BY <1>2, <1>3, <2>3, <2>4, LoopInv
<1>7. CASE \E done \in BOOLEAN : RecvClientStep(done)
  <2>1. PICK done \in BOOLEAN : RecvClientStep(done)
    BY <1>7
  <2>2. Msg("finish", Nothing) \in AppMessage
    BY DEF Msg, AppMessage
  <2>3. /\ local' \in Seq(AppMessage) /\ Len(local') <= LocalCap
        /\ loop' \in {"poll", "insert", "wedged"} /\ hand' \in Message
        /\ loop' = "insert" => hand' \in AppMessage
    <3>1. \/ SendLocal(Msg("finish", Nothing), Nothing)
          \/ Return(Nothing) /\ UNCHANGED local
      BY <2>1 DEF RecvClientStep
    <3> QED BY <1>1, <1>2, <1>4, <2>2, <3>1, ReturnType, SendLocalType
  <2>4. /\ UNCHANGED <<arriving, sending, stop, stops, queueVars, confirmed, crashed, inputs>>
        /\ loop = "poll"
    BY <2>1 DEF RecvClientStep, Polling
  <2> QED BY <1>2, <2>3, <2>4, LoopInv
<1>8. CASE RecvRegState
  <2>1. Msg("registration", Nothing) \in AppMessage
    BY DEF Msg, AppMessage
  <2>2. loop' \in {"poll", "insert"} /\ hand' \in Message /\ (loop' = "insert" => hand' \in AppMessage)
    BY <1>8, <2>1, ReturnType DEF RecvRegState, Message
  <2>3. /\ UNCHANGED <<local, sending, stop, stops, queueVars, confirmed, crashed>>
        /\ arriving' \subseteq arriving /\ Input /\ loop = "poll"
    BY <1>8 DEF RecvRegState, Polling
  <2> QED BY <1>2, <1>3, <2>2, <2>3, LoopInv
<1>9. CASE RecvLocal
  <2>1. Head(local) \in AppMessage /\ Tail(local) \in Seq(AppMessage) /\ Len(Tail(local)) <= LocalCap
    BY <1>2, <1>9, DaemonAssumption DEF RecvLocal
  <2>2. loop' \in {"poll", "insert"} /\ hand' \in Message /\ (loop' = "insert" => hand' \in AppMessage)
    <3>1. Return(Nothing) \/ Return(Head(local))
      BY <1>9 DEF RecvLocal
    <3>2. Head(local) \in Message
      BY <2>1 DEF Message
    <3> QED BY <1>4, <3>1, <3>2, ReturnType
  <2>3. /\ UNCHANGED <<arriving, sending, stop, stops, queueVars, confirmed, crashed, inputs>>
        /\ local' = Tail(local) /\ loop = "poll"
    BY <1>9 DEF RecvLocal, Polling
  <2> QED BY <1>2, <2>1, <2>2, <2>3, LoopInv
<1>10. CASE RecvStop
  <2>1. UNCHANGED <<arriving, local, sending, hand, stops, queueVars, confirmed, crashed, inputs>>
    BY <1>10 DEF RecvStop
  <2>2. stop' \in BOOLEAN /\ loop' = "stopped"
    BY <1>10 DEF RecvStop
  <2> QED BY <1>1, <1>2, <2>1, <2>2, LoopInv
<1> QED BY <1>5, <1>6, <1>7, <1>8, <1>9, <1>10

(* The steps that touch neither queue nor retry tasks keep Inv. *)
LEMMA OtherInv ==
    ASSUME Inv,
           \/ \E u \in Sent : Send(u) \/ SendConfirm(u) \/ SendCrashes(u)
           \/ CancelPoll \/ StartLoop
           \/ BeginClient /\ Input /\ UNCHANGED <<loopVars, queueVars>>
           \/ UNCHANGED daemonVars
    PROVE  Inv'
<1>1. /\ TypeOK /\ loop \in {"poll", "insert", "emit", "wedged", "stopped"} /\ hand \in Message
      /\ loop = "insert" => hand \in AppMessage
  BY DEF Inv, TypeOK, Message, HandInv
<1>2. /\ arriving \subseteq Push \cup RegState
      /\ local \in Seq(AppMessage) /\ Len(local) <= LocalCap
      /\ sending \subseteq Sent /\ confirmed \subseteq Sent /\ crashed \subseteq Sent
      /\ stop \in BOOLEAN /\ stops \in 0..MaxStops /\ inputs \in 0..MaxInputs
  BY DEF Inv, TypeOK
<1>3. Input => inputs' \in 0..MaxInputs
  BY <1>2, DaemonAssumption DEF Input
<1>4. CASE \E u \in Sent : Send(u)
  <2>1. /\ UNCHANGED <<arriving, local, loop, hand, stop, stops, queueVars, confirmed, crashed>>
        /\ sending' \subseteq Sent /\ Input
    BY <1>2, <1>4 DEF Send
  <2> QED BY <1>1, <1>2, <1>3, <2>1, LoopInv
<1>5. CASE \E u \in Sent : SendConfirm(u)
  <2>1. PICK u \in Sent : SendConfirm(u)
    BY <1>5
  <2>2. Msg("confirm", u) \in AppMessage
    BY DEF Msg, AppMessage
  <2>3. local' \in Seq(AppMessage) /\ Len(local') <= LocalCap
    BY <1>2, <2>1, <2>2, DaemonAssumption DEF SendConfirm
  <2>4. /\ UNCHANGED <<arriving, loop, hand, stop, stops, queueVars, crashed, inputs>>
        /\ sending' \subseteq Sent /\ confirmed' \subseteq Sent
    BY <1>2, <2>1 DEF SendConfirm
  <2> QED BY <1>1, <1>2, <2>3, <2>4, LoopInv
<1>5a. CASE \E u \in Sent : SendCrashes(u)
  <2>1. /\ UNCHANGED <<arriving, local, loop, hand, stop, stops, queueVars, confirmed, inputs>>
        /\ sending' \subseteq Sent /\ crashed' \subseteq Sent
    BY <1>2, <1>5a DEF SendCrashes
  <2> QED BY <1>1, <1>2, <2>1, LoopInv
<1>6. CASE CancelPoll
  <2>1. stop' \in BOOLEAN
    BY <1>6 DEF CancelPoll
  <2>2. stops' \in 0..MaxStops
    BY <1>2, <1>6, DaemonAssumption DEF CancelPoll
  <2>3. UNCHANGED <<arriving, local, sending, loop, hand, queueVars, confirmed, crashed, inputs>>
    BY <1>6 DEF CancelPoll
  <2> QED BY <1>1, <1>2, <2>1, <2>2, <2>3, LoopInv
<1>7. CASE StartLoop
  <2>1. /\ UNCHANGED <<arriving, local, sending, stop, stops, queueVars, confirmed, crashed, inputs>>
        /\ loop' = "poll" /\ hand' \in Message
    BY <1>7 DEF StartLoop, Message
  <2> QED BY <1>2, <2>1, LoopInv
<1>8. CASE BeginClient /\ Input /\ UNCHANGED <<loopVars, queueVars>>
  <2>1. UNCHANGED <<arriving, local, sending, loop, hand, stop, stops, confirmed, crashed, queueVars>>
    BY <1>8 DEF loopVars
  <2> QED BY <1>1, <1>2, <1>3, <1>8, <2>1, LoopInv
<1>9. CASE UNCHANGED daemonVars
  <2>1. UNCHANGED <<arriving, local, sending, loop, hand, stop, stops, confirmed, crashed, queueVars, inputs>>
    BY <1>9 DEF daemonVars, loopVars
  <2> QED BY <1>1, <1>2, <2>1, LoopInv
<1> QED BY <1>4, <1>5, <1>5a, <1>6, <1>7, <1>8, <1>9

(* The facts about sequences the steps on the queue need. *)
LEMMA QueueType ==
    ASSUME Inv
    PROVE  /\ given \in Seq(AppMessage) /\ Len(given) \in Nat /\ DOMAIN given = 1..Len(given)
           /\ DOMAIN task = 1..Len(given) /\ DOMAIN retry = 1..Len(given)
           /\ DOMAIN emitted = 1..Len(given)
           /\ \A k \in DOMAIN given :
                 /\ task[k] \in {"sleep", "emit", "drop", "done"}
                 /\ retry[k] \in 0..(MaxRetry + 1) /\ emitted[k] \in 0..(MaxRetry + 1)
           /\ MaxRetry \in Nat \ {0}
           /\ queued \subseteq DOMAIN given /\ completed \subseteq DOMAIN given
           /\ fetched \subseteq DOMAIN given
<1>1. /\ given \in Seq(AppMessage) /\ task \in Seq({"sleep", "emit", "drop", "done"})
      /\ retry \in Seq(0..(MaxRetry + 1)) /\ emitted \in Seq(0..(MaxRetry + 1))
      /\ Len(task) = Len(given) /\ Len(retry) = Len(given) /\ Len(emitted) = Len(given)
      /\ queued \subseteq DOMAIN given /\ completed \subseteq DOMAIN given
      /\ fetched \subseteq DOMAIN given
  BY DEF Inv, TypeOK
<1>2. MaxRetry \in Nat \ {0}
  BY DaemonAssumption
<1> QED BY <1>1, <1>2

(* Putting a message in the queue and starting its task keeps Inv. *)
LEMMA InsertInv ==
    ASSUME Inv, Insert
    PROVE  Inv'
<1> DEFINE new == Len(given) + 1
<1> USE QueueType
<1>1. /\ loop = "insert" /\ loop' = "emit" /\ hand \in AppMessage
      /\ given' = Append(given, hand) /\ queued' = queued \cup {new}
      /\ task' = Append(task, "sleep") /\ retry' = Append(retry, 0) /\ emitted' = Append(emitted, 0)
      /\ UNCHANGED <<arriving, local, sending, hand, stop, stops, fetched, completed, confirmed, crashed, inputs>>
  BY DEF Insert, Inv, HandInv
<1>2. /\ given' \in Seq(AppMessage) /\ Len(given') = new /\ DOMAIN given' = 1..new
      /\ task' \in Seq({"sleep", "emit", "drop", "done"}) /\ Len(task') = new
      /\ retry' \in Seq(0..(MaxRetry + 1)) /\ Len(retry') = new
      /\ emitted' \in Seq(0..(MaxRetry + 1)) /\ Len(emitted') = new
  BY <1>1 DEF Inv, TypeOK
<1>3. /\ \A k \in DOMAIN given : task'[k] = task[k] /\ retry'[k] = retry[k] /\ emitted'[k] = emitted[k]
      /\ task'[new] = "sleep" /\ retry'[new] = 0 /\ emitted'[new] = 0
  BY <1>1 DEF Inv, TypeOK
<1>4. TypeOK'
  <2>1. /\ queued' \subseteq DOMAIN given' /\ fetched' \subseteq DOMAIN given'
        /\ completed' \subseteq DOMAIN given'
    BY <1>1, <1>2
  <2>2. /\ Len(task') = Len(given') /\ Len(retry') = Len(given') /\ Len(emitted') = Len(given')
    BY <1>2
  <2> HIDE QueueType
  <2> QED BY <1>1, <1>2, <2>1, <2>2 DEF Inv, TypeOK
<1>5. HandInv'
  BY <1>1, <1>2 DEF HandInv
<1>6. AtLeastOnce'
  <2> SUFFICES ASSUME NEW k \in DOMAIN given',
                      k \notin queued'
               PROVE  k \in completed' \/ (retry'[k] > MaxRetry /\ emitted'[k] >= MaxRetry)
    BY DEF AtLeastOnce
  <2>1. k \in DOMAIN given /\ k \notin queued
    BY <1>1, <1>2
  <2>2. k \in completed \/ (retry[k] > MaxRetry /\ emitted[k] >= MaxRetry)
    BY <2>1 DEF Inv, QueueInv, AtLeastOnce
  <2> QED BY <1>1, <1>3, <2>1, <2>2
<1>7. \A k \in DOMAIN given' : TaskInv(k)'
  <2> SUFFICES ASSUME NEW k \in DOMAIN given' PROVE TaskInv(k)'
    OBVIOUS
  <2>1. CASE k = new
    BY <1>1, <1>2, <1>3, <2>1 DEF TaskInv, Pending
  <2>2. CASE k \in DOMAIN given
    <3>1. TaskInv(k) /\ ~Pending(k)' /\ (k \in queued' <=> k \in queued)
      BY <1>1, <1>2, <2>2 DEF Pending, Inv, QueueInv
    <3>2. task'[k] = task[k] /\ retry'[k] = retry[k] /\ emitted'[k] = emitted[k]
      BY <1>3, <2>2
    <3> QED BY <3>1, <3>2 DEF TaskInv
  <2> QED BY <1>2, <2>1, <2>2
<1>8. completed' \cap queued' = {}
  BY <1>1 DEF Inv, QueueInv
<1> QED BY <1>4, <1>5, <1>6, <1>7, <1>8 DEF Inv, QueueInv

(* A step on the task, the count or the emissions of key k alone. *)
LEMMA KeyInv ==
    ASSUME Inv, NEW k \in DOMAIN given,
           UNCHANGED <<arriving, local, sending, stop, stops, given, fetched, completed,
                       confirmed, crashed, inputs>>,
           (loop' = loop /\ hand' = hand) \/ (loop' = "poll" /\ hand' = Nothing /\ k = Len(given)),
           task' \in Seq({"sleep", "emit", "drop", "done"}), Len(task') = Len(given),
           retry' \in Seq(0..(MaxRetry + 1)), Len(retry') = Len(given),
           emitted' \in Seq(0..(MaxRetry + 1)), Len(emitted') = Len(given),
           \A j \in DOMAIN given : j # k =>
               task'[j] = task[j] /\ retry'[j] = retry[j] /\ emitted'[j] = emitted[j],
           queued' \subseteq queued, queued \subseteq queued' \cup {k},
           k \in queued' \/ k \in completed \/ (retry'[k] > MaxRetry /\ emitted'[k] >= MaxRetry),
           TaskInv(k)'
    PROVE  Inv'
<1>1. TypeOK'
  BY DEF Inv, TypeOK
<1>2. HandInv'
  BY DEF Inv, HandInv
<1>3. AtLeastOnce'
  <2> SUFFICES ASSUME NEW j \in DOMAIN given
               PROVE  j \in queued' \/ j \in completed \/ (retry'[j] > MaxRetry /\ emitted'[j] >= MaxRetry)
    BY DEF AtLeastOnce
  <2>1. j \in queued \/ j \in completed \/ (retry[j] > MaxRetry /\ emitted[j] >= MaxRetry)
    BY DEF Inv, QueueInv, AtLeastOnce
  <2> QED BY <2>1
<1>4. \A j \in DOMAIN given' : TaskInv(j)'
  <2> SUFFICES ASSUME NEW j \in DOMAIN given, j # k PROVE TaskInv(j)'
    OBVIOUS
  <2>1. TaskInv(j) /\ (Pending(j)' => Pending(j)) /\ (j \in queued' => j \in queued)
    BY DEF Inv, QueueInv, Pending
  <2>2. task'[j] = task[j] /\ retry'[j] = retry[j] /\ emitted'[j] = emitted[j]
    OBVIOUS
  <2> QED BY <2>1, <2>2 DEF TaskInv
<1>5. completed' \cap queued' = {}
  BY DEF Inv, QueueInv
<1> QED BY <1>1, <1>2, <1>3, <1>4, <1>5 DEF Inv, QueueInv

(* The loop's first emission of a key keeps Inv. *)
LEMMA EmitInv ==
    ASSUME Inv, Emit
    PROVE  Inv'
<1> DEFINE k == Len(given)
<1> USE QueueType
<1>1. /\ loop = "emit" /\ loop' = "poll" /\ hand' = Nothing
      /\ emitted' = [emitted EXCEPT ![k] = @ + 1]
      /\ UNCHANGED <<arriving, local, sending, stop, stops, queued, given, task, retry,
                     fetched, completed, confirmed, crashed, inputs>>
  BY DEF Emit
<1>2. k \in DOMAIN given /\ Pending(k) /\ TaskInv(k) /\ ~Pending(k)'
  BY <1>1 DEF Inv, HandInv, QueueInv, Pending
<1>3. emitted[k] <= MaxRetry /\ emitted'[k] = emitted[k] + 1
  BY <1>1, <1>2 DEF TaskInv
<1>4. emitted' \in Seq(0..(MaxRetry + 1)) /\ Len(emitted') = k
  BY <1>1, <1>2, <1>3 DEF Inv, TypeOK
<1>5. TaskInv(k)'
  BY <1>1, <1>2, <1>3 DEF TaskInv
<1>6. k \in queued' \/ k \in completed \/ (retry'[k] > MaxRetry /\ emitted'[k] >= MaxRetry)
  BY <1>1, <1>2, <1>3 DEF Inv, QueueInv, AtLeastOnce
<1>7. /\ task' \in Seq({"sleep", "emit", "drop", "done"}) /\ Len(task') = Len(given)
      /\ retry' \in Seq(0..(MaxRetry + 1)) /\ Len(retry') = Len(given)
  BY <1>1 DEF Inv, TypeOK
<1> QED BY <1>1, <1>2, <1>4, <1>5, <1>6, <1>7, KeyInv

(* The three steps of a retry task keep Inv. *)
LEMMA TaskInvStep ==
    ASSUME Inv, NEW k \in DOMAIN given, TaskStep(k)
    PROVE  Inv'
<1> USE QueueType
<1>1. /\ UNCHANGED <<arriving, local, sending, loop, hand, stop, stops, given, fetched,
                     completed, confirmed, crashed, inputs>>
      /\ Pending(k)' <=> Pending(k)
  BY DEF TaskStep, TaskWake, TaskEmit, TaskDrop, taskFrame, Pending
<1>2. /\ TaskInv(k)
      /\ k \in queued \/ k \in completed \/ (retry[k] > MaxRetry /\ emitted[k] >= MaxRetry)
  BY DEF Inv, QueueInv, AtLeastOnce
<1>3. /\ task \in Seq({"sleep", "emit", "drop", "done"}) /\ Len(task) = Len(given)
      /\ retry \in Seq(0..(MaxRetry + 1)) /\ Len(retry) = Len(given)
      /\ emitted \in Seq(0..(MaxRetry + 1)) /\ Len(emitted) = Len(given)
  BY DEF Inv, TypeOK
<1>4. CASE TaskWake(k)
  <2>1. /\ task[k] = "sleep"
        /\ retry' = [retry EXCEPT ![k] = IF k \in queued THEN @ + 1 ELSE @]
        /\ task' = [task EXCEPT ![k] =
                       IF k \notin queued THEN "done"
                       ELSE IF retry[k] + 1 > MaxRetry THEN "drop" ELSE "emit"]
        /\ UNCHANGED <<queued, emitted>>
    BY <1>4 DEF TaskWake
  <2>2. /\ retry'[k] = (IF k \in queued THEN retry[k] + 1 ELSE retry[k])
        /\ task'[k] = (IF k \notin queued THEN "done"
                       ELSE IF retry[k] + 1 > MaxRetry THEN "drop" ELSE "emit")
        /\ retry[k] <= MaxRetry
    BY <1>2, <2>1 DEF TaskInv
  <2>3. /\ task' \in Seq({"sleep", "emit", "drop", "done"}) /\ Len(task') = Len(given)
        /\ retry' \in Seq(0..(MaxRetry + 1)) /\ Len(retry') = Len(given)
    BY <1>3, <2>1, <2>2
  <2>4. TaskInv(k)'
    BY <1>1, <1>2, <2>1, <2>2 DEF TaskInv
  <2>5. k \in queued' \/ k \in completed \/ (retry'[k] > MaxRetry /\ emitted'[k] >= MaxRetry)
    BY <1>2, <2>1, <2>2
  <2> QED BY <1>1, <1>3, <2>1, <2>3, <2>4, <2>5, KeyInv
<1>5. CASE TaskEmit(k)
  <2>1. /\ task[k] = "emit"
        /\ task' = [task EXCEPT ![k] = "sleep"]
        /\ emitted' = [emitted EXCEPT ![k] = @ + 1]
        /\ UNCHANGED <<queued, retry>>
    BY <1>5 DEF TaskEmit
  <2>2. task'[k] = "sleep" /\ emitted'[k] = emitted[k] + 1 /\ emitted[k] <= MaxRetry
    BY <1>2, <2>1 DEF TaskInv
  <2>3. /\ task' \in Seq({"sleep", "emit", "drop", "done"}) /\ Len(task') = Len(given)
        /\ emitted' \in Seq(0..(MaxRetry + 1)) /\ Len(emitted') = Len(given)
    BY <1>3, <2>1, <2>2
  <2>4. TaskInv(k)'
    BY <1>1, <1>2, <2>1, <2>2 DEF TaskInv
  <2>5. k \in queued' \/ k \in completed \/ (retry'[k] > MaxRetry /\ emitted'[k] >= MaxRetry)
    BY <1>2, <2>1, <2>2
  <2> QED BY <1>1, <1>3, <2>1, <2>3, <2>4, <2>5, KeyInv
<1>6. CASE TaskDrop(k)
  <2>1. /\ task[k] = "drop"
        /\ task' = [task EXCEPT ![k] = "done"]
        /\ queued' = queued \ {k}
        /\ UNCHANGED <<retry, emitted>>
    BY <1>6 DEF TaskDrop
  <2>2. task'[k] = "done" /\ retry[k] = MaxRetry + 1 /\ emitted[k] >= MaxRetry
    BY <1>2, <2>1 DEF TaskInv
  <2>3. task' \in Seq({"sleep", "emit", "drop", "done"}) /\ Len(task') = Len(given)
    BY <1>3, <2>1
  <2>4. TaskInv(k)'
    BY <1>1, <1>2, <2>1, <2>2 DEF TaskInv
  <2>5. /\ \A j \in DOMAIN given : j # k => task'[j] = task[j]
        /\ queued' \subseteq queued /\ queued \subseteq queued' \cup {k}
        /\ retry'[k] > MaxRetry /\ emitted'[k] >= MaxRetry
    BY <1>3, <2>1, <2>2
  <2> QED BY <1>1, <1>3, <2>1, <2>3, <2>4, <2>5, KeyInv
<1> QED BY <1>4, <1>5, <1>6 DEF TaskStep

(* The app taking and completing a message keeps Inv. *)
LEMMA AppInv ==
    ASSUME Inv, NEW k \in DOMAIN given, PtrToDart(k) \/ CompleteMsg(k)
    PROVE  Inv'
<1> USE QueueType
<1>1. UNCHANGED <<arriving, local, sending, loop, hand, stop, stops, given, task, retry,
                  emitted, confirmed, crashed, inputs>>
  BY DEF PtrToDart, CompleteMsg, appFrame
<1>2. /\ fetched' \subseteq fetched \cup {k} /\ queued' \subseteq queued
      /\ completed \subseteq completed' /\ completed' \subseteq DOMAIN given
      /\ queued \subseteq queued' \cup completed' /\ completed' \cap queued' = {}
  BY DEF PtrToDart, CompleteMsg, Inv, QueueInv
<1>3. TypeOK'
  BY <1>1, <1>2 DEF Inv, TypeOK
<1>4. HandInv'
  BY <1>1 DEF Inv, HandInv
<1>5. AtLeastOnce'
  BY <1>1, <1>2 DEF Inv, QueueInv, AtLeastOnce
<1>6. \A j \in DOMAIN given' : TaskInv(j)'
  <2> SUFFICES ASSUME NEW j \in DOMAIN given PROVE TaskInv(j)'
    BY <1>1
  <2>1. TaskInv(j) /\ (Pending(j)' <=> Pending(j)) /\ (j \in queued' => j \in queued)
    BY <1>1, <1>2 DEF Inv, QueueInv, Pending
  <2> QED BY <1>1, <2>1 DEF TaskInv
<1> QED BY <1>2, <1>3, <1>4, <1>5, <1>6 DEF Inv, QueueInv

(* Every step of the daemon keeps Inv. *)
LEMMA StepInv == Inv /\ [Next]_vars => Inv'
<1> SUFFICES ASSUME Inv, [Next]_vars PROVE Inv'
  OBVIOUS
<1>1. CASE LoopStep
  BY <1>1, RecvInv, InsertInv, EmitInv DEF LoopStep
<1>2. CASE \E k \in DOMAIN given : TaskStep(k) \/ PtrToDart(k) \/ CompleteMsg(k)
  BY <1>2, TaskInvStep, AppInv
<1>3. CASE \/ \E u \in Sent : Send(u) \/ SendConfirm(u) \/ SendCrashes(u)
           \/ CancelPoll \/ StartLoop
           \/ BeginClient /\ Input /\ UNCHANGED <<loopVars, queueVars>>
           \/ UNCHANGED daemonVars
  BY <1>3, OtherInv
<1>4. UNCHANGED vars => UNCHANGED daemonVars
  BY DEF vars
<1> QED BY <1>1, <1>2, <1>3, <1>4 DEF Next

(* The inductive invariant of the loop, its queue and the retry tasks holds in
   every reachable state. *)
THEOREM Invariance == Spec => []Inv
BY InitInv, StepInv, PTL DEF Spec

(* Every variable keeps its type: the loop's channel stays within its
   capacity, and neither a task's count nor the number of times the app is
   told of a key passes MaxRetry + 1. *)
THEOREM TypeCorrect == Spec => []TypeOK
<1>1. Inv => TypeOK
  BY DEF Inv
<1> QED BY <1>1, Invariance, PTL

(* For any number of messages and retries: what start_loop queued stays until
   the app completed it or was told of it MaxRetry times or more. *)
THEOREM DeliversAtLeastOnce == Spec => []AtLeastOnce
<1>1. Inv => AtLeastOnce
  BY DEF Inv, QueueInv
<1> QED BY <1>1, Invariance, PTL

(* ptr_to_dart never hands out a message complete_msg was called for. *)
THEOREM NeverAgain == Spec => CompletedForGood
<1>1. Inv /\ [Next]_vars => [\A k \in fetched' \ fetched : k \notin completed]_vars
  <2> SUFFICES ASSUME Inv, Next, NEW k \in fetched' \ fetched PROVE k \notin completed
    OBVIOUS
  <2>1. CASE \E j \in DOMAIN given : PtrToDart(j)
    BY <2>1 DEF PtrToDart, Inv, QueueInv
  <2>2. CASE \E j \in DOMAIN given : TaskStep(j) \/ CompleteMsg(j)
    BY <2>2 DEF TaskStep, TaskWake, TaskEmit, TaskDrop, CompleteMsg, taskFrame
  <2>3. CASE LoopStep
    BY <2>3 DEF LoopStep, RecvPush, RecvCircle, RecvClientStep, RecvRegState, RecvLocal,
                RecvStop, Insert, Emit, queueVars
  <2>4. CASE \/ \E u \in Sent : Send(u) \/ SendConfirm(u) \/ SendCrashes(u)
             \/ CancelPoll \/ StartLoop
             \/ BeginClient /\ Input /\ UNCHANGED <<loopVars, queueVars>>
             \/ UNCHANGED daemonVars
    BY <2>4 DEF Send, SendConfirm, SendCrashes, CancelPoll, StartLoop, queueVars, daemonVars
  <2> QED BY <2>1, <2>2, <2>3, <2>4 DEF Next
<1> QED BY <1>1, Invariance, PTL DEF Spec, CompletedForGood

-----------------------------------------------------------------------------
(* The composition.                                                        *)

(* A step of the daemon is a step of the circle sessions or leaves them. *)
LEMMA CircleStep == [Next]_vars => [CircleNext]_circleVars
<1> SUFFICES ASSUME [Next]_vars PROVE [CircleNext]_circleVars
  OBVIOUS
<1>1. CASE LoopStep
  <2>1. CASE \E m \in CircleMessage : RecvCircle(m)
    BY <2>1 DEF RecvCircle, CircleNext
  <2>2. CASE \E done \in BOOLEAN : RecvClientStep(done)
    BY <2>2 DEF RecvClientStep, CircleNext
  <2>3. CASE \/ \E m \in Push : RecvPush(m)
             \/ RecvRegState \/ RecvLocal \/ RecvStop \/ Insert \/ Emit
    BY <2>3 DEF RecvPush, RecvRegState, RecvLocal, RecvStop, Insert, Emit
  <2> QED BY <1>1, <2>1, <2>2, <2>3 DEF LoopStep
<1>2. CASE \E k \in DOMAIN given : TaskStep(k) \/ PtrToDart(k) \/ CompleteMsg(k)
  BY <1>2 DEF TaskStep, TaskWake, TaskEmit, TaskDrop, PtrToDart, CompleteMsg,
              taskFrame, appFrame
<1>3. CASE \/ \E u \in Sent : Send(u) \/ SendConfirm(u) \/ SendCrashes(u)
           \/ CancelPoll \/ StartLoop
  BY <1>3 DEF Send, SendConfirm, SendCrashes, CancelPoll, StartLoop
<1>4. CASE BeginClient \/ (\E t \in Txn : ApproveCircle(t)) \/ (\E x \in Atxn : RunApproval(x))
  BY <1>4 DEF CircleNext
<1>5. CASE UNCHANGED vars
  BY <1>5 DEF vars
<1> QED BY <1>1, <1>2, <1>3, <1>4, <1>5 DEF Next

(* The daemon implements the circle sessions: whatever the loop, its queue and
   the app do around them, handle_circle and approve_circle see the sessions
   behave as CircleSessions says. *)
THEOREM ImplementsCircle == Spec => CircleSpec
<1>1. Init => CircleInit
  BY DEF Init
<1> QED BY <1>1, CircleStep, PTL DEF Spec, CircleSpec

(* In the daemon, too, an approval is handled by the session it was for unless
   that went, and no waiting sign-in is lost to another one. *)
THEOREM DaemonKeepsCircle == Spec => []RightSession /\ WaitingKept
BY ImplementsCircle, FindsItsSession, KeepsWaiting, PTL
=============================================================================
