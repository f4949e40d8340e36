--------------------------- MODULE KeystoreProofs ---------------------------
(***************************************************************************)
(* Proofs about Keystore: keys stay readable, an install keeps one store,  *)
(* the hardware keeps no test keys, and only a torn write loses a key, for *)
(* every set of keys and any number of crashes and failed writes.          *)
(***************************************************************************)
EXTENDS Keystore, TLAPS

(* The key everything is sealed with. *)
Wrapping == IF host = "desktop" THEN keyFile ELSE 0

Empty == mem = {} /\ \A s \in Store : disk[s] = {}

(* Where each host's start can be. *)
PhaseInv ==
    /\ host = "desktop" => phase \notin {"choose", "check"} /\ store = "soft" /\ exists \subseteq {"soft"}
    /\ host = "mobile" => phase \notin {"key", "write_key"}
    /\ saving # "no" => phase = "up"
    /\ saving = "write" => store \in exists

(* Everything in memory and on disk is sealed with the key of the next start,
   and there is nothing before there is such a key. *)
SealInv ==
    /\ \A s \in Store : \A p \in disk[s] : p[2] = Wrapping
    /\ \A p \in mem : p[2] = Wrapping
    /\ phase \in {"load", "up"} => wrap = Wrapping
    /\ phase \in {"check"} => wrap = 0
    /\ host = "desktop" /\ phase \in {"load", "up"} => keyFile # 0
    /\ phase = "write_key" => keyFile = 0 /\ wrap # 0
    /\ host = "desktop" /\ keyFile = 0 => Empty

(* The file of the store in use is the only one. *)
StoreInv ==
    /\ exists # Store
    /\ phase \in {"load", "up"} => exists \subseteq {store}
    /\ phase = "check" => exists = {}

TestFree == DOMAIN hw \cap TestAlias = {}

(* Test keys are gone before the hardware store is chosen, and the check runs
   only before it is. *)
TestInv ==
    /\ "hard" \in exists => TestFree
    /\ phase \in {"load", "up"} /\ store = "hard" => TestFree
    /\ phase = "check" /\ step = 7 => "test:ec" \notin DOMAIN hw

(* A file that is whole has the keys of the last completed save. *)
SavedInv ==
    /\ exists = {} => saved = {}
    /\ \A s \in exists \ torn : saved \subseteq Names(disk[s])

Inv == TypeOK /\ PhaseInv /\ SealInv /\ StoreInv /\ TestInv /\ SavedInv

(* The states a process can start in satisfy Inv. *)
LEMMA InitInv == Init => Inv
<1> SUFFICES ASSUME Init PROVE Inv
  OBVIOUS
<1> USE KeystoreAssumption DEF Init
<1>1. TypeOK
  <2>1. lock \in BOOLEAN /\ DOMAIN hw = {}
    OBVIOUS
  <2>2. keyFile \in 0..MaxWrap /\ wrap \in 0..MaxWrap /\ drawn \in 0..MaxWrap /\ faults \in 0..MaxFaults
    OBVIOUS
  <2> QED BY <2>1, <2>2 DEF TypeOK, Store
<1>2. PhaseInv
  BY DEF PhaseInv
<1>3. SealInv
  BY DEF SealInv, Wrapping, Empty
<1>4. StoreInv
  BY DEF StoreInv, Store
<1>5. TestInv
  BY DEF TestInv
<1>6. SavedInv
  BY DEF SavedInv
<1> QED BY <1>1, <1>2, <1>3, <1>4, <1>5, <1>6 DEF Inv

(* What the check leaves in the hardware. *)
LEMMA CheckedDomain ==
    ASSUME NEW n \in 0..7
    PROVE  /\ DOMAIN Checked(n) \subseteq DOMAIN hw \cup TestAlias
           /\ n = 7 => DOMAIN Checked(n) = DOMAIN hw \ {"test:import"}
           /\ n = 6 => DOMAIN Checked(n) = DOMAIN hw \ {"test:ec"}
<1>1. \A a : DOMAIN Without(a) = DOMAIN hw \ {a}
  BY DEF Without
<1>2. DOMAIN Holding(TestKey(n), TestType(n), TestRules(n)) = DOMAIN hw \cup {TestKey(n)}
  BY DEF Holding
<1>3. CASE n \in {1, 3, 6, 7}
  BY <1>1, <1>3 DEF Checked, TestKey
<1>4. CASE n \in {2, 4}
  <2>1. Checked(n) = Holding(TestKey(n), TestType(n), TestRules(n))
    BY <1>4 DEF Checked
  <2>2. TestKey(n) \in TestAlias
    BY DEF TestKey, TestAlias
  <2>3. DOMAIN Checked(n) = DOMAIN hw \cup {TestKey(n)}
    BY <1>2, <2>1
  <2> QED BY <1>4, <2>2, <2>3
<1>5. CASE n \in {0, 5}
  BY <1>5 DEF Checked
<1> QED BY <1>3, <1>4, <1>5

(* Every step of either key store, faults and deaths included, keeps Inv. *)
LEMMA StepInv == Inv /\ [Next]_vars => Inv'
<1> SUFFICES ASSUME Inv, [Next]_vars PROVE Inv'
  OBVIOUS
<1> USE KeystoreAssumption DEF Inv
<1>1. CASE Start
  <2>1. TypeOK'
    BY <1>1 DEF Start, files, TypeOK, Store, Sealed
  <2>2. PhaseInv'
    BY <1>1 DEF Start, files, TypeOK, PhaseInv, Store
  <2>3. SealInv'
    BY <1>1 DEF Start, files, TypeOK, PhaseInv, SealInv, Wrapping, Empty, Store
  <2>4. StoreInv'
    BY <1>1 DEF Start, files, TypeOK, PhaseInv, StoreInv, Store
  <2>5. TestInv'
    BY <1>1 DEF Start, files, TypeOK, PhaseInv, StoreInv, TestInv, TestFree, TestAlias, Store
  <2>6. SavedInv'
    BY <1>1 DEF Start, files, TypeOK, PhaseInv, StoreInv, SavedInv, Names, Store
  <2> QED BY <2>1, <2>2, <2>3, <2>4, <2>5, <2>6
<1>2. CASE ReadKey
  <2>1. TypeOK'
    BY <1>2 DEF ReadKey, files, TypeOK, Store, Sealed
  <2>2. PhaseInv'
    BY <1>2 DEF ReadKey, files, TypeOK, PhaseInv, Store
  <2>3. SealInv'
    BY <1>2 DEF ReadKey, files, TypeOK, PhaseInv, SealInv, Wrapping, Empty, Store
  <2>4. StoreInv'
    BY <1>2 DEF ReadKey, files, TypeOK, PhaseInv, StoreInv, Store
  <2>5. TestInv'
    BY <1>2 DEF ReadKey, files, TypeOK, PhaseInv, StoreInv, TestInv, TestFree, TestAlias, Store
  <2>6. SavedInv'
    BY <1>2 DEF ReadKey, files, TypeOK, PhaseInv, StoreInv, SavedInv, Names, Store
  <2> QED BY <2>1, <2>2, <2>3, <2>4, <2>5, <2>6
<1>3. CASE WriteKey
  <2>1. TypeOK'
    BY <1>3 DEF WriteKey, Fault, files, TypeOK, Store, Sealed
  <2>2. PhaseInv'
    BY <1>3 DEF WriteKey, Fault, files, TypeOK, PhaseInv, Store
  <2>3. SealInv'
    <3>1. keyFile = 0 /\ host = "desktop" /\ Empty
      BY <1>3 DEF WriteKey, TypeOK, PhaseInv, SealInv
    <3>2. Empty'
      BY <1>3, <3>1 DEF WriteKey, Empty
    <3>3. wrap # 0
      BY <1>3 DEF WriteKey, SealInv
    <3> QED BY <1>3, <3>1, <3>2, <3>3 DEF WriteKey, Fault, SealInv, Wrapping, Empty
  <2>4. StoreInv'
    BY <1>3 DEF WriteKey, Fault, files, TypeOK, PhaseInv, StoreInv, Store
  <2>5. TestInv'
    BY <1>3 DEF WriteKey, Fault, files, TypeOK, PhaseInv, StoreInv, TestInv, TestFree, TestAlias, Store
  <2>6. SavedInv'
    BY <1>3 DEF WriteKey, Fault, files, TypeOK, PhaseInv, StoreInv, SavedInv, Names, Store
  <2> QED BY <2>1, <2>2, <2>3, <2>4, <2>5, <2>6
<1>4. CASE LoadSoft
  <2>1. TypeOK'
    BY <1>4 DEF LoadSoft, files, TypeOK, Store, Sealed
  <2>2. PhaseInv'
    BY <1>4 DEF LoadSoft, files, TypeOK, PhaseInv, Store
  <2>3. SealInv'
    BY <1>4 DEF LoadSoft, files, TypeOK, PhaseInv, SealInv, Wrapping, Empty, Store
  <2>4. StoreInv'
    BY <1>4 DEF LoadSoft, files, TypeOK, PhaseInv, StoreInv, Store
  <2>5. TestInv'
    BY <1>4 DEF LoadSoft, files, TypeOK, PhaseInv, StoreInv, TestInv, TestFree, TestAlias, Store
  <2>6. SavedInv'
    BY <1>4 DEF LoadSoft, files, TypeOK, PhaseInv, StoreInv, SavedInv, Names, Store
  <2> QED BY <2>1, <2>2, <2>3, <2>4, <2>5, <2>6
<1>5. CASE Choose
  <2>1. TypeOK'
    BY <1>5 DEF Choose, files, TypeOK, Store, Sealed
  <2>2. PhaseInv'
    BY <1>5 DEF Choose, files, TypeOK, PhaseInv, Store
  <2>3. SealInv'
    BY <1>5 DEF Choose, files, TypeOK, PhaseInv, SealInv, Wrapping, Empty, Store
  <2>4. StoreInv'
    BY <1>5 DEF Choose, files, TypeOK, PhaseInv, StoreInv, Store
  <2>5. TestInv'
    BY <1>5 DEF Choose, files, TypeOK, PhaseInv, StoreInv, TestInv, TestFree, TestAlias, Store
  <2>6. SavedInv'
    BY <1>5 DEF Choose, files, TypeOK, PhaseInv, StoreInv, SavedInv, Names, Store
  <2> QED BY <2>1, <2>2, <2>3, <2>4, <2>5, <2>6
<1>6. CASE CheckStep
  <2>1. TypeOK'
    <3>1. DOMAIN hw' \subseteq Alias \cup TestAlias
      BY <1>6, CheckedDomain DEF CheckStep, TypeOK
    <3>2. step' \in 0..7
      <4>1. step \in 0..7 /\ (step' = step \/ (step < 7 /\ step' = step + 1))
        BY <1>6 DEF CheckStep, TypeOK
      <4> QED BY <4>1
    <3>3. store' \in Store /\ phase' \in {"check", "load"}
      BY <1>6 DEF CheckStep, TypeOK, Store
    <3> QED BY <1>6, <3>1, <3>2, <3>3 DEF CheckStep, files, TypeOK
  <2>2. PhaseInv'
    BY <1>6 DEF CheckStep, files, TypeOK, PhaseInv, Store
  <2>3. SealInv'
    BY <1>6 DEF CheckStep, files, TypeOK, PhaseInv, SealInv, Wrapping, Empty, Store
  <2>4. StoreInv'
    BY <1>6 DEF CheckStep, files, TypeOK, PhaseInv, StoreInv, Store
  <2>5. TestInv'
    <3>1. exists' = {}
      BY <1>6 DEF CheckStep, files, StoreInv
    <3>2. CASE phase' = "load" /\ store' = "hard"
      <4>1. step = 7 /\ hw' = Checked(7)
        BY <1>6, <3>2 DEF CheckStep
      <4>2. DOMAIN hw' = DOMAIN hw \ {"test:import"} /\ "test:ec" \notin DOMAIN hw
        BY <1>6, <4>1, CheckedDomain DEF CheckStep, TestInv
      <4> QED BY <3>1, <3>2, <4>2 DEF TestInv, TestFree, TestAlias
    <3>3. CASE phase' = "load" /\ store' = "soft"
      BY <3>1, <3>3 DEF TestInv
    <3>4. CASE phase' = "check"
      <4>1. step' = step + 1 /\ hw' = Checked(step)
        BY <1>6, <3>4 DEF CheckStep
      <4>2. step' = 7 => "test:ec" \notin DOMAIN hw'
        BY <4>1, CheckedDomain DEF TypeOK
      <4> QED BY <3>1, <3>4, <4>2 DEF TestInv
    <3> QED BY <1>6, <3>2, <3>3, <3>4 DEF CheckStep
  <2>6. SavedInv'
    BY <1>6 DEF CheckStep, files, TypeOK, PhaseInv, StoreInv, SavedInv, Names, Store
  <2> QED BY <2>1, <2>2, <2>3, <2>4, <2>5, <2>6
<1>7. CASE LoadHard
  <2>1. TypeOK'
    BY <1>7 DEF LoadHard, files, TypeOK, Store, Sealed
  <2>2. PhaseInv'
    BY <1>7 DEF LoadHard, files, TypeOK, PhaseInv, Store
  <2>3. SealInv'
    BY <1>7 DEF LoadHard, files, TypeOK, PhaseInv, SealInv, Wrapping, Empty, Store
  <2>4. StoreInv'
    BY <1>7 DEF LoadHard, files, TypeOK, PhaseInv, StoreInv, Store
  <2>5. TestInv'
    BY <1>7 DEF LoadHard, files, TypeOK, PhaseInv, StoreInv, TestInv, TestFree, TestAlias, Store
  <2>6. SavedInv'
    BY <1>7 DEF LoadHard, files, TypeOK, PhaseInv, StoreInv, SavedInv, Names, Store
  <2> QED BY <2>1, <2>2, <2>3, <2>4, <2>5, <2>6
<1>8. CASE \E on \in BOOLEAN : SetLock(on)
  <2>1. TypeOK'
    BY <1>8 DEF SetLock, files, TypeOK, Store, Sealed
  <2>2. PhaseInv'
    BY <1>8 DEF SetLock, files, TypeOK, PhaseInv, Store
  <2>3. SealInv'
    BY <1>8 DEF SetLock, files, TypeOK, PhaseInv, SealInv, Wrapping, Empty, Store
  <2>4. StoreInv'
    BY <1>8 DEF SetLock, files, TypeOK, PhaseInv, StoreInv, Store
  <2>5. TestInv'
    BY <1>8 DEF SetLock, files, TypeOK, PhaseInv, StoreInv, TestInv, TestFree, TestAlias, Store
  <2>6. SavedInv'
    BY <1>8 DEF SetLock, files, TypeOK, PhaseInv, StoreInv, SavedInv, Names, Store
  <2> QED BY <2>1, <2>2, <2>3, <2>4, <2>5, <2>6
<1>9. CASE \E a \in Alias : CreateKey(a)
  <2>1. TypeOK'
    BY <1>9 DEF CreateKey, Idle, Names, files, TypeOK, Store, Sealed
  <2>2. PhaseInv'
    BY <1>9 DEF CreateKey, Idle, Names, files, TypeOK, PhaseInv, Store
  <2>3. SealInv'
    BY <1>9 DEF CreateKey, Idle, Names, files, TypeOK, PhaseInv, SealInv, Wrapping, Empty, Store
  <2>4. StoreInv'
    BY <1>9 DEF CreateKey, Idle, Names, files, TypeOK, PhaseInv, StoreInv, Store
  <2>5. TestInv'
    BY <1>9 DEF CreateKey, Idle, Names, files, TypeOK, PhaseInv, StoreInv, TestInv, TestFree, TestAlias, Store
  <2>6. SavedInv'
    BY <1>9 DEF CreateKey, Idle, Names, files, TypeOK, PhaseInv, StoreInv, SavedInv, Names, Store
  <2> QED BY <2>1, <2>2, <2>3, <2>4, <2>5, <2>6
<1>10. CASE \E a \in Alias : DestroyKey(a)
  <2>1. TypeOK'
    BY <1>10 DEF DestroyKey, Idle, Names, files, TypeOK, Store, Sealed
  <2>2. PhaseInv'
    BY <1>10 DEF DestroyKey, Idle, Names, files, TypeOK, PhaseInv, Store
  <2>3. SealInv'
    BY <1>10 DEF DestroyKey, Idle, Names, files, TypeOK, PhaseInv, SealInv, Wrapping, Empty, Store
  <2>4. StoreInv'
    BY <1>10 DEF DestroyKey, Idle, Names, files, TypeOK, PhaseInv, StoreInv, Store
  <2>5. TestInv'
    BY <1>10 DEF DestroyKey, Idle, Names, files, TypeOK, PhaseInv, StoreInv, TestInv, TestFree, TestAlias, Store
  <2>6. SavedInv'
    BY <1>10 DEF DestroyKey, Idle, Names, files, TypeOK, PhaseInv, StoreInv, SavedInv, Names, Store
  <2> QED BY <2>1, <2>2, <2>3, <2>4, <2>5, <2>6
<1>11. CASE SaveOpen
  <2>1. TypeOK'
    <3>1. disk' \in [Store -> SUBSET Sealed]
      BY <1>11 DEF SaveOpen, TypeOK
    <3>2. exists' \subseteq Store /\ torn' \subseteq exists'
      BY <1>11 DEF SaveOpen, TypeOK
    <3>3. faults' \in 0..MaxFaults /\ saving' \in {"no", "write"}
      BY <1>11 DEF SaveOpen, Fault, TypeOK
    <3> QED BY <1>11, <3>1, <3>2, <3>3 DEF SaveOpen, TypeOK
  <2>2. PhaseInv'
    BY <1>11 DEF SaveOpen, Fault, files, TypeOK, PhaseInv, Store
  <2>3. SealInv'
    BY <1>11 DEF SaveOpen, Fault, files, TypeOK, PhaseInv, SealInv, Wrapping, Empty, Store
  <2>4. StoreInv'
    BY <1>11 DEF SaveOpen, Fault, files, TypeOK, PhaseInv, StoreInv, Store
  <2>5. TestInv'
    BY <1>11 DEF SaveOpen, Fault, files, TypeOK, PhaseInv, StoreInv, TestInv, TestFree, TestAlias, Store
  <2>6. SavedInv'
    BY <1>11 DEF SaveOpen, Fault, files, TypeOK, PhaseInv, StoreInv, SavedInv, Names, Store
  <2> QED BY <2>1, <2>2, <2>3, <2>4, <2>5, <2>6
<1>12. CASE SaveWrite
  <2>1. TypeOK'
    <3>1. disk' \in [Store -> SUBSET Sealed]
      BY <1>12 DEF SaveWrite, TypeOK
    <3>2. torn' \subseteq exists
      BY <1>12 DEF SaveWrite, TypeOK
    <3>3. saved' \subseteq Alias
      BY <1>12 DEF SaveWrite, TypeOK, Names, Sealed
    <3>4. faults' \in 0..MaxFaults
      BY <1>12 DEF SaveWrite, Fault, TypeOK
    <3> QED BY <1>12, <3>1, <3>2, <3>3, <3>4 DEF SaveWrite, TypeOK
  <2>2. PhaseInv'
    BY <1>12 DEF SaveWrite, Fault, files, TypeOK, PhaseInv, Store
  <2>3. SealInv'
    BY <1>12 DEF SaveWrite, Fault, files, TypeOK, PhaseInv, SealInv, Wrapping, Empty, Store
  <2>4. StoreInv'
    BY <1>12 DEF SaveWrite, Fault, files, TypeOK, PhaseInv, StoreInv, Store
  <2>5. TestInv'
    BY <1>12 DEF SaveWrite, Fault, files, TypeOK, PhaseInv, StoreInv, TestInv, TestFree, TestAlias, Store
  <2>6. SavedInv'
    <3>1. phase = "up" /\ exists \subseteq {store} /\ exists' = exists
      BY <1>12 DEF SaveWrite, PhaseInv, StoreInv
    <3>2. CASE disk' = [disk EXCEPT ![store] = mem] /\ saved' = Names(mem)
      <4>1. disk'[store] = mem
        BY <3>2 DEF TypeOK
      <4>2. exists = {} => saved' = {}
        BY <1>12 DEF SaveWrite, PhaseInv
      <4> QED BY <3>1, <3>2, <4>1, <4>2 DEF SavedInv
    <3>3. CASE UNCHANGED <<torn, disk, saved>>
      BY <1>12, <3>1, <3>3 DEF SavedInv, Names
    <3> QED BY <1>12, <3>2, <3>3 DEF SaveWrite
  <2> QED BY <2>1, <2>2, <2>3, <2>4, <2>5, <2>6
<1>13. CASE \E a \in Alias, r \in Request : ImportKey(a, r)
  <2>1. TypeOK'
    BY <1>13 DEF ImportKey, Without, Holding, files, TypeOK, Store, Sealed
  <2>2. PhaseInv'
    BY <1>13 DEF ImportKey, Without, Holding, files, TypeOK, PhaseInv, Store
  <2>3. SealInv'
    BY <1>13 DEF ImportKey, Without, Holding, files, TypeOK, PhaseInv, SealInv, Wrapping, Empty, Store
  <2>4. StoreInv'
    BY <1>13 DEF ImportKey, Without, Holding, files, TypeOK, PhaseInv, StoreInv, Store
  <2>5. TestInv'
    BY <1>13 DEF ImportKey, Without, Holding, files, TypeOK, PhaseInv, StoreInv, TestInv, TestFree, TestAlias, Store
  <2>6. SavedInv'
    BY <1>13 DEF ImportKey, Without, Holding, files, TypeOK, PhaseInv, StoreInv, SavedInv, Names, Store
  <2> QED BY <2>1, <2>2, <2>3, <2>4, <2>5, <2>6
<1>14. CASE \E a \in Alias : DestroyImported(a)
  <2>1. TypeOK'
    BY <1>14 DEF DestroyImported, Without, Holding, files, TypeOK, Store, Sealed
  <2>2. PhaseInv'
    BY <1>14 DEF DestroyImported, Without, Holding, files, TypeOK, PhaseInv, Store
  <2>3. SealInv'
    BY <1>14 DEF DestroyImported, Without, Holding, files, TypeOK, PhaseInv, SealInv, Wrapping, Empty, Store
  <2>4. StoreInv'
    BY <1>14 DEF DestroyImported, Without, Holding, files, TypeOK, PhaseInv, StoreInv, Store
  <2>5. TestInv'
    BY <1>14 DEF DestroyImported, Without, Holding, files, TypeOK, PhaseInv, StoreInv, TestInv, TestFree, TestAlias, Store
  <2>6. SavedInv'
    BY <1>14 DEF DestroyImported, Without, Holding, files, TypeOK, PhaseInv, StoreInv, SavedInv, Names, Store
  <2> QED BY <2>1, <2>2, <2>3, <2>4, <2>5, <2>6
<1>15. CASE Crash
  <2>1. TypeOK'
    <3>1. faults' \in 0..MaxFaults
      BY <1>15 DEF Crash, Fault, TypeOK
    <3>2. mem' \in SUBSET Sealed /\ lock' \in BOOLEAN
      BY <1>15 DEF Crash
    <3> QED BY <1>15, <3>1, <3>2 DEF Crash, files, TypeOK
  <2>2. PhaseInv'
    BY <1>15 DEF Crash, Fault, files, TypeOK, PhaseInv, Store
  <2>3. SealInv'
    BY <1>15 DEF Crash, Fault, files, TypeOK, PhaseInv, SealInv, Wrapping, Empty, Store
  <2>4. StoreInv'
    BY <1>15 DEF Crash, Fault, files, TypeOK, PhaseInv, StoreInv, Store
  <2>5. TestInv'
    BY <1>15 DEF Crash, Fault, files, TypeOK, PhaseInv, StoreInv, TestInv, TestFree, TestAlias, Store
  <2>6. SavedInv'
    BY <1>15 DEF Crash, Fault, files, TypeOK, PhaseInv, StoreInv, SavedInv, Names, Store
  <2> QED BY <2>1, <2>2, <2>3, <2>4, <2>5, <2>6
<1>16. CASE UNCHANGED vars
  BY <1>16 DEF vars, files, TypeOK, PhaseInv, SealInv, StoreInv, TestInv, SavedInv,
       Wrapping, Empty, TestFree, Names
<1> QED BY <1>1, <1>2, <1>3, <1>4, <1>5, <1>6, <1>7, <1>8, <1>9, <1>10, <1>11, <1>12, <1>13, <1>14, <1>15, <1>16 DEF Next

(* Type correctness, from an invariant that is inductive. *)
THEOREM Invariance == Spec => []Inv
<1>1. Init => Inv
  BY InitInv
<1>2. Inv /\ [Next]_vars => Inv'
  BY StepInv
<1> QED BY <1>1, <1>2, PTL DEF Spec

(* The state of both key stores, keychain::init and setup_keystore, keeps its type. *)
THEOREM TypeCorrect == Spec => []TypeOK
<1>1. Inv => TypeOK
  BY DEF Inv
<1> QED BY <1>1, Invariance, PTL

(* Whatever start was cut off where, a running store's keys are sealed with
   the wrapping key it has: SealInv says so of the disk as well, because no
   key is drawn while anything sealed exists. *)
THEOREM StaysReadable == Spec => []Readable
<1>1. Inv => Readable
  BY DEF Inv, SealInv, Readable
<1> QED BY <1>1, Invariance, PTL

(* No sequence of starts, checks and crashes leaves keys in two stores. *)
THEOREM KeepsOneStore == Spec => []OneStore
<1>1. Inv => OneStore
  BY DEF Inv, StoreInv, OneStore
<1> QED BY <1>1, Invariance, PTL

(* The check's keys are gone wherever earlier checks stopped. *)
THEOREM CleansUp == Spec => []NoTestKeys
<1>1. Inv => NoTestKeys
  BY DEF Inv, TestInv, TestFree, NoTestKeys
<1> QED BY <1>1, Invariance, PTL

(* Only a torn file loses keys: loading is the one step that ends a start, and
   what it reads is the last completed save. *)
THEOREM LosesNothing == Spec => KeysKept
<1> DEFINE Kept == phase = "load" /\ phase' = "up" =>
                       store \in torn \/ saved \subseteq Names(mem')
<1>1. Inv /\ [Next]_vars => [Kept]_vars
  <2> SUFFICES ASSUME Inv, Next, phase = "load", phase' = "up", store \notin torn
               PROVE  saved \subseteq Names(mem')
    BY DEF vars
  <2>1. LoadSoft \/ LoadHard
    BY DEF Next, Start, ReadKey, WriteKey, Choose, CheckStep, SetLock, CreateKey, DestroyKey,
           Idle, SaveOpen, SaveWrite, ImportKey, DestroyImported, Crash, Inv, PhaseInv
  <2>2. CASE store \in exists
    <3>1. mem' = disk[store]
      BY <2>1, <2>2 DEF LoadSoft, LoadHard
    <3> QED BY <2>2, <3>1 DEF Inv, SavedInv
  <2>3. CASE store \notin exists
    <3>1. exists = {}
      BY <2>3 DEF Inv, StoreInv
    <3> QED BY <3>1 DEF Inv, SavedInv
  <2> QED BY <2>2, <2>3
<1> QED BY <1>1, Invariance, PTL DEF Spec, KeysKept

-----------------------------------------------------------------------------
(* What the hardware permits.                                              *)

(* The purposes on the list are the ones the rules ask for. *)
LEMMA PurposesExact ==
    ASSUME NEW rules \in KeystoreAccessRules
    PROVE  /\ 0 \in Purposes(rules) <=> rules.can_encrypt
           /\ 1 \in Purposes(rules) <=> rules.can_decrypt
           /\ 2 \in Purposes(rules) <=> rules.can_sign
           /\ 6 \in Purposes(rules) <=> rules.can_agree
<1> DEFINE Wanted == {q \in DOMAIN KeyPurpose :
                        CASE q = "AgreeKey" -> rules.can_agree
                          [] q = "Decrypt" -> rules.can_decrypt
                          [] q = "Encrypt" -> rules.can_encrypt
                          [] OTHER -> rules.can_sign}
<1>1. /\ DOMAIN KeyPurpose = {"Encrypt", "Decrypt", "Sign", "AgreeKey"}
      /\ KeyPurpose["Encrypt"] = 0 /\ KeyPurpose["Decrypt"] = 1
      /\ KeyPurpose["Sign"] = 2 /\ KeyPurpose["AgreeKey"] = 6
  BY DEF KeyPurpose
<1>2. /\ "Encrypt" \in Wanted <=> rules.can_encrypt
      /\ "Decrypt" \in Wanted <=> rules.can_decrypt
      /\ "Sign" \in Wanted <=> rules.can_sign
      /\ "AgreeKey" \in Wanted <=> rules.can_agree
      /\ Wanted \subseteq {"Encrypt", "Decrypt", "Sign", "AgreeKey"}
  BY <1>1
<1>3. Purposes(rules) = {KeyPurpose[q] : q \in Wanted}
  BY DEF Purposes
<1> HIDE DEF Wanted
<1> QED BY <1>1, <1>2, <1>3

(* The paddings on the list: PKCS1 has a number of its own for each use, the
   others share one, and a key without paddings is used without. *)
LEMMA PaddingsExact ==
    ASSUME NEW rules \in KeystoreAccessRules
    PROVE  LET both == rules.signature_padding \cup rules.encryption_paddings
           IN  /\ 1 \in Paddings(rules) <=> both = {} \/ "None" \in both
               /\ 2 \in Paddings(rules) <=> "OAEP" \in both
               /\ 5 \in Paddings(rules) <=> "PKCS1" \in rules.signature_padding
               /\ 4 \in Paddings(rules) <=> "PKCS1" \in rules.encryption_paddings
<1> DEFINE S == rules.signature_padding
           E == rules.encryption_paddings
<1>1. S \subseteq {"PKCS1", "OAEP", "None"} /\ E \subseteq {"PKCS1", "OAEP", "None"}
  BY DEF KeystoreAccessRules, KeystorePadding
<1>2. /\ SignPadding["None"] = 1 /\ SignPadding["OAEP"] = 2 /\ SignPadding["PKCS1"] = 5
      /\ EncryptPadding["None"] = 1 /\ EncryptPadding["OAEP"] = 2 /\ EncryptPadding["PKCS1"] = 4
  BY DEF SignPadding, EncryptPadding
<1>3. Paddings(rules) = IF S \cup E = {} THEN {SignPadding["None"]}
                        ELSE {SignPadding[p] : p \in S} \cup {EncryptPadding[p] : p \in E}
  BY DEF Paddings
<1> HIDE DEF S, E
<1>4. CASE S \cup E = {}
  <2>1. Paddings(rules) = {1}
    BY <1>2, <1>3, <1>4
  <2> QED BY <1>4, <2>1 DEF S, E
<1>5. CASE S \cup E # {}
  <2>1. Paddings(rules) = {SignPadding[p] : p \in S} \cup {EncryptPadding[p] : p \in E}
    BY <1>3, <1>5
  <2>2. 1 \in Paddings(rules) <=> "None" \in S \cup E
    BY <1>1, <1>2, <2>1
  <2>3. 2 \in Paddings(rules) <=> "OAEP" \in S \cup E
    BY <1>1, <1>2, <2>1
  <2>4. 5 \in Paddings(rules) <=> "PKCS1" \in S
    BY <1>1, <1>2, <2>1
  <2>5. 4 \in Paddings(rules) <=> "PKCS1" \in E
    BY <1>1, <1>2, <2>1
  <2> QED BY <1>5, <2>2, <2>3, <2>4, <2>5 DEF S, E
<1> QED BY <1>4, <1>5

(* The digests on a list. *)
LEMMA DigestsExact ==
    ASSUME NEW D \in SUBSET KeystoreDigest, NEW d \in KeystoreDigest
    PROVE  (CASE d = "Sha1" -> 2 [] d = "Sha256" -> 4 [] OTHER -> 5) \in {Digest[x] : x \in D}
           <=> d \in D
<1>1. D \subseteq {"Sha384", "Sha256", "Sha1"} /\ d \in {"Sha384", "Sha256", "Sha1"}
  BY DEF KeystoreDigest
<1>2. Digest["Sha1"] = 2 /\ Digest["Sha256"] = 4 /\ Digest["Sha384"] = 5
  BY DEF Digest
<1>3. (CASE d = "Sha1" -> 2 [] d = "Sha256" -> 4 [] OTHER -> 5) = Digest[d]
  BY <1>1, <1>2
<1>4. \A x, y \in {"Sha384", "Sha256", "Sha1"} : Digest[x] = Digest[y] => x = y
  BY <1>2
<1> QED BY <1>1, <1>3, <1>4

(* from_auth_rules neither widens nor narrows a key's uses, whatever rules the
   account asks for. *)
LEMMA UsesExact ==
    ASSUME NEW type, NEW rules \in KeystoreAccessRules, NEW op \in Operation
    PROVE  Permits(AuthorizationList(type, rules), op) <=> AskedFor(rules, op)
<1> DEFINE list == AuthorizationList(type, rules)
           both == rules.signature_padding \cup rules.encryption_paddings
           mine == IF op.purpose = "Sign" THEN rules.signature_padding
                   ELSE rules.encryption_paddings
<1>1. /\ list.purpose = Purposes(rules) /\ list.padding = Paddings(rules)
      /\ list.digest = {Digest[d] : d \in rules.digests}
      /\ list.block_mode = {BlockMode[m] : m \in rules.block_modes}
      /\ list.min_mac_length = (IF "Gcm" \in rules.block_modes THEN {128} ELSE {})
      /\ list.no_auth_required = ~rules.require_user
  BY DEF AuthorizationList
<1>2. /\ op.purpose \in {"Encrypt", "Decrypt", "Sign", "AgreeKey"}
      /\ op.padding \in {"PKCS1", "OAEP", "None"} /\ op.digest \in KeystoreDigest
  BY DEF Operation, KeyPurpose, KeystorePadding
<1>3. (CASE op.purpose = "Encrypt" -> 0 \in list.purpose
         [] op.purpose = "Decrypt" -> 1 \in list.purpose
         [] op.purpose = "Sign" -> 2 \in list.purpose
         [] OTHER -> 6 \in list.purpose)
      <=> (CASE op.purpose = "Encrypt" -> rules.can_encrypt
             [] op.purpose = "Decrypt" -> rules.can_decrypt
             [] op.purpose = "Sign" -> rules.can_sign
             [] OTHER -> rules.can_agree)
  <2> HIDE DEF list
  <2> QED BY <1>1, <1>2, PurposesExact
<1>4. (CASE op.padding = "None" -> 1 \in list.padding
         [] op.padding = "OAEP" -> 2 \in list.padding
         [] op.padding = "PKCS1" /\ op.purpose = "Sign" -> 5 \in list.padding
         [] OTHER -> 4 \in list.padding)
      <=> (\/ op.padding \in mine
           \/ op.padding \in both \ {"PKCS1"}
           \/ op.padding = "None" /\ both = {})
  <2> DEFINE P == list.padding
  <2>0. /\ 1 \in P <=> both = {} \/ "None" \in both
        /\ 2 \in P <=> "OAEP" \in both
        /\ 5 \in P <=> "PKCS1" \in rules.signature_padding
        /\ 4 \in P <=> "PKCS1" \in rules.encryption_paddings
    BY <1>1, PaddingsExact
  <2> HIDE DEF list, P
  <2>1. CASE op.padding = "None"
    <3>1. mine \subseteq both
      OBVIOUS
    <3>2. (\/ op.padding \in mine
           \/ op.padding \in both \ {"PKCS1"}
           \/ op.padding = "None" /\ both = {}) <=> 1 \in P
      <4> HIDE DEF mine, both
      <4> QED BY <2>0, <2>1, <3>1
    <3> HIDE DEF mine, both
    <3> QED BY <2>1, <3>2 DEF P
  <2>2. CASE op.padding = "OAEP"
    <3>1. mine \subseteq both
      OBVIOUS
    <3>2. (\/ op.padding \in mine
           \/ op.padding \in both \ {"PKCS1"}
           \/ op.padding = "None" /\ both = {}) <=> 2 \in P
      <4> HIDE DEF mine, both
      <4> QED BY <2>0, <2>2, <3>1
    <3> HIDE DEF mine, both
    <3> QED BY <2>2, <3>2 DEF P
  <2>3. CASE op.padding = "PKCS1"
    BY <2>0, <2>3 DEF P
  <2> QED BY <1>2, <2>1, <2>2, <2>3
<1>5. (CASE op.digest = "Sha1" -> 2 [] op.digest = "Sha256" -> 4 [] OTHER -> 5) \in list.digest
      <=> op.digest \in rules.digests
  <2>1. rules.digests \in SUBSET KeystoreDigest
    BY DEF KeystoreAccessRules
  <2> HIDE DEF list
  <2> QED BY <1>1, <1>2, <2>1, DigestsExact
<1>6. 32 \in list.block_mode => list.min_mac_length = {128}
  <2>1. rules.block_modes \subseteq {"Rsa", "Gcm"} /\ BlockMode["Rsa"] = 1 /\ BlockMode["Gcm"] = 32
    BY DEF KeystoreAccessRules, BlockMode
  <2> HIDE DEF list
  <2> QED BY <1>1, <2>1
<1>7. list.no_auth_required <=> ~rules.require_user
  BY <1>1
<1> HIDE DEF list, both, mine
<1>8. Permits(list, op) <=> AskedFor(rules, op)
  BY <1>3, <1>4, <1>5, <1>6, <1>7 DEF Permits, AskedFor, both, mine
<1> QED BY <1>8 DEF list

(* The hardware holds what it was asked for, under the list made from it. *)
Wrapped(h) ==
    \A a \in DOMAIN h : /\ h[a].asked \in KeystoreAccessRules
                        /\ h[a].got = AuthorizationList(h[a].type, h[a].asked)

(* Importing and destroying keep it so. *)
LEMMA WrappedKept ==
    ASSUME Wrapped(hw), NEW a
    PROVE  /\ Wrapped(Without(a))
           /\ \A type : \A rules \in KeystoreAccessRules : Wrapped(Holding(a, type, rules))
<1>1. Wrapped(Without(a))
  BY DEF Wrapped, Without
<1>2. ASSUME NEW type, NEW rules \in KeystoreAccessRules
      PROVE  Wrapped(Holding(a, type, rules))
  <2> DEFINE h == Holding(a, type, rules)
  <2>1. SUFFICES ASSUME NEW x \in DOMAIN h
                 PROVE  /\ h[x].asked \in KeystoreAccessRules
                        /\ h[x].got = AuthorizationList(h[x].type, h[x].asked)
    BY DEF Wrapped
  <2>2. CASE x = a
    <3>1. h[x] = [type |-> type, asked |-> rules, got |-> AuthorizationList(type, rules)]
      BY <2>2 DEF Holding
    <3> QED BY <3>1
  <2>3. CASE x # a
    <3>1. x \in DOMAIN hw /\ h[x] = hw[x]
      BY <2>1, <2>3 DEF Holding
    <3> QED BY <3>1 DEF Wrapped
  <2> QED BY <2>2, <2>3
<1> QED BY <1>1, <1>2

(* What the check asks for its test keys are access rules. *)
LEMMA TestRulesType == \A n : TestRules(n) \in KeystoreAccessRules
<1>1. NoRules \in KeystoreAccessRules
  BY DEF NoRules, KeystoreAccessRules, KeystoreDigest, KeystorePadding
<1>2. [NoRules EXCEPT !.signature_padding = {"PKCS1"}, !.digests = {"Sha1"}, !.can_sign = TRUE]
         \in KeystoreAccessRules
  BY <1>1 DEF KeystoreAccessRules, KeystoreDigest, KeystorePadding
<1>3. [NoRules EXCEPT !.can_agree = TRUE, !.digests = {"Sha384", "Sha256"}]
         \in KeystoreAccessRules
  BY <1>1 DEF KeystoreAccessRules, KeystoreDigest, KeystorePadding
<1> QED BY <1>2, <1>3 DEF TestRules

(* The hardware permits with every key it holds exactly the uses asked for: for
   any requests of the account, through checks, imports and crashes. *)
THEOREM PermitsWhatWasAsked == Spec => []AuthorizationKept
<1>1. Init => Wrapped(hw)
  BY DEF Init, Wrapped
<1>2. Wrapped(hw) /\ [Next]_vars => Wrapped(hw)'
  <2> SUFFICES ASSUME Wrapped(hw), [Next]_vars PROVE Wrapped(hw')
    BY DEF Wrapped
  <2>1. CASE hw' = hw
    BY <2>1
  <2>2. CASE \E n : hw' = Checked(n)
    BY <2>2, WrappedKept, TestRulesType DEF Checked
  <2>3. CASE \E a \in Alias, r \in Request : ImportKey(a, r)
    <3>1. \A r \in Request : r.rules \in KeystoreAccessRules
      BY KeystoreAssumption
    <3> QED BY <2>3, <3>1, WrappedKept DEF ImportKey
  <2>4. CASE \E a \in Alias : DestroyImported(a)
    BY <2>4, WrappedKept DEF DestroyImported
  <2>5. CheckStep => hw' = hw \/ hw' = Checked(step)
    BY DEF CheckStep
  <2> QED
    BY <2>1, <2>2, <2>3, <2>4, <2>5
       DEF Next, Start, ReadKey, WriteKey, LoadSoft, Choose, LoadHard, SetLock, CreateKey,
           DestroyKey, SaveOpen, SaveWrite, Crash, vars
<1>3. Wrapped(hw) => AuthorizationKept
  BY UsesExact DEF Wrapped, AuthorizationKept
<1> QED BY <1>1, <1>2, <1>3, PTL DEF Spec
=============================================================================
