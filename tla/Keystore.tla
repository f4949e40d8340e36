------------------------------ MODULE Keystore ------------------------------
(***************************************************************************)
(* The key stores under the account: the software store that rust/src/     *)
(* keychain.rs installs on the desktop, and the choice between a backup    *)
(* and a software store over the phone's native one in rust/src/keystore.rs*)
(* (kept, not compiled).                                                   *)
(*                                                                         *)
(* A store keeps its keys in memory and saves all of them after every      *)
(* change, by truncating its file and writing it anew.  The process can    *)
(* die at any step.  keystore.key is 0 while it is missing or has the      *)
(* wrong length, which the code treats alike; so does a file that does not *)
(* parse and an empty one.                                                 *)
(***************************************************************************)
EXTENDS Naturals, AuthRules

CONSTANTS
    Alias,     \* keys the account has made
    Request,   \* key types and access rules the account asks the hardware for
    MaxWrap,   \* bound: wrapping keys drawn
    MaxFaults  \* bound: deaths of the process and failed writes

TestAlias == {"test:import", "test:ec"}

ASSUME KeystoreAssumption ==
    /\ Alias \cap TestAlias = {}
    /\ Request \subseteq [type : KeyType, rules : KeystoreAccessRules]
    /\ MaxWrap \in Nat /\ MaxFaults \in Nat

Store == {"soft", "hard"}   \* keystore_s.plist and keystore.plist
Sealed == Alias \X (0..MaxWrap)

VARIABLES
    host,    \* "desktop": keychain::init, "mobile": setup_keystore
    keyFile, \* keystore.key, the wrapping key or 0
    exists,  \* stores whose file exists
    disk,    \* the sealed keys each file holds
    torn,    \* stores whose file does not parse
    phase,   \* "off", "key", "write_key", "choose", "check", "load" or "up"
    step,    \* step of supports_import
    store,   \* the store chosen
    wrap,    \* wrapping key in memory; the hardware seals with 0
    mem,     \* sealed keys in memory
    saving,  \* "no", "open" or "write": where update_state is
    lock,    \* whether the backup store is locked
    hw,      \* native keystore: what each alias was asked for and got
    drawn,   \* wrapping keys drawn so far
    saved,   \* history: keys of the last completed save
    faults

files == <<keyFile, exists, disk, torn>>
vars == <<host, files, phase, step, store, wrap, mem, saving, lock, hw, drawn, saved, faults>>

TypeOK ==
    /\ host \in {"desktop", "mobile"}
    /\ keyFile \in 0..MaxWrap
    /\ exists \subseteq Store /\ torn \subseteq exists
    /\ disk \in [Store -> SUBSET Sealed]
    /\ phase \in {"off", "key", "write_key", "choose", "check", "load", "up"}
    /\ step \in 0..7
    /\ store \in Store
    /\ wrap \in 0..MaxWrap
    /\ mem \in SUBSET Sealed
    /\ saving \in {"no", "open", "write"}
    /\ lock \in BOOLEAN
    /\ DOMAIN hw \subseteq Alias \cup TestAlias
    /\ drawn \in 0..MaxWrap
    /\ saved \subseteq Alias
    /\ faults \in 0..MaxFaults

Init ==
    /\ host \in {"desktop", "mobile"}
    /\ keyFile = 0 /\ exists = {} /\ torn = {}
    /\ disk = [s \in Store |-> {}]
    /\ phase = "off" /\ step = 0 /\ store = "soft" /\ wrap = 0
    /\ mem = {} /\ saving = "no" /\ lock = FALSE
    /\ hw = [a \in {} |-> 0]
    /\ drawn = 0 /\ saved = {} /\ faults = 0

Fault ==
    /\ faults < MaxFaults
    /\ faults' = faults + 1

----------------------------------------------------------------------------
(* keychain::init *)

Start ==
    /\ phase = "off"
    /\ phase' = IF host = "desktop" THEN "key" ELSE "choose"
    /\ UNCHANGED <<host, files, step, store, wrap, mem, saving, lock, hw, drawn, saved, faults>>

(* A whole key file is used, anything else is replaced by a fresh key. *)
ReadKey ==
    /\ phase = "key"
    /\ \/ /\ keyFile # 0
          /\ wrap' = keyFile
          /\ phase' = "load"
          /\ UNCHANGED drawn
       \/ /\ keyFile = 0 /\ drawn < MaxWrap
          /\ drawn' = drawn + 1
          /\ wrap' = drawn'
          /\ phase' = "write_key"
    /\ store' = "soft"
    /\ UNCHANGED <<host, files, step, mem, saving, lock, hw, saved, faults>>

(* Mutant: a key that cannot be written is used all the same. *)
WriteKeyAnyway ==
    /\ phase = "write_key"
    /\ \/ keyFile' = wrap /\ UNCHANGED faults
       \/ Fault /\ UNCHANGED keyFile
    /\ phase' = "load"
    /\ UNCHANGED <<host, exists, disk, torn, step, store, wrap, mem, saving, lock, hw, drawn, saved>>

(* A failure ends the start: AppState::open returns it. *)
WriteKey ==
    /\ phase = "write_key"
    /\ \/ keyFile' = wrap /\ phase' = "load" /\ UNCHANGED faults
       \/ Fault /\ phase' = "off" /\ UNCHANGED keyFile
    /\ UNCHANGED <<host, exists, disk, torn, step, store, wrap, mem, saving, lock, hw, drawn, saved>>

LoadSoft ==
    /\ phase = "load" /\ store = "soft"
    /\ mem' = IF "soft" \in torn THEN {} ELSE disk["soft"]
    /\ lock' = FALSE
    /\ phase' = "up"
    /\ UNCHANGED <<host, files, step, store, wrap, saving, hw, drawn, saved, faults>>

----------------------------------------------------------------------------
(* setup_keystore *)

(* Mutant: only the file of the hardware store is looked for. *)
ChooseByHardFile ==
    /\ phase = "choose"
    /\ wrap' = 0
    /\ \/ "hard" \in exists /\ store' = "hard" /\ phase' = "load" /\ UNCHANGED step
       \/ "hard" \notin exists /\ phase' = "check" /\ step' = 0 /\ UNCHANGED store
    /\ UNCHANGED <<host, files, mem, saving, lock, hw, drawn, saved, faults>>

(* Mutant: a file counts only when it parses. *)
ChooseByContent ==
    /\ phase = "choose"
    /\ wrap' = 0
    /\ LET good == exists \ torn IN
          \/ "hard" \in good /\ store' = "hard" /\ phase' = "load" /\ UNCHANGED step
          \/ good = {"soft"} /\ store' = "soft" /\ phase' = "load" /\ UNCHANGED step
          \/ good = {} /\ phase' = "check" /\ step' = 0 /\ UNCHANGED store
    /\ UNCHANGED <<host, files, mem, saving, lock, hw, drawn, saved, faults>>

(* The store used before is used again; a new install asks the hardware. *)
Choose ==
    /\ phase = "choose"
    /\ wrap' = 0
    /\ \/ "hard" \in exists /\ store' = "hard" /\ phase' = "load" /\ UNCHANGED step
       \/ /\ "hard" \notin exists /\ "soft" \in exists
          /\ store' = "soft" /\ phase' = "load" /\ UNCHANGED step
       \/ exists = {} /\ phase' = "check" /\ step' = 0 /\ UNCHANGED store
    /\ UNCHANGED <<host, files, mem, saving, lock, hw, drawn, saved, faults>>

Without(a) == [x \in DOMAIN hw \ {a} |-> hw[x]]
Holding(a, type, rules) ==
    [x \in DOMAIN hw \cup {a} |->
        IF x = a THEN [type |-> type, asked |-> rules, got |-> AuthorizationList(type, rules)]
        ELSE hw[x]]

NoRules == [block_modes |-> {}, digests |-> {}, encryption_paddings |-> {},
            mgf1_digests |-> {}, signature_padding |-> {}, require_user |-> FALSE,
            can_agree |-> FALSE, can_sign |-> FALSE, can_encrypt |-> FALSE, can_decrypt |-> FALSE]

(* supports_import: the test key step n is about, and what is asked for it. *)
TestKey(n) == IF n \in {1, 2, 7} THEN "test:import" ELSE "test:ec"
TestType(n) == IF n = 2 THEN [alg |-> "Rsa", size |-> 1024] ELSE [alg |-> "Ec", size |-> 384]
TestRules(n) ==
    IF n = 2
    THEN [NoRules EXCEPT !.signature_padding = {"PKCS1"}, !.digests = {"Sha1"}, !.can_sign = TRUE]
    ELSE [NoRules EXCEPT !.can_agree = TRUE, !.digests = {"Sha384", "Sha256"}]

(* Mutant: the first test key is left behind. *)
CheckedKeeping(n) ==
    IF n \in {1, 3, 6} THEN Without(TestKey(n))
    ELSE IF n \in {2, 4} THEN Holding(TestKey(n), TestType(n), TestRules(n)) ELSE hw

(* What step n leaves in the hardware when it succeeds: 1, 3, 6 and 7 destroy,
   2 and 4 import, 0 asks for support and 5 derives. *)
Checked(n) ==
    IF n \in {1, 3, 6, 7} THEN Without(TestKey(n))
    ELSE IF n \in {2, 4} THEN Holding(TestKey(n), TestType(n), TestRules(n)) ELSE hw

(* One step of the check, or its failure, which means the software store.
   Step 5 derives with an uncompressed point of the key's curve. *)
CheckStep ==
    /\ phase = "check"
    /\ \/ /\ step = 5 => DeriveGroup(PointLength("P384", FALSE)) = "P384"
          /\ hw' = Checked(step)
          /\ \/ step < 7 /\ step' = step + 1 /\ UNCHANGED <<phase, store>>
             \/ step = 7 /\ store' = "hard" /\ phase' = "load" /\ UNCHANGED step
       \/ store' = "soft" /\ phase' = "load" /\ UNCHANGED <<hw, step>>
    /\ UNCHANGED <<host, files, wrap, mem, saving, lock, drawn, saved, faults>>

(* BackupKeystore: an existing state is locked, a new one has its key. *)
LoadHard ==
    /\ phase = "load" /\ store = "hard"
    /\ LET parses == "hard" \in exists \ torn
       IN  mem' = (IF parses THEN disk["hard"] ELSE {}) /\ lock' = parses
    /\ phase' = "up"
    /\ UNCHANGED <<host, files, step, store, wrap, saving, hw, drawn, saved, faults>>

(* do_lock does nothing on a software store, which is never locked, and
   finish_unlock expects a store that can be. *)
SetLock(on) ==
    /\ phase = "up" /\ store = "hard"
    /\ lock' = on
    /\ UNCHANGED <<host, files, phase, step, store, wrap, mem, saving, hw, drawn, saved, faults>>

----------------------------------------------------------------------------
(* The stores, which are part of the keystore crate. *)

Names(keys) == {p[1] : p \in keys}
Idle == phase = "up" /\ saving = "no" /\ ~lock

CreateKey(a) ==
    /\ Idle
    /\ mem' = {p \in mem : p[1] # a} \cup {<<a, wrap>>}
    /\ saving' = "open"
    /\ UNCHANGED <<host, files, phase, step, store, wrap, lock, hw, drawn, saved, faults>>

DestroyKey(a) ==
    /\ Idle /\ a \in Names(mem)
    /\ mem' = {p \in mem : p[1] # a}
    /\ saving' = "open"
    /\ UNCHANGED <<host, files, phase, step, store, wrap, lock, hw, drawn, saved, faults>>

(* plist::to_file_xml: the file is created or cut, then written.  The desktop
   logs a failure, the phone's thread panics; the store goes on. *)
SaveOpen ==
    /\ saving = "open"
    /\ \/ /\ exists' = exists \cup {store} /\ torn' = torn \cup {store}
          /\ disk' = [disk EXCEPT ![store] = {}]
          /\ saving' = "write" /\ UNCHANGED faults
       \/ Fault /\ saving' = "no" /\ UNCHANGED <<exists, torn, disk>>
    /\ UNCHANGED <<host, keyFile, phase, step, store, wrap, mem, lock, hw, drawn, saved>>

SaveWrite ==
    /\ saving = "write"
    /\ saving' = "no"
    /\ \/ /\ torn' = torn \ {store}
          /\ disk' = [disk EXCEPT ![store] = mem]
          /\ saved' = Names(mem) /\ UNCHANGED faults
       \/ Fault /\ UNCHANGED <<torn, disk, saved>>
    /\ UNCHANGED <<host, keyFile, exists, phase, step, store, wrap, mem, lock, hw, drawn>>

(* import_key of the native store: the key is wrapped with its rules; fetching
   the wrapping key, wrapping or importing may fail and change nothing. *)
ImportKey(a, r) ==
    /\ phase = "up" /\ host = "mobile"
    /\ hw' = Holding(a, r.type, r.rules)
    /\ UNCHANGED <<host, files, phase, step, store, wrap, mem, saving, lock, drawn, saved, faults>>

DestroyImported(a) ==
    /\ phase = "up" /\ host = "mobile" /\ a \in DOMAIN hw
    /\ hw' = Without(a)
    /\ UNCHANGED <<host, files, phase, step, store, wrap, mem, saving, lock, drawn, saved, faults>>

Crash ==
    /\ phase # "off" /\ Fault
    /\ phase' = "off" /\ saving' = "no" /\ mem' = {} /\ lock' = FALSE
    /\ UNCHANGED <<host, files, step, store, wrap, hw, drawn, saved>>

Next ==
    \/ Start \/ ReadKey \/ WriteKey \/ LoadSoft
    \/ Choose \/ CheckStep \/ LoadHard
    \/ \E on \in BOOLEAN : SetLock(on)
    \/ \E a \in Alias : CreateKey(a) \/ DestroyKey(a)
    \/ SaveOpen \/ SaveWrite
    \/ \E a \in Alias, r \in Request : ImportKey(a, r)
    \/ \E a \in Alias : DestroyImported(a)
    \/ Crash

Spec == Init /\ [][Next]_vars

----------------------------------------------------------------------------
(* "The wrapping key has to outlive the process or everything sealed with it
   is unreadable on the next launch": every key of a running store is sealed
   with the wrapping key the store runs with, wherever the process died
   before, in the first start and its write of the key too. *)
Readable == phase = "up" => \A p \in mem : p[2] = wrap

(* An install has one store: a hardware check that ends differently on a later
   start never leaves keys in both files. *)
OneStore == exists # Store

(* "Losing a write here costs the next launch its cached keys": that is the
   only thing that does.  A start finds every key of the last completed save,
   unless a later save was cut off and left the file torn. *)
KeysKept ==
    [][phase = "load" /\ phase' = "up" => store \in torn \/ saved \subseteq Names(mem')]_vars

(* A phone that runs on the hardware store has none of the keys of the check
   in it, whichever earlier checks died or failed half way. *)
NoTestKeys == phase = "up" /\ store = "hard" => DOMAIN hw \cap TestAlias = {}

(* The hardware permits with a key exactly the uses its rules ask for:
   from_auth_rules neither widens nor narrows them. *)
AuthorizationKept ==
    \A a \in DOMAIN hw : \A op \in Operation :
        Permits(hw[a].got, op) <=> AskedFor(hw[a].asked, op)
=============================================================================
