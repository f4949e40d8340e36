---------------------------- MODULE AccountFiles ----------------------------
(***************************************************************************)
(* The configuration directory of the Flutter-era layer (rust/src/api/     *)
(* api.rs, kept in the tree and not compiled): a property list per         *)
(* service, written by the sign-in, removed by the resets, rewritten by    *)
(* migrate, by the services themselves and by the push connection, and     *)
(* read back by SharedPushState::restore.                                  *)
(*                                                                         *)
(* An operation is the sequence of its file steps, one step per Perform.   *)
(* Every save truncates its file and then writes it, so the process can    *)
(* die between two steps or inside one and leave the file torn, and so     *)
(* can a save that fails while the process lives on.  plist parsing fails  *)
(* on a torn file, Path::exists does not.                                  *)
(***************************************************************************)
EXTENDS Naturals, Sequences

CONSTANTS
    Account,     \* Apple accounts (dsid)
    Identity,    \* IDS identities of this device
    ServiceFile, \* the files with state of one account
    NoOne,       \* no account, no identity
    Absent,      \* content of a file that does not exist
    Torn,        \* content of a file cut off while it was written
    Issued,      \* sets of services the sign-in answer may carry tokens for
    MaxFaults    \* bound: deaths of the process, failed saves and failed removals

Delegate == {"sharedstreams", "cloudkit", "keychain"}
Service == {"findmy", "facetime", "cloudkit", "keychain", "passwords", "sharedstreams"}

(* What a file that parses holds.  "old" is the layout before the keystore,
   "keypair" what migrate saves over hw_info.plist half way. *)
Plist == [own : Account \cup Identity \cup {NoOne}, form : {"old", "keypair", "new"}]
Saved(own, form) == [own |-> own, form |-> form]

ASSUME FilesAssumption ==
    /\ NoOne \notin Account \cup Identity
    /\ Absent # Torn /\ {Absent, Torn} \cap Plist = {}
    /\ {"findmy", "cloudkit", "keychain"} \subseteq ServiceFile
    /\ ServiceFile \subseteq Service
    /\ Issued \subseteq SUBSET Delegate
    /\ MaxFaults \in Nat

(* statuskit.plist holds the account's channel key and state that outlives it. *)
DeviceFile == {"hw_info", "id", "id_cache"}
File == ServiceFile \cup DeviceFile \cup {"gsa", "statuskit"}

(* Files that name a key of the keystore instead of holding it.  A new
   keychain.plist has no keys yet, a migrated one has. *)
KeyedFile == {"hw_info", "id", "gsa"}

Content == Plist \cup {Absent, Torn}

Step == [file : File, how : {"put", "if_absent", "rewrite", "remove", "key"}, put : Content]

VARIABLES
    disk,     \* the files
    keys,     \* the files whose keys keystore.plist holds
    phase,    \* "off", "migrating", "restoring", "run", or "stuck" after a panic
    todo,     \* steps left of the operation in progress
    acct,     \* the AppleAccount held
    stage,    \* how it was obtained: "none", "saved", "clean", "fresh"
    conn,     \* identity of the push connection and its IMClient
    live,     \* account of the running services
    up,       \* files the running services write
    gone,     \* files an operation has reset under their running writers
    late,     \* history: a writer saved a file after its reset began
    used,     \* history: identities that have replay counters
    torn,     \* history: files torn, "keystore" among them
    cut,      \* history: files whose step was next when the process died
    spoiled,  \* history: files this process failed to save and has not saved since
    kept,     \* history: files a removal left behind, its error discarded
    faults

memory == <<acct, stage, conn, live, up, gone>>
history == <<late, used, torn, cut, spoiled, kept, faults>>
vars == <<disk, keys, phase, todo, memory, history>>

TypeOK ==
    /\ disk \in [File -> Content]
    /\ keys \subseteq KeyedFile \cup {"keychain"}
    /\ phase \in {"off", "migrating", "restoring", "run", "stuck"}
    /\ todo \in Seq(Step)
    /\ acct \in Account \cup {NoOne}
    /\ stage \in {"none", "saved", "clean", "fresh"}
    /\ conn \in Identity \cup {NoOne}
    /\ live \in Account \cup {NoOne}
    /\ up \subseteq ServiceFile \cup {"statuskit"}
    /\ gone \subseteq File
    /\ late \in BOOLEAN
    /\ used \subseteq Identity
    /\ torn \subseteq File \cup {"keystore"}
    /\ cut \subseteq File
    /\ spoiled \subseteq File
    /\ kept \subseteq File
    /\ faults \in 0..MaxFaults

(* plist::from_file of the present layout succeeds. *)
Parses(f) == disk[f] \notin {Absent, Torn} /\ disk[f].form = "new"
IsOld(f) == disk[f] \notin {Absent, Torn} /\ disk[f].form = "old"


Put(f, own) == [file |-> f, how |-> "put", put |-> Saved(own, "new")]
PutIfAbsent(f, own) == [file |-> f, how |-> "if_absent", put |-> Saved(own, "new")]
Do(f, how) == [file |-> f, how |-> how, put |-> Absent]

----------------------------------------------------------------------------
(* The directory of an install made before the keystore, or none. *)
OldInstall(a, i) ==
    [f \in File |->
        CASE f \in {"hw_info", "id"} -> Saved(i, "old")
          [] f = "id_cache" -> Saved(i, "new")
          [] f \in {"keychain", "gsa", "findmy"} -> Saved(a, "old")
          [] OTHER -> Saved(a, "new")]

Init ==
    /\ \/ /\ disk = [f \in File |-> Absent]
          /\ used = {}
       \/ \E a \in Account, i \in Identity :
             /\ disk = OldInstall(a, i)
             /\ used = {i}
    /\ keys = {}
    /\ phase = "off"
    /\ todo = <<>>
    /\ acct = NoOne /\ stage = "none"
    /\ conn = NoOne
    /\ live = NoOne /\ up = {}
    /\ gone = {}
    /\ late = FALSE
    /\ torn = {} /\ cut = {} /\ spoiled = {} /\ kept = {} /\ faults = 0

----------------------------------------------------------------------------
(* The steps of the operations. *)

(* migrate: each file is read, its key imported, the file saved with the name
   of the key.  In hw_info.plist the first save is of the keypair dictionary
   alone (an inner `item` shadows the file's), and the save of the identity,
   which every old file has, puts the whole back.  findmy.plist is converted only together with gsa. *)
Import(f) == IF IsOld(f) THEN <<Do(f, "key"), Put(f, disk[f].own)>> ELSE <<>>

(* Mutant: the keypair's dictionary is saved last. *)
MigrateHardwareHalf ==
    IF IsOld("hw_info")
    THEN <<Do("hw_info", "key"), Put("hw_info", disk["hw_info"].own),
           [file |-> "hw_info", how |-> "put", put |-> Saved(disk["hw_info"].own, "keypair")]>>
    ELSE <<>>

MigrateHardware ==
    IF IsOld("hw_info")
    THEN <<Do("hw_info", "key"),
           [file |-> "hw_info", how |-> "put", put |-> Saved(disk["hw_info"].own, "keypair")],
           Put("hw_info", disk["hw_info"].own)>>
    ELSE <<>>

MigrateFindMy ==
    IF IsOld("gsa") /\ IsOld("findmy") THEN <<Put("findmy", disk["findmy"].own)>> ELSE <<>>

(* Mutant: the file is saved before its key is imported. *)
MigrateSaveFirst(provisioned) ==
    MigrateHardware
        \o (IF IsOld("id") THEN <<Put("id", disk["id"].own), Do("id", "key")>> ELSE <<>>)
        \o (IF provisioned THEN Import("keychain") ELSE <<>>)
        \o Import("gsa") \o MigrateFindMy

Migrate(provisioned) ==
    MigrateHardware
        \o Import("id")
        \o (IF provisioned THEN Import("keychain") ELSE <<>>)
        \o Import("gsa") \o MigrateFindMy

(* Mutant: only files that parse are removed. *)
ResetUserParsed ==
    SelectSeq(<<Do("gsa", "remove"), Do("findmy", "remove"), Do("cloudkit", "remove"),
                Do("keychain", "remove"), Put("statuskit", NoOne)>>,
              LAMBDA s : s.how = "put" \/ Parses(s.file))

(* Removal of a file this instance may leave out. *)
RemoveAny(f) == IF f \in ServiceFile THEN <<Do(f, "remove")>> ELSE <<>>

ResetUser ==
    <<Do("gsa", "remove"), Do("findmy", "remove")>> \o RemoveAny("facetime")
        \o <<Do("cloudkit", "remove"), Do("keychain", "remove")>> \o RemoveAny("passwords")
        \o RemoveAny("sharedstreams") \o <<Put("statuskit", NoOne)>>

(* Mutant: the counters go before the identity. *)
ResetHardwareCountersFirst ==
    <<Do("id_cache", "remove"), Do("hw_info", "remove"), Do("statuskit", "remove")>>

ResetHardware ==
    <<Do("hw_info", "remove"), Do("id_cache", "remove"), Do("statuskit", "remove")>>

(* reset_state *)
Reset(reset_hw, logout) ==
    (IF logout THEN ResetUser ELSE <<>>)
        \o <<Do("id", "remove"), Do("id_cache", "rewrite")>>
        \o (IF reset_hw THEN ResetHardware ELSE <<>>)

(* do_login, once the service has answered with the tokens of `issued`. *)
Login(a, issued) ==
    <<Do("gsa", "key"), Put("gsa", a), Put("statuskit", NoOne), PutIfAbsent("findmy", a)>>
        \o (IF "sharedstreams" \in issued \cap File THEN <<PutIfAbsent("sharedstreams", a)>> ELSE <<>>)
        \o (IF "cloudkit" \in issued THEN <<PutIfAbsent("cloudkit", a)>> ELSE <<>>)
        \o (IF "keychain" \in issued THEN <<PutIfAbsent("keychain", a)>> ELSE <<>>)

(* setup_push saves the connection's state unless it failed. *)
ConnectPush(connected) ==
    IF connected THEN <<Put("hw_info", disk["hw_info"].own)>> ELSE <<>>

(* restore_account saves gsa.plist again when the post-login data was still to
   be sent. *)
RestoreAccount(postdata) ==
    IF Parses("gsa") /\ postdata THEN <<Put("gsa", disk["gsa"].own)>> ELSE <<>>

(* The content a step leaves, and whether it writes (and may tear) the file. *)
After(s) ==
    CASE s.how = "put" -> s.put
      [] s.how = "if_absent" -> IF disk[s.file] = Absent THEN s.put ELSE disk[s.file]
      [] s.how = "remove" -> Absent
      [] OTHER -> disk[s.file]

Writes(s) ==
    \/ s.how = "put"
    \/ s.how = "if_absent" /\ disk[s.file] = Absent
    \/ s.how = "rewrite" /\ Parses(s.file)

Perform ==
    /\ todo # <<>>
    /\ LET s == Head(todo) IN
           /\ disk' = [disk EXCEPT ![s.file] = After(s)]
           /\ keys' = IF s.how = "key" THEN keys \cup {s.file} ELSE keys
           /\ spoiled' = IF s.how = "remove" \/ Writes(s) THEN spoiled \ {s.file} ELSE spoiled
    /\ todo' = Tail(todo)
    /\ UNCHANGED <<phase, memory, late, used, torn, cut, kept, faults>>

(* The steps the app can see fail: a save, an import of a key (what that leaves
   of keystore.plist is Keystore's), and in do_login the answer that carries
   no MobileMe delegate, unwrapped right before findmy.plist. *)
MayFail(s) == Writes(s) \/ s.how = "key" \/ s = PutIfAbsent("findmy", acct)

(* A step fails in the running app: the call panics or returns its error, the
   rest of it is not done, and a save may have truncated its file.  setup_push
   then hands out no connection and try_auth no account.  While migrate or
   restore runs there is no app yet, and the failure is a Crash. *)
StepFails ==
    /\ phase = "run" /\ todo # <<>> /\ faults < MaxFaults
    /\ faults' = faults + 1
    /\ LET s == Head(todo) IN
           /\ MayFail(s)
           /\ \/ UNCHANGED <<disk, torn>>
              \/ /\ Writes(s)
                 /\ disk' = [disk EXCEPT ![s.file] = Torn]
                 /\ torn' = torn \cup {s.file}
           /\ spoiled' = spoiled \cup {s.file}
           /\ conn' = IF s.file = "hw_info" THEN NoOne ELSE conn
           /\ IF s.file = "statuskit" /\ stage = "clean"
              THEN acct' = NoOne /\ stage' = "none"
              ELSE UNCHANGED <<acct, stage>>
    /\ todo' = <<>>
    /\ UNCHANGED <<keys, phase, live, up, gone, late, used, cut, kept>>

(* The resets discard the error of remove_file and go on. *)
RemoveFails ==
    /\ todo # <<>> /\ faults < MaxFaults
    /\ Head(todo).how = "remove" /\ disk[Head(todo).file] # Absent
    /\ faults' = faults + 1
    /\ kept' = kept \cup {Head(todo).file}
    /\ todo' = Tail(todo)
    /\ UNCHANGED <<disk, keys, phase, memory, late, used, torn, cut, spoiled>>

----------------------------------------------------------------------------
(* The start of the process: init_native and SharedPushState::restore. *)

Idle == phase = "run" /\ todo = <<>>

(* provisioned: whether anisette's state file names a machine id. *)
Start(provisioned) ==
    /\ phase = "off"
    /\ phase' = "migrating"
    /\ todo' = Migrate(provisioned)
    /\ UNCHANGED <<disk, keys, memory, history>>

Restorable == Parses("hw_info") /\ Parses("id") /\ "hw_info" \in keys

RestoreNothing ==
    /\ phase = "migrating" /\ todo = <<>>
    /\ ~Restorable
    /\ phase' = "run"
    /\ UNCHANGED <<disk, keys, todo, memory, history>>

Restore(connected, postdata) ==
    /\ phase = "migrating" /\ todo = <<>>
    /\ Restorable
    /\ phase' = "restoring"
    /\ conn' = disk["hw_info"].own
    /\ acct' = IF Parses("gsa") THEN disk["gsa"].own ELSE NoOne
    /\ stage' = IF Parses("gsa") THEN "saved" ELSE "none"
    /\ todo' = ConnectPush(connected) \o RestoreAccount(postdata)
    /\ UNCHANGED <<disk, keys, live, up, gone, history>>

(* Mutant: every file that parses gets a writer. *)
BuiltFromFiles(a) == {f \in File : Parses(f)}

(* Which files the services built from the directory write.  FaceTime and the
   status service start from nothing, the others need their file. *)
Built(a) ==
    {f \in ServiceFile \cup {"statuskit"} :
        \/ f = "facetime"
        \/ a # NoOne /\ f = "statuskit"
        \/ a # NoOne /\ f = "sharedstreams" /\ Parses(f)
        \/ a # NoOne /\ f \in {"keychain", "passwords"} /\ Parses("keychain")
        \/ a # NoOne /\ f = "findmy" /\ Parses("keychain") /\ Parses(f)}

BuildServices ==
    /\ live' = acct
    /\ up' = Built(acct)
    /\ gone' = gone \ (ServiceFile \cup {"statuskit"})

(* make_cloudkit(..).expect("todo remove") *)
RestoreServices ==
    /\ phase = "restoring" /\ todo = <<>>
    /\ IF acct # NoOne /\ ~Parses("cloudkit")
       THEN /\ phase' = "stuck"
            /\ UNCHANGED <<live, up, gone>>
       ELSE /\ phase' = "run"
            /\ BuildServices
    /\ UNCHANGED <<disk, keys, todo, acct, stage, conn, history>>

----------------------------------------------------------------------------
(* The calls of the app. *)

(* new_ngm_identity and set_identity, when the device has no identity. *)
SetIdentity(i) ==
    /\ Idle /\ conn = NoOne
    /\ ~Parses("hw_info")
    /\ i \notin used
    /\ todo' = <<Do("hw_info", "key"), Put("hw_info", i)>>
    /\ UNCHANGED <<disk, keys, phase, memory, history>>

SetupPush(connected) ==
    /\ Idle /\ conn = NoOne
    /\ Parses("hw_info")
    /\ conn' = disk["hw_info"].own
    /\ gone' = gone \ DeviceFile
    /\ todo' = ConnectPush(connected)
    /\ UNCHANGED <<disk, keys, phase, acct, stage, live, up, history>>

(* Mutant: the old user's files are kept. *)
TryAuthKeeping(a) ==
    /\ Idle /\ conn # NoOne
    /\ acct' = a
    /\ stage' = "clean"
    /\ UNCHANGED <<disk, keys, phase, todo, conn, live, up, gone, history>>

(* try_auth with credentials: the old user's files go first. *)
TryAuth(a) ==
    /\ Idle /\ conn # NoOne
    /\ acct' = a
    /\ stage' = "clean"
    /\ gone' = gone \cup ServiceFile \cup {"gsa", "statuskit"}
    /\ todo' = ResetUser
    /\ UNCHANGED <<disk, keys, phase, conn, live, up, history>>

(* login_email_pass is refused: try_auth returns no account. *)
LoginRefused ==
    /\ Idle /\ stage = "clean"
    /\ acct' = NoOne
    /\ stage' = "none"
    /\ UNCHANGED <<disk, keys, phase, todo, conn, live, up, gone, history>>

(* try_auth with the stored credentials. *)
TryAuthSaved ==
    /\ Idle /\ conn # NoOne
    /\ Parses("gsa") /\ "gsa" \in keys
    /\ acct' = disk["gsa"].own
    /\ stage' = "saved"
    /\ UNCHANGED <<disk, keys, phase, todo, conn, live, up, gone, history>>

(* do_login, from try_icloud_login, verify_2fa or verify_2fa_sms. *)
DoLogin(issued) ==
    /\ Idle /\ acct # NoOne
    /\ stage' = IF stage = "clean" THEN "fresh" ELSE stage
    /\ todo' = Login(acct, issued)
    /\ UNCHANGED <<disk, keys, phase, acct, conn, live, up, gone, history>>

RegisterIds ==
    /\ Idle /\ conn # NoOne
    /\ gone' = gone \ {"id"}
    /\ todo' = <<Do("id", "key"), Put("id", conn)>>
    /\ UNCHANGED <<disk, keys, phase, acct, stage, conn, live, up, history>>

(* The app builds the services after a sign-in. *)
MakeServices ==
    /\ Idle /\ stage \in {"saved", "fresh"}
    /\ Parses("gsa") /\ Parses("cloudkit")
    /\ BuildServices
    /\ UNCHANGED <<disk, keys, phase, todo, acct, stage, conn, history>>

ResetState(reset_hw, logout) ==
    /\ Idle
    /\ stage' = IF logout THEN "none" ELSE stage
    /\ acct' = IF logout THEN NoOne ELSE acct
    /\ gone' = gone \cup {"id"}
               \cup (IF logout THEN ServiceFile \cup {"gsa", "statuskit"} ELSE {})
               \cup (IF reset_hw THEN {"hw_info", "id_cache", "statuskit"} ELSE {})
    /\ todo' = Reset(reset_hw, logout)
    /\ UNCHANGED <<disk, keys, phase, conn, live, up, history>>

----------------------------------------------------------------------------
(* Writers beside the calls: a service saves its state through its update
   callback; the connection saves hw_info.plist when it was generated anew,
   and its IMClient saves the users and the key cache with its counters. *)
BackgroundSave(f, own) ==
    /\ phase = "run"
    /\ disk' = [disk EXCEPT ![f] = Saved(own, "new")]
    /\ spoiled' = spoiled \ {f}
    /\ late' = (late \/ f \in gone)
    /\ UNCHANGED <<keys, phase, todo, memory, torn, cut, kept, faults>>

ServiceSave(f) ==
    /\ f \in up
    /\ BackgroundSave(f, live)
    /\ UNCHANGED used

PushSave ==
    /\ conn # NoOne
    /\ BackgroundSave("hw_info", conn)
    /\ UNCHANGED used

ImClientSave(f) ==
    /\ conn # NoOne /\ "id" \in keys
    /\ BackgroundSave(f, conn)
    /\ used' = IF f = "id_cache" THEN used \cup {conn} ELSE used

(* The files these writers may be half way through. *)
Background ==
    (IF phase = "run" THEN up ELSE {})
        \cup (IF phase = "run" /\ conn # NoOne THEN {"hw_info"} ELSE {})
        \cup (IF phase = "run" /\ conn # NoOne /\ "id" \in keys THEN {"id", "id_cache"} ELSE {})

(* Such a save fails: its unwrap ends the writer's task, not the process. *)
SaveFails(f) ==
    /\ f \in Background /\ faults < MaxFaults
    /\ faults' = faults + 1
    /\ disk' = [disk EXCEPT ![f] = Torn]
    /\ torn' = torn \cup {f}
    /\ spoiled' = spoiled \cup {f}
    /\ late' = (late \/ f \in gone)
    /\ UNCHANGED <<keys, phase, todo, memory, used, cut, kept>>

----------------------------------------------------------------------------
(* Files some writer may be half way through. *)
Tearable ==
    (IF todo # <<>> /\ Writes(Head(todo)) THEN {Head(todo).file} ELSE {}) \cup Background

Forget ==
    /\ phase' = "off"
    /\ todo' = <<>>
    /\ acct' = NoOne /\ stage' = "none"
    /\ conn' = NoOne
    /\ live' = NoOne /\ up' = {}
    /\ gone' = {} /\ spoiled' = {}

Quit ==
    /\ phase \in {"run", "stuck"} /\ todo = <<>>
    /\ Forget
    /\ UNCHANGED <<disk, keys, late, used, torn, cut, kept, faults>>

Crash ==
    /\ phase # "off" /\ faults < MaxFaults
    /\ faults' = faults + 1
    /\ cut' = IF todo = <<>> THEN cut ELSE cut \cup {Head(todo).file}
    /\ \/ UNCHANGED <<disk, keys, torn>>
       \/ \E f \in Tearable :
             /\ disk' = [disk EXCEPT ![f] = Torn]
             /\ torn' = torn \cup {f}
             /\ UNCHANGED keys
       \/ /\ todo # <<>> /\ Head(todo).how = "key"
          /\ keys' = {}
          /\ torn' = torn \cup {"keystore"}
          /\ UNCHANGED disk
    /\ Forget
    /\ UNCHANGED <<late, used, kept>>

Call ==
    \/ \E i \in Identity : SetIdentity(i)
    \/ \E connected \in BOOLEAN : SetupPush(connected)
    \/ \E a \in Account : TryAuth(a)
    \/ LoginRefused
    \/ TryAuthSaved
    \/ \E issued \in Issued : DoLogin(issued)
    \/ RegisterIds
    \/ MakeServices
    \/ \E reset_hw, logout \in BOOLEAN : ResetState(reset_hw, logout)

Next ==
    \/ Perform
    \/ StepFails
    \/ RemoveFails
    \/ \E provisioned \in BOOLEAN : Start(provisioned)
    \/ RestoreNothing
    \/ \E connected, postdata \in BOOLEAN : Restore(connected, postdata)
    \/ RestoreServices
    \/ Call
    \/ \E f \in ServiceFile \cup {"statuskit"} : ServiceSave(f)
    \/ PushSave
    \/ \E f \in {"id", "id_cache"} : ImClientSave(f)
    \/ \E f \in File : SaveFails(f)
    \/ Quit
    \/ Crash

Spec == Init /\ [][Next]_vars

----------------------------------------------------------------------------
(* Neither deaths of the process nor failed saves mix accounts: whatever
   operations were cut off, while gsa.plist names an account every service
   file that parses is that account's (try_auth resets the old user before
   do_login, which keeps files that exist).  The exceptions are a writer of the
   old user that saves after the reset, and a removal that failed in it. *)
AccountFile == ServiceFile \cup {"gsa", "statuskit"}

OneAccount ==
    ~late /\ AccountFile \cap kept = {} /\ Parses("gsa") =>
        \A f \in ServiceFile \cup {"statuskit"} :
            Parses(f) => disk[f].own \in {NoOne, disk["gsa"].own}

(* A sign-in with credentials heals the directory: whatever was torn or left
   over before, once do_login is through no service file is torn, old or
   another account's.  What it cannot heal is a save that failed since the
   sign-in began: do_login called again keeps the torn file, which exists. *)
LoginHeals ==
    ~late /\ AccountFile \cap kept = {} /\ Idle /\ stage = "fresh" =>
        /\ "gsa" \notin spoiled => Parses("gsa") /\ disk["gsa"].own = acct
        /\ \A f \in ServiceFile :
              \/ disk[f] = Absent
              \/ Parses(f) /\ disk[f].own \in {NoOne, acct}
              \/ disk[f] = Torn /\ f \in spoiled

(* A file that names a key is never on disk before the key is in the keystore:
   migrate and the sign-in import first and save afterwards, and an import cut
   off is done again. *)
HandlesResolve ==
    "keystore" \notin torn => \A f \in KeyedFile : Parses(f) => f \in keys

(* "keep replay counters which are nessesary if our identity doesn't change":
   an identity that has been used is never on disk without its counters,
   unless the key cache was torn, the connection saved after a reset, or the
   reset could not remove the identity and removed its counters all the same. *)
CountersKept ==
    ~late /\ "id_cache" \notin torn /\ "hw_info" \notin kept =>
        \A i \in used : Parses("hw_info") /\ disk["hw_info"].own = i =>
                            Parses("id_cache") /\ disk["id_cache"].own = i

(* Whatever was cut off, the app runs on migrated files, keychain.plist waiting
   for anisette apart.  Only a death in the file itself leaves hw_info.plist
   as its half-way save, and only one in gsa.plist or findmy.plist an old
   findmy.plist, which is converted together with gsa.plist. *)
MigrationHolds ==
    phase = "run" =>
        /\ \A f \in {"hw_info", "id", "gsa"} : ~IsOld(f)
        /\ "hw_info" \notin cut =>
              disk["hw_info"] \in {Absent, Torn} \/ disk["hw_info"].form = "new"
        /\ {"gsa", "findmy"} \cap cut = {} => ~IsOld("findmy")
=============================================================================
