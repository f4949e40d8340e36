---------------------------- MODULE AccountProofs ----------------------------
(***************************************************************************)
(* Proofs about AccountFiles: what holds of the configuration directory    *)
(* for any number of accounts, identities, service files, deaths of the    *)
(* process and failed saves, whatever operations those cut off.            *)
(*                                                                         *)
(* Every invariant needs to know what the operation in progress has left   *)
(* to do.  Pending is the set of those steps; the few facts that depend on *)
(* their order are stated with Preceded and Followed.  The invariant has   *)
(* five layers, each closed under the steps given the ones before it: what *)
(* the phases hold (Base), keys before files (KeyInv), the migration       *)
(* (MoveInv), an identity and its counters (Connected, Counted), an        *)
(* account and its files (Staged, Owned).                                  *)
(***************************************************************************)
EXTENDS AccountFiles, SequenceTheorems, TLAPS

(* The steps of a sequence, and those left of the operation in progress. *)
Steps(q) == {q[i] : i \in DOMAIN q}
Pending == Steps(todo)

(* Every x of q comes after a y. *)
Preceded(q, x, y) == \A i \in DOMAIN q : q[i] = x => \E j \in 1 .. i - 1 : q[j] = y

(* Every x of q comes right before a y. *)
Followed(q, x, y) == \A i \in DOMAIN q : q[i] = x => i + 1 \in DOMAIN q /\ q[i + 1] = y

(* A file that is there and whole, and the half-way save of migrate. *)
Present(f) == disk[f] \notin {Absent, Torn}
Half(own) == [file |-> "hw_info", how |-> "put", put |-> Saved(own, "keypair")]

(* Which steps the operations of each phase consist of. *)
MigratingStep ==
    {Do(f, "key") : f \in KeyedFile \cup {"keychain"}}
        \cup {Put(f, disk[f].own) :
                 f \in {g \in {"hw_info", "id", "keychain", "gsa", "findmy"} : Present(g)}}
        \cup {Half(disk[f].own) : f \in {g \in {"hw_info"} : Present(g)}}

RestoringStep ==
    {Put("hw_info", i) : i \in Identity \cap {conn}} \cup {Put("gsa", a) : a \in Account \cap {acct}}

RunStep ==
    {Do(f, "key") : f \in KeyedFile}
        \cup {Put("hw_info", i) : i \in Identity}
        \cup {Put("id", i) : i \in Identity \cap {conn}}
        \cup {Do("id", "remove"), Do("id_cache", "rewrite")}
        \cup {Do(f, "remove") : f \in {"hw_info", "id_cache", "statuskit"}}
        \cup {Put("statuskit", NoOne)}
        \cup {Do(f, "remove") : f \in ServiceFile \cup {"gsa"}}
        \cup {Put("gsa", a) : a \in Account \cap {acct}}
        \cup {PutIfAbsent(f, a) : f \in ServiceFile, a \in Account \cap {acct}}

(* What a phase may have left to do and what it holds. *)
Shape ==
    /\ phase \in {"off", "stuck"} => todo = <<>>
    /\ phase = "migrating" => Pending \subseteq MigratingStep
    /\ phase = "restoring" => Pending \subseteq RestoringStep
    /\ phase = "run" => Pending \subseteq RunStep
    /\ phase # "run" => gone = {} /\ up = {} /\ live = NoOne
    /\ phase \in {"off", "migrating"} => conn = NoOne /\ acct = NoOne /\ stage = "none"

(* Who owns which file. *)
Owners ==
    /\ Present("hw_info") => disk["hw_info"].own \in Identity
    /\ Present("gsa") => disk["gsa"].own \in Account
    /\ Present("id_cache") => disk["id_cache"].own \in Identity

(* A file that names a key is saved after the key was imported. *)
KeyOrder ==
    "keystore" \notin torn =>
        /\ \A f \in KeyedFile, own \in Account \cup Identity \cup {NoOne} :
              f \in keys \/ Preceded(todo, Put(f, own), Do(f, "key"))
        /\ conn # NoOne => "hw_info" \in keys

(* migrate: until the app runs, the save of every old file is still to come. *)
Moving ==
    /\ phase = "migrating" =>
          \A f \in {"hw_info", "id", "gsa"} : IsOld(f) => Put(f, disk[f].own) \in Pending
    /\ phase \in {"restoring", "run"} => \A f \in {"hw_info", "id", "gsa"} : ~IsOld(f)

(* The half-way save is followed at once by the whole one. *)
HalfWay ==
    /\ phase = "migrating" /\ Present("hw_info") =>
          Followed(todo, Half(disk["hw_info"].own), Put("hw_info", disk["hw_info"].own))
    /\ "hw_info" \notin cut /\ Present("hw_info") /\ disk["hw_info"].form = "keypair" =>
          /\ phase = "migrating"
          /\ todo # <<>> /\ Head(todo) = Put("hw_info", disk["hw_info"].own)

(* findmy.plist is converted right after gsa.plist, or not yet. *)
Together ==
    {"gsa", "findmy"} \cap cut = {} /\ IsOld("findmy") =>
        \/ phase = "off" /\ IsOld("gsa")
        \/ /\ phase = "migrating" /\ IsOld("gsa")
           /\ Followed(todo, Put("gsa", disk["gsa"].own), Put("findmy", disk["findmy"].own))
        \/ /\ phase = "migrating" /\ todo # <<>>
           /\ Head(todo) = Put("findmy", disk["findmy"].own)

(* The identity: what is saved in hw_info.plist while it is connected is its
   own. *)
Connected ==
    /\ "hw_info" \in gone <=> "id_cache" \in gone
    /\ phase = "run" =>
          /\ \A i, j \in Identity : Put("hw_info", i) \in Pending /\ Put("hw_info", j) \in Pending => i = j
          /\ \A i \in Identity : Put("hw_info", i) \in Pending => conn \in {NoOne, i}
          /\ Do("hw_info", "remove") \in Pending \/ Do("id_cache", "remove") \in Pending =>
                "hw_info" \in gone
    /\ conn # NoOne /\ Present("hw_info") => disk["hw_info"].own = conn

(* Its counters: they go only after hw_info.plist, and hw_info.plist is saved
   only for the identity that is connected or for a new one. *)
Counted ==
    ~late /\ "id_cache" \notin torn /\ "hw_info" \notin kept =>
        /\ \A i \in used : Present("hw_info") /\ disk["hw_info"].own = i =>
                               Parses("id_cache") /\ disk["id_cache"].own = i
        /\ conn \in used /\ "hw_info" \notin gone =>
              Parses("id_cache") /\ disk["id_cache"].own = conn
        /\ \/ disk["hw_info"] = Absent
           \/ Preceded(todo, Do("id_cache", "remove"), Do("hw_info", "remove"))
        /\ phase = "run" =>
              \A i \in Identity : Put("hw_info", i) \in Pending =>
                 /\ Do("hw_info", "remove") \notin Pending /\ Do("id_cache", "remove") \notin Pending
                 /\ \/ conn = i /\ "hw_info" \notin gone
                    \/ conn = NoOne /\ i \notin used

(* The steps of reset_user. *)
UserReset == {Do(f, "remove") : f \in ServiceFile \cup {"gsa"}} \cup {Put("statuskit", NoOne)}

(* The account held: only a logout and a sign-in with credentials remove its
   files, and only then; only a later login puts them back. *)
Staged ==
    /\ stage = "none" <=> acct = NoOne
    /\ phase = "run" => \A f \in ServiceFile \cup {"gsa"} :
          Do(f, "remove") \in Pending =>
              stage \in {"none", "clean"} /\ ServiceFile \cup {"gsa", "statuskit"} \subseteq gone
    /\ phase = "run" /\ stage \in {"none", "clean"} =>
          /\ Put("gsa", acct) \notin Pending
          /\ \A f \in ServiceFile : PutIfAbsent(f, acct) \notin Pending
    /\ stage = "clean" => Pending \subseteq UserReset \/ Pending \cap UserReset = {}
    /\ phase \in {"restoring", "stuck"} => stage \in {"none", "saved"}
    /\ stage = "saved" /\ Present("gsa") => disk["gsa"].own = acct /\ disk["gsa"].form = "new"

(* do_login has yet to save gsa.plist. *)
LoginAhead ==
    \/ Len(todo) >= 1 /\ todo[1] = Put("gsa", acct)
    \/ Len(todo) >= 2 /\ todo[1] = Do("gsa", "key") /\ todo[2] = Put("gsa", acct)

(* Its files: one account's, and what the sign-in's stages have left of them. *)
Owned ==
    ~late /\ AccountFile \cap kept = {} =>
        /\ Present("gsa") => \A f \in ServiceFile \cup {"statuskit"} :
              Present(f) => disk[f].own \in {NoOne, disk["gsa"].own}
        /\ live # NoOne /\ Present("gsa") => \A f \in up \ gone : disk["gsa"].own = live
        /\ stage \in {"saved", "fresh"} =>
              /\ \A f \in ServiceFile \cup {"statuskit"} :
                    Present(f) => disk[f].own \in {NoOne, acct}
              /\ live # NoOne => \A f \in up \ gone : live = acct
        /\ stage = "clean" =>
              /\ AccountFile \subseteq gone
              /\ \A f \in ServiceFile \cup {"gsa"} :
                    disk[f] = Absent \/ Do(f, "remove") \in Pending
              /\ \/ Present("statuskit") => disk["statuskit"].own = NoOne
                 \/ Put("statuskit", NoOne) \in Pending
        /\ stage = "fresh" =>
              /\ \A f \in ServiceFile :
                    \/ disk[f] = Absent
                    \/ Present(f) /\ disk[f].form = "new"
                    \/ disk[f] = Torn /\ f \in spoiled
              /\ \/ disk["gsa"] = Saved(acct, "new")
                 \/ ~Present("gsa") /\ (LoginAhead \/ "gsa" \in spoiled)

----------------------------------------------------------------------------
(* Sequences of steps.                                                     *)

(* What is left after the first step. *)
LEMMA StepsTail ==
    ASSUME NEW S, NEW q \in Seq(S), q # <<>>
    PROVE  /\ Head(q) \in S /\ Tail(q) \in Seq(S)
           /\ Steps(q) = {Head(q)} \cup Steps(Tail(q))
<1>1. /\ Len(q) \in Nat /\ Len(q) # 0 /\ DOMAIN q = 1 .. Len(q)
      /\ \A i \in 1 .. Len(q) : q[i] \in S
  BY LenProperties, ElementOfSeq, EmptySeq
<1>2. /\ Head(q) = q[1] /\ Tail(q) \in Seq(S) /\ Len(Tail(q)) = Len(q) - 1
      /\ \A i \in 1 .. Len(Tail(q)) : Tail(q)[i] = q[i + 1]
  BY HeadTailProperties
<1>3. DOMAIN Tail(q) = 1 .. Len(Tail(q)) /\ Len(Tail(q)) \in Nat
  BY <1>2, LenProperties
<1>4. 1 \in DOMAIN q
  BY <1>1
<1>5. ASSUME NEW x \in Steps(q) PROVE x \in {Head(q)} \cup Steps(Tail(q))
  <2>1. PICK i \in 1 .. Len(q) : x = q[i]
    BY <1>1 DEF Steps
  <2>2. CASE i = 1
    BY <1>2, <2>1, <2>2
  <2>3. CASE i # 1
    <3>1. i - 1 \in 1 .. Len(Tail(q)) /\ (i - 1) + 1 = i
      BY <1>1, <1>2, <2>3
    <3>2. x = Tail(q)[i - 1] /\ i - 1 \in DOMAIN Tail(q)
      BY <1>2, <1>3, <2>1, <3>1
    <3> QED BY <3>2 DEF Steps
  <2> QED BY <2>2, <2>3
<1>6. ASSUME NEW x \in Steps(Tail(q)) PROVE x \in Steps(q)
  <2>1. PICK i \in 1 .. Len(Tail(q)) : x = Tail(q)[i]
    BY <1>3 DEF Steps
  <2>2. i + 1 \in DOMAIN q /\ x = q[i + 1]
    BY <1>1, <1>2, <1>3, <2>1
  <2> QED BY <2>2 DEF Steps
<1>7. Head(q) \in Steps(q)
  BY <1>2, <1>4 DEF Steps
<1> QED BY <1>1, <1>2, <1>4, <1>5, <1>6, <1>7

(* The steps of two sequences, one after the other. *)
LEMMA StepsConcat ==
    ASSUME NEW S, NEW p \in Seq(S), NEW q \in Seq(S)
    PROVE  p \o q \in Seq(S) /\ Steps(p \o q) = Steps(p) \cup Steps(q)
<1> DEFINE r == p \o q
<1>1. /\ r \in Seq(S) /\ Len(r) = Len(p) + Len(q)
      /\ \A i \in 1 .. Len(p) + Len(q) : r[i] = IF i <= Len(p) THEN p[i] ELSE q[i - Len(p)]
  BY ConcatProperties
<1>2. r = p \o q
  OBVIOUS
<1> HIDE DEF r
<1>3. /\ Len(p) \in Nat /\ DOMAIN p = 1 .. Len(p) /\ Len(q) \in Nat /\ DOMAIN q = 1 .. Len(q)
      /\ DOMAIN r = 1 .. Len(r)
  BY <1>1, LenProperties
<1>4. ASSUME NEW x \in Steps(r) PROVE x \in Steps(p) \cup Steps(q)
  <2>1. PICK i \in 1 .. Len(p) + Len(q) : x = r[i]
    BY <1>1, <1>3 DEF Steps
  <2>2. CASE i <= Len(p)
    <3>1. i \in DOMAIN p /\ x = p[i]
      BY <1>1, <1>3, <2>1, <2>2
    <3> QED BY <3>1 DEF Steps
  <2>3. CASE ~(i <= Len(p))
    <3>1. i - Len(p) \in DOMAIN q /\ x = q[i - Len(p)]
      BY <1>1, <1>3, <2>1, <2>3
    <3> QED BY <3>1 DEF Steps
  <2> QED BY <2>2, <2>3
<1>5. ASSUME NEW x \in Steps(p) PROVE x \in Steps(r)
  <2>1. PICK i \in DOMAIN p : x = p[i]
    BY DEF Steps
  <2>2. i \in DOMAIN r /\ x = r[i]
    BY <1>1, <1>3, <2>1
  <2> QED BY <2>2 DEF Steps
<1>6. ASSUME NEW x \in Steps(q) PROVE x \in Steps(r)
  <2>1. PICK i \in DOMAIN q : x = q[i]
    BY DEF Steps
  <2>2. i + Len(p) \in 1 .. Len(p) + Len(q) /\ ~(i + Len(p) <= Len(p)) /\ (i + Len(p)) - Len(p) = i
    BY <1>3
  <2>3. i + Len(p) \in DOMAIN r /\ x = r[i + Len(p)]
    BY <1>1, <1>3, <2>1, <2>2
  <2> QED BY <2>3 DEF Steps
<1> QED BY <1>1, <1>2, <1>4, <1>5, <1>6

(* The steps of short sequences. *)
LEMMA StepsShort ==
    /\ Steps(<<>>) = {}
    /\ \A a : Steps(<<a>>) = {a}
    /\ \A a, b : Steps(<<a, b>>) = {a, b}
    /\ \A a, b, c : Steps(<<a, b, c>>) = {a, b, c}
    /\ \A a, b, c, d : Steps(<<a, b, c, d>>) = {a, b, c, d}
<1>1. 1 .. 0 = {} /\ 1 .. 1 = {1} /\ 1 .. 2 = {1, 2} /\ 1 .. 3 = {1, 2, 3} /\ 1 .. 4 = {1, 2, 3, 4}
  OBVIOUS
<1>2. Steps(<<>>) = {}
  BY DEF Steps
<1>3. ASSUME NEW a PROVE Steps(<<a>>) = {a}
  BY <1>1 DEF Steps
<1>4. ASSUME NEW a, NEW b PROVE Steps(<<a, b>>) = {a, b}
  BY <1>1 DEF Steps
<1>5. ASSUME NEW a, NEW b, NEW c PROVE Steps(<<a, b, c>>) = {a, b, c}
  BY <1>1 DEF Steps
<1>6. ASSUME NEW a, NEW b, NEW c, NEW d PROVE Steps(<<a, b, c, d>>) = {a, b, c, d}
  BY <1>1 DEF Steps
<1> QED BY <1>2, <1>3, <1>4, <1>5, <1>6

(* A first step other than y leaves every x after a y. *)
LEMMA PrecededTail ==
    ASSUME NEW S, NEW q \in Seq(S), q # <<>>, NEW x, NEW y, Preceded(q, x, y)
    PROVE  Head(q) # x /\ (Head(q) # y => Preceded(Tail(q), x, y))
<1>1. /\ Len(q) \in Nat /\ Len(q) # 0 /\ DOMAIN q = 1 .. Len(q)
  BY LenProperties, EmptySeq
<1>2. /\ Head(q) = q[1] /\ Tail(q) \in Seq(S) /\ Len(Tail(q)) = Len(q) - 1
      /\ \A i \in 1 .. Len(Tail(q)) : Tail(q)[i] = q[i + 1]
  BY HeadTailProperties
<1>3. DOMAIN Tail(q) = 1 .. Len(Tail(q))
  BY <1>2, LenProperties
<1>4. Head(q) # x
  <2>1. 1 \in DOMAIN q /\ 1 .. 1 - 1 = {}
    BY <1>1
  <2> QED BY <1>2, <2>1 DEF Preceded
<1>5. ASSUME Head(q) # y, NEW i \in DOMAIN Tail(q), Tail(q)[i] = x
      PROVE  \E j \in 1 .. i - 1 : Tail(q)[j] = y
  <2>1. i + 1 \in DOMAIN q /\ q[i + 1] = x
    BY <1>1, <1>2, <1>3, <1>5
  <2>2. PICK j \in 1 .. (i + 1) - 1 : q[j] = y
    BY <2>1 DEF Preceded
  <2>3. j # 1
    BY <1>2, <1>5, <2>2
  <2>4. j - 1 \in 1 .. i - 1 /\ j - 1 \in 1 .. Len(Tail(q)) /\ (j - 1) + 1 = j
    BY <1>1, <1>2, <1>3, <2>2, <2>3
  <2> QED BY <1>2, <2>2, <2>4
<1> QED BY <1>4, <1>5 DEF Preceded

(* Nothing precedes nothing. *)
LEMMA PrecededNone ==
    ASSUME NEW q, NEW x, NEW y, x \notin Steps(q)
    PROVE  Preceded(q, x, y)
BY DEF Preceded, Steps

(* Everything else comes after the first step. *)
LEMMA PrecededFirst ==
    ASSUME NEW S, NEW q \in Seq(S), q # <<>>, NEW x, x # Head(q)
    PROVE  Preceded(q, x, Head(q))
<1>1. Head(q) = q[1] /\ Len(q) \in Nat /\ DOMAIN q = 1 .. Len(q)
  BY HeadTailProperties, LenProperties
<1>2. ASSUME NEW i \in DOMAIN q, q[i] = x PROVE \E j \in 1 .. i - 1 : q[j] = Head(q)
  <2>1. i # 1 /\ i \in 1 .. Len(q)
    BY <1>1, <1>2
  <2>2. 1 \in 1 .. i - 1
    BY <1>1, <2>1
  <2> QED BY <1>1, <2>2
<1> QED BY <1>2 DEF Preceded

(* The order within two sequences is their order one after the other. *)
LEMMA PrecededConcat ==
    ASSUME NEW S, NEW p \in Seq(S), NEW q \in Seq(S), NEW x, NEW y,
           Preceded(p, x, y), Preceded(q, x, y)
    PROVE  Preceded(p \o q, x, y)
<1> DEFINE r == p \o q
<1>1. /\ r \in Seq(S) /\ Len(r) = Len(p) + Len(q)
      /\ \A i \in 1 .. Len(p) + Len(q) : r[i] = IF i <= Len(p) THEN p[i] ELSE q[i - Len(p)]
  BY ConcatProperties
<1> SUFFICES Preceded(r, x, y)
  OBVIOUS
<1> HIDE DEF r
<1>2. /\ Len(p) \in Nat /\ DOMAIN p = 1 .. Len(p) /\ Len(q) \in Nat /\ DOMAIN q = 1 .. Len(q)
      /\ DOMAIN r = 1 .. Len(p) + Len(q)
  BY <1>1, LenProperties
<1> SUFFICES ASSUME NEW i \in 1 .. Len(p) + Len(q), r[i] = x
             PROVE  \E j \in 1 .. i - 1 : r[j] = y
  BY <1>2 DEF Preceded
<1>3. CASE i <= Len(p)
  <2>1. i \in DOMAIN p /\ p[i] = x
    BY <1>1, <1>2, <1>3
  <2>2. PICK j \in 1 .. i - 1 : p[j] = y
    BY <2>1 DEF Preceded
  <2>3. r[j] = p[j]
    <3>1. j \in 1 .. Len(p) + Len(q) /\ j <= Len(p)
      BY <1>2, <1>3, <2>2
    <3> QED BY <1>1, <3>1
  <2> QED BY <2>2, <2>3
<1>4. CASE ~(i <= Len(p))
  <2>1. i - Len(p) \in DOMAIN q /\ q[i - Len(p)] = x
    BY <1>1, <1>2, <1>4
  <2>2. PICK j \in 1 .. (i - Len(p)) - 1 : q[j] = y
    BY <2>1 DEF Preceded
  <2>3. /\ j + Len(p) \in 1 .. Len(p) + Len(q) /\ ~(j + Len(p) <= Len(p))
        /\ (j + Len(p)) - Len(p) = j /\ j + Len(p) \in 1 .. i - 1
    BY <1>2, <2>2
  <2>4. r[j + Len(p)] = y
    BY <1>1, <2>2, <2>3
  <2> QED BY <2>3, <2>4
<1> QED BY <1>3, <1>4

(* What comes right before a y still does after the first step; that was an x
   only if the y is next. *)
LEMMA FollowedTail ==
    ASSUME NEW S, NEW q \in Seq(S), q # <<>>, NEW x, NEW y, Followed(q, x, y)
    PROVE  /\ Followed(Tail(q), x, y)
           /\ Head(q) = x => Tail(q) # <<>> /\ Head(Tail(q)) = y
<1>1. /\ Len(q) \in Nat /\ Len(q) # 0 /\ DOMAIN q = 1 .. Len(q)
  BY LenProperties, EmptySeq
<1>2. /\ Head(q) = q[1] /\ Tail(q) \in Seq(S) /\ Len(Tail(q)) = Len(q) - 1
      /\ \A i \in 1 .. Len(Tail(q)) : Tail(q)[i] = q[i + 1]
  BY HeadTailProperties
<1>3. DOMAIN Tail(q) = 1 .. Len(Tail(q)) /\ Len(Tail(q)) \in Nat
  BY <1>2, LenProperties
<1>4. ASSUME NEW i \in DOMAIN Tail(q), Tail(q)[i] = x
      PROVE  i + 1 \in DOMAIN Tail(q) /\ Tail(q)[i + 1] = y
  <2>1. i + 1 \in DOMAIN q /\ q[i + 1] = x
    BY <1>1, <1>2, <1>3, <1>4
  <2>2. (i + 1) + 1 \in DOMAIN q /\ q[(i + 1) + 1] = y
    BY <2>1 DEF Followed
  <2>3. i + 1 \in 1 .. Len(Tail(q))
    BY <1>1, <1>2, <1>3, <2>2
  <2> QED BY <1>2, <1>3, <2>2, <2>3
<1>5. ASSUME Head(q) = x PROVE Tail(q) # <<>> /\ Head(Tail(q)) = y
  <2>1. 1 \in DOMAIN q /\ q[1] = x
    BY <1>1, <1>2, <1>5
  <2>2. 1 + 1 \in DOMAIN q /\ q[1 + 1] = y
    BY <2>1 DEF Followed
  <2>3. 1 \in 1 .. Len(Tail(q)) /\ Len(Tail(q)) # 0
    BY <1>1, <1>2, <1>3, <2>2
  <2>4. Tail(q) # <<>>
    BY <2>3, EmptySeq
  <2>5. Head(Tail(q)) = Tail(q)[1]
    BY <1>2, <2>4, HeadTailProperties
  <2> QED BY <1>2, <2>2, <2>3, <2>4, <2>5
<1> QED BY <1>4, <1>5 DEF Followed

(* Nothing comes before nothing. *)
LEMMA FollowedNone ==
    ASSUME NEW q, NEW x, NEW y, x \notin Steps(q)
    PROVE  Followed(q, x, y)
BY DEF Followed, Steps

(* The next step in one of two sequences is the next one in both. *)
LEMMA FollowedConcat ==
    ASSUME NEW S, NEW p \in Seq(S), NEW q \in Seq(S), NEW x, NEW y,
           Followed(p, x, y), Followed(q, x, y)
    PROVE  Followed(p \o q, x, y)
<1> DEFINE r == p \o q
<1>1. /\ r \in Seq(S) /\ Len(r) = Len(p) + Len(q)
      /\ \A i \in 1 .. Len(p) + Len(q) : r[i] = IF i <= Len(p) THEN p[i] ELSE q[i - Len(p)]
  BY ConcatProperties
<1> SUFFICES Followed(r, x, y)
  OBVIOUS
<1> HIDE DEF r
<1>2. /\ Len(p) \in Nat /\ DOMAIN p = 1 .. Len(p) /\ Len(q) \in Nat /\ DOMAIN q = 1 .. Len(q)
      /\ DOMAIN r = 1 .. Len(p) + Len(q)
  BY <1>1, LenProperties
<1> SUFFICES ASSUME NEW i \in 1 .. Len(p) + Len(q), r[i] = x
             PROVE  i + 1 \in 1 .. Len(p) + Len(q) /\ r[i + 1] = y
  BY <1>2 DEF Followed
<1>3. CASE i <= Len(p)
  <2>1. i \in DOMAIN p /\ p[i] = x
    BY <1>1, <1>2, <1>3
  <2>2. i + 1 \in DOMAIN p /\ p[i + 1] = y
    BY <2>1 DEF Followed
  <2>3. i + 1 \in 1 .. Len(p) + Len(q) /\ i + 1 <= Len(p)
    BY <1>2, <2>2
  <2> QED BY <1>1, <2>2, <2>3
<1>4. CASE ~(i <= Len(p))
  <2>1. i - Len(p) \in DOMAIN q /\ q[i - Len(p)] = x
    BY <1>1, <1>2, <1>4
  <2>2. (i - Len(p)) + 1 \in DOMAIN q /\ q[(i - Len(p)) + 1] = y
    BY <2>1 DEF Followed
  <2>3. /\ i + 1 \in 1 .. Len(p) + Len(q) /\ ~(i + 1 <= Len(p))
        /\ (i - Len(p)) + 1 = (i + 1) - Len(p)
    BY <1>2, <1>4, <2>2
  <2> QED BY <1>1, <2>2, <2>3
<1> QED BY <1>3, <1>4

(* The last step of a sequence comes right before the first of the next. *)
LEMMA FollowedAcross ==
    ASSUME NEW S, NEW p \in Seq(S), NEW a \in S, NEW x \in S, NEW y \in S,
           x \notin Steps(p), x # a, x # y
    PROVE  Followed((p \o <<a, x>>) \o <<y>>, x, y)
<1> DEFINE r == p \o <<a, x>>
           t == r \o <<y>>
<1>1. <<a, x>> \in Seq(S) /\ Len(<<a, x>>) = 2 /\ <<y>> \in Seq(S) /\ Len(<<y>>) = 1
  OBVIOUS
<1>2. /\ r \in Seq(S) /\ Len(r) = Len(p) + 2
      /\ \A i \in 1 .. Len(p) + 2 : r[i] = IF i <= Len(p) THEN p[i] ELSE <<a, x>>[i - Len(p)]
  BY <1>1, ConcatProperties
<1> HIDE DEF r
<1>3. /\ t \in Seq(S) /\ Len(t) = Len(r) + 1
      /\ \A i \in 1 .. Len(r) + 1 : t[i] = IF i <= Len(r) THEN r[i] ELSE <<y>>[i - Len(r)]
  BY <1>1, <1>2, ConcatProperties
<1> SUFFICES Followed(t, x, y)
  BY DEF r
<1> HIDE DEF t
<1>4. Len(p) \in Nat /\ DOMAIN p = 1 .. Len(p) /\ DOMAIN t = 1 .. Len(p) + 3
  <2>1. Len(p) \in Nat /\ DOMAIN p = 1 .. Len(p) /\ DOMAIN t = 1 .. Len(t)
    BY <1>3, LenProperties
  <2>2. Len(t) = Len(p) + 3
    BY <1>2, <1>3, <2>1
  <2> QED BY <2>1, <2>2
<1>5. t[Len(p) + 3] = y
  <2>1. Len(p) + 3 \in 1 .. Len(r) + 1 /\ ~(Len(p) + 3 <= Len(r)) /\ (Len(p) + 3) - Len(r) = 1
    BY <1>2, <1>4
  <2>2. t[Len(p) + 3] = <<y>>[1]
    BY <1>3, <2>1
  <2> QED BY <2>2
<1>6. t[Len(p) + 1] = a
  <2>1. /\ Len(p) + 1 \in 1 .. Len(r) + 1 /\ Len(p) + 1 <= Len(r) /\ Len(p) + 1 \in 1 .. Len(p) + 2
        /\ ~(Len(p) + 1 <= Len(p)) /\ (Len(p) + 1) - Len(p) = 1
    BY <1>2, <1>4
  <2>2. t[Len(p) + 1] = r[Len(p) + 1] /\ r[Len(p) + 1] = <<a, x>>[1]
    BY <1>2, <1>3, <2>1
  <2> QED BY <2>2
<1>7. ASSUME NEW i \in 1 .. Len(p) PROVE t[i] # x
  <2>1. i \in 1 .. Len(r) + 1 /\ i <= Len(r) /\ i \in 1 .. Len(p) + 2 /\ i <= Len(p)
    BY <1>2, <1>4
  <2>2. t[i] = p[i]
    BY <1>2, <1>3, <2>1
  <2> QED BY <1>4, <2>2 DEF Steps
<1>8. ASSUME NEW i \in DOMAIN t, t[i] = x PROVE i + 1 \in DOMAIN t /\ t[i + 1] = y
  <2>1. i \in 1 .. Len(p) \/ i = Len(p) + 1 \/ i = Len(p) + 2 \/ i = Len(p) + 3
    BY <1>4
  <2>2. i = Len(p) + 2
    BY <1>5, <1>6, <1>7, <1>8, <2>1
  <2>3. i + 1 = Len(p) + 3 /\ i + 1 \in 1 .. Len(p) + 3
    BY <1>4, <2>2
  <2> QED BY <1>4, <1>5, <2>3
<1> QED BY <1>8 DEF Followed

----------------------------------------------------------------------------
(* The steps of the operations.                                            *)

(* Who a file may belong to. *)
Owner == Account \cup Identity \cup {NoOne}

(* The names of the files, and which are service files. *)
LEMMA Files ==
    /\ {"hw_info", "id", "id_cache", "gsa", "statuskit", "findmy", "cloudkit", "keychain"} \subseteq File
    /\ {"findmy", "cloudkit", "keychain"} \subseteq ServiceFile /\ ServiceFile \subseteq File
    /\ {"hw_info", "id", "id_cache", "gsa", "statuskit"} \cap ServiceFile = {}
    /\ KeyedFile \subseteq File
    /\ \A f \in File : f \in ServiceFile \/ f \in {"hw_info", "id", "id_cache", "gsa", "statuskit"}
BY FilesAssumption DEF File, DeviceFile, Service, KeyedFile

(* A save leaves a file that is neither missing nor torn. *)
LEMMA SavedPresent ==
    ASSUME NEW own \in Owner, NEW form \in {"old", "keypair", "new"}
    PROVE  /\ Saved(own, form) \in Content /\ Saved(own, form) \notin {Absent, Torn}
           /\ Saved(own, form).own = own /\ Saved(own, form).form = form
<1>1. Saved(own, form) \in Plist
  BY DEF Saved, Plist, Owner
<1> QED BY <1>1, FilesAssumption DEF Content, Saved

(* What a file holds that is there. *)
LEMMA PresentType ==
    ASSUME TypeOK, NEW f \in File, Present(f)
    PROVE  disk[f].own \in Owner /\ disk[f].form \in {"old", "keypair", "new"}
<1>1. disk[f] \in Content
  BY DEF TypeOK
<1>2. disk[f] \in Plist
  BY <1>1 DEF Present, Content
<1> QED BY <1>2 DEF Plist, Owner

(* The steps are steps. *)
LEMMA StepTypes ==
    /\ \A f \in File, own \in Owner : Put(f, own) \in Step /\ PutIfAbsent(f, own) \in Step
    /\ \A f \in File, how \in {"rewrite", "remove", "key"} : Do(f, how) \in Step
    /\ \A own \in Owner : Half(own) \in Step
<1>1. \A own \in Owner : Saved(own, "new") \in Content /\ Saved(own, "keypair") \in Content
  BY SavedPresent
<1>2. Absent \in Content
  BY DEF Content
<1> QED BY <1>1, <1>2, Files DEF Put, PutIfAbsent, Do, Half, Step

(* Their fields, for telling them apart. *)
LEMMA StepFields ==
    /\ \A f, own : /\ Put(f, own).file = f /\ Put(f, own).how = "put"
                   /\ Put(f, own).put = Saved(own, "new")
    /\ \A f, own : /\ PutIfAbsent(f, own).file = f /\ PutIfAbsent(f, own).how = "if_absent"
                   /\ PutIfAbsent(f, own).put = Saved(own, "new")
    /\ \A f, how : Do(f, how).file = f /\ Do(f, how).how = how /\ Do(f, how).put = Absent
    /\ \A own : Half(own).file = "hw_info" /\ Half(own).how = "put" /\ Half(own).put = Saved(own, "keypair")
    /\ \A own, form : Saved(own, form).own = own /\ Saved(own, form).form = form
BY DEF Put, PutIfAbsent, Do, Half, Saved

(* migrate imports and saves the old files. *)
LEMMA ImportSteps ==
    ASSUME TypeOK, NEW f \in File
    PROVE  /\ Import(f) \in Seq(Step)
           /\ Steps(Import(f)) = IF IsOld(f) THEN {Do(f, "key"), Put(f, disk[f].own)} ELSE {}
<1>1. CASE IsOld(f)
  <2>1. Do(f, "key") \in Step /\ Put(f, disk[f].own) \in Step
    BY <1>1, PresentType, StepTypes DEF IsOld, Present
  <2>2. Import(f) = <<Do(f, "key"), Put(f, disk[f].own)>>
    BY <1>1 DEF Import
  <2> QED BY <1>1, <2>1, <2>2, StepsShort
<1>2. CASE ~IsOld(f)
  <2>1. Import(f) = <<>>
    BY <1>2 DEF Import
  <2> QED BY <1>2, <2>1, StepsShort, EmptySeq
<1> QED BY <1>1, <1>2

(* hw_info.plist it saves twice. *)
LEMMA HardwareSteps ==
    ASSUME TypeOK
    PROVE  /\ MigrateHardware \in Seq(Step)
           /\ Steps(MigrateHardware) =
                 IF IsOld("hw_info")
                 THEN {Do("hw_info", "key"), Half(disk["hw_info"].own), Put("hw_info", disk["hw_info"].own)}
                 ELSE {}
<1> DEFINE own == disk["hw_info"].own
<1>1. CASE IsOld("hw_info")
  <2>1. Do("hw_info", "key") \in Step /\ Half(own) \in Step /\ Put("hw_info", own) \in Step
    BY <1>1, PresentType, StepTypes, Files DEF IsOld, Present
  <2>2. MigrateHardware = <<Do("hw_info", "key"), Half(own), Put("hw_info", own)>>
    BY <1>1 DEF MigrateHardware, Half
  <2>3. \A a, b, c \in Step : <<a, b, c>> \in Seq(Step)
    OBVIOUS
  <2> QED BY <1>1, <2>1, <2>2, <2>3, StepsShort
<1>2. CASE ~IsOld("hw_info")
  <2>1. MigrateHardware = <<>>
    BY <1>2 DEF MigrateHardware
  <2> QED BY <1>2, <2>1, StepsShort, EmptySeq
<1> QED BY <1>1, <1>2

(* findmy.plist only together with gsa.plist. *)
LEMMA FindMySteps ==
    ASSUME TypeOK
    PROVE  /\ MigrateFindMy \in Seq(Step)
           /\ Steps(MigrateFindMy) = IF IsOld("gsa") /\ IsOld("findmy")
                                     THEN {Put("findmy", disk["findmy"].own)} ELSE {}
<1>1. CASE IsOld("gsa") /\ IsOld("findmy")
  <2>1. Put("findmy", disk["findmy"].own) \in Step
    BY <1>1, PresentType, StepTypes, Files DEF IsOld, Present
  <2> QED BY <1>1, <2>1, StepsShort DEF MigrateFindMy
<1>2. CASE ~(IsOld("gsa") /\ IsOld("findmy"))
  <2>1. MigrateFindMy = <<>>
    BY <1>2 DEF MigrateFindMy
  <2> QED BY <1>2, <2>1, StepsShort, EmptySeq
<1> QED BY <1>1, <1>2

(* All of migrate: every old file is saved, keys before the files naming them. *)
LEMMA MigrateSteps ==
    ASSUME TypeOK, NEW provisioned \in BOOLEAN
    PROVE  /\ Migrate(provisioned) \in Seq(Step)
           /\ Steps(Migrate(provisioned)) \subseteq MigratingStep
           /\ \A f \in {"hw_info", "id", "gsa"} :
                 IsOld(f) => Put(f, disk[f].own) \in Steps(Migrate(provisioned))
           /\ \A f \in KeyedFile : \A own : Preceded(Migrate(provisioned), Put(f, own), Do(f, "key"))
<1> DEFINE keychain == IF provisioned THEN Import("keychain") ELSE <<>>
<1>1. /\ MigrateHardware \in Seq(Step) /\ Import("id") \in Seq(Step) /\ keychain \in Seq(Step)
      /\ Import("gsa") \in Seq(Step) /\ MigrateFindMy \in Seq(Step)
  BY HardwareSteps, ImportSteps, FindMySteps, Files, EmptySeq
<1>2. Steps(keychain) \subseteq Steps(Import("keychain"))
  BY StepsShort
<1>3. Migrate(provisioned) =
        (((MigrateHardware \o Import("id")) \o keychain) \o Import("gsa")) \o MigrateFindMy
  BY DEF Migrate
<1> HIDE DEF keychain
<1>4. /\ Migrate(provisioned) \in Seq(Step)
      /\ Steps(Migrate(provisioned)) = Steps(MigrateHardware) \cup Steps(Import("id"))
             \cup Steps(keychain) \cup Steps(Import("gsa")) \cup Steps(MigrateFindMy)
  <2> DEFINE p == MigrateHardware \o Import("id")
             q == p \o keychain
             r == q \o Import("gsa")
  <2>1. p \in Seq(Step) /\ Steps(p) = Steps(MigrateHardware) \cup Steps(Import("id"))
    BY <1>1, StepsConcat
  <2>2. Migrate(provisioned) = r \o MigrateFindMy
    BY <1>3
  <2> HIDE DEF p
  <2>3. q \in Seq(Step) /\ Steps(q) = Steps(p) \cup Steps(keychain)
    BY <1>1, <2>1, StepsConcat
  <2> HIDE DEF q
  <2>4. r \in Seq(Step) /\ Steps(r) = Steps(q) \cup Steps(Import("gsa"))
    BY <1>1, <2>3, StepsConcat
  <2> HIDE DEF r
  <2>5. r \o MigrateFindMy \in Seq(Step) /\ Steps(r \o MigrateFindMy) = Steps(r) \cup Steps(MigrateFindMy)
    BY <1>1, <2>4, StepsConcat
  <2> QED BY <2>1, <2>2, <2>3, <2>4, <2>5
<1>5. /\ Steps(Import("id")) = IF IsOld("id") THEN {Do("id", "key"), Put("id", disk["id"].own)} ELSE {}
      /\ Steps(Import("gsa")) = IF IsOld("gsa") THEN {Do("gsa", "key"), Put("gsa", disk["gsa"].own)} ELSE {}
      /\ Steps(Import("keychain")) = IF IsOld("keychain") THEN {Do("keychain", "key"), Put("keychain", disk["keychain"].own)} ELSE {}
  BY ImportSteps, Files
<1>6. \A f : IsOld(f) => Present(f)
  BY DEF IsOld, Present
<1>7. /\ \A f \in KeyedFile \cup {"keychain"} : Do(f, "key") \in MigratingStep
      /\ \A f \in {"hw_info", "id", "keychain", "gsa", "findmy"} : IsOld(f) => Put(f, disk[f].own) \in MigratingStep
      /\ IsOld("hw_info") => Half(disk["hw_info"].own) \in MigratingStep
  BY <1>6 DEF MigratingStep
<1>8. {"hw_info", "id", "gsa"} \subseteq KeyedFile
  BY DEF KeyedFile
<1>9. Steps(MigrateHardware) \subseteq MigratingStep
  BY <1>7, <1>8, HardwareSteps
<1>10. Steps(MigrateFindMy) \subseteq MigratingStep
  BY <1>7, FindMySteps
<1>11. /\ Steps(Import("id")) \subseteq MigratingStep /\ Steps(Import("gsa")) \subseteq MigratingStep
       /\ Steps(keychain) \subseteq MigratingStep
  BY <1>2, <1>5, <1>7, <1>8
<1>12. IsOld("hw_info") => Put("hw_info", disk["hw_info"].own) \in Steps(MigrateHardware)
  BY HardwareSteps
<1>13. /\ IsOld("id") => Put("id", disk["id"].own) \in Steps(Import("id"))
       /\ IsOld("gsa") => Put("gsa", disk["gsa"].own) \in Steps(Import("gsa"))
  BY <1>5
<1>14. ASSUME NEW f \in KeyedFile, NEW own
       PROVE  Preceded(Migrate(provisioned), Put(f, own), Do(f, "key"))
  <2> DEFINE x == Put(f, own)
             y == Do(f, "key")
             p == MigrateHardware \o Import("id")
             q == p \o keychain
             r == q \o Import("gsa")
  <2>1. Preceded(MigrateHardware, x, y)
    <3>1. CASE f = "hw_info" /\ IsOld("hw_info")
      <4>1. MigrateHardware # <<>> /\ Head(MigrateHardware) = y
        BY <3>1 DEF MigrateHardware
      <4>2. x # y
        BY StepFields
      <4> QED BY <1>1, <4>1, <4>2, PrecededFirst
    <3>2. CASE ~(f = "hw_info" /\ IsOld("hw_info"))
      <4>1. ~IsOld("hw_info") => Steps(MigrateHardware) = {}
        BY HardwareSteps
      <4>2. \A z \in Steps(MigrateHardware) : z.file = "hw_info"
        BY HardwareSteps, StepFields
      <4>3. x \notin Steps(MigrateHardware)
        BY <3>2, <4>1, <4>2, StepFields
      <4> QED BY <4>3, PrecededNone
    <3> QED BY <3>1, <3>2
  <2>2. ASSUME NEW g \in {"id", "keychain", "gsa"} PROVE Preceded(Import(g), x, y)
    <3>1. CASE f = g /\ IsOld(g)
      <4>1. Import(g) \in Seq(Step) /\ Import(g) # <<>> /\ Head(Import(g)) = y
        <5>1. Import(g) \in Seq(Step)
          BY ImportSteps, Files
        <5>2. Import(g) = <<y, Put(g, disk[g].own)>>
          BY <3>1 DEF Import
        <5> HIDE DEF y
        <5> QED BY <5>1, <5>2
      <4>2. x # y
        BY StepFields
      <4> QED BY <4>1, <4>2, PrecededFirst
    <3>2. CASE ~(f = g /\ IsOld(g))
      <4>1. Steps(Import(g)) = IF IsOld(g) THEN {Do(g, "key"), Put(g, disk[g].own)} ELSE {}
        BY ImportSteps, Files
      <4>2. x \notin Steps(Import(g))
        BY <3>2, <4>1, StepFields
      <4> QED BY <4>2, PrecededNone
    <3> QED BY <3>1, <3>2
  <2>3. Preceded(keychain, x, y)
    BY <2>2, StepsShort, PrecededNone DEF keychain
  <2>4. Preceded(MigrateFindMy, x, y)
    <3>1. \A z \in Steps(MigrateFindMy) : z.file = "findmy"
      BY FindMySteps, StepFields
    <3>2. x \notin Steps(MigrateFindMy)
      BY <3>1, StepFields DEF KeyedFile
    <3> QED BY <3>2, PrecededNone
  <2>5. p \in Seq(Step)
    BY <1>1, StepsConcat
  <2>6. Preceded(p, x, y)
    <3> HIDE DEF x, y
    <3> QED BY <1>1, <2>1, <2>2, PrecededConcat
  <2> HIDE DEF p
  <2>7. q \in Seq(Step)
    BY <1>1, <2>5, StepsConcat
  <2>8. Preceded(q, x, y)
    <3> HIDE DEF x, y
    <3> QED BY <1>1, <2>3, <2>5, <2>6, PrecededConcat
  <2> HIDE DEF q
  <2>9. r \in Seq(Step)
    BY <1>1, <2>7, StepsConcat
  <2>10. Preceded(r, x, y)
    <3> HIDE DEF x, y
    <3> QED BY <1>1, <2>2, <2>7, <2>8, PrecededConcat
  <2> HIDE DEF r
  <2>11. Preceded(r \o MigrateFindMy, x, y)
    <3> HIDE DEF x, y
    <3> QED BY <1>1, <2>4, <2>9, <2>10, PrecededConcat
  <2>12. Migrate(provisioned) = r \o MigrateFindMy
    BY <1>3 DEF p, q, r
  <2> QED BY <2>11, <2>12
<1> QED BY <1>4, <1>9, <1>10, <1>11, <1>12, <1>13, <1>14

(* migrate puts hw_info.plist back right after its half-way save, and converts
   findmy.plist right after gsa.plist. *)
LEMMA MigrateOrder ==
    ASSUME TypeOK, NEW provisioned \in BOOLEAN
    PROVE  /\ Followed(Migrate(provisioned), Half(disk["hw_info"].own), Put("hw_info", disk["hw_info"].own))
           /\ IsOld("gsa") /\ IsOld("findmy") =>
                 Followed(Migrate(provisioned), Put("gsa", disk["gsa"].own), Put("findmy", disk["findmy"].own))
<1> DEFINE keychain == IF provisioned THEN Import("keychain") ELSE <<>>
           p == MigrateHardware \o Import("id")
           q == p \o keychain
           r == q \o Import("gsa")
<1>1. /\ MigrateHardware \in Seq(Step) /\ Import("id") \in Seq(Step) /\ keychain \in Seq(Step)
      /\ Import("gsa") \in Seq(Step) /\ MigrateFindMy \in Seq(Step)
  BY HardwareSteps, ImportSteps, FindMySteps, Files, EmptySeq
<1>2. Migrate(provisioned) = r \o MigrateFindMy
  BY DEF Migrate
<1>3. /\ \A z \in Steps(MigrateHardware) : z.file = "hw_info"
      /\ \A z \in Steps(Import("id")) : z.file = "id" /\ (z.how = "key" \/ z = Put("id", disk["id"].own))
      /\ \A z \in Steps(Import("gsa")) : z.file = "gsa"
      /\ \A z \in Steps(keychain) : z.file = "keychain"
      /\ \A z \in Steps(MigrateFindMy) : z.file = "findmy"
  <2>1. \A z \in Steps(MigrateHardware) : z.file = "hw_info"
    BY HardwareSteps, StepFields
  <2>2. ASSUME NEW f \in File, NEW z \in Steps(Import(f))
        PROVE  z.file = f /\ (z.how = "key" \/ z = Put(f, disk[f].own))
    BY ImportSteps, StepFields
  <2>3. \A z \in Steps(keychain) : z.file = "keychain"
    BY <2>2, Files, StepsShort
  <2>4. \A z \in Steps(MigrateFindMy) : z.file = "findmy"
    BY FindMySteps, StepFields
  <2> QED BY <2>1, <2>2, <2>3, <2>4, Files
<1> HIDE DEF keychain
<1>4. p \in Seq(Step) /\ Steps(p) = Steps(MigrateHardware) \cup Steps(Import("id"))
  BY <1>1, StepsConcat
<1>5. ASSUME NEW x, NEW y, Followed(MigrateHardware, x, y), x.file = "hw_info" PROVE Followed(p, x, y)
  <2>1. x \notin Steps(Import("id"))
    BY <1>3, <1>5
  <2>2. Followed(Import("id"), x, y)
    BY <2>1, FollowedNone
  <2> QED BY <1>1, <1>5, <2>2, FollowedConcat
<1> HIDE DEF p
<1>6. q \in Seq(Step) /\ Steps(q) = Steps(p) \cup Steps(keychain)
  BY <1>1, <1>4, StepsConcat
<1>7. ASSUME NEW x, NEW y, Followed(p, x, y), x.file = "hw_info" PROVE Followed(q, x, y)
  <2>1. x \notin Steps(keychain)
    BY <1>3, <1>7
  <2>2. Followed(keychain, x, y)
    BY <2>1, FollowedNone
  <2> QED BY <1>1, <1>4, <1>7, <2>2, FollowedConcat
<1> HIDE DEF q
<1>8. r \in Seq(Step)
  BY <1>1, <1>6, StepsConcat
<1>9. ASSUME NEW x, NEW y, Followed(q, x, y), x.file = "hw_info" PROVE Followed(r, x, y)
  <2>1. x \notin Steps(Import("gsa"))
    BY <1>3, <1>9
  <2>2. Followed(Import("gsa"), x, y)
    BY <2>1, FollowedNone
  <2> QED BY <1>1, <1>6, <1>9, <2>2, FollowedConcat
<1>10. IsOld("gsa") /\ IsOld("findmy") =>
         Followed(Migrate(provisioned), Put("gsa", disk["gsa"].own), Put("findmy", disk["findmy"].own))
  <2> SUFFICES ASSUME IsOld("gsa"), IsOld("findmy")
               PROVE  Followed(Migrate(provisioned), Put("gsa", disk["gsa"].own), Put("findmy", disk["findmy"].own))
    OBVIOUS
  <2> DEFINE a == Do("gsa", "key")
             x == Put("gsa", disk["gsa"].own)
             y == Put("findmy", disk["findmy"].own)
  <2>1. Import("gsa") = <<a, x>> /\ MigrateFindMy = <<y>>
    BY DEF Import, MigrateFindMy
  <2>2. a \in Step /\ x \in Step /\ y \in Step
    BY PresentType, StepTypes, Files DEF IsOld, Present
  <2>3. x # a /\ x # y /\ x.file = "gsa"
    BY StepFields
  <2>4. x \notin Steps(q)
    BY <1>3, <1>4, <1>6, <2>3
  <2> HIDE DEF a, x, y
  <2>5. Followed((q \o <<a, x>>) \o <<y>>, x, y)
    BY <1>6, <2>2, <2>3, <2>4, FollowedAcross
  <2>6. Migrate(provisioned) = (q \o <<a, x>>) \o <<y>>
    BY <1>2, <2>1
  <2> QED BY <2>5, <2>6 DEF x, y
<1> HIDE DEF r
<1>11. ASSUME NEW x, NEW y, Followed(r, x, y), x.file = "hw_info" PROVE Followed(Migrate(provisioned), x, y)
  <2>1. x \notin Steps(MigrateFindMy)
    BY <1>3, <1>11
  <2>2. Followed(MigrateFindMy, x, y)
    BY <2>1, FollowedNone
  <2> QED BY <1>1, <1>2, <1>8, <1>11, <2>2, FollowedConcat
<1> DEFINE x == Half(disk["hw_info"].own)
           y == Put("hw_info", disk["hw_info"].own)
<1>12. x.file = "hw_info"
  BY StepFields
<1>13. Followed(MigrateHardware, x, y)
  <2>1. CASE IsOld("hw_info")
    <3>1. MigrateHardware = <<Do("hw_info", "key"), x, y>>
      BY <2>1 DEF MigrateHardware, Half
    <3>2. Do("hw_info", "key") # x /\ x # y
      <4>1. Do("hw_info", "key") # x
        BY StepFields
      <4>2. Saved(disk["hw_info"].own, "keypair") # Saved(disk["hw_info"].own, "new")
        BY StepFields
      <4> QED BY <4>1, <4>2, StepFields
    <3> HIDE DEF x, y
    <3>3. ASSUME NEW a, a # x PROVE Followed(<<a, x, y>>, x, y)
      <4>1. DOMAIN <<a, x, y>> = {1, 2, 3}
        OBVIOUS
      <4>2. \A i \in {1, 2, 3} : <<a, x, y>>[i] = x => i = 2
        BY <3>2, <3>3
      <4> QED BY <4>1, <4>2 DEF Followed
    <3> QED BY <3>1, <3>2, <3>3
  <2>2. CASE ~IsOld("hw_info")
    <3>1. Steps(MigrateHardware) = {}
      BY <2>2, HardwareSteps
    <3> QED BY <3>1, FollowedNone
  <2> QED BY <2>1, <2>2
<1> HIDE DEF x, y
<1>14. Followed(Migrate(provisioned), x, y)
  BY <1>5, <1>7, <1>9, <1>11, <1>12, <1>13
<1> QED BY <1>10, <1>14 DEF x, y

(* reset_user removes every file of the account and clears the status file. *)
LEMMA ResetUserSteps ==
    /\ ResetUser \in Seq(Step)
    /\ Steps(ResetUser) = {Do(f, "remove") : f \in ServiceFile \cup {"gsa"}} \cup {Put("statuskit", NoOne)}
<1> DEFINE a == <<Do("gsa", "remove"), Do("findmy", "remove")>>
           c == <<Do("cloudkit", "remove"), Do("keychain", "remove")>>
           e == <<Put("statuskit", NoOne)>>
           p == a \o RemoveAny("facetime")
           q == p \o c
           r == q \o RemoveAny("passwords")
           t == r \o RemoveAny("sharedstreams")
<1>1. ResetUser = t \o e
  BY DEF ResetUser
<1>2. ASSUME NEW f
      PROVE  /\ RemoveAny(f) \in Seq(Step)
             /\ Steps(RemoveAny(f)) = IF f \in ServiceFile THEN {Do(f, "remove")} ELSE {}
  <2>1. CASE f \in ServiceFile
    <3>1. Do(f, "remove") \in Step
      BY <2>1, StepTypes, Files
    <3> QED BY <2>1, <3>1, StepsShort DEF RemoveAny
  <2>2. CASE f \notin ServiceFile
    <3>1. RemoveAny(f) = <<>>
      BY <2>2 DEF RemoveAny
    <3> QED BY <2>2, <3>1, StepsShort, EmptySeq
  <2> QED BY <2>1, <2>2
<1>3. /\ a \in Seq(Step) /\ c \in Seq(Step) /\ e \in Seq(Step)
      /\ Steps(a) = {Do("gsa", "remove"), Do("findmy", "remove")}
      /\ Steps(c) = {Do("cloudkit", "remove"), Do("keychain", "remove")}
      /\ Steps(e) = {Put("statuskit", NoOne)}
  <2>1. /\ Do("gsa", "remove") \in Step /\ Do("findmy", "remove") \in Step
        /\ Do("cloudkit", "remove") \in Step /\ Do("keychain", "remove") \in Step
        /\ Put("statuskit", NoOne) \in Step
    BY StepTypes, Files DEF Owner
  <2> QED BY <2>1, StepsShort
<1> HIDE DEF a, c, e
<1>4. p \in Seq(Step) /\ Steps(p) = Steps(a) \cup Steps(RemoveAny("facetime"))
  BY <1>2, <1>3, StepsConcat
<1> HIDE DEF p
<1>5. q \in Seq(Step) /\ Steps(q) = Steps(p) \cup Steps(c)
  BY <1>3, <1>4, StepsConcat
<1> HIDE DEF q
<1>6. r \in Seq(Step) /\ Steps(r) = Steps(q) \cup Steps(RemoveAny("passwords"))
  BY <1>2, <1>5, StepsConcat
<1> HIDE DEF r
<1>7. t \in Seq(Step) /\ Steps(t) = Steps(r) \cup Steps(RemoveAny("sharedstreams"))
  BY <1>2, <1>6, StepsConcat
<1> HIDE DEF t
<1>8. t \o e \in Seq(Step) /\ Steps(t \o e) = Steps(t) \cup Steps(e)
  BY <1>3, <1>7, StepsConcat
<1>9. Steps(ResetUser) = {Do("gsa", "remove"), Do("findmy", "remove"), Do("cloudkit", "remove"), Do("keychain", "remove")}
        \cup Steps(RemoveAny("facetime")) \cup Steps(RemoveAny("passwords"))
        \cup Steps(RemoveAny("sharedstreams")) \cup {Put("statuskit", NoOne)}
  BY <1>1, <1>3, <1>4, <1>5, <1>6, <1>7, <1>8
<1>10. /\ Steps(RemoveAny("facetime")) = IF "facetime" \in ServiceFile THEN {Do("facetime", "remove")} ELSE {}
       /\ Steps(RemoveAny("passwords")) = IF "passwords" \in ServiceFile THEN {Do("passwords", "remove")} ELSE {}
       /\ Steps(RemoveAny("sharedstreams")) = IF "sharedstreams" \in ServiceFile THEN {Do("sharedstreams", "remove")} ELSE {}
  BY <1>2
<1>11. /\ {"findmy", "cloudkit", "keychain"} \subseteq ServiceFile
       /\ \A f \in ServiceFile : f \in {"findmy", "facetime", "cloudkit", "keychain", "passwords", "sharedstreams"}
  BY FilesAssumption DEF Service
<1>12. \A f \in ServiceFile \cup {"gsa"} : Do(f, "remove") \in Steps(ResetUser)
  BY <1>9, <1>10, <1>11
<1>13. ASSUME NEW s \in Steps(ResetUser)
       PROVE  s \in {Do(f, "remove") : f \in ServiceFile \cup {"gsa"}} \cup {Put("statuskit", NoOne)}
  BY <1>9, <1>10, <1>11
<1>14. Put("statuskit", NoOne) \in Steps(ResetUser)
  BY <1>9
<1> QED BY <1>1, <1>8, <1>12, <1>13, <1>14

(* reset_state: the user's files if he logs out, the registration, and with the
   hardware its identity, the counters and the status file. *)
LEMMA ResetSteps ==
    ASSUME NEW reset_hw \in BOOLEAN, NEW logout \in BOOLEAN
    PROVE  /\ Reset(reset_hw, logout) \in Seq(Step)
           /\ Steps(Reset(reset_hw, logout)) =
                 {Do("id", "remove"), Do("id_cache", "rewrite")}
                 \cup (IF logout THEN Steps(ResetUser) ELSE {})
                 \cup (IF reset_hw THEN {Do(f, "remove") : f \in {"hw_info", "id_cache", "statuskit"}} ELSE {})
<1> DEFINE a == IF logout THEN ResetUser ELSE <<>>
           b == <<Do("id", "remove"), Do("id_cache", "rewrite")>>
           c == IF reset_hw THEN ResetHardware ELSE <<>>
           p == a \o b
<1>1. Reset(reset_hw, logout) = p \o c
  BY DEF Reset
<1>2. a \in Seq(Step) /\ Steps(a) = IF logout THEN Steps(ResetUser) ELSE {}
  BY ResetUserSteps, StepsShort, EmptySeq
<1>3. b \in Seq(Step) /\ Steps(b) = {Do("id", "remove"), Do("id_cache", "rewrite")}
  <2>1. Do("id", "remove") \in Step /\ Do("id_cache", "rewrite") \in Step
    BY StepTypes, Files
  <2> QED BY <2>1, StepsShort
<1>4. /\ ResetHardware \in Seq(Step)
      /\ Steps(ResetHardware) = {Do("hw_info", "remove"), Do("id_cache", "remove"), Do("statuskit", "remove")}
  <2>1. /\ Do("hw_info", "remove") \in Step /\ Do("id_cache", "remove") \in Step
        /\ Do("statuskit", "remove") \in Step
    BY StepTypes, Files
  <2>2. \A x, y, z \in Step : <<x, y, z>> \in Seq(Step)
    OBVIOUS
  <2> QED BY <2>1, <2>2, StepsShort DEF ResetHardware
<1>5. c \in Seq(Step) /\ Steps(c) = IF reset_hw THEN Steps(ResetHardware) ELSE {}
  BY <1>4, StepsShort, EmptySeq
<1> HIDE DEF a, b, c
<1>6. p \in Seq(Step) /\ Steps(p) = Steps(a) \cup Steps(b)
  BY <1>2, <1>3, StepsConcat
<1> HIDE DEF p
<1>7. p \o c \in Seq(Step) /\ Steps(p \o c) = Steps(p) \cup Steps(c)
  BY <1>5, <1>6, StepsConcat
<1>8. Steps(ResetHardware) = {Do(f, "remove") : f \in {"hw_info", "id_cache", "statuskit"}}
  BY <1>4
<1> QED BY <1>1, <1>2, <1>3, <1>5, <1>6, <1>7, <1>8

(* It removes files and clears the status file, nothing else. *)
LEMMA ResetKinds ==
    ASSUME NEW reset_hw \in BOOLEAN, NEW logout \in BOOLEAN, NEW s \in Steps(Reset(reset_hw, logout))
    PROVE  /\ s = Put("statuskit", NoOne) \/ \E f : s \in {Do(f, "remove"), Do(f, "rewrite")}
           /\ s.file \in ServiceFile \cup {"gsa"} => logout
           /\ s.file = "hw_info" => reset_hw /\ s.how = "remove"
           /\ s = Do("id_cache", "remove") => reset_hw
           /\ s = Put("statuskit", NoOne) => logout
<1>1. s \in {Do("id", "remove"), Do("id_cache", "rewrite")}
      \/ (logout /\ s \in Steps(ResetUser))
      \/ (reset_hw /\ s \in {Do(f, "remove") : f \in {"hw_info", "id_cache", "statuskit"}})
  BY ResetSteps
<1>2. CASE s \in {Do("id", "remove"), Do("id_cache", "rewrite")}
  <2>1. s.file \in {"id", "id_cache"}
    BY <1>2, StepFields
  <2>2. s # Do("id_cache", "remove") /\ s # Put("statuskit", NoOne)
    BY <1>2, StepFields
  <2> QED BY <1>2, <2>1, <2>2, Files
<1>3. CASE logout /\ s \in Steps(ResetUser)
  <2>1. s = Put("statuskit", NoOne) \/ \E f \in ServiceFile \cup {"gsa"} : s = Do(f, "remove")
    BY <1>3, ResetUserSteps
  <2>2. s.file # "hw_info" /\ s # Do("id_cache", "remove")
    BY <2>1, StepFields, Files
  <2> QED BY <1>3, <2>1, <2>2
<1>4. CASE reset_hw /\ s \in {Do(f, "remove") : f \in {"hw_info", "id_cache", "statuskit"}}
  <2>1. PICK f \in {"hw_info", "id_cache", "statuskit"} : s = Do(f, "remove")
    BY <1>4
  <2>2. s.file = f /\ s.how = "remove" /\ s # Put("statuskit", NoOne)
    BY <2>1, StepFields
  <2> QED BY <1>4, <2>1, <2>2, Files
<1> QED BY <1>1, <1>2, <1>3, <1>4

(* do_login saves gsa.plist, clears the status file and adds what is missing. *)
LEMMA LoginSteps ==
    ASSUME NEW a \in Account, NEW issued \in Issued
    PROVE  /\ Login(a, issued) \in Seq(Step)
           /\ Steps(Login(a, issued)) \subseteq {Do("gsa", "key"), Put("gsa", a), Put("statuskit", NoOne)}
                                                \cup {PutIfAbsent(f, a) : f \in ServiceFile}
           /\ Len(Login(a, issued)) >= 2
           /\ Login(a, issued)[1] = Do("gsa", "key") /\ Login(a, issued)[2] = Put("gsa", a)
           /\ \A f \in KeyedFile : \A own : Preceded(Login(a, issued), Put(f, own), Do(f, "key"))
<1> DEFINE h == <<Do("gsa", "key"), Put("gsa", a), Put("statuskit", NoOne), PutIfAbsent("findmy", a)>>
           s == IF "sharedstreams" \in issued \cap File THEN <<PutIfAbsent("sharedstreams", a)>> ELSE <<>>
           c == IF "cloudkit" \in issued THEN <<PutIfAbsent("cloudkit", a)>> ELSE <<>>
           k == IF "keychain" \in issued THEN <<PutIfAbsent("keychain", a)>> ELSE <<>>
           p == h \o s
           q == p \o c
           new == {PutIfAbsent(f, a) : f \in ServiceFile}
<1>1. Login(a, issued) = q \o k
  BY DEF Login
<1>2. "sharedstreams" \in File => "sharedstreams" \in ServiceFile
  BY Files
<1>3. \A f \in ServiceFile : PutIfAbsent(f, a) \in Step /\ PutIfAbsent(f, a) \in new
  BY StepTypes, Files DEF Owner
<1>4. /\ h \in Seq(Step)
      /\ Steps(h) = {Do("gsa", "key"), Put("gsa", a), Put("statuskit", NoOne), PutIfAbsent("findmy", a)}
  <2>1. /\ Do("gsa", "key") \in Step /\ Put("gsa", a) \in Step /\ Put("statuskit", NoOne) \in Step
        /\ PutIfAbsent("findmy", a) \in Step
    BY StepTypes, Files DEF Owner
  <2>2. \A w, x, y, z \in Step : <<w, x, y, z>> \in Seq(Step)
    OBVIOUS
  <2> QED BY <2>1, <2>2, StepsShort
<1>5. s \in Seq(Step) /\ Steps(s) \subseteq new
  <2>1. CASE "sharedstreams" \in issued \cap File
    <3>1. s = <<PutIfAbsent("sharedstreams", a)>> /\ PutIfAbsent("sharedstreams", a) \in Step
      BY <1>2, <1>3, <2>1
    <3> QED BY <1>2, <1>3, <2>1, <3>1, StepsShort
  <2>2. CASE "sharedstreams" \notin issued \cap File
    BY <2>2, StepsShort, EmptySeq
  <2> QED BY <2>1, <2>2
<1>6. c \in Seq(Step) /\ Steps(c) \subseteq new
  <2>1. PutIfAbsent("cloudkit", a) \in Step /\ PutIfAbsent("cloudkit", a) \in new
    BY <1>3, Files
  <2> QED BY <2>1, StepsShort, EmptySeq
<1>7. k \in Seq(Step) /\ Steps(k) \subseteq new
  <2>1. PutIfAbsent("keychain", a) \in Step /\ PutIfAbsent("keychain", a) \in new
    BY <1>3, Files
  <2> QED BY <2>1, StepsShort, EmptySeq
<1>8. PutIfAbsent("findmy", a) \in new
  BY <1>3, Files
<1>14. ASSUME NEW f \in KeyedFile, NEW own PROVE Put(f, own) \notin new
  BY StepFields
<1>15. h # <<>> /\ Head(h) = Do("gsa", "key")
  OBVIOUS
<1>17. Len(h) = 4 /\ h[1] = Do("gsa", "key") /\ h[2] = Put("gsa", a)
  OBVIOUS
<1> HIDE DEF h, s, c, k, new
<1>18. ASSUME NEW x \in Seq(Step), NEW y \in Seq(Step), Len(x) >= 2
       PROVE  Len(x \o y) >= 2 /\ (x \o y)[1] = x[1] /\ (x \o y)[2] = x[2]
  BY <1>18
<1>9. p \in Seq(Step) /\ Steps(p) = Steps(h) \cup Steps(s)
  BY <1>4, <1>5, StepsConcat
<1> HIDE DEF p
<1>10. q \in Seq(Step) /\ Steps(q) = Steps(p) \cup Steps(c)
  BY <1>6, <1>9, StepsConcat
<1> HIDE DEF q
<1>11. q \o k \in Seq(Step) /\ Steps(q \o k) = Steps(q) \cup Steps(k)
  BY <1>7, <1>10, StepsConcat
<1>19. Len(p) >= 2 /\ p[1] = h[1] /\ p[2] = h[2]
  <2>1. Len(h) >= 2
    BY <1>17
  <2> QED BY <1>4, <1>5, <1>18, <2>1 DEF p
<1>20. Len(q) >= 2 /\ q[1] = h[1] /\ q[2] = h[2]
  BY <1>6, <1>9, <1>18, <1>19 DEF q
<1>21. Len(q \o k) >= 2 /\ (q \o k)[1] = h[1] /\ (q \o k)[2] = h[2]
  BY <1>7, <1>10, <1>18, <1>20
<1>12. Steps(Login(a, issued)) = Steps(h) \cup Steps(s) \cup Steps(c) \cup Steps(k)
  BY <1>1, <1>9, <1>10, <1>11
<1>13. Steps(Login(a, issued)) \subseteq {Do("gsa", "key"), Put("gsa", a), Put("statuskit", NoOne)} \cup new
  BY <1>4, <1>5, <1>6, <1>7, <1>8, <1>12
<1>16. ASSUME NEW f \in KeyedFile, NEW own PROVE Preceded(q \o k, Put(f, own), Do(f, "key"))
  <2> DEFINE x == Put(f, own)
             y == Do(f, "key")
  <2>1. x # Do("gsa", "key") /\ x # PutIfAbsent("findmy", a) /\ x # Put("statuskit", NoOne)
    BY StepFields DEF KeyedFile
  <2>2. Preceded(h, x, y)
    <3>1. CASE f = "gsa"
      <4>1. Preceded(h, x, Head(h))
        BY <1>4, <1>15, <2>1, PrecededFirst
      <4> QED BY <1>15, <3>1, <4>1
    <3>2. CASE f # "gsa"
      <4>1. x # Put("gsa", a)
        BY <3>2, StepFields
      <4>2. x \notin Steps(h)
        BY <1>4, <2>1, <4>1
      <4> QED BY <4>2, PrecededNone
    <3> QED BY <3>1, <3>2
  <2>3. x \notin new
    BY <1>14
  <2> HIDE DEF x, y
  <2>4. Preceded(s, x, y) /\ Preceded(c, x, y) /\ Preceded(k, x, y)
    BY <1>5, <1>6, <1>7, <2>3, PrecededNone
  <2>5. Preceded(p, x, y)
    BY <1>4, <1>5, <2>2, <2>4, PrecededConcat DEF p
  <2>6. Preceded(q, x, y)
    BY <1>6, <1>9, <2>4, <2>5, PrecededConcat DEF q
  <2>7. Preceded(q \o k, x, y)
    BY <1>7, <1>10, <2>4, <2>6, PrecededConcat
  <2> QED BY <2>7 DEF x, y
<1> QED BY <1>1, <1>11, <1>13, <1>16, <1>17, <1>21 DEF new

(* What a start saves again: the connection's state and gsa.plist, if they are
   there. *)
LEMMA RestoreSteps ==
    ASSUME TypeOK, NEW connected \in BOOLEAN, NEW postdata \in BOOLEAN, Parses("hw_info")
    PROVE  /\ ConnectPush(connected) \in Seq(Step) /\ RestoreAccount(postdata) \in Seq(Step)
           /\ ConnectPush(connected) \o RestoreAccount(postdata) \in Seq(Step)
           /\ Steps(ConnectPush(connected)) \subseteq {Put("hw_info", disk["hw_info"].own)}
           /\ Parses("gsa") => Steps(RestoreAccount(postdata)) \subseteq {Put("gsa", disk["gsa"].own)}
           /\ ~Parses("gsa") => Steps(RestoreAccount(postdata)) = {}
           /\ Steps(ConnectPush(connected) \o RestoreAccount(postdata)) =
                 Steps(ConnectPush(connected)) \cup Steps(RestoreAccount(postdata))
<1>1. Put("hw_info", disk["hw_info"].own) \in Step
  BY PresentType, StepTypes, Files DEF Parses, Present
<1>2. Parses("gsa") => Put("gsa", disk["gsa"].own) \in Step
  BY PresentType, StepTypes, Files DEF Parses, Present
<1>3. ConnectPush(connected) \in Seq(Step) /\ Steps(ConnectPush(connected)) \subseteq {Put("hw_info", disk["hw_info"].own)}
  BY <1>1, StepsShort, EmptySeq DEF ConnectPush
<1>4. ASSUME Parses("gsa")
      PROVE  /\ RestoreAccount(postdata) \in Seq(Step)
             /\ Steps(RestoreAccount(postdata)) \subseteq {Put("gsa", disk["gsa"].own)}
  BY <1>2, <1>4, StepsShort, EmptySeq DEF RestoreAccount
<1>5. ASSUME ~Parses("gsa")
      PROVE  RestoreAccount(postdata) \in Seq(Step) /\ Steps(RestoreAccount(postdata)) = {}
  BY <1>5, StepsShort, EmptySeq DEF RestoreAccount
<1>6. RestoreAccount(postdata) \in Seq(Step)
  BY <1>4, <1>5
<1>7. /\ ConnectPush(connected) \o RestoreAccount(postdata) \in Seq(Step)
      /\ Steps(ConnectPush(connected) \o RestoreAccount(postdata)) =
            Steps(ConnectPush(connected)) \cup Steps(RestoreAccount(postdata))
  BY <1>3, <1>6, StepsConcat
<1> QED BY <1>3, <1>4, <1>5, <1>7

(* set_identity and register_ids import a key and save the file that names it. *)
LEMMA ImportAndSave ==
    ASSUME NEW f \in File, NEW own \in Owner
    PROVE  /\ <<Do(f, "key"), Put(f, own)>> \in Seq(Step)
           /\ Steps(<<Do(f, "key"), Put(f, own)>>) = {Do(f, "key"), Put(f, own)}
<1>1. Do(f, "key") \in Step /\ Put(f, own) \in Step
  BY StepTypes
<1> QED BY <1>1, StepsShort

----------------------------------------------------------------------------
(* Types, phases and owners.                                               *)

(* What every other part of the invariant rests on. *)
Base == TypeOK /\ Shape /\ Owners

(* What performing one step does to the files. *)
LEMMA PerformFacts ==
    ASSUME TypeOK, Perform, NEW s, s = Head(todo)
    PROVE  /\ todo # <<>> /\ s \in Step /\ s.file \in File
           /\ todo' = Tail(todo) /\ todo' \in Seq(Step) /\ Pending = {s} \cup Pending'
           /\ disk' \in [File -> Content]
           /\ \A f \in File : f # s.file => disk'[f] = disk[f]
           /\ s.how = "put" => disk'[s.file] = s.put
           /\ s.how = "if_absent" =>
                 disk'[s.file] = IF disk[s.file] = Absent THEN s.put ELSE disk[s.file]
           /\ s.how = "remove" => disk'[s.file] = Absent
           /\ s.how \in {"rewrite", "key"} => disk'[s.file] = disk[s.file]
           /\ keys' = IF s.how = "key" THEN keys \cup {s.file} ELSE keys
           /\ spoiled' \subseteq spoiled /\ spoiled \ spoiled' \subseteq {s.file}
           /\ spoiled' # spoiled => s.how = "remove" \/ Writes(s)
           /\ UNCHANGED <<phase, acct, stage, conn, live, up, gone, late, used, torn, cut, kept, faults>>
<1>1. /\ todo # <<>> /\ disk' = [disk EXCEPT ![s.file] = After(s)]
      /\ keys' = IF s.how = "key" THEN keys \cup {s.file} ELSE keys
      /\ todo' = Tail(todo)
      /\ spoiled' = IF s.how = "remove" \/ Writes(s) THEN spoiled \ {s.file} ELSE spoiled
      /\ UNCHANGED <<phase, acct, stage, conn, live, up, gone, late, used, torn, cut, kept, faults>>
  BY DEF Perform, memory
<1>2. s \in Step /\ Tail(todo) \in Seq(Step) /\ Steps(todo) = {s} \cup Steps(Tail(todo))
  BY <1>1, StepsTail DEF TypeOK
<1>3. Pending = {s} \cup Pending'
  BY <1>1, <1>2 DEF Pending
<1>4. s.file \in File /\ s.put \in Content /\ s.how \in {"put", "if_absent", "rewrite", "remove", "key"}
  BY <1>2 DEF Step
<1>5. /\ s.how = "put" => After(s) = s.put
      /\ s.how = "if_absent" => After(s) = IF disk[s.file] = Absent THEN s.put ELSE disk[s.file]
      /\ s.how = "remove" => After(s) = Absent
      /\ s.how \in {"rewrite", "key"} => After(s) = disk[s.file]
  BY <1>4 DEF After
<1>6. disk \in [File -> Content] /\ disk[s.file] \in Content /\ Absent \in Content
  BY <1>4 DEF TypeOK, Content
<1>7. After(s) \in Content
  BY <1>4, <1>5, <1>6
<1>8. disk' \in [File -> Content] /\ disk'[s.file] = After(s) /\ \A f \in File : f # s.file => disk'[f] = disk[f]
  BY <1>1, <1>4, <1>6, <1>7
<1> QED BY <1>1, <1>2, <1>3, <1>4, <1>5, <1>8

(* A step of migrate rewrites a file with the owner it had. *)
LEMMA MigratingPerform ==
    ASSUME Base, Perform, phase = "migrating"
    PROVE  \A f \in File : /\ Present(f)' <=> Present(f)
                           /\ Present(f) => disk'[f].own = disk[f].own
                           /\ disk'[f] = disk[f] \/ disk'[f].form \in {"keypair", "new"}
                           /\ disk[f] = Torn <=> disk'[f] = Torn
                           /\ Head(todo).how \in {"put", "key"}
<1> DEFINE s == Head(todo)
<1>1. TypeOK /\ s \in MigratingStep
  BY PerformFacts DEF Base, Shape
<1>2. /\ \A f \in File : f # s.file => disk'[f] = disk[f]
      /\ s.how = "put" => disk'[s.file] = s.put
      /\ s.how \in {"rewrite", "key"} => disk'[s.file] = disk[s.file]
      /\ s.file \in File
  BY <1>1, PerformFacts
<1> HIDE DEF s
<1>3. CASE \E f \in KeyedFile \cup {"keychain"} : s = Do(f, "key")
  <2>1. s.how = "key"
    BY <1>3, StepFields
  <2> QED BY <1>2, <2>1 DEF Present, s
<1>4. ASSUME NEW f \in File, Present(f), NEW form \in {"keypair", "new"},
             s.file = f, s.how = "put", s.put = Saved(disk[f].own, form)
      PROVE  /\ disk'[f] \notin {Absent, Torn} /\ disk'[f].own = disk[f].own /\ disk'[f].form = form
  <2>1. disk[f].own \in Owner
    BY <1>1, <1>4, PresentType
  <2> QED BY <1>2, <1>4, <2>1, SavedPresent
<1>5. CASE \E f \in {"hw_info", "id", "keychain", "gsa", "findmy"} : Present(f) /\ s = Put(f, disk[f].own)
  <2>1. PICK f \in {"hw_info", "id", "keychain", "gsa", "findmy"} : Present(f) /\ s = Put(f, disk[f].own)
    BY <1>5
  <2>2. f \in File /\ s.file = f /\ s.how = "put" /\ s.put = Saved(disk[f].own, "new")
    BY <2>1, Files, StepFields
  <2>3. disk'[f] \notin {Absent, Torn} /\ disk'[f].own = disk[f].own /\ disk'[f].form = "new"
    BY <1>4, <2>1, <2>2
  <2> QED BY <1>2, <2>1, <2>2, <2>3 DEF Present, s
<1>6. CASE Present("hw_info") /\ s = Half(disk["hw_info"].own)
  <2>2. s.file = "hw_info" /\ s.how = "put" /\ s.put = Saved(disk["hw_info"].own, "keypair") /\ "hw_info" \in File
    BY <1>6, Files, StepFields
  <2>3. disk'["hw_info"] \notin {Absent, Torn} /\ disk'["hw_info"].own = disk["hw_info"].own /\ disk'["hw_info"].form = "keypair"
    BY <1>4, <1>6, <2>2
  <2> QED BY <1>2, <1>6, <2>2, <2>3 DEF Present, s
<1> QED BY <1>1, <1>3, <1>5, <1>6 DEF MigratingStep

(* One more step done, the phase's operation still consists of its steps. *)
LEMMA PerformShape ==
    ASSUME Base, Perform
    PROVE  Shape'
<1> DEFINE s == Head(todo)
<1>1. TypeOK /\ Shape /\ Pending' \subseteq Pending /\ todo # <<>>
      /\ UNCHANGED <<phase, acct, stage, conn, live, up, gone>>
  BY PerformFacts DEF Base
<1>2. CASE phase = "migrating"
  <2>1. \A f \in {"hw_info", "id", "keychain", "gsa", "findmy"} :
          Present(f) => Present(f)' /\ disk'[f].own = disk[f].own
    BY <1>2, MigratingPerform, Files
  <2>2. MigratingStep \subseteq MigratingStep'
    BY <2>1 DEF MigratingStep
  <2> QED BY <1>1, <1>2, <2>2 DEF Shape
<1>3. CASE phase = "restoring"
  <2>1. RestoringStep' = RestoringStep
    BY <1>1 DEF RestoringStep
  <2> QED BY <1>1, <1>3, <2>1 DEF Shape
<1>4. CASE phase = "run"
  <2>1. RunStep' = RunStep
    BY <1>1 DEF RunStep
  <2> QED BY <1>1, <1>4, <2>1 DEF Shape
<1>5. phase \in {"migrating", "restoring", "run"}
  BY <1>1 DEF TypeOK, Shape
<1> QED BY <1>2, <1>3, <1>4, <1>5

(* What a step of a running operation, or of a start, leaves in a file. *)
LEMMA PerformOwners ==
    ASSUME Base, Perform
    PROVE  Owners'
<1> DEFINE s == Head(todo)
<1>1. /\ TypeOK /\ Shape /\ Owners /\ s \in Pending /\ todo # <<>> /\ s.file \in File
      /\ \A f \in File : f # s.file => disk'[f] = disk[f]
      /\ s.how = "put" => disk'[s.file] = s.put
      /\ s.how = "if_absent" =>
            disk'[s.file] = IF disk[s.file] = Absent THEN s.put ELSE disk[s.file]
      /\ s.how = "remove" => disk'[s.file] = Absent
      /\ s.how \in {"rewrite", "key"} => disk'[s.file] = disk[s.file]
  BY PerformFacts DEF Base
<1> HIDE DEF s
<1>2. CASE phase = "migrating"
  BY <1>1, <1>2, MigratingPerform, Files DEF Owners
<1>3. ASSUME disk'[s.file] \in {disk[s.file], Absent} PROVE Owners'
  BY <1>1, <1>3, Files DEF Owners, Present
<1>4. ASSUME NEW f, NEW own, f = "hw_info" => own \in Identity, f = "gsa" => own \in Account,
             f # "id_cache", s \in {Put(f, own), PutIfAbsent(f, own)}
      PROVE  Owners'
  <2>1. s.file = f /\ s.put.own = own
    BY <1>4, StepFields
  <2>2. disk'[f] \in {disk[f], s.put}
    BY <1>1, <1>4, <2>1, StepFields
  <2> QED BY <1>1, <1>4, <2>1, <2>2, Files DEF Owners, Present
<1>5. CASE phase = "restoring"
  <2>1. s \in RestoringStep
    BY <1>1, <1>5 DEF Shape
  <2> QED BY <1>4, <2>1 DEF RestoringStep
<1>6. CASE phase = "run"
  <2>1. s \in RunStep
    BY <1>1, <1>6 DEF Shape
  <2>2. CASE s.how \in {"remove", "rewrite", "key"}
    BY <1>1, <1>3, <2>2
  <2>3. CASE \E i \in Identity : s \in {Put("hw_info", i), Put("id", i)}
    BY <1>4, <2>3
  <2>4. CASE s = Put("statuskit", NoOne)
    BY <1>4, <2>4
  <2>5. CASE \E a \in Account : s = Put("gsa", a)
    BY <1>4, <2>5
  <2>6. CASE \E f \in ServiceFile, a \in Account : s = PutIfAbsent(f, a)
    <3>1. PICK f \in ServiceFile, a \in Account : s = PutIfAbsent(f, a)
      BY <2>6
    <3>2. f \notin {"hw_info", "gsa", "id_cache"}
      BY Files
    <3> QED BY <1>4, <3>1, <3>2
  <2>7. s.how \in {"remove", "rewrite", "key"}
        \/ (\E i \in Identity : s \in {Put("hw_info", i), Put("id", i)})
        \/ s = Put("statuskit", NoOne) \/ (\E a \in Account : s = Put("gsa", a))
        \/ \E f \in ServiceFile, a \in Account : s = PutIfAbsent(f, a)
    BY <2>1, StepFields DEF RunStep
  <2> QED BY <2>2, <2>3, <2>4, <2>5, <2>6, <2>7
<1>7. phase \in {"migrating", "restoring", "run"}
  BY <1>1 DEF TypeOK, Shape
<1> QED BY <1>2, <1>5, <1>6, <1>7

(* What a death of the process leaves: at most one file torn, the one in hand
   unless services were running, or the keystore lost. *)
LEMMA CrashFacts ==
    ASSUME TypeOK, Crash
    PROVE  /\ Forget /\ phase # "off"
           /\ disk' \in [File -> Content]
           /\ \A f \in File : \/ disk'[f] = disk[f]
                              \/ disk'[f] = Torn /\ f \in Tearable /\ f \in torn'
           /\ torn \subseteq torn' /\ torn' \subseteq File \cup {"keystore"}
           /\ keys' \subseteq keys /\ (keys' = keys \/ "keystore" \in torn')
           /\ cut' = (IF todo = <<>> THEN cut ELSE cut \cup {Head(todo).file}) /\ cut' \subseteq File
           /\ faults' \in 0 .. MaxFaults
           /\ UNCHANGED <<late, used, kept>>
<1>1. /\ Forget /\ phase # "off" /\ faults < MaxFaults /\ faults' = faults + 1
      /\ cut' = (IF todo = <<>> THEN cut ELSE cut \cup {Head(todo).file})
      /\ UNCHANGED <<late, used, kept>>
      /\ \/ UNCHANGED <<disk, keys, torn>>
         \/ \E f \in Tearable :
               disk' = [disk EXCEPT ![f] = Torn] /\ torn' = torn \cup {f} /\ UNCHANGED keys
         \/ keys' = {} /\ torn' = torn \cup {"keystore"} /\ UNCHANGED disk
  BY DEF Crash
<1>2. faults' \in 0 .. MaxFaults
  <2>1. faults \in 0 .. MaxFaults /\ MaxFaults \in Nat
    BY FilesAssumption DEF TypeOK
  <2> QED BY <1>1, <2>1
<1>3. todo # <<>> => Head(todo) \in Step /\ Head(todo).file \in File
  <2>1. todo \in Seq(Step)
    BY DEF TypeOK
  <2>2. todo # <<>> => Head(todo) \in Step
    BY <2>1, StepsTail
  <2> QED BY <2>2 DEF Step
<1>4. Tearable \subseteq File
  BY <1>3, Files DEF Tearable, Background, TypeOK
<1>5. cut' \subseteq File
  BY <1>1, <1>3 DEF TypeOK
<1>6. CASE UNCHANGED <<disk, keys, torn>>
  BY <1>1, <1>2, <1>5, <1>6 DEF TypeOK
<1>7. CASE \E f \in Tearable :
              disk' = [disk EXCEPT ![f] = Torn] /\ torn' = torn \cup {f} /\ UNCHANGED keys
  <2>1. PICK f \in Tearable :
              disk' = [disk EXCEPT ![f] = Torn] /\ torn' = torn \cup {f} /\ UNCHANGED keys
    BY <1>7
  <2>2. disk \in [File -> Content] /\ Torn \in Content /\ f \in File
    BY <1>4 DEF TypeOK, Content
  <2>3. disk' \in [File -> Content] /\ disk'[f] = Torn /\ \A g \in File : g # f => disk'[g] = disk[g]
    BY <2>1, <2>2
  <2> QED BY <1>1, <1>2, <1>5, <2>1, <2>2, <2>3 DEF TypeOK
<1>8. CASE keys' = {} /\ torn' = torn \cup {"keystore"} /\ UNCHANGED disk
  BY <1>1, <1>2, <1>5, <1>8 DEF TypeOK
<1> QED BY <1>1, <1>6, <1>7, <1>8

(* A step that fails in the running app ends its call, and may tear its file. *)
LEMMA StepFailsFacts ==
    ASSUME TypeOK, StepFails, NEW s, s = Head(todo)
    PROVE  /\ phase = "run" /\ todo # <<>> /\ s \in Pending /\ s.file \in File
           /\ todo' = <<>> /\ Pending' = {} /\ s.how # "remove"
           /\ disk' \in [File -> Content]
           /\ \A f \in File : \/ disk'[f] = disk[f]
                              \/ disk'[f] = Torn /\ f = s.file /\ f \in torn' /\ Writes(s)
           /\ torn \subseteq torn' /\ torn' \subseteq torn \cup File
           /\ spoiled' = spoiled \cup {s.file}
           /\ conn' = (IF s.file = "hw_info" THEN NoOne ELSE conn)
           /\ \/ UNCHANGED <<acct, stage>>
              \/ stage = "clean" /\ acct' = NoOne /\ stage' = "none"
           /\ stage = "clean" => stage' = "none" \/ s.file # "statuskit"
           /\ faults' \in 0 .. MaxFaults
           /\ UNCHANGED <<keys, phase, live, up, gone, late, used, cut, kept>>
<1>1. /\ phase = "run" /\ todo # <<>> /\ faults < MaxFaults /\ faults' = faults + 1
      /\ todo' = <<>> /\ MayFail(s)
      /\ \/ UNCHANGED <<disk, torn>>
         \/ Writes(s) /\ disk' = [disk EXCEPT ![s.file] = Torn] /\ torn' = torn \cup {s.file}
      /\ spoiled' = spoiled \cup {s.file}
      /\ conn' = (IF s.file = "hw_info" THEN NoOne ELSE conn)
      /\ IF s.file = "statuskit" /\ stage = "clean"
         THEN acct' = NoOne /\ stage' = "none" ELSE UNCHANGED <<acct, stage>>
      /\ UNCHANGED <<keys, phase, live, up, gone, late, used, cut, kept>>
  BY DEF StepFails
<1>2. s \in Step /\ s \in Pending
  BY <1>1, StepsTail DEF TypeOK, Pending
<1>3. s.file \in File
  BY <1>2 DEF Step
<1>4. s.how # "remove"
  BY <1>1, StepFields DEF MayFail, Writes
<1>5. Pending' = {}
  BY <1>1, StepsShort DEF Pending
<1>6. faults' \in 0 .. MaxFaults
  <2>1. faults \in 0 .. MaxFaults /\ MaxFaults \in Nat
    BY FilesAssumption DEF TypeOK
  <2> QED BY <1>1, <2>1
<1>7. /\ disk' \in [File -> Content]
      /\ \A f \in File : disk'[f] = disk[f] \/ (disk'[f] = Torn /\ f = s.file /\ f \in torn' /\ Writes(s))
  <2>1. disk \in [File -> Content] /\ Torn \in Content
    BY DEF TypeOK, Content
  <2>2. CASE UNCHANGED <<disk, torn>>
    BY <2>1, <2>2
  <2>3. CASE Writes(s) /\ disk' = [disk EXCEPT ![s.file] = Torn] /\ torn' = torn \cup {s.file}
    BY <1>3, <2>1, <2>3
  <2> QED BY <1>1, <2>2, <2>3
<1> QED BY <1>1, <1>2, <1>3, <1>4, <1>5, <1>6, <1>7

(* A removal that fails leaves its file and goes on to the next step. *)
LEMMA RemoveFailsFacts ==
    ASSUME Base, RemoveFails, NEW s, s = Head(todo)
    PROVE  /\ phase = "run" /\ todo # <<>> /\ s \in Pending /\ s.file \in File /\ s.how = "remove"
           /\ todo' = Tail(todo) /\ todo' \in Seq(Step) /\ Pending = {s} \cup Pending'
           /\ kept' = kept \cup {s.file} /\ faults' \in 0 .. MaxFaults
           /\ UNCHANGED <<disk, keys, phase, acct, stage, conn, live, up, gone, late, used, torn, cut, spoiled>>
<1>1. /\ todo # <<>> /\ s.how = "remove" /\ faults < MaxFaults /\ faults' = faults + 1
      /\ kept' = kept \cup {s.file} /\ todo' = Tail(todo)
      /\ UNCHANGED <<disk, keys, phase, acct, stage, conn, live, up, gone, late, used, torn, cut, spoiled>>
  BY DEF RemoveFails, memory
<1>2. s \in Step /\ Tail(todo) \in Seq(Step) /\ Steps(todo) = {s} \cup Steps(Tail(todo))
  BY <1>1, StepsTail DEF Base, TypeOK
<1>3. s \in Pending /\ Pending = {s} \cup Pending' /\ s.file \in File
  BY <1>1, <1>2 DEF Pending, Step
<1>4. faults' \in 0 .. MaxFaults
  <2>1. faults \in 0 .. MaxFaults /\ MaxFaults \in Nat
    BY FilesAssumption DEF Base, TypeOK
  <2> QED BY <1>1, <2>1
<1>5. phase = "run"
  <2>1. s \notin MigratingStep /\ s \notin RestoringStep
    BY <1>1, StepFields DEF MigratingStep, RestoringStep
  <2> QED BY <1>1, <1>3, <2>1 DEF Base, Shape, TypeOK
<1> QED BY <1>1, <1>2, <1>3, <1>4, <1>5

(* A failed save beside the calls tears one file. *)
LEMMA SaveFailsFacts ==
    ASSUME TypeOK, NEW f \in File, SaveFails(f)
    PROVE  /\ phase = "run" /\ disk' \in [File -> Content] /\ disk'[f] = Torn
           /\ f \in up \/ f \in {"hw_info", "id", "id_cache"}
           /\ \A g \in File : g # f => disk'[g] = disk[g]
           /\ torn' = torn \cup {f} /\ spoiled' = spoiled \cup {f} /\ faults' \in 0 .. MaxFaults
           /\ late' \in BOOLEAN /\ (late => late') /\ (f \in gone => late')
           /\ UNCHANGED <<keys, phase, todo, acct, stage, conn, live, up, gone, used, cut, kept>>
<1>1. /\ f \in Background /\ faults < MaxFaults /\ faults' = faults + 1
      /\ disk' = [disk EXCEPT ![f] = Torn] /\ torn' = torn \cup {f} /\ spoiled' = spoiled \cup {f}
      /\ late' = (late \/ f \in gone)
      /\ UNCHANGED <<keys, phase, todo, acct, stage, conn, live, up, gone, used, cut, kept>>
  BY DEF SaveFails, memory
<1>2. phase = "run" /\ (f \in up \/ f \in {"hw_info", "id", "id_cache"})
  BY <1>1 DEF Background
<1>3. disk \in [File -> Content] /\ Torn \in Content /\ late \in BOOLEAN
  BY DEF TypeOK, Content
<1>4. faults' \in 0 .. MaxFaults
  <2>1. faults \in 0 .. MaxFaults /\ MaxFaults \in Nat
    BY FilesAssumption DEF TypeOK
  <2> QED BY <1>1, <2>1
<1>5. disk' \in [File -> Content] /\ disk'[f] = Torn /\ \A g \in File : g # f => disk'[g] = disk[g]
  BY <1>1, <1>3
<1>6. late' \in BOOLEAN /\ (late => late') /\ (f \in gone => late')
  BY <1>1, <1>3
<1> QED BY <1>1, <1>2, <1>4, <1>5, <1>6

(* A save beside the calls replaces one file. *)
LEMMA SaveFacts ==
    ASSUME TypeOK, NEW f \in File, NEW own \in Owner, BackgroundSave(f, own)
    PROVE  /\ phase = "run" /\ disk' \in [File -> Content]
           /\ disk'[f] = Saved(own, "new") /\ disk'[f] \notin {Absent, Torn}
           /\ disk'[f].own = own /\ disk'[f].form = "new"
           /\ \A g \in File : g # f => disk'[g] = disk[g]
           /\ late' \in BOOLEAN /\ (late => late') /\ (f \in gone => late')
           /\ spoiled' = spoiled \ {f}
           /\ UNCHANGED <<keys, phase, todo, acct, stage, conn, live, up, gone, torn, cut, kept, faults>>
<1>1. /\ phase = "run" /\ disk' = [disk EXCEPT ![f] = Saved(own, "new")]
      /\ late' = (late \/ f \in gone) /\ spoiled' = spoiled \ {f}
      /\ UNCHANGED <<keys, phase, todo, acct, stage, conn, live, up, gone, torn, cut, kept, faults>>
  BY DEF BackgroundSave, memory
<1>2. Saved(own, "new") \in Content /\ Saved(own, "new") \notin {Absent, Torn}
      /\ Saved(own, "new").own = own /\ Saved(own, "new").form = "new"
  BY SavedPresent
<1>3. disk \in [File -> Content] /\ late \in BOOLEAN
  BY DEF TypeOK
<1>4. disk' \in [File -> Content] /\ disk'[f] = Saved(own, "new") /\ \A g \in File : g # f => disk'[g] = disk[g]
  BY <1>1, <1>2, <1>3
<1>5. late' \in BOOLEAN /\ (late => late') /\ (f \in gone => late')
  BY <1>1, <1>3
<1> QED BY <1>1, <1>2, <1>4, <1>5

(* Who saves what beside the calls. *)
LEMMA SavesAre ==
    ASSUME TypeOK
    PROVE  /\ \A f \in ServiceFile \cup {"statuskit"} : ServiceSave(f) =>
                 f \in up /\ f \in File /\ live \in Owner /\ BackgroundSave(f, live) /\ used' = used
           /\ PushSave => conn \in Identity /\ conn \in Owner /\ BackgroundSave("hw_info", conn) /\ used' = used
           /\ \A f \in {"id", "id_cache"} : ImClientSave(f) =>
                 /\ f \in File /\ conn \in Identity /\ conn \in Owner /\ "id" \in keys
                 /\ BackgroundSave(f, conn)
                 /\ used' = IF f = "id_cache" THEN used \cup {conn} ELSE used
<1>1. ASSUME NEW f \in ServiceFile \cup {"statuskit"}, ServiceSave(f)
      PROVE  f \in up /\ f \in File /\ live \in Owner /\ BackgroundSave(f, live) /\ used' = used
  BY <1>1, Files DEF ServiceSave, TypeOK, Owner
<1>2. ASSUME PushSave
      PROVE  conn \in Identity /\ conn \in Owner /\ BackgroundSave("hw_info", conn) /\ used' = used
  BY <1>2 DEF PushSave, TypeOK, Owner
<1>3. ASSUME NEW f \in {"id", "id_cache"}, ImClientSave(f)
      PROVE  /\ f \in File /\ conn \in Identity /\ conn \in Owner /\ "id" \in keys
             /\ BackgroundSave(f, conn)
             /\ used' = IF f = "id_cache" THEN used \cup {conn} ELSE used
  BY <1>3, Files DEF ImClientSave, TypeOK, Owner
<1> QED BY <1>1, <1>2, <1>3

(* An empty directory, or one from before the keystore. *)
LEMMA InitBase == Init => Base
<1> SUFFICES ASSUME Init PROVE Base
  OBVIOUS
<1>1. /\ keys = {} /\ phase = "off" /\ todo = <<>> /\ acct = NoOne /\ stage = "none" /\ conn = NoOne
      /\ live = NoOne /\ up = {} /\ gone = {} /\ late = FALSE /\ torn = {} /\ cut = {}
      /\ spoiled = {} /\ kept = {} /\ faults = 0
  BY DEF Init
<1>0. todo \in Seq(Step) /\ faults \in 0 .. MaxFaults
  BY <1>1, EmptySeq, FilesAssumption
<1>2. CASE disk = [f \in File |-> Absent] /\ used = {}
  <2>1. disk \in [File -> Content] /\ \A f \in File : ~Present(f)
    BY <1>2 DEF Content, Present
  <2>2. TypeOK
    BY <1>0, <1>1, <1>2, <2>1 DEF TypeOK
  <2> QED BY <1>1, <2>1, <2>2, Files DEF Base, Shape, Owners
<1>3. CASE \E a \in Account, i \in Identity : disk = OldInstall(a, i) /\ used = {i}
  <2>1. PICK a \in Account, i \in Identity : disk = OldInstall(a, i) /\ used = {i}
    BY <1>3
  <2>2. \A own \in Account \cup Identity, form \in {"old", "new"} : Saved(own, form) \in Content
    BY SavedPresent DEF Owner
  <2>3. disk \in [File -> Content]
    BY <2>1, <2>2 DEF OldInstall
  <2>4. disk["hw_info"].own = i /\ disk["id_cache"].own = i /\ disk["gsa"].own = a
    BY <2>1, Files, StepFields DEF OldInstall
  <2>5. TypeOK
    BY <1>0, <1>1, <2>1, <2>3 DEF TypeOK
  <2> QED BY <1>1, <2>4, <2>5 DEF Base, Shape, Owners
<1> QED BY <1>2, <1>3 DEF Init

(* Every step keeps the types, the phases and the owners. *)
LEMMA StepBase == Base /\ [Next]_vars => Base'
<1> SUFFICES ASSUME Base, [Next]_vars PROVE Base'
  OBVIOUS
<1>1. TypeOK /\ Shape /\ Owners
  BY DEF Base
<1>2. ASSUME disk' = disk PROVE Owners'
  BY <1>1, <1>2 DEF Owners, Present
<1>3. ASSUME Perform PROVE Base'
  <2> DEFINE s == Head(todo)
  <2>1. /\ s \in Pending /\ todo' \in Seq(Step) /\ disk' \in [File -> Content]
        /\ keys' = IF s.how = "key" THEN keys \cup {s.file} ELSE keys
        /\ spoiled' \subseteq spoiled
        /\ UNCHANGED <<phase, acct, stage, conn, live, up, gone, late, used, torn, cut, kept, faults>>
        /\ todo # <<>>
    BY <1>1, <1>3, PerformFacts
  <2> HIDE DEF s
  <2>2. s.how = "key" => s.file \in KeyedFile \cup {"keychain"}
    <3>1. s \in MigratingStep \cup RestoringStep \cup RunStep
      BY <1>1, <2>1 DEF Shape, TypeOK
    <3> QED BY <3>1, StepFields DEF MigratingStep, RestoringStep, RunStep
  <2>3. TypeOK'
    BY <1>1, <2>1, <2>2 DEF TypeOK
  <2> QED BY <1>3, <2>3, PerformShape, PerformOwners DEF Base
<1>4. ASSUME NEW provisioned \in BOOLEAN, Start(provisioned) PROVE Base'
  <2>1. /\ phase = "off" /\ phase' = "migrating" /\ todo' = Migrate(provisioned)
        /\ UNCHANGED <<disk, keys, acct, stage, conn, live, up, gone, late, used, torn, cut, spoiled, kept, faults>>
    BY <1>4 DEF Start, memory, history
  <2>2. Migrate(provisioned) \in Seq(Step) /\ Steps(Migrate(provisioned)) \subseteq MigratingStep
    BY <1>1, MigrateSteps
  <2>3. MigratingStep' = MigratingStep
    BY <2>1 DEF MigratingStep, Present
  <2>4. TypeOK'
    BY <1>1, <2>1, <2>2 DEF TypeOK
  <2>5. Shape'
    BY <1>1, <2>1, <2>2, <2>3 DEF Shape, Pending
  <2> QED BY <1>2, <2>1, <2>4, <2>5 DEF Base
<1>5. ASSUME RestoreNothing PROVE Base'
  <2>1. /\ phase = "migrating" /\ phase' = "run" /\ todo = <<>>
        /\ UNCHANGED <<disk, keys, todo, acct, stage, conn, live, up, gone, late, used, torn, cut, spoiled, kept, faults>>
    BY <1>5 DEF RestoreNothing, memory, history
  <2>2. Pending' = {}
    BY <2>1, StepsShort DEF Pending
  <2>3. TypeOK' /\ Shape'
    BY <1>1, <2>1, <2>2 DEF TypeOK, Shape
  <2> QED BY <1>2, <2>1, <2>3 DEF Base
<1>6. ASSUME NEW connected \in BOOLEAN, NEW postdata \in BOOLEAN, Restore(connected, postdata) PROVE Base'
  <2>1. /\ phase = "migrating" /\ phase' = "restoring" /\ Restorable
        /\ conn' = disk["hw_info"].own
        /\ acct' = (IF Parses("gsa") THEN disk["gsa"].own ELSE NoOne)
        /\ stage' = (IF Parses("gsa") THEN "saved" ELSE "none")
        /\ todo' = ConnectPush(connected) \o RestoreAccount(postdata)
        /\ UNCHANGED <<disk, keys, live, up, gone, late, used, torn, cut, spoiled, kept, faults>>
    BY <1>6 DEF Restore, history
  <2>2. Parses("hw_info") /\ conn' \in Identity
    BY <1>1, <2>1 DEF Restorable, Owners, Parses, Present
  <2>3. Parses("gsa") => acct' = disk["gsa"].own /\ acct' \in Account
    BY <1>1, <2>1 DEF Owners, Parses, Present
  <2>4. /\ todo' \in Seq(Step)
        /\ Steps(todo') \subseteq {Put("hw_info", conn')} \cup (IF Parses("gsa") THEN {Put("gsa", acct')} ELSE {})
    BY <1>1, <2>1, <2>2, <2>3, RestoreSteps
  <2>5. Pending' \subseteq RestoringStep'
    BY <2>2, <2>3, <2>4 DEF RestoringStep, Pending
  <2>6. TypeOK'
    BY <1>1, <2>1, <2>2, <2>3, <2>4 DEF TypeOK
  <2>7. Shape'
    BY <1>1, <2>1, <2>5 DEF Shape
  <2> QED BY <1>2, <2>1, <2>6, <2>7 DEF Base
<1>7. \A a : Built(a) \subseteq ServiceFile \cup {"statuskit"}
  BY DEF Built
<1>8. ASSUME RestoreServices PROVE Base'
  <2>1. /\ phase = "restoring" /\ todo = <<>> /\ phase' \in {"stuck", "run"}
        /\ phase' = "stuck" => UNCHANGED <<live, up, gone>>
        /\ phase' = "run" => live' = acct /\ up' = Built(acct) /\ gone' \subseteq gone
        /\ UNCHANGED <<disk, keys, todo, acct, stage, conn, late, used, torn, cut, spoiled, kept, faults>>
    BY <1>8 DEF RestoreServices, BuildServices, history
  <2>2. Pending' = {}
    BY <2>1, StepsShort DEF Pending
  <2>3. TypeOK'
    BY <1>1, <1>7, <2>1 DEF TypeOK
  <2>4. Shape'
    BY <1>1, <2>1, <2>2 DEF Shape
  <2> QED BY <1>2, <2>1, <2>3, <2>4 DEF Base
<1>9. ASSUME Call PROVE Base'
  <2>1. /\ phase = "run" /\ todo = <<>>
        /\ UNCHANGED <<disk, keys, phase, late, used, torn, cut, spoiled, kept, faults>>
    BY <1>9 DEF Call, Idle, SetIdentity, SetupPush, TryAuth, LoginRefused, TryAuthSaved, DoLogin,
                RegisterIds, MakeServices, ResetState, history
  <2>2. SUFFICES /\ todo' \in Seq(Step) /\ Pending' \subseteq RunStep'
                 /\ acct' \in Account \cup {NoOne} /\ stage' \in {"none", "saved", "clean", "fresh"}
                 /\ conn' \in Identity \cup {NoOne} /\ live' \in Account \cup {NoOne}
                 /\ up' \subseteq ServiceFile \cup {"statuskit"} /\ gone' \subseteq File
    <3>1. TypeOK'
      BY <1>1, <2>1, <2>2 DEF TypeOK
    <3>2. Shape'
      BY <1>1, <2>1, <2>2 DEF Shape
    <3> QED BY <1>2, <2>1, <3>1, <3>2 DEF Base
  <2>3. ASSUME todo' = <<>> PROVE todo' \in Seq(Step) /\ Pending' \subseteq RunStep'
    BY <2>3, StepsShort, EmptySeq DEF Pending
  <2>4. ASSUME NEW i \in Identity, SetIdentity(i)
        PROVE  todo' \in Seq(Step) /\ Pending' \subseteq RunStep' /\ UNCHANGED memory
    <3>1. todo' = <<Do("hw_info", "key"), Put("hw_info", i)>> /\ UNCHANGED memory
      BY <2>4 DEF SetIdentity
    <3>2. todo' \in Seq(Step) /\ Pending' = {Do("hw_info", "key"), Put("hw_info", i)}
      BY <3>1, ImportAndSave, Files DEF Owner, Pending
    <3> QED BY <3>1, <3>2 DEF RunStep, KeyedFile
  <2>5. ASSUME NEW connected \in BOOLEAN, SetupPush(connected)
        PROVE  /\ todo' \in Seq(Step) /\ Pending' \subseteq RunStep'
               /\ conn' \in Identity /\ gone' \subseteq gone /\ UNCHANGED <<acct, stage, live, up>>
    <3>1. /\ Parses("hw_info") /\ conn' = disk["hw_info"].own /\ gone' \subseteq gone
          /\ todo' = ConnectPush(connected) /\ UNCHANGED <<acct, stage, live, up>>
      BY <2>5 DEF SetupPush
    <3>2. conn' \in Identity
      BY <1>1, <3>1 DEF Owners, Parses, Present
    <3>3. todo' \in Seq(Step) /\ Pending' \subseteq {Put("hw_info", conn')}
      BY <1>1, <3>1, RestoreSteps DEF Pending
    <3> QED BY <3>1, <3>2, <3>3 DEF RunStep
  <2>6. ASSUME NEW a \in Account, TryAuth(a)
        PROVE  /\ todo' \in Seq(Step) /\ Pending' \subseteq RunStep'
               /\ acct' = a /\ stage' = "clean" /\ gone' \subseteq gone \cup File /\ UNCHANGED <<conn, live, up>>
    <3>1. /\ acct' = a /\ stage' = "clean" /\ gone' = gone \cup ServiceFile \cup {"gsa", "statuskit"}
          /\ todo' = ResetUser /\ UNCHANGED <<conn, live, up>>
      BY <2>6 DEF TryAuth
    <3>2. todo' \in Seq(Step) /\ Pending' \subseteq RunStep'
      BY <3>1, ResetUserSteps DEF Pending, RunStep
    <3>3. gone' \subseteq gone \cup File
      BY <3>1, Files
    <3> QED BY <3>1, <3>2, <3>3
  <2>7. ASSUME TryAuthSaved
        PROVE  todo' = <<>> /\ acct' \in Account /\ stage' = "saved" /\ UNCHANGED <<conn, live, up, gone>>
    <3>1. /\ Parses("gsa") /\ acct' = disk["gsa"].own /\ stage' = "saved" /\ todo' = todo
          /\ UNCHANGED <<conn, live, up, gone>>
      BY <2>7 DEF TryAuthSaved
    <3> QED BY <1>1, <2>1, <3>1 DEF Owners, Parses, Present
  <2>8. ASSUME NEW issued \in Issued, DoLogin(issued)
        PROVE  /\ todo' \in Seq(Step) /\ Pending' \subseteq RunStep'
               /\ stage' \in {"fresh", stage} /\ UNCHANGED <<acct, conn, live, up, gone>>
    <3>1. /\ acct \in Account /\ stage' \in {"fresh", stage} /\ todo' = Login(acct, issued)
          /\ UNCHANGED <<acct, conn, live, up, gone>>
      BY <1>1, <2>8 DEF DoLogin, TypeOK
    <3>2. /\ todo' \in Seq(Step)
          /\ Pending' \subseteq {Do("gsa", "key"), Put("gsa", acct), Put("statuskit", NoOne)}
                                \cup {PutIfAbsent(f, acct) : f \in ServiceFile}
      BY <3>1, LoginSteps DEF Pending
    <3>3. acct' = acct /\ acct \in Account \cap {acct} /\ "gsa" \in KeyedFile
      BY <3>1 DEF KeyedFile
    <3>4. {Do("gsa", "key"), Put("gsa", acct), Put("statuskit", NoOne)} \subseteq RunStep'
      BY <3>3 DEF RunStep
    <3>5. {PutIfAbsent(f, acct) : f \in ServiceFile} \subseteq RunStep'
      BY <3>3 DEF RunStep
    <3> QED BY <3>1, <3>2, <3>4, <3>5
  <2>9. ASSUME RegisterIds
        PROVE  /\ todo' \in Seq(Step) /\ Pending' \subseteq RunStep'
               /\ gone' \subseteq gone /\ UNCHANGED <<acct, stage, conn, live, up>>
    <3>1. /\ conn \in Identity /\ gone' \subseteq gone /\ todo' = <<Do("id", "key"), Put("id", conn)>>
          /\ UNCHANGED <<acct, stage, conn, live, up>>
      BY <1>1, <2>9 DEF RegisterIds, TypeOK
    <3>2. todo' \in Seq(Step) /\ Pending' = {Do("id", "key"), Put("id", conn)}
      BY <3>1, ImportAndSave, Files DEF Owner, Pending
    <3> QED BY <3>1, <3>2 DEF RunStep, KeyedFile
  <2>10. ASSUME MakeServices
         PROVE  /\ todo' = <<>> /\ live' = acct /\ up' = Built(acct) /\ gone' \subseteq gone
                /\ UNCHANGED <<acct, stage, conn>>
    BY <2>1, <2>10 DEF MakeServices, BuildServices
  <2>11. ASSUME NEW reset_hw \in BOOLEAN, NEW logout \in BOOLEAN, ResetState(reset_hw, logout)
         PROVE  /\ todo' \in Seq(Step) /\ Pending' \subseteq RunStep'
                /\ acct' \in {acct, NoOne} /\ stage' \in {stage, "none"} /\ gone' \subseteq gone \cup File
                /\ UNCHANGED <<conn, live, up>>
    <3>1. /\ acct' \in {acct, NoOne} /\ stage' \in {stage, "none"} /\ todo' = Reset(reset_hw, logout)
          /\ gone' \subseteq gone \cup {"id", "gsa", "statuskit", "hw_info", "id_cache"} \cup ServiceFile
          /\ UNCHANGED <<conn, live, up>>
      BY <2>11 DEF ResetState
    <3>2. todo' \in Seq(Step) /\ Pending' \subseteq RunStep'
      BY <3>1, ResetSteps, ResetUserSteps DEF Pending, RunStep
    <3> QED BY <3>1, <3>2, Files
  <2>12. ASSUME LoginRefused
         PROVE  todo' = <<>> /\ acct' = NoOne /\ stage' = "none" /\ UNCHANGED <<conn, live, up, gone>>
    BY <2>1, <2>12 DEF LoginRefused
  <2> QED BY <1>1, <1>7, <1>9, <2>3, <2>4, <2>5, <2>6, <2>7, <2>8, <2>9, <2>10, <2>11, <2>12
          DEF Call, TypeOK, memory
<1>10. ASSUME NEW f \in File, NEW own \in Owner, BackgroundSave(f, own), used' \subseteq Identity,
              f \in {"hw_info", "id_cache"} => own \in Identity, f # "gsa"
       PROVE  Base'
  <2>1. /\ phase = "run" /\ disk' \in [File -> Content] /\ disk'[f].own = own
        /\ \A g \in File : g # f => disk'[g] = disk[g]
        /\ late' \in BOOLEAN /\ spoiled' \subseteq spoiled
        /\ UNCHANGED <<keys, phase, todo, acct, stage, conn, live, up, gone, torn, cut, kept, faults>>
    BY <1>1, <1>10, SaveFacts
  <2>2. TypeOK'
    BY <1>1, <1>10, <2>1 DEF TypeOK
  <2>3. Shape'
    BY <1>1, <2>1 DEF Shape, Pending, RunStep
  <2>4. Owners'
    BY <1>1, <1>10, <2>1, Files DEF Owners, Present
  <2> QED BY <2>2, <2>3, <2>4 DEF Base
<1>11. ASSUME \/ \E f \in ServiceFile \cup {"statuskit"} : ServiceSave(f)
              \/ PushSave
              \/ \E f \in {"id", "id_cache"} : ImClientSave(f)
       PROVE  Base'
  <2>1. used \subseteq Identity
    BY <1>1 DEF TypeOK
  <2>2. ASSUME NEW f \in ServiceFile \cup {"statuskit"}, ServiceSave(f) PROVE Base'
    <3>1. f \in File /\ live \in Owner /\ BackgroundSave(f, live) /\ used' = used
      BY <1>1, <2>2, SavesAre
    <3>2. f \notin {"hw_info", "id_cache", "gsa"}
      BY Files
    <3> QED BY <1>10, <2>1, <3>1, <3>2
  <2>3. ASSUME PushSave PROVE Base'
    <3>1. conn \in Identity /\ conn \in Owner /\ BackgroundSave("hw_info", conn) /\ used' = used
      BY <1>1, <2>3, SavesAre
    <3> QED BY <1>10, <2>1, <3>1, Files
  <2>4. ASSUME NEW f \in {"id", "id_cache"}, ImClientSave(f) PROVE Base'
    <3>1. /\ f \in File /\ conn \in Identity /\ conn \in Owner /\ BackgroundSave(f, conn)
          /\ used' \subseteq used \cup {conn}
      BY <1>1, <2>4, SavesAre
    <3> QED BY <1>10, <2>1, <3>1
  <2> QED BY <1>11, <2>2, <2>3, <2>4
<1>12. ASSUME Forget PROVE Shape' /\ todo' = <<>> /\ phase' = "off" /\ acct' = NoOne /\ stage' = "none"
                           /\ conn' = NoOne /\ live' = NoOne /\ up' = {} /\ gone' = {} /\ spoiled' = {}
  BY <1>12 DEF Forget, Shape
<1>13. ASSUME Quit PROVE Base'
  <2>1. Forget /\ UNCHANGED <<disk, keys, late, used, torn, cut, kept, faults>>
    BY <1>13 DEF Quit
  <2>2. TypeOK'
    BY <1>1, <1>12, <2>1, EmptySeq DEF TypeOK
  <2> QED BY <1>2, <1>12, <2>1, <2>2 DEF Base
<1>14. ASSUME Crash PROVE Base'
  <2>1. /\ Forget /\ disk' \in [File -> Content]
        /\ \A f \in File : disk'[f] = disk[f] \/ disk'[f] = Torn
        /\ torn' \subseteq File \cup {"keystore"} /\ keys' \subseteq keys /\ cut' \subseteq File
        /\ faults' \in 0 .. MaxFaults /\ UNCHANGED <<late, used, kept>>
    BY <1>1, <1>14, CrashFacts
  <2>2. TypeOK'
    BY <1>1, <1>12, <2>1, EmptySeq DEF TypeOK
  <2>3. Owners'
    BY <1>1, <2>1, Files DEF Owners, Present
  <2> QED BY <1>12, <2>1, <2>2, <2>3 DEF Base
<1>15. ASSUME UNCHANGED vars PROVE Base'
  <2>1. UNCHANGED <<disk, keys, phase, todo, acct, stage, conn, live, up, gone, late, used, torn, cut, spoiled, kept, faults>>
    BY <1>15 DEF vars, memory, history
  <2>2. TypeOK' /\ Shape'
    BY <1>1, <2>1 DEF TypeOK, Shape, Pending, MigratingStep, RestoringStep, RunStep, Present
  <2> QED BY <1>2, <2>1, <2>2 DEF Base
<1>16. ASSUME disk' \in [File -> Content], \A f \in File : disk'[f] = disk[f] \/ disk'[f] = Torn
       PROVE  Owners'
  BY <1>1, <1>16, Files DEF Owners, Present
<1>17. ASSUME StepFails PROVE Base'
  <2> DEFINE s == Head(todo)
  <2>1. /\ phase = "run" /\ todo' = <<>> /\ Pending' = {} /\ s.file \in File
        /\ disk' \in [File -> Content] /\ \A f \in File : disk'[f] = disk[f] \/ disk'[f] = Torn
        /\ torn' \subseteq torn \cup File /\ spoiled' = spoiled \cup {s.file} /\ conn' \in {conn, NoOne}
        /\ UNCHANGED <<acct, stage>> \/ (acct' = NoOne /\ stage' = "none")
        /\ faults' \in 0 .. MaxFaults
        /\ UNCHANGED <<keys, phase, live, up, gone, late, used, cut, kept>>
    BY <1>1, <1>17, StepFailsFacts
  <2> HIDE DEF s
  <2>2. TypeOK'
    BY <1>1, <2>1, EmptySeq DEF TypeOK
  <2>3. Shape'
    BY <1>1, <2>1 DEF Shape
  <2> QED BY <1>16, <2>1, <2>2, <2>3 DEF Base
<1>18. ASSUME RemoveFails PROVE Base'
  <2> DEFINE s == Head(todo)
  <2>1. /\ phase = "run" /\ s.file \in File /\ todo' \in Seq(Step) /\ Pending' \subseteq Pending
        /\ kept' = kept \cup {s.file} /\ faults' \in 0 .. MaxFaults
        /\ UNCHANGED <<disk, keys, phase, acct, stage, conn, live, up, gone, late, used, torn, cut, spoiled>>
    BY <1>18, RemoveFailsFacts
  <2> HIDE DEF s
  <2>2. TypeOK'
    BY <1>1, <2>1 DEF TypeOK
  <2>3. Shape'
    BY <1>1, <2>1 DEF Shape, RunStep
  <2> QED BY <1>2, <2>1, <2>2, <2>3 DEF Base
<1>19. ASSUME NEW f \in File, SaveFails(f) PROVE Base'
  <2>1. /\ phase = "run" /\ disk' \in [File -> Content] /\ disk'[f] = Torn
        /\ \A g \in File : g # f => disk'[g] = disk[g]
        /\ torn' = torn \cup {f} /\ spoiled' = spoiled \cup {f} /\ faults' \in 0 .. MaxFaults
        /\ late' \in BOOLEAN
        /\ UNCHANGED <<keys, phase, todo, acct, stage, conn, live, up, gone, used, cut, kept>>
    BY <1>1, <1>19, SaveFailsFacts
  <2>2. TypeOK'
    BY <1>1, <2>1 DEF TypeOK
  <2>3. Shape'
    BY <1>1, <2>1 DEF Shape, Pending, RunStep
  <2> QED BY <1>16, <2>1, <2>2, <2>3 DEF Base
<1> QED BY <1>3, <1>4, <1>5, <1>6, <1>8, <1>9, <1>11, <1>13, <1>14, <1>15, <1>17, <1>18, <1>19 DEF Next

----------------------------------------------------------------------------
(* Keys come before the files that name them.                              *)

(* Keys before the files that name them. *)
KeyInv == KeyOrder /\ HandlesResolve

(* The forms a step can have. *)
LEMMA StepKinds ==
    ASSUME Base, NEW s \in Pending
    PROVE  \/ s.how \in {"remove", "rewrite", "key"} /\ s = Do(s.file, s.how)
           \/ \E own \in Owner : s = Put(s.file, own)
           \/ phase = "migrating" /\ \E own \in Owner : s = Half(own)
           \/ phase = "run" /\ acct \in Account /\ \E f \in ServiceFile : s = PutIfAbsent(f, acct)
<1>1. TypeOK /\ Shape
  BY DEF Base
<1>2. phase \in {"migrating", "restoring", "run"}
  BY <1>1, StepsShort DEF Pending, TypeOK, Shape
<1>3. CASE phase = "migrating"
  <2>1. s \in MigratingStep
    BY <1>1, <1>3 DEF Shape
  <2>2. \A f \in {"hw_info", "id", "keychain", "gsa", "findmy"} : Present(f) => disk[f].own \in Owner
    BY <1>1, PresentType, Files
  <2> QED BY <1>3, <2>1, <2>2, StepFields DEF MigratingStep
<1>4. CASE phase = "restoring"
  <2>1. s \in RestoringStep
    BY <1>1, <1>4 DEF Shape
  <2> QED BY <2>1, StepFields DEF RestoringStep, Owner
<1>5. CASE phase = "run"
  <2>1. s \in RunStep
    BY <1>1, <1>5 DEF Shape
  <2> QED BY <1>5, <2>1, StepFields DEF RunStep, Owner
<1> QED BY <1>2, <1>3, <1>4, <1>5

(* Nothing stored and no operation in progress. *)
LEMMA InitKey == Init => KeyInv
<1> SUFFICES ASSUME Init PROVE KeyInv
  OBVIOUS
<1>1. todo = <<>> /\ conn = NoOne
  BY DEF Init
<1>2. KeyOrder
  BY <1>1, StepsShort, PrecededNone DEF KeyOrder
<1>3. \A f \in KeyedFile : ~Parses(f)
  <2>1. CASE disk = [f \in File |-> Absent]
    BY <2>1, Files DEF Parses
  <2>2. CASE \E a \in Account, i \in Identity : disk = OldInstall(a, i)
    <3>1. PICK a \in Account, i \in Identity : disk = OldInstall(a, i)
      BY <2>2
    <3>2. \A f \in KeyedFile : disk[f].form = "old"
      BY <3>1, Files, StepFields DEF OldInstall, KeyedFile
    <3> QED BY <3>2 DEF Parses
  <2> QED BY <2>1, <2>2 DEF Init
<1> QED BY <1>2, <1>3 DEF KeyInv, HandlesResolve

(* Every step keeps the order of keys and files. *)
LEMMA StepKey == Base /\ KeyInv /\ [Next]_vars => KeyInv'
<1> SUFFICES ASSUME Base, KeyInv, [Next]_vars, "keystore" \notin torn' PROVE KeyInv'
  BY DEF KeyInv, KeyOrder, HandlesResolve
<1>1. TypeOK /\ Shape /\ Owners /\ torn \subseteq File \cup {"keystore"}
  BY DEF Base, TypeOK
<1>2. ASSUME "keystore" \notin torn
      PROVE  /\ \A f \in KeyedFile, own \in Owner :
                   f \in keys \/ Preceded(todo, Put(f, own), Do(f, "key"))
             /\ conn # NoOne => "hw_info" \in keys
             /\ \A f \in KeyedFile : Parses(f) => f \in keys
  BY <1>2 DEF KeyInv, KeyOrder, HandlesResolve, Owner
<1>3. SUFFICES /\ \A f \in KeyedFile, own \in Owner :
                     f \in keys' \/ Preceded(todo', Put(f, own), Do(f, "key"))
               /\ conn' # NoOne => "hw_info" \in keys'
               /\ \A f \in KeyedFile : Parses(f)' => f \in keys'
  BY <1>3 DEF KeyInv, KeyOrder, HandlesResolve, Owner
<1> DEFINE Ordered == \A f \in KeyedFile, own \in Owner :
                         f \in keys' \/ Preceded(todo', Put(f, own), Do(f, "key"))
           Resolved == \A f \in KeyedFile : Parses(f)' => f \in keys'
           Goal == Ordered /\ (conn' # NoOne => "hw_info" \in keys') /\ Resolved
<1>4. ASSUME NEW q, \A f \in KeyedFile, own \in Owner : Put(f, own) \notin Steps(q), todo' = q
      PROVE  Ordered
  BY <1>4, PrecededNone
<1>5. ASSUME UNCHANGED <<disk, keys, torn>> PROVE Resolved
  BY <1>2, <1>5 DEF Parses
<1>6. ASSUME Perform PROVE Goal
  <2> DEFINE s == Head(todo)
  <2>1. /\ s \in Pending /\ todo # <<>> /\ todo \in Seq(Step) /\ todo' = Tail(todo)
        /\ \A f \in File : f # s.file => disk'[f] = disk[f]
        /\ s.how = "put" => disk'[s.file] = s.put
        /\ s.how = "remove" => disk'[s.file] = Absent
        /\ s.how \in {"rewrite", "key"} => disk'[s.file] = disk[s.file]
        /\ keys' = IF s.how = "key" THEN keys \cup {s.file} ELSE keys
        /\ conn' = conn /\ torn' = torn
    BY <1>1, <1>6, PerformFacts DEF TypeOK
  <2>2. Ordered
    <3>1. ASSUME NEW f \in KeyedFile, NEW own \in Owner, f \notin keys'
          PROVE  Preceded(todo', Put(f, own), Do(f, "key"))
      <4>1. Preceded(todo, Put(f, own), Do(f, "key"))
        BY <1>2, <2>1, <3>1
      <4>2. s # Do(f, "key")
        BY <2>1, <3>1, StepFields
      <4> QED BY <2>1, <4>1, <4>2, PrecededTail
    <3> QED BY <3>1
  <2>3. ASSUME NEW f \in KeyedFile, Parses(f)', f \notin keys' PROVE FALSE
    <3>1. f \in File /\ f \notin keys /\ f \notin ServiceFile /\ ~Parses(f)
      BY <1>2, <2>1, <2>3, Files DEF KeyedFile
    <3>2. f = s.file /\ disk'[f] # disk[f]
      BY <2>1, <2>3, <3>1 DEF Parses
    <3>3. CASE s.how \in {"remove", "rewrite", "key"}
      BY <2>1, <2>3, <3>2, <3>3 DEF Parses
    <3>4. CASE \E own \in Owner : s = Put(s.file, own)
      <4>1. PICK own \in Owner : s = Put(f, own)
        BY <3>2, <3>4
      <4>2. Preceded(todo, Put(f, own), Do(f, "key"))
        BY <1>2, <2>1, <3>1
      <4> QED BY <2>1, <4>1, <4>2, PrecededTail
    <3>5. CASE \E own \in Owner : s = Half(own)
      <4>1. disk'[f].form = "keypair"
        BY <2>1, <3>2, <3>5, StepFields
      <4> QED BY <2>3, <4>1 DEF Parses
    <3>6. CASE \E g \in ServiceFile : s = PutIfAbsent(g, acct)
      BY <3>1, <3>2, <3>6, StepFields
    <3> QED BY <2>1, <3>3, <3>4, <3>5, <3>6, StepKinds
  <2>4. conn' # NoOne => "hw_info" \in keys'
    BY <1>2, <2>1
  <2> QED BY <2>2, <2>3, <2>4
<1>7. ASSUME NEW provisioned \in BOOLEAN, Start(provisioned) PROVE Goal
  <2>1. todo' = Migrate(provisioned) /\ UNCHANGED <<disk, keys, conn, torn>>
    BY <1>7 DEF Start, memory, history
  <2>2. Ordered
    BY <1>1, <2>1, MigrateSteps
  <2> QED BY <1>2, <1>5, <2>1, <2>2
<1>8. ASSUME todo' = todo, UNCHANGED <<disk, keys, conn, torn>> PROVE Goal
  BY <1>2, <1>5, <1>8
<1>9. ASSUME \/ RestoreNothing \/ RestoreServices \/ LoginRefused \/ TryAuthSaved \/ MakeServices
             \/ UNCHANGED vars
      PROVE  Goal
  BY <1>8, <1>9 DEF RestoreNothing, RestoreServices, LoginRefused, TryAuthSaved, MakeServices, memory,
                    history, vars
<1>10. ASSUME Parses("hw_info"), "hw_info" \in keys, UNCHANGED <<disk, keys, torn>>,
              \A z \in Steps(todo') : z.file = "hw_info" \/ (z.file = "gsa" /\ Parses("gsa"))
       PROVE  Goal
  <2>1. Parses("gsa") => "gsa" \in keys
    BY <1>2, <1>10 DEF KeyedFile
  <2>2. ASSUME NEW f \in KeyedFile, NEW own \in Owner, f \notin keys'
        PROVE  Preceded(todo', Put(f, own), Do(f, "key"))
    <3>1. Put(f, own) \notin Steps(todo')
      BY <1>10, <2>1, <2>2, StepFields
    <3> QED BY <3>1, PrecededNone
  <2> QED BY <1>5, <1>10, <2>2
<1>11. ASSUME NEW connected \in BOOLEAN, NEW postdata \in BOOLEAN, Restore(connected, postdata) PROVE Goal
  <2>1. /\ Parses("hw_info") /\ "hw_info" \in keys
        /\ todo' = ConnectPush(connected) \o RestoreAccount(postdata) /\ UNCHANGED <<disk, keys, torn>>
    BY <1>11 DEF Restore, Restorable, history
  <2>2. \A z \in Steps(todo') : z.file = "hw_info" \/ (z.file = "gsa" /\ Parses("gsa"))
    BY <1>1, <2>1, RestoreSteps, StepFields
  <2> QED BY <1>10, <2>1, <2>2
<1>12. ASSUME NEW connected \in BOOLEAN, SetupPush(connected) PROVE Goal
  <2>1. Parses("hw_info") /\ todo' = ConnectPush(connected) /\ UNCHANGED <<disk, keys, torn>>
    BY <1>12 DEF SetupPush, history
  <2>2. "hw_info" \in keys
    BY <1>2, <2>1 DEF KeyedFile
  <2>3. \A z \in Steps(todo') : z.file = "hw_info"
    BY <1>1, <2>1, RestoreSteps, StepFields
  <2> QED BY <1>10, <2>1, <2>2, <2>3
<1>13. ASSUME NEW g \in {"hw_info", "id"}, NEW own \in Owner, todo' = <<Do(g, "key"), Put(g, own)>>,
              UNCHANGED <<disk, keys, conn, torn>>
       PROVE  Goal
  <2>1. todo' \in Seq(Step) /\ Steps(todo') = {Do(g, "key"), Put(g, own)}
    BY <1>13, ImportAndSave, Files
  <2>2. todo' # <<>> /\ Head(todo') = Do(g, "key")
    BY <1>13
  <2>3. ASSUME NEW f \in KeyedFile, NEW o \in Owner PROVE Preceded(todo', Put(f, o), Do(f, "key"))
    <3>1. CASE f = g
      <4>1. Put(f, o) # Head(todo')
        BY <2>2, StepFields
      <4>2. Preceded(todo', Put(f, o), Head(todo'))
        BY <2>1, <2>2, <4>1, PrecededFirst
      <4> QED BY <2>2, <3>1, <4>2
    <3>2. CASE f # g
      <4>1. Put(f, o) \notin Steps(todo')
        BY <2>1, <3>2, StepFields
      <4> QED BY <4>1, PrecededNone
    <3> QED BY <3>1, <3>2
  <2> QED BY <1>2, <1>5, <1>13, <2>3
<1>14. ASSUME NEW i \in Identity, SetIdentity(i) PROVE Goal
  BY <1>13, <1>14 DEF SetIdentity, memory, history, Owner
<1>15. ASSUME RegisterIds PROVE Goal
  <2>1. conn \in Owner
    BY <1>1 DEF TypeOK, Owner
  <2> QED BY <1>13, <1>15, <2>1 DEF RegisterIds, history
<1>16. ASSUME \A f \in KeyedFile, own \in Owner : Put(f, own) \notin Steps(todo'),
              UNCHANGED <<disk, keys, conn, torn>>
       PROVE  Goal
  BY <1>2, <1>4, <1>5, <1>16
<1>17. ASSUME NEW a \in Account, TryAuth(a) PROVE Goal
  <2>1. todo' = ResetUser /\ UNCHANGED <<disk, keys, conn, torn>>
    BY <1>17 DEF TryAuth, history
  <2>2. \A f \in KeyedFile, own \in Owner : Put(f, own) \notin Steps(todo')
    BY <2>1, ResetUserSteps, StepFields DEF KeyedFile
  <2> QED BY <1>16, <2>1, <2>2
<1>18. ASSUME NEW reset_hw \in BOOLEAN, NEW logout \in BOOLEAN, ResetState(reset_hw, logout) PROVE Goal
  <2>1. todo' = Reset(reset_hw, logout) /\ UNCHANGED <<disk, keys, conn, torn>>
    BY <1>18 DEF ResetState, history
  <2>2. \A z \in Steps(todo') : z.how \in {"remove", "rewrite"} \/ z.file = "statuskit"
    BY <2>1, ResetKinds, StepFields
  <2>3. \A f \in KeyedFile, own \in Owner : Put(f, own) \notin Steps(todo')
    BY <2>2, StepFields DEF KeyedFile
  <2> QED BY <1>16, <2>1, <2>3
<1>19. ASSUME NEW issued \in Issued, DoLogin(issued) PROVE Goal
  <2>1. acct \in Account /\ todo' = Login(acct, issued) /\ UNCHANGED <<disk, keys, conn, torn>>
    BY <1>1, <1>19 DEF DoLogin, history, TypeOK
  <2>2. Ordered
    BY <2>1, LoginSteps
  <2> QED BY <1>2, <1>5, <2>1, <2>2
<1>20. ASSUME NEW f \in File, NEW own \in Owner, BackgroundSave(f, own), f \in KeyedFile => f \in keys
       PROVE  Goal
  <2>1. /\ \A g \in File : g # f => disk'[g] = disk[g]
        /\ UNCHANGED <<keys, todo, conn, torn>>
    BY <1>1, <1>20, SaveFacts
  <2>2. Resolved
    BY <1>2, <1>20, <2>1, Files DEF Parses
  <2> QED BY <1>2, <2>1, <2>2
<1>21. ASSUME NEW f \in ServiceFile \cup {"statuskit"}, ServiceSave(f) PROVE Goal
  <2>1. f \in File /\ f \notin KeyedFile /\ live \in Owner /\ BackgroundSave(f, live)
    BY <1>1, <1>21, SavesAre, Files DEF KeyedFile
  <2> QED BY <1>20, <2>1
<1>22. ASSUME PushSave PROVE Goal
  <2>1. conn \in Identity /\ conn \in Owner /\ BackgroundSave("hw_info", conn)
    BY <1>1, <1>22, SavesAre
  <2>2. torn' = torn /\ "hw_info" \in File
    BY <1>1, <2>1, SaveFacts, Files
  <2>3. "hw_info" \in keys
    BY <1>2, <2>1, <2>2, FilesAssumption
  <2> QED BY <1>20, <2>1, <2>2, <2>3
<1>23. ASSUME NEW f \in {"id", "id_cache"}, ImClientSave(f) PROVE Goal
  <2>1. f \in File /\ conn \in Owner /\ "id" \in keys /\ BackgroundSave(f, conn)
    BY <1>1, <1>23, SavesAre
  <2> QED BY <1>20, <2>1 DEF KeyedFile
<1>24. ASSUME Quit PROVE Goal
  <2>1. todo' = <<>> /\ conn' = NoOne /\ UNCHANGED <<disk, keys, torn>>
    BY <1>24 DEF Quit, Forget, history
  <2> QED BY <1>4, <1>5, <2>1, StepsShort
<1>25. ASSUME Crash PROVE Goal
  <2>1. /\ todo' = <<>> /\ conn' = NoOne /\ "keystore" \notin torn /\ keys' = keys
        /\ \A f \in File : disk'[f] = disk[f] \/ disk'[f] = Torn
    BY <1>1, <1>25, CrashFacts DEF Forget
  <2>2. Resolved
    BY <1>2, <2>1, Files DEF Parses
  <2> QED BY <1>4, <2>1, <2>2, StepsShort
<1>26. ASSUME StepFails PROVE Goal
  <2>1. /\ todo' = <<>> /\ conn' \in {conn, NoOne} /\ torn \subseteq torn' /\ keys' = keys
        /\ \A f \in File : disk'[f] = disk[f] \/ disk'[f] = Torn
    BY <1>1, <1>26, StepFailsFacts
  <2>2. Resolved
    BY <1>2, <2>1, Files DEF Parses
  <2>3. conn' # NoOne => "hw_info" \in keys'
    BY <1>2, <2>1
  <2> QED BY <1>4, <2>1, <2>2, <2>3, StepsShort
<1>27. ASSUME RemoveFails PROVE Goal
  <2> DEFINE s == Head(todo)
  <2>1. /\ todo # <<>> /\ todo \in Seq(Step) /\ todo' = Tail(todo) /\ s.how = "remove"
        /\ UNCHANGED <<disk, keys, conn, torn>>
    BY <1>1, <1>27, RemoveFailsFacts DEF TypeOK
  <2>2. ASSUME NEW f \in KeyedFile, NEW own \in Owner, f \notin keys'
        PROVE  Preceded(todo', Put(f, own), Do(f, "key"))
    <3>1. Preceded(todo, Put(f, own), Do(f, "key"))
      BY <1>2, <2>1, <2>2
    <3>2. s # Do(f, "key")
      BY <2>1, StepFields
    <3> QED BY <2>1, <3>1, <3>2, PrecededTail
  <2> QED BY <1>2, <1>5, <2>1, <2>2
<1>28. ASSUME NEW f \in File, SaveFails(f) PROVE Goal
  <2>1. /\ disk'[f] = Torn /\ \A g \in File : g # f => disk'[g] = disk[g]
        /\ torn \subseteq torn' /\ UNCHANGED <<keys, todo, conn>>
    BY <1>1, <1>28, SaveFailsFacts
  <2>2. Resolved
    BY <1>2, <2>1, Files DEF Parses
  <2> QED BY <1>2, <2>1, <2>2
<1> QED BY <1>6, <1>7, <1>9, <1>11, <1>12, <1>14, <1>15, <1>17, <1>18, <1>19, <1>21, <1>22, <1>23, <1>24, <1>25,
           <1>26, <1>27, <1>28
        DEF Next, Call

----------------------------------------------------------------------------
(* migrate, cut off anywhere, is complete when the app runs.               *)

(* The migration. *)
MoveInv == Moving /\ HalfWay /\ Together

(* Nothing writes an old file, and only migrate a half-way one. *)
LEMMA PerformForms ==
    ASSUME Base, Perform, NEW f \in File
    PROVE  \/ disk'[f] = disk[f]
           \/ disk'[f] = Absent /\ phase = "run"
           \/ disk'[f].form = "new" /\ f = Head(todo).file
           \/ phase = "migrating" /\ f = "hw_info" /\ \E own \in Owner : Head(todo) = Half(own)
<1> DEFINE s == Head(todo)
<1>1. /\ s \in Pending /\ s.file \in File
      /\ \A g \in File : g # s.file => disk'[g] = disk[g]
      /\ s.how = "put" => disk'[s.file] = s.put
      /\ s.how = "if_absent" =>
            disk'[s.file] = IF disk[s.file] = Absent THEN s.put ELSE disk[s.file]
      /\ s.how = "remove" => disk'[s.file] = Absent
      /\ s.how \in {"rewrite", "key"} => disk'[s.file] = disk[s.file]
  BY PerformFacts DEF Base
<1> HIDE DEF s
<1>2. CASE f # s.file
  BY <1>1, <1>2
<1>3. CASE f = s.file
  <2>1. CASE s.how \in {"remove", "rewrite", "key"}
    <3>1. s.how = "remove" => phase = "run"
      <4>1. s \in MigratingStep \cup RestoringStep \/ phase = "run"
        BY <1>1, StepsShort DEF Base, Shape, TypeOK, Pending
      <4>2. \A z \in MigratingStep \cup RestoringStep : z.how # "remove"
        BY StepFields DEF MigratingStep, RestoringStep
      <4> QED BY <4>1, <4>2
    <3> QED BY <1>1, <1>3, <2>1, <3>1
  <2>2. CASE \E own \in Owner : s = Put(s.file, own)
    <3>1. s.how = "put" /\ s.put.form = "new"
      BY <2>2, StepFields
    <3> QED BY <1>1, <1>3, <3>1 DEF s
  <2>3. CASE phase = "migrating" /\ \E own \in Owner : s = Half(own)
    BY <1>3, <2>3, StepFields DEF s
  <2>4. CASE \E g \in ServiceFile : s = PutIfAbsent(g, acct)
    <3>1. s.how = "if_absent" /\ s.put.form = "new"
      BY <2>4, StepFields
    <3> QED BY <1>1, <1>3, <3>1 DEF s
  <2> QED BY <1>1, <2>1, <2>2, <2>3, <2>4, StepKinds
<1> QED BY <1>2, <1>3

(* Nothing yet, or everything old. *)
LEMMA InitMove == Init => MoveInv
<1> SUFFICES ASSUME Init PROVE MoveInv
  OBVIOUS
<1>1. phase = "off"
  BY DEF Init
<1>2. CASE disk = [f \in File |-> Absent]
  <2>1. \A f \in File : ~IsOld(f) /\ ~Present(f)
    BY <1>2 DEF IsOld, Present
  <2> QED BY <1>1, <2>1, Files DEF MoveInv, Moving, HalfWay, Together
<1>3. CASE \E a \in Account, i \in Identity : disk = OldInstall(a, i)
  <2>1. PICK a \in Account, i \in Identity : disk = OldInstall(a, i)
    BY <1>3
  <2>2. disk["gsa"] = Saved(a, "old") /\ disk["hw_info"] = Saved(i, "old")
    BY <2>1, Files DEF OldInstall
  <2>3. disk["hw_info"].form = "old" /\ IsOld("gsa")
    BY <2>2, SavedPresent DEF IsOld, Owner
  <2> QED BY <1>1, <2>3 DEF MoveInv, Moving, HalfWay, Together
<1> QED BY <1>2, <1>3 DEF Init

(* Every step keeps the migration on its way or done. *)
LEMMA StepMove == Base /\ MoveInv /\ [Next]_vars => MoveInv'
<1> SUFFICES ASSUME Base, MoveInv, [Next]_vars PROVE MoveInv'
  OBVIOUS
<1>1. TypeOK /\ Shape /\ Moving /\ HalfWay /\ Together
  BY DEF Base, MoveInv
<1> DEFINE Three == {"hw_info", "id", "gsa"}
           half == Half(disk["hw_info"].own)
           whole == Put("hw_info", disk["hw_info"].own)
<1>2. Three \subseteq File /\ "findmy" \in File
  BY Files
<1>3. ASSUME Perform, phase = "migrating" PROVE MoveInv'
  <2> DEFINE s == Head(todo)
  <2>1. /\ todo # <<>> /\ todo \in Seq(Step) /\ todo' = Tail(todo) /\ Pending = {s} \cup Pending'
        /\ phase' = phase /\ cut' = cut /\ s.file \in File /\ s \in Pending
        /\ \A g \in File : g # s.file => disk'[g] = disk[g]
        /\ s.how = "put" => disk'[s.file] = s.put
        /\ s.how = "key" => disk'[s.file] = disk[s.file]
    BY <1>1, <1>3, PerformFacts DEF TypeOK
  <2>2. \A f \in File : /\ Present(f)' <=> Present(f)
                        /\ Present(f) => disk'[f].own = disk[f].own
                        /\ disk'[f] = disk[f] \/ disk'[f].form \in {"keypair", "new"}
                        /\ s.how \in {"put", "key"}
    BY <1>3, MigratingPerform
  <2>3. ASSUME NEW f, NEW own, s = Put(f, own) PROVE disk'[f].form = "new" /\ s.file = f
    BY <2>1, <2>3, StepFields
  <2>4. ASSUME NEW f \in File, IsOld(f)' PROVE disk'[f] = disk[f] /\ IsOld(f) /\ ~\E own : s = Put(f, own)
    <3>1. disk'[f] = disk[f]
      BY <2>2, <2>4 DEF IsOld
    <3> QED BY <2>3, <2>4, <3>1 DEF IsOld
  <2>5. Moving'
    <3>1. ASSUME NEW f \in Three, IsOld(f)' PROVE Put(f, disk'[f].own) \in Pending'
      <4>1. disk'[f] = disk[f] /\ IsOld(f) /\ ~\E own : s = Put(f, own)
        BY <1>2, <2>4, <3>1
      <4>2. Put(f, disk[f].own) \in Pending
        BY <1>1, <1>3, <4>1 DEF Moving
      <4> QED BY <2>1, <4>1, <4>2
    <3> QED BY <1>3, <2>1, <3>1 DEF Moving
  <2>6. HalfWay'
    <3>1. ASSUME Present("hw_info")'
          PROVE  /\ disk'["hw_info"].own = disk["hw_info"].own /\ Present("hw_info")
                 /\ Followed(todo, half, whole) /\ Followed(todo', half, whole)
      <4>1. Present("hw_info") /\ disk'["hw_info"].own = disk["hw_info"].own
        BY <1>2, <2>2, <3>1
      <4>2. Followed(todo, half, whole)
        BY <1>1, <1>3, <4>1 DEF HalfWay
      <4> QED BY <2>1, <4>1, <4>2, FollowedTail
    <3>2. ASSUME "hw_info" \notin cut, Present("hw_info")', disk'["hw_info"].form = "keypair"
          PROVE  todo' # <<>> /\ Head(todo') = whole
      <4>1. disk'["hw_info"] # disk["hw_info"]
        <5>1. ASSUME disk'["hw_info"] = disk["hw_info"] PROVE FALSE
          <6>1. Present("hw_info") /\ disk["hw_info"].form = "keypair"
            BY <3>1, <3>2, <5>1
          <6>2. s = Put("hw_info", disk["hw_info"].own)
            BY <1>1, <3>2, <6>1 DEF HalfWay
          <6> QED BY <2>3, <3>2, <6>2
        <5> QED BY <5>1
      <4>2. s.file = "hw_info" /\ s.how = "put" /\ s.put.form = "keypair"
        BY <1>2, <2>1, <2>2, <3>2, <4>1
      <4>3. s \in MigratingStep
        BY <1>1, <1>3, <2>1 DEF Shape
      <4>4. s = half
        BY <4>2, <4>3, StepFields DEF MigratingStep
      <4> QED BY <2>1, <3>1, <3>2, <4>4, FollowedTail
    <3> QED BY <1>3, <2>1, <3>1, <3>2 DEF HalfWay
  <2>7. Together'
    <3> SUFFICES ASSUME {"gsa", "findmy"} \cap cut = {}, IsOld("findmy")' PROVE Together'
      BY <2>1 DEF Together
    <3>1. disk'["findmy"] = disk["findmy"] /\ IsOld("findmy") /\ ~\E own : s = Put("findmy", own)
      BY <1>2, <2>4
    <3>2. IsOld("gsa") /\ Followed(todo, Put("gsa", disk["gsa"].own), Put("findmy", disk["findmy"].own))
      BY <1>1, <1>3, <3>1 DEF Together
    <3> DEFINE x == Put("gsa", disk["gsa"].own)
               y == Put("findmy", disk["findmy"].own)
    <3>3. Followed(todo', x, y) /\ (s = x => todo' # <<>> /\ Head(todo') = y)
      <4> HIDE DEF x, y
      <4>1. Followed(todo, x, y)
        BY <3>2 DEF x, y
      <4> QED BY <2>1, <4>1, FollowedTail
    <3>4. CASE disk'["gsa"] = disk["gsa"]
      <4>1. IsOld("gsa")'
        BY <3>2, <3>4 DEF IsOld
      <4>2. Followed(todo', Put("gsa", disk'["gsa"].own), Put("findmy", disk'["findmy"].own))
        BY <3>1, <3>3, <3>4
      <4> QED BY <1>3, <2>1, <4>1, <4>2 DEF Together
    <3>5. CASE disk'["gsa"] # disk["gsa"]
      <4>1. s.file = "gsa" /\ s.how = "put"
        BY <1>2, <2>1, <2>2, <3>5
      <4>2. s \in MigratingStep
        BY <1>1, <1>3, <2>1 DEF Shape
      <4>3. s = x
        BY <4>1, <4>2, StepFields DEF MigratingStep
      <4>4. todo' # <<>> /\ Head(todo') = Put("findmy", disk'["findmy"].own)
        BY <3>1, <3>3, <4>3
      <4> QED BY <1>3, <2>1, <4>4 DEF Together
    <3> QED BY <3>4, <3>5
  <2> QED BY <2>5, <2>6, <2>7 DEF MoveInv
<1>4. ASSUME phase \in {"restoring", "run"}, phase' \in {"restoring", "run", "stuck"}, cut' = cut,
             \A f \in File : disk'[f] = disk[f] \/ disk'[f] \in {Absent, Torn} \/ disk'[f].form = "new"
      PROVE  MoveInv'
  <2>1. \A f \in File : IsOld(f)' => IsOld(f) /\ disk'[f] = disk[f]
    BY <1>4 DEF IsOld
  <2>2. Moving'
    BY <1>1, <1>2, <1>4, <2>1 DEF Moving
  <2>3. HalfWay'
    BY <1>1, <1>2, <1>4 DEF HalfWay, Present
  <2>4. Together'
    BY <1>1, <1>2, <1>4, <2>1 DEF Together
  <2> QED BY <2>2, <2>3, <2>4 DEF MoveInv
<1>5. ASSUME Perform PROVE MoveInv'
  <2>1. phase' = phase /\ cut' = cut /\ todo # <<>>
    BY <1>1, <1>5, PerformFacts
  <2>2. phase \in {"migrating", "restoring", "run"}
    BY <1>1, <2>1 DEF TypeOK, Shape
  <2>3. CASE phase \in {"restoring", "run"}
    <3>1. \A f \in File : disk'[f] = disk[f] \/ disk'[f] = Absent \/ disk'[f].form = "new"
      BY <1>5, <2>3, PerformForms
    <3> QED BY <1>4, <2>1, <2>3, <3>1
  <2> QED BY <1>3, <1>5, <2>2, <2>3
<1>6. ASSUME NEW provisioned \in BOOLEAN, Start(provisioned) PROVE MoveInv'
  <2>1. phase = "off" /\ phase' = "migrating" /\ todo' = Migrate(provisioned) /\ UNCHANGED <<disk, cut>>
    BY <1>6 DEF Start, history
  <2>2. Moving'
    BY <1>1, <2>1, MigrateSteps DEF Moving, IsOld, Pending
  <2>3. HalfWay'
    BY <1>1, <2>1, MigrateOrder DEF HalfWay, Present
  <2>4. Together'
    BY <1>1, <2>1, MigrateOrder DEF Together, IsOld
  <2> QED BY <2>2, <2>3, <2>4 DEF MoveInv
<1>7. ASSUME phase = "migrating", todo = <<>>, phase' \in {"restoring", "run"}, UNCHANGED <<disk, cut>>
      PROVE  MoveInv'
  <2>1. Pending = {}
    BY <1>7, StepsShort DEF Pending
  <2>2. \A f \in Three : ~IsOld(f)
    BY <1>1, <1>7, <2>1 DEF Moving
  <2>3. Moving'
    BY <1>7, <2>2 DEF Moving, IsOld
  <2>4. HalfWay'
    BY <1>1, <1>7 DEF HalfWay, Present
  <2>5. Together'
    BY <1>1, <1>7, <2>2 DEF Together, IsOld
  <2> QED BY <2>3, <2>4, <2>5 DEF MoveInv
<1>8. ASSUME RestoreNothing \/ \E connected, postdata \in BOOLEAN : Restore(connected, postdata) PROVE MoveInv'
  BY <1>7, <1>8 DEF RestoreNothing, Restore, history
<1>9. ASSUME RestoreServices PROVE MoveInv'
  <2>1. phase = "restoring" /\ phase' \in {"stuck", "run"} /\ UNCHANGED <<disk, cut>>
    BY <1>9 DEF RestoreServices, history
  <2> QED BY <1>4, <2>1
<1>10. ASSUME Call PROVE MoveInv'
  <2>1. phase = "run" /\ UNCHANGED <<disk, phase, cut>>
    BY <1>10 DEF Call, Idle, SetIdentity, SetupPush, TryAuth, TryAuthSaved, DoLogin, RegisterIds,
                 LoginRefused, MakeServices, ResetState, history
  <2> QED BY <1>4, <2>1
<1>11. ASSUME NEW f \in File, NEW own \in Owner, BackgroundSave(f, own) PROVE MoveInv'
  <2>1. /\ phase = "run" /\ UNCHANGED <<phase, cut>> /\ disk'[f].form = "new"
        /\ \A g \in File : g # f => disk'[g] = disk[g]
    BY <1>1, <1>11, SaveFacts
  <2> QED BY <1>4, <2>1
<1>12. ASSUME \/ \E f \in ServiceFile \cup {"statuskit"} : ServiceSave(f)
              \/ PushSave
              \/ \E f \in {"id", "id_cache"} : ImClientSave(f)
       PROVE  MoveInv'
  BY <1>1, <1>11, <1>12, SavesAre, Files
<1>13. ASSUME Quit PROVE MoveInv'
  <2>1. phase \in {"run", "stuck"} /\ phase' = "off" /\ UNCHANGED <<disk, cut>>
    BY <1>13 DEF Quit, Forget, history
  <2> QED BY <1>1, <2>1 DEF MoveInv, Moving, HalfWay, Together, Present, IsOld
<1>14. ASSUME Crash PROVE MoveInv'
  <2>1. /\ phase # "off" /\ phase' = "off"
        /\ \A f \in File : disk'[f] = disk[f] \/ (disk'[f] = Torn /\ f \in Tearable)
        /\ cut' = IF todo = <<>> THEN cut ELSE cut \cup {Head(todo).file}
    <3>1. Forget /\ phase # "off" /\ cut' = (IF todo = <<>> THEN cut ELSE cut \cup {Head(todo).file})
      BY <1>1, <1>14, CrashFacts
    <3>2. \A f \in File : disk'[f] = disk[f] \/ (disk'[f] = Torn /\ f \in Tearable)
      BY <1>1, <1>14, CrashFacts
    <3>3. phase' = "off"
      BY <3>1 DEF Forget
    <3> QED BY <3>1, <3>2, <3>3
  <2>2. HalfWay'
    <3>1. ASSUME "hw_info" \notin cut', Present("hw_info")', disk'["hw_info"].form = "keypair" PROVE FALSE
      <4>1. disk'["hw_info"] = disk["hw_info"] /\ "hw_info" \notin cut
        BY <1>2, <2>1, <3>1 DEF Present
      <4>2. todo # <<>> /\ Head(todo) = whole
        BY <1>1, <3>1, <4>1 DEF HalfWay, Present
      <4>3. whole.file = "hw_info"
        BY StepFields
      <4> QED BY <2>1, <3>1, <4>2, <4>3
    <3> QED BY <2>1, <3>1 DEF HalfWay
  <2>3. Together'
    <3> SUFFICES ASSUME {"gsa", "findmy"} \cap cut' = {}, IsOld("findmy")' PROVE IsOld("gsa")'
      BY <2>1 DEF Together
    <3>1. disk'["findmy"] = disk["findmy"] /\ IsOld("findmy") /\ {"gsa", "findmy"} \cap cut = {}
      BY <1>2, <2>1 DEF IsOld
    <3>2. phase = "migrating"
      BY <1>1, <2>1, <3>1 DEF Together
    <3>3. ~(todo # <<>> /\ Head(todo) = Put("findmy", disk["findmy"].own))
      BY <2>1, StepFields
    <3>4. IsOld("gsa")
      BY <1>1, <3>1, <3>2, <3>3, <2>1 DEF Together
    <3>5. "gsa" \notin Tearable
      BY <2>1, <3>2 DEF Tearable, Background
    <3> QED BY <1>2, <2>1, <3>4, <3>5 DEF IsOld
  <2> QED BY <2>1, <2>2, <2>3 DEF MoveInv, Moving
<1>15. ASSUME UNCHANGED vars PROVE MoveInv'
  BY <1>1, <1>15 DEF vars, history, MoveInv, Moving, HalfWay, Together, Present, IsOld, Pending
<1>16. ASSUME StepFails PROVE MoveInv'
  <2>1. /\ phase = "run" /\ UNCHANGED <<phase, cut>>
        /\ \A f \in File : disk'[f] = disk[f] \/ disk'[f] = Torn
    BY <1>1, <1>16, StepFailsFacts
  <2> QED BY <1>4, <2>1
<1>17. ASSUME RemoveFails PROVE MoveInv'
  <2>1. phase = "run" /\ UNCHANGED <<disk, phase, cut>>
    BY <1>17, RemoveFailsFacts
  <2> QED BY <1>4, <2>1
<1>18. ASSUME NEW f \in File, SaveFails(f) PROVE MoveInv'
  <2>1. /\ phase = "run" /\ UNCHANGED <<phase, cut>> /\ disk'[f] = Torn
        /\ \A g \in File : g # f => disk'[g] = disk[g]
    BY <1>1, <1>18, SaveFailsFacts
  <2> QED BY <1>4, <2>1
<1> QED BY <1>5, <1>6, <1>8, <1>9, <1>10, <1>12, <1>13, <1>14, <1>15, <1>16, <1>17, <1>18 DEF Next

----------------------------------------------------------------------------
(* An identity and its counters.                                           *)

(* reset_state removes the identity before its counters. *)
LEMMA ResetOrder ==
    ASSUME NEW reset_hw \in BOOLEAN, NEW logout \in BOOLEAN
    PROVE  Preceded(Reset(reset_hw, logout), Do("id_cache", "remove"), Do("hw_info", "remove"))
<1> DEFINE a == IF logout THEN ResetUser ELSE <<>>
           b == <<Do("id", "remove"), Do("id_cache", "rewrite")>>
           c == IF reset_hw THEN ResetHardware ELSE <<>>
           x == Do("id_cache", "remove")
           y == Do("hw_info", "remove")
           p == a \o b
<1>1. Reset(reset_hw, logout) = p \o c
  BY DEF Reset
<1>2. a \in Seq(Step) /\ Preceded(a, x, y)
  <2>1. a \in Seq(Step) /\ Steps(a) \subseteq Steps(ResetUser)
    BY ResetUserSteps, StepsShort, EmptySeq
  <2>2. x \notin Steps(ResetUser)
    BY ResetUserSteps, StepFields, Files
  <2> QED BY <2>1, <2>2, PrecededNone
<1>3. b \in Seq(Step) /\ Preceded(b, x, y)
  <2>1. Do("id", "remove") \in Step /\ Do("id_cache", "rewrite") \in Step
    BY StepTypes, Files
  <2>2. b \in Seq(Step) /\ Steps(b) = {Do("id", "remove"), Do("id_cache", "rewrite")}
    BY <2>1, StepsShort
  <2>3. x \notin Steps(b)
    BY <2>2, StepFields
  <2> QED BY <2>2, <2>3, PrecededNone
<1>4. c \in Seq(Step) /\ Preceded(c, x, y)
  <2>1. CASE reset_hw
    <3>1. y \in Step /\ x \in Step /\ Do("statuskit", "remove") \in Step
      BY StepTypes, Files
    <3>2. c = <<y, x, Do("statuskit", "remove")>>
      BY <2>1 DEF ResetHardware
    <3>3. x # y
      BY StepFields
    <3> HIDE DEF x, y, c
    <3>4. c \in Seq(Step) /\ c # <<>> /\ Head(c) = y
      BY <3>1, <3>2
    <3> QED BY <3>3, <3>4, PrecededFirst
  <2>2. CASE ~reset_hw
    <3>1. c = <<>> /\ Steps(c) = {}
      BY <2>2, StepsShort
    <3> QED BY <3>1, EmptySeq, PrecededNone
  <2> QED BY <2>1, <2>2
<1> HIDE DEF a, b, c, x, y
<1>5. p \in Seq(Step) /\ Preceded(p, x, y)
  BY <1>2, <1>3, StepsConcat, PrecededConcat
<1> HIDE DEF p
<1>6. Preceded(p \o c, x, y)
  BY <1>4, <1>5, PrecededConcat
<1> QED BY <1>1, <1>6 DEF x, y

(* Only a running operation removes files. *)
LEMMA NoRemoves ==
    ASSUME Base, phase # "run", NEW f
    PROVE  Do(f, "remove") \notin Pending
<1>1. \A s \in MigratingStep \cup RestoringStep : s.how # "remove"
  BY StepFields DEF MigratingStep, RestoringStep
<1>2. \A s \in Pending : s \in MigratingStep \cup RestoringStep
  BY StepsShort DEF Base, TypeOK, Shape, Pending
<1> QED BY <1>1, <1>2, StepFields

(* What a step does to the identity's two files. *)
LEMMA PerformDevice ==
    ASSUME Base, Perform, NEW s, s = Head(todo)
    PROVE  /\ \/ disk'["hw_info"] = disk["hw_info"]
              \/ phase = "migrating" /\ Present("hw_info") /\ Present("hw_info")'
                 /\ disk'["hw_info"].own = disk["hw_info"].own
              \/ phase = "restoring" /\ conn \in Identity /\ disk'["hw_info"] = Saved(conn, "new")
              \/ phase = "run" /\ \E i \in Identity : s = Put("hw_info", i) /\ disk'["hw_info"] = Saved(i, "new")
              \/ phase = "run" /\ s = Do("hw_info", "remove") /\ disk'["hw_info"] = Absent
           /\ \/ disk'["id_cache"] = disk["id_cache"]
              \/ phase = "run" /\ s = Do("id_cache", "remove")
<1>1. /\ s \in Pending /\ s.file \in File /\ todo # <<>>
      /\ \A g \in File : g # s.file => disk'[g] = disk[g]
      /\ s.how = "put" => disk'[s.file] = s.put
      /\ s.how = "remove" => disk'[s.file] = Absent
      /\ s.how \in {"rewrite", "key"} => disk'[s.file] = disk[s.file]
  BY PerformFacts DEF Base
<1>2. phase \in {"migrating", "restoring", "run"}
  BY <1>1 DEF Base, TypeOK, Shape
<1>3. "hw_info" \in File /\ "id_cache" \in File
  BY Files
<1>4. CASE phase = "migrating"
  <2>1. /\ Present("hw_info")' <=> Present("hw_info")
        /\ Present("hw_info") => disk'["hw_info"].own = disk["hw_info"].own
    BY <1>3, <1>4, MigratingPerform
  <2>2. s \in MigratingStep
    BY <1>1, <1>4 DEF Base, Shape
  <2>3. s.file # "id_cache"
    BY <2>2, StepFields DEF MigratingStep, KeyedFile
  <2>4. s.file = "hw_info" => s.how = "key" \/ Present("hw_info")
    BY <2>2, StepFields DEF MigratingStep
  <2> QED BY <1>1, <1>3, <1>4, <2>1, <2>3, <2>4
<1>5. CASE phase = "restoring"
  <2>1. s \in RestoringStep
    BY <1>1, <1>5 DEF Base, Shape
  <2>2. s.file # "id_cache" /\ s.how = "put" /\ (s.file = "hw_info" => conn \in Identity /\ s.put = Saved(conn, "new"))
    BY <2>1, StepFields DEF RestoringStep
  <2> QED BY <1>1, <1>3, <1>5, <2>2
<1>6. CASE phase = "run"
  <2>1. s \in RunStep
    BY <1>1, <1>6 DEF Base, Shape
  <2>2. s.file = "hw_info" =>
          \/ s = Do("hw_info", "key") \/ s = Do("hw_info", "remove")
          \/ \E i \in Identity : s = Put("hw_info", i)
    BY <2>1, StepFields, Files DEF RunStep
  <2>3. s.file = "id_cache" => s = Do("id_cache", "rewrite") \/ s = Do("id_cache", "remove")
    BY <2>1, StepFields, Files DEF RunStep, KeyedFile
  <2>4. CASE s.file = "hw_info"
    BY <1>1, <1>3, <1>6, <2>2, <2>4, StepFields
  <2>5. CASE s.file = "id_cache"
    BY <1>1, <1>3, <1>6, <2>3, <2>5, StepFields
  <2> QED BY <1>1, <1>3, <2>4, <2>5
<1> QED BY <1>2, <1>4, <1>5, <1>6

(* No identity, or one whose counters are there. *)
LEMMA InitId == Init => Connected /\ Counted
<1> SUFFICES ASSUME Init PROVE Connected /\ Counted
  OBVIOUS
<1>1. phase = "off" /\ conn = NoOne /\ gone = {} /\ todo = <<>>
  BY DEF Init
<1>2. Connected
  BY <1>1 DEF Connected
<1>3. Preceded(todo, Do("id_cache", "remove"), Do("hw_info", "remove"))
  BY <1>1, StepsShort, PrecededNone
<1>4. CASE used = {}
  BY <1>1, <1>2, <1>3, <1>4 DEF Counted
<1>5. CASE \E a \in Account, i \in Identity : disk = OldInstall(a, i) /\ used = {i}
  <2>1. PICK a \in Account, i \in Identity : disk = OldInstall(a, i) /\ used = {i}
    BY <1>5
  <2>2. disk["id_cache"] = Saved(i, "new")
    BY <2>1, Files DEF OldInstall
  <2>3. Parses("id_cache") /\ disk["id_cache"].own = i
    BY <2>2, SavedPresent DEF Parses, Owner
  <2> QED BY <1>1, <1>2, <1>3, <2>1, <2>3 DEF Counted
<1> QED BY <1>4, <1>5 DEF Init

(* Every step keeps the connection's file its own. *)
LEMMA StepConnected == Base /\ Connected /\ [Next]_vars => Connected'
<1> SUFFICES ASSUME Base, Connected, [Next]_vars PROVE Connected'
  OBVIOUS
<1>1. TypeOK /\ Shape /\ Owners
  BY DEF Base
<1>2. phase \in {"off", "migrating"} => conn = NoOne
  BY <1>1 DEF Shape
<1>3. ASSUME Perform PROVE Connected'
  <2> DEFINE s == Head(todo)
  <2>1. /\ Pending = {s} \cup Pending'
        /\ UNCHANGED <<phase, conn, gone>>
    BY <1>1, <1>3, PerformFacts
  <2>2. \/ disk'["hw_info"] = disk["hw_info"]
        \/ phase = "migrating"
        \/ phase = "restoring" /\ conn \in Identity /\ disk'["hw_info"] = Saved(conn, "new")
        \/ phase = "run" /\ \E i \in Identity : s = Put("hw_info", i) /\ disk'["hw_info"] = Saved(i, "new")
        \/ phase = "run" /\ s = Do("hw_info", "remove") /\ disk'["hw_info"] = Absent
    BY <1>3, PerformDevice
  <2> HIDE DEF s
  <2>3. conn # NoOne /\ Present("hw_info")' => disk'["hw_info"].own = conn
    <3>1. CASE disk'["hw_info"] = disk["hw_info"]
      BY <3>1 DEF Connected, Present
    <3>2. CASE phase = "migrating"
      BY <1>2, <3>2
    <3>3. CASE conn \in Identity /\ disk'["hw_info"] = Saved(conn, "new")
      BY <3>3, SavedPresent DEF Present, Owner
    <3>4. CASE phase = "run" /\ \E i \in Identity : s = Put("hw_info", i) /\ disk'["hw_info"] = Saved(i, "new")
      <4>1. PICK i \in Identity : s = Put("hw_info", i) /\ disk'["hw_info"] = Saved(i, "new")
        BY <3>4
      <4>2. conn \in {NoOne, i}
        BY <2>1, <3>4, <4>1 DEF Connected
      <4> QED BY <4>1, <4>2, SavedPresent DEF Present, Owner
    <3>5. CASE phase = "run" /\ s = Do("hw_info", "remove") /\ disk'["hw_info"] = Absent
      BY <2>1, <3>5 DEF Connected, Present
    <3> QED BY <2>2, <3>1, <3>2, <3>3, <3>4, <3>5
  <2> QED BY <2>1, <2>3 DEF Connected
<1>4. ASSUME UNCHANGED <<disk, conn>>, Pending' = {}, "hw_info" \in gone' <=> "hw_info" \in gone,
             "id_cache" \in gone' <=> "id_cache" \in gone
      PROVE  Connected'
  BY <1>4 DEF Connected, Present
<1>5. ASSUME NEW provisioned \in BOOLEAN, Start(provisioned) PROVE Connected'
  <2>1. phase = "off" /\ phase' = "migrating" /\ UNCHANGED <<disk, conn, gone>>
    BY <1>5 DEF Start, memory, history
  <2> QED BY <2>1 DEF Connected, Present
<1>6. ASSUME RestoreNothing \/ RestoreServices \/ LoginRefused \/ TryAuthSaved \/ MakeServices PROVE Connected'
  <2>1. todo' = <<>> /\ UNCHANGED <<disk, conn>> /\ gone' \in {gone, gone \ (ServiceFile \cup {"statuskit"})}
    BY <1>6 DEF RestoreNothing, RestoreServices, LoginRefused, TryAuthSaved, MakeServices, BuildServices, Idle,
                memory
  <2>2. Pending' = {}
    BY <2>1, StepsShort DEF Pending
  <2> QED BY <1>4, <2>1, <2>2, Files
<1>7. ASSUME NEW connected \in BOOLEAN, NEW postdata \in BOOLEAN, Restore(connected, postdata) PROVE Connected'
  <2>1. /\ Parses("hw_info") /\ phase' = "restoring" /\ conn' = disk["hw_info"].own
        /\ UNCHANGED <<disk, gone>>
    BY <1>7 DEF Restore, Restorable, history
  <2> QED BY <2>1 DEF Connected, Present, Parses
<1>8. ASSUME NEW connected \in BOOLEAN, SetupPush(connected) PROVE Connected'
  <2>1. /\ Parses("hw_info") /\ conn' = disk["hw_info"].own /\ gone' = gone \ DeviceFile
        /\ todo' = ConnectPush(connected) /\ disk' = disk
    BY <1>8 DEF SetupPush, history
  <2>2. Pending' \subseteq {Put("hw_info", conn')}
    BY <1>1, <2>1, RestoreSteps DEF Pending
  <2>3. \A i : Put("hw_info", i) \in Pending' => i = conn'
    BY <2>2, StepFields
  <2>4. Do("hw_info", "remove") \notin Pending' /\ Do("id_cache", "remove") \notin Pending'
    BY <2>2, StepFields
  <2>5. Present("hw_info")'
    BY <2>1 DEF Present, Parses
  <2> QED BY <2>1, <2>3, <2>4, <2>5 DEF Connected, DeviceFile
<1>9. ASSUME NEW i \in Identity, SetIdentity(i) PROVE Connected'
  <2>1. /\ conn = NoOne /\ todo' = <<Do("hw_info", "key"), Put("hw_info", i)>>
        /\ UNCHANGED <<disk, conn, gone>>
    BY <1>9 DEF SetIdentity, memory, history
  <2>2. Pending' = {Do("hw_info", "key"), Put("hw_info", i)}
    BY <2>1, StepsShort DEF Pending
  <2>3. \A j : Put("hw_info", j) \in Pending' => j = i
    BY <2>2, StepFields
  <2>4. Do("hw_info", "remove") \notin Pending' /\ Do("id_cache", "remove") \notin Pending'
    BY <2>2, StepFields
  <2> QED BY <2>1, <2>3, <2>4 DEF Connected
<1>10. ASSUME UNCHANGED <<disk, conn>>, \A i : Put("hw_info", i) \notin Pending',
              Do("hw_info", "remove") \in Pending' \/ Do("id_cache", "remove") \in Pending' =>
                  "hw_info" \in gone',
              "hw_info" \in gone' <=> "id_cache" \in gone'
       PROVE  Connected'
  BY <1>10 DEF Connected, Present
<1>11. ASSUME NEW a \in Account, TryAuth(a) PROVE Connected'
  <2>1. /\ todo' = ResetUser /\ gone' = gone \cup ServiceFile \cup {"gsa", "statuskit"}
        /\ UNCHANGED <<disk, conn>>
    BY <1>11 DEF TryAuth, history
  <2>2. \A z \in Pending' : z.file \notin {"hw_info", "id_cache"}
    BY <2>1, ResetUserSteps, StepFields, Files DEF Pending
  <2> QED BY <1>10, <2>1, <2>2, StepFields, Files DEF Connected
<1>12. ASSUME NEW issued \in Issued, DoLogin(issued) PROVE Connected'
  <2>1. acct \in Account /\ todo' = Login(acct, issued) /\ UNCHANGED <<disk, conn, gone>>
    BY <1>1, <1>12 DEF DoLogin, history, TypeOK
  <2>2. \A z \in Pending' : z.file \notin {"hw_info", "id_cache"}
    BY <2>1, LoginSteps, StepFields, Files DEF Pending
  <2> QED BY <1>10, <2>1, <2>2, StepFields DEF Connected
<1>13. ASSUME RegisterIds PROVE Connected'
  <2>1. todo' = <<Do("id", "key"), Put("id", conn)>> /\ gone' = gone \ {"id"} /\ UNCHANGED <<disk, conn>>
    BY <1>13 DEF RegisterIds, history
  <2>2. \A z \in Pending' : z.file \notin {"hw_info", "id_cache"}
    BY <2>1, StepsShort, StepFields DEF Pending
  <2> QED BY <1>10, <2>1, <2>2, StepFields DEF Connected
<1>14. ASSUME NEW reset_hw \in BOOLEAN, NEW logout \in BOOLEAN, ResetState(reset_hw, logout) PROVE Connected'
  <2>1. /\ todo' = Reset(reset_hw, logout) /\ UNCHANGED <<disk, conn>>
        /\ gone' = gone \cup {"id"}
                   \cup (IF logout THEN ServiceFile \cup {"gsa", "statuskit"} ELSE {})
                   \cup (IF reset_hw THEN {"hw_info", "id_cache", "statuskit"} ELSE {})
    BY <1>14 DEF ResetState, history
  <2>2. /\ \A z \in Pending' : z.file = "hw_info" => reset_hw /\ z.how = "remove"
        /\ Do("id_cache", "remove") \in Pending' => reset_hw
    BY <2>1, ResetKinds DEF Pending
  <2>3. \A i : Put("hw_info", i) \notin Pending'
    BY <2>2, StepFields
  <2>4. Do("hw_info", "remove") \in Pending' \/ Do("id_cache", "remove") \in Pending' => reset_hw
    BY <2>2, StepFields
  <2> QED BY <1>10, <2>1, <2>3, <2>4, Files DEF Connected
<1>15. ASSUME NEW f \in File, NEW own \in Owner, BackgroundSave(f, own), f = "hw_info" => own = conn
       PROVE  Connected'
  <2>1. /\ disk'[f] \notin {Absent, Torn} /\ disk'[f].own = own
        /\ \A g \in File : g # f => disk'[g] = disk[g]
        /\ UNCHANGED <<phase, todo, conn, gone>>
    BY <1>1, <1>15, SaveFacts
  <2>2. conn # NoOne /\ Present("hw_info")' => disk'["hw_info"].own = conn
    <3>1. CASE f = "hw_info"
      BY <1>15, <2>1, <3>1 DEF Present
    <3>2. CASE f # "hw_info"
      BY <2>1, <3>2, Files DEF Present, Connected
    <3> QED BY <3>1, <3>2
  <2> QED BY <2>1, <2>2 DEF Connected, Pending
<1>16. ASSUME \/ \E f \in ServiceFile \cup {"statuskit"} : ServiceSave(f)
              \/ PushSave
              \/ \E f \in {"id", "id_cache"} : ImClientSave(f)
       PROVE  Connected'
  BY <1>1, <1>15, <1>16, SavesAre, Files
<1>17. ASSUME Quit \/ Crash PROVE Connected'
  <2>1. Forget
    BY <1>17 DEF Quit, Crash
  <2>2. phase' = "off" /\ conn' = NoOne /\ gone' = {}
    BY <2>1 DEF Forget
  <2> QED BY <2>2 DEF Connected
<1>18. ASSUME UNCHANGED vars PROVE Connected'
  BY <1>18 DEF vars, memory, history, Connected, Present, Pending
<1>19. ASSUME StepFails PROVE Connected'
  <2>1. /\ Pending' = {} /\ conn' \in {conn, NoOne} /\ UNCHANGED <<phase, gone>>
        /\ \A f \in File : disk'[f] = disk[f] \/ disk'[f] = Torn
    BY <1>1, <1>19, StepFailsFacts
  <2>2. disk'["hw_info"] = disk["hw_info"] \/ ~Present("hw_info")'
    BY <2>1, Files DEF Present
  <2> QED BY <2>1, <2>2 DEF Connected, Present
<1>20. ASSUME RemoveFails PROVE Connected'
  <2>1. Pending' \subseteq Pending /\ UNCHANGED <<disk, phase, conn, gone>>
    BY <1>20, RemoveFailsFacts
  <2> QED BY <2>1 DEF Connected, Present
<1>21. ASSUME NEW f \in File, SaveFails(f) PROVE Connected'
  <2>1. /\ \A g \in File : disk'[g] = disk[g] \/ disk'[g] = Torn
        /\ UNCHANGED <<phase, todo, conn, gone>>
    BY <1>1, <1>21, SaveFailsFacts
  <2>2. disk'["hw_info"] = disk["hw_info"] \/ ~Present("hw_info")'
    BY <2>1, Files DEF Present
  <2> QED BY <2>1, <2>2 DEF Connected, Present, Pending
<1> QED BY <1>3, <1>5, <1>6, <1>7, <1>8, <1>9, <1>11, <1>12, <1>13, <1>14, <1>16, <1>17, <1>18, <1>19, <1>20, <1>21
        DEF Next, Call

(* Every step keeps the counters of an identity that is on disk. *)
LEMMA StepCounted == Base /\ Connected /\ Connected' /\ Counted /\ [Next]_vars => Counted'
<1> SUFFICES ASSUME Base, Connected, Connected', Counted, [Next]_vars, ~late',
                    "id_cache" \notin torn', "hw_info" \notin kept'
             PROVE  Counted'
  BY DEF Counted
<1> DEFINE hw == disk["hw_info"]
           Kept == \A i \in used : Present("hw_info") /\ disk["hw_info"].own = i =>
                                       Parses("id_cache") /\ disk["id_cache"].own = i
           Own == conn \in used /\ "hw_info" \notin gone =>
                      Parses("id_cache") /\ disk["id_cache"].own = conn
           Order(q) == Preceded(q, Do("id_cache", "remove"), Do("hw_info", "remove"))
           Same(i) == \/ conn = i /\ "hw_info" \notin gone
                      \/ conn = NoOne /\ i \notin used
           Clear == Do("hw_info", "remove") \notin Pending /\ Do("id_cache", "remove") \notin Pending
           Saves == phase = "run" => \A i \in Identity : Put("hw_info", i) \in Pending => Clear /\ Same(i)
           Counts == Kept /\ Own /\ (hw = Absent \/ Order(todo)) /\ Saves
           Goal == Kept' /\ Own' /\ (hw' = Absent \/ Order(todo')) /\ Saves'
<1>1. TypeOK /\ Shape /\ Owners /\ NoOne \notin used /\ NoOne \notin used'
  <2>1. Base'
    BY StepBase
  <2> QED BY <2>1, FilesAssumption DEF Base, TypeOK
<1>2. ASSUME ~late, "id_cache" \notin torn, "hw_info" \notin kept PROVE Counts
  BY <1>2 DEF Counted
<1>3. SUFFICES Goal
  BY DEF Counted
<1>4. ASSUME NEW q, Do("id_cache", "remove") \notin Steps(q) PROVE Order(q)
  BY <1>4, PrecededNone
<1>5. ASSUME UNCHANGED <<disk, used, late, torn, kept>>
      PROVE  Kept' /\ Counts /\ (conn' \in {conn, NoOne} /\ ("hw_info" \in gone => "hw_info" \in gone') => Own')
  <2>1. Counts
    BY <1>2, <1>5
  <2> QED BY <1>1, <1>5, <2>1 DEF Present, Parses
<1>6. ASSUME Perform PROVE Goal
  <2> DEFINE s == Head(todo)
  <2>1. /\ todo # <<>> /\ todo \in Seq(Step) /\ todo' = Tail(todo)
        /\ Pending = {s} \cup Pending'
        /\ UNCHANGED <<phase, conn, gone, late, used, torn, kept>>
    BY <1>1, <1>6, PerformFacts DEF TypeOK
  <2>2. /\ \/ disk'["hw_info"] = disk["hw_info"]
           \/ phase = "migrating" /\ Present("hw_info") /\ Present("hw_info")'
              /\ disk'["hw_info"].own = disk["hw_info"].own
           \/ phase = "restoring" /\ conn \in Identity /\ disk'["hw_info"] = Saved(conn, "new")
           \/ phase = "run" /\ \E i \in Identity : s = Put("hw_info", i) /\ disk'["hw_info"] = Saved(i, "new")
           \/ phase = "run" /\ s = Do("hw_info", "remove") /\ disk'["hw_info"] = Absent
        /\ \/ disk'["id_cache"] = disk["id_cache"]
           \/ phase = "run" /\ s = Do("id_cache", "remove")
    BY <1>6, PerformDevice
  <2>3. Counts
    BY <1>2, <2>1
  <2>4. s = Do("id_cache", "remove") => hw = Absent
    BY <2>1, <2>3, PrecededTail
  <2>5. \A f, i : Do(f, "remove") # Put("hw_info", i)
    BY StepFields
  <2> HIDE DEF s
  <2>6. \/ ~Present("hw_info")'
        \/ Present("hw_info") /\ Present("hw_info")' /\ disk'["hw_info"].own = disk["hw_info"].own
        \/ /\ s # Do("id_cache", "remove")
           /\ \E i \in Identity : disk'["hw_info"].own = i /\ (i \notin used \/ (conn = i /\ "hw_info" \notin gone))
    <3>1. CASE disk'["hw_info"] = disk["hw_info"]
      BY <3>1 DEF Present
    <3>2. CASE phase = "restoring" /\ conn \in Identity /\ disk'["hw_info"] = Saved(conn, "new")
      <4>1. "hw_info" \notin gone
        BY <1>1, <3>2 DEF Shape
      <4>2. s # Do("id_cache", "remove")
        BY <2>1, <3>2, NoRemoves
      <4>3. disk'["hw_info"].own = conn
        BY <3>2, SavedPresent DEF Owner
      <4> QED BY <3>2, <4>1, <4>2, <4>3
    <3>3. CASE phase = "run" /\ \E i \in Identity : s = Put("hw_info", i) /\ disk'["hw_info"] = Saved(i, "new")
      <4>1. PICK i \in Identity : s = Put("hw_info", i) /\ disk'["hw_info"] = Saved(i, "new")
        BY <3>3
      <4>2. Same(i)
        BY <2>1, <2>3, <3>3, <4>1
      <4>3. disk'["hw_info"].own = i
        BY <4>1, SavedPresent DEF Owner
      <4> QED BY <2>5, <4>1, <4>2, <4>3
    <3>4. CASE disk'["hw_info"] = Absent
      BY <3>4 DEF Present
    <3> QED BY <2>2, <3>1, <3>2, <3>3, <3>4
  <2>7. Kept'
    <3> SUFFICES ASSUME NEW i \in used, Present("hw_info")', disk'["hw_info"].own = i
                 PROVE  Parses("id_cache")' /\ disk'["id_cache"].own = i
      BY <2>1
    <3>1. CASE Present("hw_info") /\ disk["hw_info"].own = i
      <4>1. s # Do("id_cache", "remove")
        BY <2>4, <3>1 DEF Present
      <4>2. disk'["id_cache"] = disk["id_cache"]
        BY <2>2, <4>1
      <4> QED BY <2>3, <3>1, <4>2 DEF Parses
    <3>2. CASE s # Do("id_cache", "remove") /\ conn = i /\ "hw_info" \notin gone
      <4>1. disk'["id_cache"] = disk["id_cache"]
        BY <2>2, <3>2
      <4> QED BY <2>3, <3>2, <4>1 DEF Parses
    <3> QED BY <2>6, <3>1, <3>2
  <2>10. Own'
    <3> SUFFICES ASSUME conn \in used, "hw_info" \notin gone
                 PROVE  Parses("id_cache")' /\ disk'["id_cache"].own = conn
      BY <2>1
    <3>1. ~(phase = "run" /\ s = Do("id_cache", "remove"))
      BY <2>1 DEF Connected
    <3>2. disk'["id_cache"] = disk["id_cache"]
      BY <2>2, <3>1
    <3> QED BY <2>3, <3>2 DEF Parses
  <2>8. hw' = Absent \/ Order(todo')
    <3>1. CASE Order(todo)
      <4>1. s = Do("hw_info", "remove") => hw' = Absent
        BY <2>2, <2>5, <1>1, <1>6, PerformFacts, StepFields DEF s
      <4>2. s # Do("hw_info", "remove") => Order(todo')
        BY <2>1, <3>1, PrecededTail DEF s
      <4> QED BY <4>1, <4>2
    <3>2. CASE hw = Absent /\ hw' # Absent
      <4>1. Do("id_cache", "remove") \notin Pending
        <5>1. CASE phase # "run"
          BY <5>1, NoRemoves
        <5>2. CASE phase = "run"
          BY <2>1, <2>2, <2>3, <3>2, <5>2
        <5> QED BY <5>1, <5>2
      <4>2. Do("id_cache", "remove") \notin Steps(todo')
        BY <2>1, <4>1 DEF Pending
      <4> QED BY <1>4, <4>2
    <3> QED BY <2>3, <3>1, <3>2
  <2>9. Saves'
    <3> SUFFICES ASSUME phase = "run", NEW i \in Identity, Put("hw_info", i) \in Pending'
                 PROVE  Clear' /\ Same(i)'
      BY <2>1
    <3>1. Put("hw_info", i) \in Pending /\ Clear /\ Same(i)
      BY <2>1, <2>3
    <3> QED BY <2>1, <3>1
  <2> QED BY <2>7, <2>8, <2>9, <2>10
<1>7. ASSUME UNCHANGED <<disk, used, late, torn, kept>>, conn' \in {conn, NoOne}, "hw_info" \in gone => "hw_info" \in gone',
             \A i : Put("hw_info", i) \notin Pending', Order(todo')
      PROVE  Goal
  BY <1>5, <1>7
<1>8. ASSUME UNCHANGED <<disk, used, late, torn, kept>>, conn' \in {conn, NoOne}, "hw_info" \in gone => "hw_info" \in gone', todo' = <<>>
      PROVE  Goal
  BY <1>4, <1>7, <1>8, StepsShort DEF Pending
<1>9. ASSUME NEW provisioned \in BOOLEAN, Start(provisioned) PROVE Goal
  <2>1. phase' = "migrating" /\ todo' = Migrate(provisioned)
        /\ UNCHANGED <<disk, used, late, torn, kept, conn, gone>>
    BY <1>9 DEF Start, memory, history
  <2>2. Steps(todo') \subseteq MigratingStep
    BY <1>1, <2>1, MigrateSteps
  <2>3. Do("id_cache", "remove") \notin Steps(todo')
    BY <2>2, StepFields DEF MigratingStep
  <2> QED BY <1>4, <1>5, <2>1, <2>3
<1>10. ASSUME RestoreNothing \/ RestoreServices \/ LoginRefused \/ TryAuthSaved \/ MakeServices
       PROVE  Goal
  <2>1. /\ todo' = <<>> /\ UNCHANGED <<disk, used, late, torn, kept, conn>>
        /\ gone' \in {gone, gone \ (ServiceFile \cup {"statuskit"})}
    BY <1>10 DEF RestoreNothing, RestoreServices, LoginRefused, TryAuthSaved, MakeServices, BuildServices, Idle,
                 memory, history
  <2> QED BY <1>8, <2>1, Files
<1>11. ASSUME Parses("hw_info"), UNCHANGED <<disk, used, late, torn, kept>>,
              \A z \in Steps(todo') : z.how = "put",
              \A i : Put("hw_info", i) \in Steps(todo') => i = disk["hw_info"].own,
              conn' = disk["hw_info"].own, phase' = "run" => "hw_info" \notin gone'
       PROVE  Goal
  <2>1. Do("id_cache", "remove") \notin Steps(todo') /\ Do("hw_info", "remove") \notin Steps(todo')
    BY <1>11, StepFields
  <2>2. Own'
    <3>1. Present("hw_info") /\ Kept
      BY <1>5, <1>11 DEF Present, Parses
    <3> QED BY <1>11, <3>1 DEF Parses
  <2> QED BY <1>4, <1>5, <1>11, <2>1, <2>2 DEF Pending
<1>12. ASSUME NEW connected \in BOOLEAN, NEW postdata \in BOOLEAN, Restore(connected, postdata)
       PROVE  Goal
  <2>1. /\ Parses("hw_info") /\ todo' = ConnectPush(connected) \o RestoreAccount(postdata)
        /\ conn' = disk["hw_info"].own /\ phase' = "restoring"
        /\ UNCHANGED <<disk, used, late, torn, kept>>
    BY <1>12 DEF Restore, Restorable, history
  <2>2. Steps(todo') \subseteq {Put("hw_info", disk["hw_info"].own), Put("gsa", disk["gsa"].own)}
    BY <1>1, <2>1, RestoreSteps
  <2>3. /\ \A z \in Steps(todo') : z.how = "put"
        /\ \A i : Put("hw_info", i) \in Steps(todo') => i = disk["hw_info"].own
    BY <2>2, StepFields
  <2> QED BY <1>11, <2>1, <2>3
<1>13. ASSUME NEW connected \in BOOLEAN, SetupPush(connected)
       PROVE  Goal
  <2>1. /\ Parses("hw_info") /\ todo' = ConnectPush(connected) /\ UNCHANGED <<disk, used, late, torn, kept>>
        /\ conn' = disk["hw_info"].own /\ "hw_info" \notin gone'
    BY <1>13 DEF SetupPush, DeviceFile, history
  <2>2. Steps(todo') \subseteq {Put("hw_info", disk["hw_info"].own)}
    BY <1>1, <2>1, RestoreSteps
  <2>3. /\ \A z \in Steps(todo') : z.how = "put"
        /\ \A i : Put("hw_info", i) \in Steps(todo') => i = disk["hw_info"].own
    BY <2>2, StepFields
  <2> QED BY <1>11, <2>1, <2>3
<1>14. ASSUME NEW i \in Identity, SetIdentity(i)
       PROVE  Goal
  <2>1. /\ conn = NoOne /\ i \notin used /\ todo' = <<Do("hw_info", "key"), Put("hw_info", i)>>
        /\ UNCHANGED <<disk, used, late, torn, kept, conn, gone>>
    BY <1>14 DEF SetIdentity, memory, history
  <2>2. Pending' = {Do("hw_info", "key"), Put("hw_info", i)} /\ Steps(todo') = Pending'
    BY <2>1, StepsShort DEF Pending
  <2>3. /\ Do("hw_info", "remove") \notin Pending' /\ Do("id_cache", "remove") \notin Pending'
        /\ \A j : Put("hw_info", j) \in Pending' => j = i
    BY <2>2, StepFields
  <2>4. Order(todo')
    BY <1>4, <2>2, <2>3
  <2> QED BY <1>5, <2>1, <2>3, <2>4
<1>15. ASSUME UNCHANGED <<disk, used, late, torn, kept, conn>>, "hw_info" \in gone => "hw_info" \in gone',
              \A z \in Steps(todo') : z.file \notin {"hw_info", "id_cache"}
       PROVE  Goal
  BY <1>4, <1>7, <1>15, StepFields DEF Pending
<1>16. ASSUME NEW a \in Account, TryAuth(a) PROVE Goal
  <2>1. todo' = ResetUser /\ UNCHANGED <<disk, used, late, torn, kept, conn>> /\ gone \subseteq gone'
    BY <1>16 DEF TryAuth, history
  <2>2. \A z \in Steps(todo') : z.file \notin {"hw_info", "id_cache"}
    BY <2>1, ResetUserSteps, StepFields, Files
  <2> QED BY <1>15, <2>1, <2>2
<1>17. ASSUME NEW issued \in Issued, DoLogin(issued) PROVE Goal
  <2>1. acct \in Account /\ todo' = Login(acct, issued)
        /\ UNCHANGED <<disk, used, late, torn, kept, conn, gone>>
    BY <1>1, <1>17 DEF DoLogin, history, TypeOK
  <2>2. \A z \in Steps(todo') : z.file \notin {"hw_info", "id_cache"}
    BY <2>1, LoginSteps, StepFields, Files
  <2> QED BY <1>15, <2>1, <2>2
<1>18. ASSUME RegisterIds PROVE Goal
  <2>1. /\ todo' = <<Do("id", "key"), Put("id", conn)>> /\ gone' = gone \ {"id"}
        /\ UNCHANGED <<disk, used, late, torn, kept, conn>>
    BY <1>18 DEF RegisterIds, history
  <2>2. \A z \in Steps(todo') : z.file \notin {"hw_info", "id_cache"}
    BY <2>1, StepsShort, StepFields
  <2> QED BY <1>15, <2>1, <2>2
<1>19. ASSUME NEW reset_hw \in BOOLEAN, NEW logout \in BOOLEAN, ResetState(reset_hw, logout)
       PROVE  Goal
  <2>1. todo' = Reset(reset_hw, logout) /\ UNCHANGED <<disk, used, late, torn, kept, conn>> /\ gone \subseteq gone'
    BY <1>19 DEF ResetState, history
  <2>2. Order(todo')
    BY <2>1, ResetOrder
  <2>3. \A z \in Steps(todo') : z.how \in {"remove", "rewrite"} \/ z.file = "statuskit"
    BY <2>1, ResetKinds, StepFields
  <2>4. \A i : Put("hw_info", i) \notin Pending'
    BY <2>3, StepFields DEF Pending
  <2> QED BY <1>7, <2>1, <2>2, <2>4
<1>20. ASSUME NEW f \in File, NEW own \in Owner, BackgroundSave(f, own)
       PROVE  /\ f \notin gone
              /\ disk'[f] \notin {Absent, Torn} /\ disk'[f].own = own /\ disk'[f].form = "new"
              /\ \A g \in File : g # f => disk'[g] = disk[g]
              /\ UNCHANGED <<phase, todo, conn, gone>> /\ Pending' = Pending
              /\ Counts
  <2>1. /\ ~late /\ "id_cache" \notin torn /\ "hw_info" \notin kept /\ f \notin gone /\ phase = "run"
        /\ disk'[f] \notin {Absent, Torn} /\ disk'[f].own = own /\ disk'[f].form = "new"
        /\ \A g \in File : g # f => disk'[g] = disk[g]
        /\ UNCHANGED <<phase, todo, conn, gone>>
    BY <1>1, <1>20, SaveFacts
  <2> QED BY <1>2, <2>1 DEF Pending
<1>21. ASSUME NEW f \in File, NEW own \in Owner, BackgroundSave(f, own), f \notin {"hw_info", "id_cache"}, used' = used
       PROVE  Goal
  <2>1. /\ disk'["hw_info"] = disk["hw_info"] /\ disk'["id_cache"] = disk["id_cache"]
        /\ UNCHANGED <<phase, todo, conn, gone>> /\ Pending' = Pending
        /\ Counts
    BY <1>20, <1>21, Files
  <2> QED BY <1>21, <2>1 DEF Present, Parses
<1>28. ASSUME phase = "run", "hw_info" \notin gone PROVE Order(todo)
  BY <1>4, <1>28 DEF Connected, Pending
<1>22. ASSUME PushSave PROVE Goal
  <2>1. conn \in Identity /\ conn \in Owner /\ BackgroundSave("hw_info", conn) /\ used' = used
    BY <1>1, <1>22, SavesAre
  <2>2. /\ "hw_info" \notin gone /\ disk'["hw_info"].own = conn /\ disk'["id_cache"] = disk["id_cache"]
        /\ phase = "run" /\ UNCHANGED <<phase, todo, conn, gone>> /\ Pending' = Pending
        /\ Counts
    BY <1>20, <2>1, Files DEF BackgroundSave
  <2>3. Order(todo)
    BY <1>28, <2>2
  <2> QED BY <2>1, <2>2, <2>3 DEF Parses
<1>23. ASSUME NEW f \in {"id", "id_cache"}, ImClientSave(f)
       PROVE  Goal
  <2>1. /\ f \in File /\ conn \in Identity /\ conn \in Owner /\ BackgroundSave(f, conn)
        /\ used' = IF f = "id_cache" THEN used \cup {conn} ELSE used
    BY <1>1, <1>23, SavesAre
  <2>2. CASE f = "id"
    BY <1>21, <2>1, <2>2
  <2>3. CASE f = "id_cache"
    <3>1. /\ disk'["id_cache"] \notin {Absent, Torn} /\ disk'["id_cache"].own = conn /\ disk'["id_cache"].form = "new"
          /\ disk'["hw_info"] = disk["hw_info"]
          /\ UNCHANGED <<phase, todo, conn, gone>> /\ Pending' = Pending
          /\ Counts
      BY <1>20, <2>1, <2>3, Files
    <3>2. conn # NoOne
      BY <2>1, FilesAssumption
    <3>3. Present("hw_info") => disk["hw_info"].own = conn
      BY <3>2 DEF Connected
    <3>4. Kept' /\ Own'
      BY <3>1, <3>3 DEF Present, Parses
    <3>5. Saves'
      BY <3>1, <3>2
    <3> QED BY <3>1, <3>4, <3>5
  <2> QED BY <2>2, <2>3
<1>24. ASSUME NEW f \in ServiceFile \cup {"statuskit"}, ServiceSave(f)
       PROVE  Goal
  BY <1>1, <1>21, <1>24, SavesAre, Files
<1>25. ASSUME Quit PROVE Goal
  <2>1. /\ todo' = <<>> /\ phase' = "off" /\ conn' = NoOne
        /\ UNCHANGED <<disk, used, late, torn, kept>>
    BY <1>25 DEF Quit, Forget
  <2>2. Kept'
    BY <1>5, <2>1
  <2> QED BY <1>1, <1>4, <2>1, <2>2, StepsShort
<1>26. ASSUME Crash PROVE Goal
  <2>1. /\ Forget /\ UNCHANGED <<late, used, kept>> /\ "id_cache" \notin torn
        /\ \A f \in File : disk'[f] = disk[f] \/ (disk'[f] = Torn /\ f \in torn')
    BY <1>1, <1>26, CrashFacts
  <2>2. todo' = <<>> /\ phase' = "off" /\ conn' = NoOne
    BY <2>1 DEF Forget
  <2>3. disk'["id_cache"] = disk["id_cache"] /\ disk'["hw_info"] \in {disk["hw_info"], Torn}
    BY <2>1, Files
  <2>4. Kept
    BY <1>2, <2>1
  <2>5. Kept'
    BY <2>1, <2>3, <2>4 DEF Present, Parses
  <2> QED BY <1>1, <1>4, <2>2, <2>5, StepsShort
<1>27. ASSUME UNCHANGED vars PROVE Goal
  <2>1. UNCHANGED <<disk, phase, todo, conn, gone, used, late, torn, kept>>
    BY <1>27 DEF vars, memory, history
  <2> QED BY <1>2, <2>1 DEF Present, Parses, Pending
<1>29. ASSUME StepFails PROVE Goal
  <2>1. /\ todo' = <<>> /\ Pending' = {} /\ conn' \in {conn, NoOne} /\ "id_cache" \notin torn
        /\ \A f \in File : disk'[f] = disk[f] \/ (disk'[f] = Torn /\ f \in torn')
        /\ UNCHANGED <<gone, late, used, kept>>
    BY <1>1, <1>29, StepFailsFacts
  <2>2. disk'["id_cache"] = disk["id_cache"] /\ disk'["hw_info"] \in {disk["hw_info"], Torn}
    BY <2>1, Files
  <2>3. Counts
    BY <1>2, <2>1
  <2>4. Kept'
    BY <2>1, <2>2, <2>3 DEF Present, Parses
  <2>5. Own'
    BY <1>1, <2>1, <2>2, <2>3 DEF Parses
  <2> QED BY <1>4, <2>1, <2>4, <2>5, StepsShort
<1>30. ASSUME RemoveFails PROVE Goal
  <2> DEFINE s == Head(todo)
  <2>1. /\ todo # <<>> /\ todo \in Seq(Step) /\ todo' = Tail(todo) /\ Pending' \subseteq Pending
        /\ kept' = kept \cup {s.file}
        /\ UNCHANGED <<disk, phase, conn, gone, late, used, torn>>
    BY <1>1, <1>30, RemoveFailsFacts DEF TypeOK
  <2>2. Counts
    BY <1>2, <2>1
  <2>3. s # Do("hw_info", "remove")
    BY <2>1, StepFields
  <2>4. Order(todo) => Order(todo')
    BY <2>1, <2>3, PrecededTail
  <2>5. Kept' /\ Own' /\ Saves'
    BY <2>1, <2>2 DEF Present, Parses
  <2> QED BY <2>1, <2>2, <2>4, <2>5
<1>31. ASSUME NEW f \in File, SaveFails(f) PROVE Goal
  <2>1. /\ phase = "run" /\ disk'[f] = Torn /\ \A g \in File : g # f => disk'[g] = disk[g]
        /\ torn' = torn \cup {f} /\ ~late /\ f \notin gone
        /\ UNCHANGED <<phase, todo, conn, gone, used, kept>>
    BY <1>1, <1>31, SaveFailsFacts
  <2>2. Counts /\ Pending' = Pending
    BY <1>2, <2>1 DEF Pending
  <2>3. disk'["id_cache"] = disk["id_cache"] /\ disk'["hw_info"] \in {disk["hw_info"], Torn}
    BY <2>1, Files
  <2>4. Kept' /\ Own' /\ Saves'
    BY <2>1, <2>2, <2>3 DEF Present, Parses
  <2>5. hw' = Absent \/ Order(todo')
    <3>1. CASE f = "hw_info"
      BY <1>28, <2>1, <3>1
    <3>2. CASE f # "hw_info"
      BY <2>1, <2>2, <3>2, Files
    <3> QED BY <3>1, <3>2
  <2> QED BY <2>4, <2>5
<1> QED BY <1>6, <1>9, <1>10, <1>12, <1>13, <1>14, <1>16, <1>17, <1>18, <1>19, <1>22, <1>23, <1>24, <1>25, <1>26, <1>27,
           <1>29, <1>30, <1>31
        DEF Next, Call

----------------------------------------------------------------------------
(* An account and its files.                                               *)

(* What a step does to the account's files. *)
LEMMA PerformAccount ==
    ASSUME Base, Perform, NEW s, s = Head(todo)
    PROVE  /\ \A f \in ServiceFile :
                 \/ disk'[f] = disk[f]
                 \/ phase = "migrating"
                 \/ phase = "run" /\ s = Do(f, "remove") /\ disk'[f] = Absent
                 \/ phase = "run" /\ acct \in Account /\ s = PutIfAbsent(f, acct) /\ disk'[f] = Saved(acct, "new")
           /\ \/ disk'["statuskit"] = disk["statuskit"]
              \/ phase = "run" /\ s = Put("statuskit", NoOne) /\ disk'["statuskit"] = Saved(NoOne, "new")
              \/ phase = "run" /\ disk'["statuskit"] = Absent
           /\ \/ disk'["gsa"] = disk["gsa"]
              \/ phase = "migrating"
              \/ phase \in {"restoring", "run"} /\ acct \in Account /\ s = Put("gsa", acct) /\ disk'["gsa"] = Saved(acct, "new")
              \/ phase = "run" /\ s = Do("gsa", "remove") /\ disk'["gsa"] = Absent
           /\ phase = "run" =>
                 /\ \A f \in ServiceFile :
                       f \in spoiled \ spoiled' => s = Do(f, "remove") \/ disk[f] = Absent
                 /\ "gsa" \in spoiled \ spoiled' => s \in {Do("gsa", "remove"), Put("gsa", acct)}
<1>1. /\ s \in Pending /\ s.file \in File /\ todo # <<>>
      /\ spoiled \ spoiled' \subseteq {s.file} /\ (spoiled' # spoiled => s.how = "remove" \/ Writes(s))
      /\ \A g \in File : g # s.file => disk'[g] = disk[g]
      /\ s.how = "put" => disk'[s.file] = s.put
      /\ s.how = "if_absent" => disk'[s.file] = IF disk[s.file] = Absent THEN s.put ELSE disk[s.file]
      /\ s.how = "remove" => disk'[s.file] = Absent
      /\ s.how \in {"rewrite", "key"} => disk'[s.file] = disk[s.file]
  BY PerformFacts DEF Base
<1>2. phase \in {"migrating", "restoring", "run"}
  BY <1>1 DEF Base, TypeOK, Shape
<1>3. "gsa" \in File /\ "statuskit" \in File /\ ServiceFile \subseteq File
  BY Files
<1>4. CASE phase = "migrating"
  <2>1. s \in MigratingStep
    BY <1>1, <1>4 DEF Base, Shape
  <2>2. s.file # "statuskit"
    BY <2>1, StepFields DEF MigratingStep, KeyedFile
  <2> QED BY <1>1, <1>3, <1>4, <2>2
<1>5. CASE phase = "restoring"
  <2>1. s \in RestoringStep
    BY <1>1, <1>5 DEF Base, Shape
  <2>2. \/ s.file = "hw_info"
        \/ /\ s.file = "gsa" /\ s.how = "put" /\ s.put = Saved(acct, "new")
           /\ acct \in Account /\ s = Put("gsa", acct)
    BY <2>1, StepFields DEF RestoringStep
  <2> QED BY <1>1, <1>3, <1>5, <2>2, Files
<1>6. CASE phase = "run"
  <2>1. s \in RunStep
    BY <1>1, <1>6 DEF Base, Shape
  <2>5. ASSUME NEW f \in ServiceFile, f \in spoiled \ spoiled' PROVE s = Do(f, "remove") \/ disk[f] = Absent
    <3>1. f = s.file /\ (s.how = "remove" \/ Writes(s))
      BY <1>1, <2>5
    <3>2. s = Do(f, "remove") \/ (acct \in Account /\ s = PutIfAbsent(f, acct))
      BY <2>1, <3>1, StepFields, Files DEF RunStep, KeyedFile
    <3> QED BY <3>1, <3>2, StepFields DEF Writes
  <2>6. ASSUME "gsa" \in spoiled \ spoiled' PROVE s \in {Do("gsa", "remove"), Put("gsa", acct)}
    <3>1. s.file = "gsa" /\ (s.how = "remove" \/ Writes(s))
      BY <1>1, <2>6
    <3>2. s = Do("gsa", "remove") \/ s = Do("gsa", "key") \/ s = Put("gsa", acct)
      BY <2>1, <3>1, StepFields, Files DEF RunStep
    <3> QED BY <3>1, <3>2, StepFields DEF Writes
  <2>2. CASE s.file \in ServiceFile
    <3>1. s = Do(s.file, "remove") \/ (acct \in Account /\ s = PutIfAbsent(s.file, acct))
      BY <2>1, <2>2, StepFields, Files DEF RunStep, KeyedFile
    <3>2. disk'[s.file] \in {disk[s.file], s.put} \/ (s.how = "remove" /\ disk'[s.file] = Absent)
      BY <1>1, <3>1, StepFields
    <3> QED BY <1>1, <1>3, <1>6, <2>2, <2>5, <2>6, <3>1, <3>2, StepFields, Files
  <2>3. CASE s.file = "statuskit"
    <3>1. s = Do("statuskit", "remove") \/ s = Put("statuskit", NoOne)
      BY <2>1, <2>3, StepFields, Files DEF RunStep, KeyedFile
    <3> QED BY <1>1, <1>3, <1>6, <2>3, <2>5, <2>6, <3>1, StepFields, Files
  <2>4. CASE s.file = "gsa"
    <3>1. s = Do("gsa", "remove") \/ s = Do("gsa", "key") \/ (acct \in Account /\ s = Put("gsa", acct))
      BY <2>1, <2>4, StepFields, Files DEF RunStep
    <3> QED BY <1>1, <1>3, <1>6, <2>4, <2>5, <2>6, <3>1, StepFields, Files
  <2> QED BY <1>1, <1>3, <2>2, <2>3, <2>4, <2>5, <2>6
<1> QED BY <1>2, <1>4, <1>5, <1>6

(* A step that is none of the account's. *)
LEMMA OtherSteps ==
    ASSUME \A z \in Pending' : z.file \notin ServiceFile \cup {"gsa"} /\ z # Put("statuskit", NoOne)
    PROVE  /\ \A f \in ServiceFile \cup {"gsa"} : Do(f, "remove") \notin Pending'
           /\ Pending' \cap UserReset = {}
           /\ Put("gsa", acct') \notin Pending'
           /\ \A f \in ServiceFile : PutIfAbsent(f, acct') \notin Pending'
BY StepFields DEF UserReset

(* No account at first. *)
LEMMA InitAccount == Init => Staged /\ Owned
<1> SUFFICES ASSUME Init PROVE Staged /\ Owned
  OBVIOUS
<1>1. phase = "off" /\ acct = NoOne /\ stage = "none" /\ live = NoOne
  BY DEF Init
<1>2. Staged
  BY <1>1 DEF Staged
<1>3. CASE disk = [f \in File |-> Absent]
  <2>1. ~Present("gsa")
    BY <1>3, Files DEF Present
  <2> QED BY <1>1, <1>2, <2>1 DEF Owned
<1>4. CASE \E a \in Account, i \in Identity : disk = OldInstall(a, i)
  <2>1. PICK a \in Account, i \in Identity : disk = OldInstall(a, i)
    BY <1>4
  <2>2. \A f \in ServiceFile \cup {"gsa", "statuskit"} : disk[f] \in {Saved(a, "old"), Saved(a, "new")}
    <3>1. \A f \in ServiceFile \cup {"gsa", "statuskit"} : f \in File /\ f \notin {"hw_info", "id", "id_cache"}
      BY Files
    <3> QED BY <2>1, <3>1 DEF OldInstall
  <2>3. \A f \in ServiceFile \cup {"gsa", "statuskit"} : disk[f].own = a
    BY <2>2, StepFields
  <2> QED BY <1>1, <1>2, <2>3 DEF Owned
<1> QED BY <1>3, <1>4 DEF Init

(* Every step keeps the account held and what its stage says. *)
LEMMA StepStaged == Base /\ Staged /\ [Next]_vars => Staged'
<1> SUFFICES ASSUME Base, Staged, [Next]_vars PROVE Staged'
  OBVIOUS
<1>1. TypeOK /\ Shape /\ Owners
  BY DEF Base
<1>2. ASSUME UNCHANGED <<acct, stage>>, disk'["gsa"] \in {disk["gsa"], Torn},
             phase' # "run" => stage \in {"none", "saved"},
             \A z \in Pending' : z.file \notin ServiceFile \cup {"gsa"} /\ z # Put("statuskit", NoOne)
      PROVE  Staged'
  BY <1>2, OtherSteps DEF Staged, Present
<1>3. ASSUME Perform PROVE Staged'
  <2> DEFINE s == Head(todo)
  <2>1. Pending = {s} \cup Pending' /\ UNCHANGED <<phase, acct, stage, gone>>
    BY <1>1, <1>3, PerformFacts
  <2>2. \/ disk'["gsa"] = disk["gsa"]
        \/ phase = "migrating"
        \/ acct \in Account /\ disk'["gsa"] = Saved(acct, "new")
        \/ phase = "run" /\ s = Do("gsa", "remove")
    BY <1>3, PerformAccount
  <2> HIDE DEF s
  <2>3. ASSUME stage = "saved", Present("gsa")' PROVE disk'["gsa"].own = acct /\ disk'["gsa"].form = "new"
    <3>1. CASE disk'["gsa"] = disk["gsa"]
      BY <2>3, <3>1 DEF Staged, Present
    <3>2. CASE phase = "migrating"
      BY <1>1, <2>3, <3>2 DEF Shape
    <3>3. CASE acct \in Account /\ disk'["gsa"] = Saved(acct, "new")
      BY <3>3, SavedPresent DEF Present, Owner
    <3>4. CASE phase = "run" /\ s = Do("gsa", "remove")
      BY <2>1, <2>3, <3>4 DEF Staged
    <3> QED BY <2>2, <3>1, <3>2, <3>3, <3>4
  <2> QED BY <2>1, <2>3 DEF Staged
<1>4. ASSUME NEW provisioned \in BOOLEAN, Start(provisioned) PROVE Staged'
  <2>1. phase = "off" /\ phase' = "migrating" /\ UNCHANGED <<disk, acct, stage>>
    BY <1>4 DEF Start, memory
  <2>2. stage = "none"
    BY <1>1, <2>1 DEF Shape
  <2> QED BY <2>1, <2>2 DEF Staged, Present
<1>18. ASSUME LoginRefused PROVE Staged'
  <2>1. todo' = <<>> /\ phase' = "run" /\ acct' = NoOne /\ stage' = "none"
    BY <1>18 DEF LoginRefused, Idle
  <2>2. Pending' = {}
    BY <2>1, StepsShort DEF Pending
  <2> QED BY <2>1, <2>2 DEF Staged
<1>5. ASSUME RestoreNothing \/ RestoreServices \/ MakeServices PROVE Staged'
  <2>1. todo' = <<>> /\ (phase' = "run" \/ phase = "restoring") /\ UNCHANGED <<disk, acct, stage>>
    BY <1>5 DEF RestoreNothing, RestoreServices, MakeServices, Idle, memory
  <2>2. Pending' = {}
    BY <2>1, StepsShort DEF Pending
  <2> QED BY <1>2, <2>1, <2>2 DEF Staged
<1>6. ASSUME NEW connected \in BOOLEAN, NEW postdata \in BOOLEAN, Restore(connected, postdata) PROVE Staged'
  <2>1. /\ phase' = "restoring" /\ disk' = disk
        /\ acct' = IF Parses("gsa") THEN disk["gsa"].own ELSE NoOne
        /\ stage' = IF Parses("gsa") THEN "saved" ELSE "none"
    BY <1>6 DEF Restore
  <2>2. Parses("gsa") => Present("gsa")' /\ disk'["gsa"].form = "new" /\ disk["gsa"].own \in Account
    BY <1>1, <2>1 DEF Parses, Present, Owners
  <2> QED BY <2>1, <2>2, FilesAssumption DEF Staged
<1>7. ASSUME NEW connected \in BOOLEAN, SetupPush(connected) PROVE Staged'
  <2>1. Parses("hw_info") /\ todo' = ConnectPush(connected) /\ UNCHANGED <<disk, phase, acct, stage>> /\ phase = "run"
    BY <1>7 DEF SetupPush, Idle
  <2>2. Pending' \subseteq {Put("hw_info", disk["hw_info"].own)}
    BY <1>1, <2>1, RestoreSteps DEF Pending
  <2>3. \A z \in Pending' : z.file \notin ServiceFile \cup {"gsa"} /\ z # Put("statuskit", NoOne)
    BY <2>2, StepFields, Files
  <2> QED BY <1>2, <2>1, <2>3
<1>8. ASSUME NEW i \in Identity, SetIdentity(i) PROVE Staged'
  <2>1. todo' = <<Do("hw_info", "key"), Put("hw_info", i)>> /\ UNCHANGED <<disk, phase, acct, stage>> /\ phase = "run"
    BY <1>8 DEF SetIdentity, Idle, memory
  <2>2. \A z \in Pending' : z.file = "hw_info"
    BY <2>1, StepsShort, StepFields DEF Pending
  <2> QED BY <1>2, <2>1, <2>2, StepFields, Files
<1>9. ASSUME RegisterIds PROVE Staged'
  <2>1. todo' = <<Do("id", "key"), Put("id", conn)>> /\ UNCHANGED <<disk, phase, acct, stage>> /\ phase = "run"
    BY <1>9 DEF RegisterIds, Idle
  <2>2. \A z \in Pending' : z.file = "id"
    BY <2>1, StepsShort, StepFields DEF Pending
  <2> QED BY <1>2, <2>1, <2>2, StepFields, Files
<1>10. ASSUME NEW a \in Account, TryAuth(a) PROVE Staged'
  <2>1. /\ acct' = a /\ stage' = "clean" /\ todo' = ResetUser /\ phase = "run" /\ phase' = phase
        /\ gone' = gone \cup ServiceFile \cup {"gsa", "statuskit"}
    BY <1>10 DEF TryAuth, Idle
  <2>2. /\ \A z \in Pending' : z.how = "remove" \/ z.file = "statuskit"
        /\ Pending' \subseteq UserReset
    BY <2>1, ResetUserSteps, StepFields DEF Pending, UserReset
  <2>3. Put("gsa", a) \notin Pending' /\ \A f \in ServiceFile : PutIfAbsent(f, a) \notin Pending'
    BY <2>2, StepFields, Files
  <2>4. a # NoOne
    BY FilesAssumption
  <2> QED BY <2>1, <2>2, <2>3, <2>4 DEF Staged
<1>11. ASSUME TryAuthSaved PROVE Staged'
  <2>1. /\ Parses("gsa") /\ acct' = disk["gsa"].own /\ stage' = "saved" /\ todo' = <<>>
        /\ phase = "run" /\ phase' = phase /\ disk' = disk
    BY <1>11 DEF TryAuthSaved, Idle
  <2>2. Pending' = {}
    BY <2>1, StepsShort DEF Pending
  <2>3. acct' \in Account /\ Present("gsa")' /\ disk'["gsa"].form = "new"
    BY <1>1, <2>1 DEF Owners, Parses, Present
  <2> QED BY <2>1, <2>2, <2>3, FilesAssumption DEF Staged
<1>12. ASSUME NEW issued \in Issued, DoLogin(issued) PROVE Staged'
  <2>1. /\ acct \in Account /\ acct # NoOne /\ todo' = Login(acct, issued) /\ UNCHANGED <<disk, acct, phase, gone>>
        /\ phase = "run" /\ stage' = IF stage = "clean" THEN "fresh" ELSE stage
    BY <1>1, <1>12 DEF DoLogin, Idle, TypeOK
  <2>2. \A z \in Pending' : z.how # "remove"
    BY <2>1, LoginSteps, StepFields DEF Pending
  <2>3. \A f : Do(f, "remove") \notin Pending'
    BY <2>2, StepFields
  <2>4. stage' \notin {"none", "clean"} /\ (stage' = "saved" => stage = "saved")
    BY <2>1 DEF Staged
  <2> QED BY <2>1, <2>3, <2>4 DEF Staged, Present
<1>13. ASSUME NEW reset_hw \in BOOLEAN, NEW logout \in BOOLEAN, ResetState(reset_hw, logout) PROVE Staged'
  <2>1. /\ todo' = Reset(reset_hw, logout) /\ UNCHANGED <<disk, phase>> /\ phase = "run"
        /\ stage' = (IF logout THEN "none" ELSE stage) /\ acct' = (IF logout THEN NoOne ELSE acct)
        /\ gone' = gone \cup {"id"}
                   \cup (IF logout THEN ServiceFile \cup {"gsa", "statuskit"} ELSE {})
                   \cup (IF reset_hw THEN {"hw_info", "id_cache", "statuskit"} ELSE {})
    BY <1>13 DEF ResetState, Idle
  <2>2. CASE ~logout
    <3>1. \A z \in Pending' : z.file \notin ServiceFile \cup {"gsa"} /\ z # Put("statuskit", NoOne)
      BY <2>1, <2>2, ResetKinds DEF Pending
    <3> QED BY <1>2, <2>1, <2>2, <3>1
  <2>3. CASE logout
    <3>1. \A z \in Pending' : z = Put("statuskit", NoOne) \/ z.how \in {"remove", "rewrite"}
      BY <2>1, ResetKinds, StepFields DEF Pending
    <3>2. Put("gsa", NoOne) \notin Pending' /\ \A f \in ServiceFile : PutIfAbsent(f, NoOne) \notin Pending'
      BY <3>1, StepFields
    <3> QED BY <2>1, <2>3, <3>2 DEF Staged
  <2> QED BY <2>2, <2>3
<1>14. ASSUME NEW f \in File, NEW own \in Owner, BackgroundSave(f, own), f # "gsa" PROVE Staged'
  <2>1. disk'["gsa"] = disk["gsa"] /\ UNCHANGED <<phase, todo, acct, stage, gone>>
    BY <1>1, <1>14, SaveFacts, Files
  <2> QED BY <2>1 DEF Staged, Present, Pending
<1>15. ASSUME \/ \E f \in ServiceFile \cup {"statuskit"} : ServiceSave(f)
              \/ PushSave
              \/ \E f \in {"id", "id_cache"} : ImClientSave(f)
       PROVE  Staged'
  BY <1>1, <1>14, <1>15, SavesAre, Files
<1>16. ASSUME Quit \/ Crash PROVE Staged'
  <2>1. Forget
    BY <1>16 DEF Quit, Crash
  <2> QED BY <2>1 DEF Forget, Staged
<1>17. ASSUME UNCHANGED vars PROVE Staged'
  BY <1>17 DEF vars, memory, Staged, Present, Pending
<1>19. ASSUME StepFails PROVE Staged'
  <2>1. /\ phase' = "run" /\ Pending' = {}
        /\ UNCHANGED <<acct, stage>> \/ (acct' = NoOne /\ stage' = "none")
        /\ \A f \in File : disk'[f] = disk[f] \/ disk'[f] = Torn
    BY <1>1, <1>19, StepFailsFacts
  <2>2. CASE UNCHANGED <<acct, stage>>
    BY <1>2, <2>1, <2>2, Files
  <2>3. CASE acct' = NoOne /\ stage' = "none"
    BY <2>1, <2>3 DEF Staged
  <2> QED BY <2>1, <2>2, <2>3
<1>20. ASSUME RemoveFails PROVE Staged'
  <2>1. Pending' \subseteq Pending /\ UNCHANGED <<disk, phase, acct, stage, gone>>
    BY <1>20, RemoveFailsFacts
  <2> QED BY <2>1 DEF Staged, Present
<1>21. ASSUME NEW f \in File, SaveFails(f) PROVE Staged'
  <2>1. UNCHANGED <<phase, todo, acct, stage, gone>> /\ \A g \in File : disk'[g] = disk[g] \/ disk'[g] = Torn
    BY <1>1, <1>21, SaveFailsFacts
  <2>2. disk'["gsa"] = disk["gsa"] \/ ~Present("gsa")'
    BY <2>1, Files DEF Present
  <2> QED BY <2>1, <2>2 DEF Staged, Present, Pending
<1> QED BY <1>3, <1>4, <1>5, <1>6, <1>7, <1>8, <1>9, <1>10, <1>11, <1>12, <1>13, <1>15, <1>16, <1>17,
           <1>18, <1>19, <1>20, <1>21
        DEF Next, Call

(* Every step keeps the files one account's. *)
LEMMA StepOwned == Base /\ Staged /\ Owned /\ [Next]_vars => Owned'
<1> DEFINE Counts == ~late /\ AccountFile \cap kept = {}
           Agree == Present("gsa") => \A f \in ServiceFile \cup {"statuskit"} :
                        Present(f) => disk[f].own \in {NoOne, disk["gsa"].own}
           Run == live # NoOne /\ Present("gsa") => \A f \in up \ gone : disk["gsa"].own = live
           Mine == /\ \A f \in ServiceFile \cup {"statuskit"} : Present(f) => disk[f].own \in {NoOne, acct}
                   /\ live # NoOne => \A f \in up \ gone : live = acct
           Clean == /\ AccountFile \subseteq gone
                    /\ \A f \in ServiceFile \cup {"gsa"} : disk[f] = Absent \/ Do(f, "remove") \in Pending
                    /\ \/ Present("statuskit") => disk["statuskit"].own = NoOne
                       \/ Put("statuskit", NoOne) \in Pending
           Whole == \A f \in ServiceFile :
                        \/ disk[f] = Absent
                        \/ Present(f) /\ disk[f].form = "new"
                        \/ disk[f] = Torn /\ f \in spoiled
           Entered == \/ disk["gsa"] = Saved(acct, "new")
                      \/ ~Present("gsa") /\ (LoginAhead \/ "gsa" \in spoiled)
           All == /\ Agree /\ Run
                  /\ stage \in {"saved", "fresh"} => Mine
                  /\ stage = "clean" => Clean
                  /\ stage = "fresh" => Whole /\ Entered
<1>1. Owned = (Counts => All)
  BY DEF Owned
<1> SUFFICES ASSUME Base, Staged, Counts => All, [Next]_vars, Counts' PROVE All'
  <2>1. Owned' = (Counts' => All')
    BY DEF Owned, LoginAhead, Present, Pending, AccountFile
  <2> QED BY <1>1, <2>1
<1>3. TypeOK /\ Shape /\ Owners
  BY DEF Base
<1>4. /\ phase # "run" => live = NoOne /\ stage \notin {"clean", "fresh"}
      /\ phase \in {"off", "migrating"} => stage = "none"
  <2>1. phase \in {"off", "migrating"} => stage = "none"
    BY <1>3 DEF Shape
  <2> QED BY <1>3, <2>1 DEF TypeOK, Shape, Staged
<1>5. AccountFile = ServiceFile \cup {"gsa", "statuskit"} /\ AccountFile \subseteq File
  BY Files DEF AccountFile
<1>6. ASSUME Perform PROVE All'
  <2> DEFINE s == Head(todo)
  <2>1. /\ Pending = {s} \cup Pending' /\ todo # <<>> /\ todo' = Tail(todo)
        /\ UNCHANGED <<phase, acct, stage, live, up, gone, late, kept>>
    BY <1>3, <1>6, PerformFacts
  <2>2. /\ \A f \in ServiceFile :
             \/ disk'[f] = disk[f]
             \/ phase = "migrating"
             \/ phase = "run" /\ s = Do(f, "remove") /\ disk'[f] = Absent
             \/ phase = "run" /\ acct \in Account /\ s = PutIfAbsent(f, acct) /\ disk'[f] = Saved(acct, "new")
        /\ \/ disk'["statuskit"] = disk["statuskit"]
           \/ phase = "run" /\ s = Put("statuskit", NoOne) /\ disk'["statuskit"] = Saved(NoOne, "new")
           \/ phase = "run" /\ disk'["statuskit"] = Absent
        /\ \/ disk'["gsa"] = disk["gsa"]
           \/ phase = "migrating"
           \/ phase \in {"restoring", "run"} /\ acct \in Account /\ s = Put("gsa", acct) /\ disk'["gsa"] = Saved(acct, "new")
           \/ phase = "run" /\ s = Do("gsa", "remove") /\ disk'["gsa"] = Absent
        /\ phase = "run" =>
              /\ \A f \in ServiceFile : f \in spoiled \ spoiled' => s = Do(f, "remove") \/ disk[f] = Absent
              /\ "gsa" \in spoiled \ spoiled' => s \in {Do("gsa", "remove"), Put("gsa", acct)}
    BY <1>6, PerformAccount
  <2>3. All
    BY <2>1
  <2>4. phase \in {"migrating", "restoring", "run"}
    BY <1>3, <2>1 DEF TypeOK, Shape
  <2>5. /\ acct \in Account => Saved(acct, "new") \notin {Absent, Torn}
        /\ acct \in Account => Saved(acct, "new").own = acct /\ Saved(acct, "new").form = "new"
        /\ Saved(NoOne, "new") \notin {Absent, Torn} /\ Saved(NoOne, "new").own = NoOne
    BY SavedPresent DEF Owner
  <2>6. CASE phase = "migrating"
    <3>1. \A f \in File : (Present(f)' <=> Present(f)) /\ (Present(f) => disk'[f].own = disk[f].own)
      BY <1>6, <2>6, MigratingPerform
    <3>2. Agree'
      BY <2>3, <3>1, Files
    <3> QED BY <1>4, <2>1, <2>6, <3>2
  <2> HIDE DEF s
  <2>7. stage \in {"saved", "fresh"} /\ Present("gsa") => disk["gsa"].own = acct
    BY <2>3, StepFields DEF Staged
  <2>8. CASE phase = "restoring"
    <3>1. \A f \in ServiceFile \cup {"statuskit"} : disk'[f] = disk[f]
      BY <2>2, <2>8
    <3>2. Present("gsa")' => \/ Present("gsa") /\ disk'["gsa"].own = disk["gsa"].own
                             \/ stage = "saved" /\ disk'["gsa"].own = acct
      <4>1. CASE disk'["gsa"] = disk["gsa"]
        BY <4>1 DEF Present
      <4>2. CASE acct \in Account /\ disk'["gsa"] = Saved(acct, "new")
        BY <2>5, <2>8, <4>2, FilesAssumption DEF Staged
      <4> QED BY <2>2, <2>8, <4>1, <4>2
    <3>3. stage \in {"saved", "fresh"} => Mine'
      BY <2>1, <2>3, <3>1 DEF Present
    <3>4. Agree'
      <4>1. CASE Present("gsa") /\ disk'["gsa"].own = disk["gsa"].own
        BY <2>3, <3>1, <4>1 DEF Present
      <4>2. CASE stage = "saved" /\ disk'["gsa"].own = acct
        BY <2>1, <3>3, <4>2
      <4> QED BY <3>2, <4>1, <4>2
    <3> QED BY <1>4, <2>1, <2>8, <3>3, <3>4
  <2>9. CASE phase = "run"
    <3>1. /\ \A f \in ServiceFile \cup {"gsa"} : s = Do(f, "remove") => stage \in {"none", "clean"}
          /\ s = Put("gsa", acct) => stage \in {"saved", "fresh"}
          /\ \A f \in ServiceFile : s = PutIfAbsent(f, acct) => stage \in {"saved", "fresh"}
      <4>1. stage \in {"none", "saved", "clean", "fresh"} /\ s \in Pending
        BY <1>3, <2>1 DEF TypeOK
      <4> QED BY <2>9, <4>1 DEF Staged
    <3>2. Present("gsa")' => \/ Present("gsa") /\ disk'["gsa"].own = disk["gsa"].own
                             \/ stage \in {"saved", "fresh"} /\ disk'["gsa"].own = acct
      <4>1. CASE disk'["gsa"] = disk["gsa"]
        BY <4>1 DEF Present
      <4>2. CASE acct \in Account /\ s = Put("gsa", acct) /\ disk'["gsa"] = Saved(acct, "new")
        BY <2>5, <3>1, <4>2
      <4>3. CASE disk'["gsa"] = Absent
        BY <4>3 DEF Present
      <4> QED BY <2>2, <2>9, <4>1, <4>2, <4>3
    <3>3. \A f \in ServiceFile \cup {"statuskit"} : Present(f)' =>
             \/ Present(f) /\ disk'[f] = disk[f]
             \/ disk'[f].own = NoOne
             \/ stage \in {"saved", "fresh"} /\ disk'[f].own = acct
      BY <2>2, <2>5, <2>9, <3>1 DEF Present
    <3>4. stage \in {"saved", "fresh"} => Mine'
      BY <2>1, <2>3, <3>3
    <3>5. Agree'
      <4>1. CASE Present("gsa") /\ disk'["gsa"].own = disk["gsa"].own
        BY <2>3, <2>7, <3>3, <4>1
      <4>2. CASE stage \in {"saved", "fresh"} /\ disk'["gsa"].own = acct
        BY <2>1, <3>4, <4>2
      <4> QED BY <3>2, <4>1, <4>2
    <3>6. Run'
      <4>1. CASE Present("gsa") /\ disk'["gsa"].own = disk["gsa"].own
        BY <2>1, <2>3, <4>1
      <4>2. CASE stage \in {"saved", "fresh"} /\ disk'["gsa"].own = acct
        BY <2>1, <2>3, <4>2
      <4> QED BY <3>2, <4>1, <4>2
    <3>7. ASSUME stage = "clean" PROVE Clean'
      <4>1. Clean /\ s # Put("gsa", acct) /\ \A f \in ServiceFile : s # PutIfAbsent(f, acct)
        BY <2>3, <3>1, <3>7
      <4>2. \A f \in ServiceFile \cup {"gsa"} : (disk'[f] = disk[f] /\ s # Do(f, "remove")) \/ disk'[f] = Absent
        BY <1>3, <1>6, <2>2, <2>9, <4>1, PerformFacts, StepFields, Files DEF s
      <4>3. \A f \in ServiceFile \cup {"gsa"} : disk'[f] = Absent \/ Do(f, "remove") \in Pending'
        BY <2>1, <4>1, <4>2
      <4>4. (Present("statuskit")' => disk'["statuskit"].own = NoOne) \/ Put("statuskit", NoOne) \in Pending'
        <5>1. CASE s = Put("statuskit", NoOne)
          BY <1>3, <1>6, <2>5, <5>1, PerformFacts, StepFields DEF s
        <5>2. CASE s # Put("statuskit", NoOne)
          BY <2>1, <2>2, <4>1, <5>2 DEF Present
        <5> QED BY <5>1, <5>2
      <4> QED BY <2>1, <4>1, <4>3, <4>4 DEF AccountFile
    <3>8. ASSUME stage = "fresh" PROVE Whole' /\ Entered'
      <4>1. Whole /\ Entered /\ \A f \in ServiceFile \cup {"gsa"} : s # Do(f, "remove")
        BY <2>3, <3>1, <3>8
      <4>2. Whole'
        <5> SUFFICES ASSUME NEW f \in ServiceFile
                     PROVE  \/ disk'[f] = Absent
                            \/ Present(f)' /\ disk'[f].form = "new"
                            \/ disk'[f] = Torn /\ f \in spoiled'
          OBVIOUS
        <5>1. CASE disk'[f] = disk[f]
          BY <2>2, <2>9, <4>1, <5>1, FilesAssumption DEF Present
        <5>2. CASE acct \in Account /\ disk'[f] = Saved(acct, "new")
          BY <2>5, <5>2 DEF Present
        <5> QED BY <2>2, <2>9, <4>1, <5>1, <5>2
      <4>3. CASE s = Put("gsa", acct)
        <5>1. disk'["gsa"] = Saved(acct, "new")
          BY <1>3, <1>6, <4>3, PerformFacts, StepFields DEF s
        <5> QED BY <2>1, <4>2, <5>1
      <4>4. CASE s # Put("gsa", acct)
        <5>1. disk'["gsa"] = disk["gsa"] /\ ("gsa" \in spoiled => "gsa" \in spoiled')
          BY <2>2, <2>9, <4>1, <4>4
        <5>2. LoginAhead => LoginAhead'
          <6>1. todo \in Seq(Step) /\ todo # <<>> /\ s = todo[1]
            BY <1>3, <2>1 DEF TypeOK, s
          <6>2. Len(Tail(todo)) = Len(todo) - 1 /\ (Len(todo) >= 2 => Tail(todo)[1] = todo[2])
            BY <6>1
          <6> QED BY <2>1, <4>4, <6>1, <6>2 DEF LoginAhead
        <5> QED BY <2>1, <4>1, <4>2, <5>1, <5>2 DEF Present
      <4> QED BY <4>3, <4>4
    <3> QED BY <2>1, <3>4, <3>5, <3>6, <3>7, <3>8
  <2> QED BY <2>4, <2>6, <2>8, <2>9
<1>7. ASSUME UNCHANGED <<disk, late, kept>> PROVE All /\ Agree'
  BY <1>7 DEF Present
<1>9. ASSUME NEW provisioned \in BOOLEAN, Start(provisioned) PROVE All'
  <2>1. phase = "off" /\ UNCHANGED <<disk, stage, live, late, kept>>
    BY <1>9 DEF Start, memory, history
  <2> QED BY <1>4, <1>7, <2>1
<1>10. ASSUME RestoreNothing PROVE All'
  <2>1. phase = "migrating" /\ UNCHANGED <<disk, stage, live, late, kept>>
    BY <1>10 DEF RestoreNothing, memory, history
  <2> QED BY <1>4, <1>7, <2>1
<1>11. ASSUME NEW connected \in BOOLEAN, NEW postdata \in BOOLEAN, Restore(connected, postdata) PROVE All'
  <2>1. /\ phase = "migrating" /\ UNCHANGED <<disk, live, late, kept>>
        /\ IF Parses("gsa") THEN acct' = disk["gsa"].own /\ stage' = "saved" ELSE stage' = "none"
    BY <1>11 DEF Restore, history
  <2>2. Parses("gsa") => Mine'
    BY <1>4, <1>7, <2>1 DEF Parses, Present
  <2> QED BY <1>4, <1>7, <2>1, <2>2
<1>12. ASSUME RestoreServices PROVE All'
  <2>1. phase = "restoring" /\ UNCHANGED <<disk, acct, stage, late, kept>> /\ live' \in {live, acct}
    BY <1>12 DEF RestoreServices, BuildServices, history
  <2>2. acct # NoOne => stage = "saved" /\ (Present("gsa") => disk["gsa"].own = acct)
    BY <2>1 DEF Staged
  <2>3. live = NoOne /\ stage \notin {"clean", "fresh"}
    BY <1>4, <2>1
  <2>4. Run'
    BY <2>1, <2>2, <2>3 DEF Present
  <2>5. stage \in {"saved", "fresh"} => Mine'
    BY <1>7, <2>1, <2>3 DEF Present
  <2> QED BY <1>7, <2>1, <2>3, <2>4, <2>5
<1>13. ASSUME todo = <<>>, UNCHANGED <<disk, late, kept>>
       PROVE  /\ stage = "clean" => \A f \in ServiceFile \cup {"gsa"} : disk[f] = Absent
              /\ stage = "clean" => (Present("statuskit") => disk["statuskit"].own = NoOne)
              /\ stage = "clean" => AccountFile \subseteq gone
              /\ stage = "fresh" => disk["gsa"] = Saved(acct, "new") \/ (~Present("gsa") /\ "gsa" \in spoiled)
  <2>1. Pending = {} /\ ~LoginAhead
    BY <1>13, StepsShort DEF Pending, LoginAhead
  <2>2. All
    BY <1>7, <1>13
  <2> QED BY <2>1, <2>2
<1>14. ASSUME todo = <<>>, UNCHANGED <<disk, acct, stage, live, up, late, kept, spoiled>>,
              \A f \in AccountFile : f \in gone => f \in gone'
       PROVE  All'
  <2>1. All /\ Agree'
    BY <1>7, <1>14
  <2>2. /\ stage = "clean" => \A f \in ServiceFile \cup {"gsa"} : disk[f] = Absent
        /\ stage = "clean" => (Present("statuskit") => disk["statuskit"].own = NoOne)
        /\ stage = "clean" => AccountFile \subseteq gone
        /\ stage = "fresh" => disk["gsa"] = Saved(acct, "new") \/ (~Present("gsa") /\ "gsa" \in spoiled)
    BY <1>13, <1>14
  <2>3. up' \ gone' \subseteq up \ gone
    BY <1>3, <1>5, <1>14 DEF TypeOK
  <2>4. Run' /\ (stage \in {"saved", "fresh"} => Mine')
    BY <1>14, <2>1, <2>3 DEF Present
  <2>5. stage = "clean" => Clean'
    BY <1>5, <1>14, <2>2 DEF Present, AccountFile
  <2>6. stage = "fresh" => Whole' /\ Entered'
    BY <1>14, <2>1, <2>2 DEF Present
  <2> QED BY <1>14, <2>1, <2>4, <2>5, <2>6
<1>15. ASSUME Call PROVE All'
  <2>1. CASE \/ \E i \in Identity : SetIdentity(i)
             \/ \E connected \in BOOLEAN : SetupPush(connected)
             \/ RegisterIds
    <3>1. /\ todo = <<>> /\ UNCHANGED <<disk, acct, stage, live, up, late, kept, spoiled>>
          /\ gone' \in {gone, gone \ DeviceFile, gone \ {"id"}}
      BY <2>1 DEF SetIdentity, SetupPush, RegisterIds, Idle, memory, history
    <3>2. \A f \in AccountFile : f \notin DeviceFile /\ f # "id"
      BY <1>5, Files DEF DeviceFile
    <3> QED BY <1>14, <3>1, <3>2
  <2>2. ASSUME NEW a \in Account, TryAuth(a) PROVE All'
    <3>1. /\ stage' = "clean" /\ todo' = ResetUser /\ UNCHANGED <<disk, live, up, late, kept>>
          /\ gone' = gone \cup ServiceFile \cup {"gsa", "statuskit"}
      BY <2>2 DEF TryAuth, history
    <3>2. up \subseteq gone'
      BY <1>3, <3>1 DEF TypeOK
    <3>3. Put("statuskit", NoOne) \in Pending' /\ \A f \in ServiceFile \cup {"gsa"} : Do(f, "remove") \in Pending'
      BY <3>1, ResetUserSteps DEF Pending
    <3> QED BY <1>7, <3>1, <3>2, <3>3 DEF AccountFile
  <2>3. ASSUME LoginRefused PROVE All'
    <3>1. stage' = "none" /\ UNCHANGED <<disk, live, up, gone, late, kept>>
      BY <2>3 DEF LoginRefused, history
    <3> QED BY <1>7, <3>1 DEF Present
  <2>4. ASSUME TryAuthSaved PROVE All'
    <3>1. /\ Parses("gsa") /\ acct' = disk["gsa"].own /\ stage' = "saved"
          /\ UNCHANGED <<disk, live, up, gone, late, kept>>
      BY <2>4 DEF TryAuthSaved, history
    <3>2. Mine'
      BY <1>7, <3>1 DEF Parses, Present
    <3> QED BY <1>7, <3>1, <3>2 DEF Present
  <2>5. ASSUME NEW issued \in Issued, DoLogin(issued) PROVE All'
    <3>1. /\ todo = <<>> /\ acct \in Account /\ todo' = Login(acct, issued)
          /\ UNCHANGED <<disk, acct, live, up, gone, late, kept, spoiled>>
          /\ stage' = IF stage = "clean" THEN "fresh" ELSE stage
      BY <1>3, <2>5 DEF DoLogin, Idle, history, TypeOK
    <3>2. CASE stage # "clean"
      BY <1>14, <3>1, <3>2
    <3>3. CASE stage = "clean"
      <4>1. LoginAhead'
        BY <3>1, LoginSteps DEF LoginAhead
      <4>2. /\ \A f \in ServiceFile \cup {"gsa"} : disk[f] = Absent
            /\ Present("statuskit") => disk["statuskit"].own = NoOne
            /\ AccountFile \subseteq gone
        BY <1>13, <3>1, <3>3
      <4>3. up \subseteq gone
        BY <1>3, <1>5, <4>2 DEF TypeOK
      <4>4. \A f \in ServiceFile \cup {"gsa"} : ~Present(f)' /\ disk'[f] = Absent
        BY <3>1, <4>2 DEF Present
      <4>5. Mine'
        BY <3>1, <4>2, <4>3, <4>4 DEF Present
      <4> QED BY <1>7, <3>1, <3>3, <4>1, <4>4, <4>5
    <3> QED BY <3>2, <3>3
  <2>6. ASSUME MakeServices PROVE All'
    <3>1. /\ todo = <<>> /\ stage \in {"saved", "fresh"} /\ live' = acct /\ Parses("gsa")
          /\ UNCHANGED <<disk, todo, acct, stage, late, kept, spoiled>>
      BY <2>6 DEF MakeServices, BuildServices, Idle, history
    <3>2. All /\ Agree'
      BY <1>7, <3>1
    <3>3. disk["gsa"].own = acct
      BY <3>1, <3>2, StepFields DEF Staged, Parses, Present
    <3>4. Run' /\ Mine'
      BY <3>1, <3>2, <3>3 DEF Present
    <3>5. stage = "fresh" => Whole' /\ Entered'
      BY <3>1, <3>2 DEF Present, LoginAhead
    <3> QED BY <3>1, <3>2, <3>4, <3>5
  <2>7. ASSUME NEW reset_hw \in BOOLEAN, NEW logout \in BOOLEAN, ResetState(reset_hw, logout) PROVE All'
    <3>1. /\ todo = <<>> /\ UNCHANGED <<disk, live, up, late, kept, spoiled>>
          /\ stage' = (IF logout THEN "none" ELSE stage) /\ acct' = (IF logout THEN NoOne ELSE acct)
          /\ gone \subseteq gone' /\ (logout => ServiceFile \cup {"gsa", "statuskit"} \subseteq gone')
      BY <2>7 DEF ResetState, Idle, history
    <3>2. CASE ~logout
      BY <1>14, <3>1, <3>2
    <3>3. CASE logout
      <4>1. up \subseteq gone'
        BY <1>3, <3>1, <3>3 DEF TypeOK
      <4> QED BY <1>7, <3>1, <3>3, <4>1
    <3> QED BY <3>2, <3>3
  <2> QED BY <1>15, <2>1, <2>2, <2>3, <2>4, <2>5, <2>6, <2>7 DEF Call
<1>16. ASSUME NEW f \in ServiceFile \cup {"statuskit"}, ServiceSave(f) PROVE All'
  <2>1. f \in up /\ f \in File /\ live \in Owner /\ BackgroundSave(f, live)
    BY <1>3, <1>16, SavesAre
  <2>2. /\ ~late /\ f \notin gone /\ spoiled' = spoiled \ {f}
        /\ disk'[f] \notin {Absent, Torn} /\ disk'[f].own = live /\ disk'[f].form = "new"
        /\ \A g \in File : g # f => disk'[g] = disk[g]
        /\ UNCHANGED <<phase, todo, acct, stage, live, up, gone, kept>>
    BY <1>3, <2>1, SaveFacts
  <2>3. All
    BY <2>2
  <2>4. stage # "clean"
    BY <1>5, <2>2, <2>3
  <2>5. disk'["gsa"] = disk["gsa"] /\ f # "gsa"
    BY <2>2, Files
  <2>6. \A g \in ServiceFile \cup {"statuskit"} : g # f => disk'[g] = disk[g]
    BY <2>2, Files
  <2>7. Agree' /\ Run'
    BY <2>1, <2>2, <2>3, <2>5, <2>6 DEF Present
  <2>8. stage \in {"saved", "fresh"} => Mine'
    BY <2>1, <2>2, <2>3, <2>6 DEF Present
  <2>9. stage = "fresh" => Whole' /\ Entered'
    <3>1. stage = "fresh" => Whole'
      BY <2>2, <2>3, <2>6 DEF Present
    <3>2. stage = "fresh" => Entered'
      BY <2>2, <2>3, <2>5 DEF Present, LoginAhead
    <3> QED BY <3>1, <3>2
  <2> QED BY <2>2, <2>4, <2>7, <2>8, <2>9
<1>17. ASSUME UNCHANGED <<todo, acct, stage, live, up, gone, late, kept>>,
              \A g \in AccountFile : disk'[g] = disk[g] /\ (g \in spoiled <=> g \in spoiled')
       PROVE  All'
  <2>1. All /\ Pending' = Pending /\ (LoginAhead <=> LoginAhead')
    BY <1>17 DEF Pending, LoginAhead
  <2>2. \A g \in ServiceFile \cup {"gsa", "statuskit"} :
           disk'[g] = disk[g] /\ (g \in spoiled <=> g \in spoiled') /\ (Present(g)' <=> Present(g))
    BY <1>5, <1>17 DEF Present
  <2>3. Agree' /\ Run' /\ (stage \in {"saved", "fresh"} => Mine')
    BY <1>17, <2>1, <2>2
  <2>4. stage = "clean" => Clean'
    BY <1>17, <2>1, <2>2 DEF AccountFile
  <2>5. stage = "fresh" => Whole' /\ Entered'
    BY <1>17, <2>1, <2>2
  <2> QED BY <1>17, <2>3, <2>4, <2>5
<1>18. ASSUME NEW f \in {"hw_info", "id", "id_cache"}, BackgroundSave(f, conn), conn \in Owner PROVE All'
  <2>1. /\ late' = late /\ UNCHANGED <<todo, acct, stage, live, up, gone, kept>>
        /\ spoiled' = spoiled \ {f}
        /\ \A g \in AccountFile : disk'[g] = disk[g] /\ g # f
    BY <1>3, <1>5, <1>18, SaveFacts, Files DEF TypeOK
  <2> QED BY <1>17, <2>1
<1>19. ASSUME PushSave \/ \E f \in {"id", "id_cache"} : ImClientSave(f) PROVE All'
  BY <1>3, <1>18, <1>19, SavesAre
<1>20. ASSUME StepFails PROVE All'
  <2> DEFINE s == Head(todo)
  <2>1. /\ phase = "run" /\ s \in Pending /\ Pending' = {} /\ s.how # "remove" /\ todo # <<>>
        /\ \A f \in File : \/ disk'[f] = disk[f]
                           \/ disk'[f] = Torn /\ f = s.file /\ Writes(s)
        /\ spoiled' = spoiled \cup {s.file}
        /\ \/ UNCHANGED <<acct, stage>>
           \/ stage' = "none"
        /\ stage = "clean" => stage' = "none" \/ s.file # "statuskit"
        /\ UNCHANGED <<live, up, gone, late, kept>>
    BY <1>3, <1>20, StepFailsFacts
  <2>2. s = todo[1]
    BY <1>3, <2>1 DEF TypeOK
  <2> HIDE DEF s
  <2>3. All
    BY <2>1
  <2>4. \A f \in ServiceFile \cup {"gsa", "statuskit"} :
           disk'[f] = disk[f] \/ (disk'[f] = Torn /\ f = s.file /\ Writes(s))
    BY <2>1, Files
  <2>5. \A f \in ServiceFile \cup {"gsa", "statuskit"} : Present(f)' => Present(f) /\ disk'[f] = disk[f]
    BY <2>4 DEF Present
  <2>6. Agree' /\ Run' /\ (stage' \in {"saved", "fresh"} => Mine')
    BY <2>1, <2>3, <2>5
  <2>7. ASSUME stage' = "clean" PROVE Clean'
    <3>1. stage = "clean" /\ acct' = acct /\ s.file # "statuskit"
      BY <2>1, <2>7
    <3>2. s \notin UserReset
      BY <2>1, <3>1, StepFields DEF UserReset
    <3>3. Pending \cap UserReset = {}
      BY <2>1, <3>1, <3>2 DEF Staged
    <3>4. /\ \A f \in ServiceFile \cup {"gsa"} : disk[f] = Absent
          /\ Present("statuskit") => disk["statuskit"].own = NoOne
      BY <2>3, <3>1, <3>3 DEF UserReset
    <3>5. ~(s.file \in ServiceFile \cup {"gsa"} /\ Writes(s))
      <4>1. /\ s # Put("gsa", acct) /\ \A f \in ServiceFile : s # PutIfAbsent(f, acct)
            /\ s \in RunStep
        BY <1>3, <2>1, <3>1 DEF Staged, Shape
      <4>2. s.file \in ServiceFile \cup {"gsa"} => s.how \in {"remove", "key"}
        BY <4>1, StepFields, Files DEF RunStep, KeyedFile
      <4> QED BY <4>2 DEF Writes
    <3> QED BY <2>1, <2>3, <2>4, <2>5, <3>1, <3>4, <3>5 DEF AccountFile
  <2>8. ASSUME stage' = "fresh" PROVE Whole' /\ Entered'
    <3>1. Whole /\ Entered /\ acct' = acct
      BY <2>1, <2>3, <2>8
    <3>2. Whole'
      BY <2>1, <2>4, <3>1 DEF Present
    <3>3. LoginAhead => s.file = "gsa"
      BY <2>2, StepFields DEF LoginAhead
    <3>4. Entered'
      BY <2>1, <2>4, <3>1, <3>3 DEF Present
    <3> QED BY <3>2, <3>4
  <2> QED BY <2>6, <2>7, <2>8
<1>21. ASSUME RemoveFails PROVE All'
  <2> DEFINE s == Head(todo)
  <2>1. /\ phase = "run" /\ s \in Pending /\ Pending = {s} \cup Pending' /\ s.how = "remove" /\ todo # <<>>
        /\ kept' = kept \cup {s.file}
        /\ UNCHANGED <<disk, acct, stage, live, up, gone, late, spoiled>>
    BY <1>21, RemoveFailsFacts
  <2>2. s = todo[1]
    BY <1>3, <2>1 DEF TypeOK
  <2> HIDE DEF s
  <2>3. All /\ s.file \notin AccountFile
    BY <2>1
  <2>4. /\ \A f \in AccountFile : s # Do(f, "remove")
        /\ s # Put("statuskit", NoOne) /\ ~LoginAhead
    BY <2>1, <2>2, <2>3, StepFields DEF LoginAhead
  <2>5. Agree' /\ Run' /\ (stage \in {"saved", "fresh"} => Mine')
    BY <2>1, <2>3 DEF Present
  <2>6. stage = "clean" => Clean'
    BY <1>5, <2>1, <2>3, <2>4 DEF Present, AccountFile
  <2>7. stage = "fresh" => Whole' /\ Entered'
    BY <2>1, <2>3, <2>4 DEF Present
  <2> QED BY <2>1, <2>5, <2>6, <2>7
<1>22. ASSUME NEW f \in File, SaveFails(f) PROVE All'
  <2>1. /\ ~late /\ f \notin gone /\ disk'[f] = Torn /\ spoiled' = spoiled \cup {f}
        /\ f \in up \/ f \in {"hw_info", "id", "id_cache"}
        /\ \A g \in File : g # f => disk'[g] = disk[g]
        /\ UNCHANGED <<todo, acct, stage, live, up, gone, kept>>
    BY <1>3, <1>22, SaveFailsFacts
  <2>2. All
    BY <2>1
  <2>3. CASE f \in {"hw_info", "id", "id_cache"}
    <3>1. \A g \in AccountFile : disk'[g] = disk[g] /\ g # f
      BY <1>5, <2>1, <2>3, Files
    <3>2. late' = late
      <4>1. late' \in BOOLEAN /\ late \in BOOLEAN
        BY <1>3, <1>22, SaveFailsFacts DEF TypeOK
      <4> QED BY <2>1, <4>1
    <3> QED BY <1>17, <2>1, <3>1, <3>2
  <2>4. CASE f \in up
    <3>1. f \in ServiceFile \cup {"statuskit"} /\ f # "gsa"
      BY <1>3, <2>4, Files DEF TypeOK
    <3>2. stage # "clean"
      BY <1>5, <2>1, <2>2, <3>1
    <3>3. /\ disk'["gsa"] = disk["gsa"]
          /\ \A g \in ServiceFile \cup {"statuskit"} : g # f => disk'[g] = disk[g]
          /\ ~Present(f)'
      BY <2>1, <3>1, Files DEF Present
    <3>4. Agree' /\ Run' /\ (stage \in {"saved", "fresh"} => Mine')
      BY <2>1, <2>2, <3>3 DEF Present
    <3>5. stage = "fresh" => Whole'
      BY <2>1, <2>2, <3>3 DEF Present
    <3>6. stage = "fresh" => Entered'
      BY <2>1, <2>2, <3>3 DEF Present, LoginAhead
    <3> QED BY <2>1, <3>2, <3>4, <3>5, <3>6
  <2> QED BY <2>1, <2>3, <2>4
<1>23. ASSUME Quit PROVE All'
  <2>1. stage' = "none" /\ live' = NoOne /\ UNCHANGED <<disk, late, kept>>
    BY <1>23 DEF Quit, Forget
  <2> QED BY <1>7, <2>1
<1>24. ASSUME Crash PROVE All'
  <2>1. Forget /\ UNCHANGED <<late, kept>> /\ \A f \in File : disk'[f] \in {disk[f], Torn}
    BY <1>3, <1>24, CrashFacts
  <2>2. stage' = "none" /\ live' = NoOne
    BY <2>1 DEF Forget
  <2>3. Agree'
    <3>1. Agree
      BY <2>1
    <3> QED BY <2>1, <3>1, Files DEF Present
  <2> QED BY <2>2, <2>3
<1>25. ASSUME UNCHANGED vars PROVE All'
  <2>1. UNCHANGED <<disk, todo, acct, stage, live, up, gone, late, kept, spoiled>>
    BY <1>25 DEF vars, memory, history
  <2> QED BY <1>17, <2>1
<1> QED BY <1>6, <1>9, <1>10, <1>11, <1>12, <1>15, <1>16, <1>19, <1>20, <1>21, <1>22, <1>23, <1>24, <1>25
        DEF Next


----------------------------------------------------------------------------
(* What holds of every behaviour.                                          *)

(* The inductive invariant: what is left to do, and for each promise about the
   files what it takes to keep it through that. *)
AccountInv == Base /\ KeyInv /\ MoveInv /\ Connected /\ Counted /\ Staged /\ Owned

(* It holds at every point of every behaviour, whatever operations deaths of
   the process or failed steps cut off. *)
THEOREM AccountInductive == Spec => []AccountInv
<1>1. Init => AccountInv
  BY InitBase, InitKey, InitMove, InitId, InitAccount DEF AccountInv
<1>2. AccountInv /\ [Next]_vars => AccountInv'
  <2> SUFFICES ASSUME AccountInv, [Next]_vars PROVE AccountInv'
    OBVIOUS
  <2>1. Base /\ KeyInv /\ MoveInv /\ Connected /\ Counted /\ Staged /\ Owned
    BY DEF AccountInv
  <2>2. Base' /\ KeyInv' /\ MoveInv'
    BY <2>1, StepBase, StepKey, StepMove
  <2>3. Connected' /\ Staged' /\ Owned'
    BY <2>1, StepConnected, StepStaged, StepOwned
  <2>4. Counted'
    BY <2>1, <2>3, StepCounted
  <2> QED BY <2>2, <2>3, <2>4 DEF AccountInv
<1> QED BY <1>1, <1>2, PTL DEF Spec

(* Every operation of api.rs leaves files, steps and histories of their types. *)
THEOREM AccountTypeCorrect == Spec => []TypeOK
<1>1. AccountInv => TypeOK
  BY DEF AccountInv, Base
<1> QED BY <1>1, AccountInductive, PTL

(* Wherever migrate, set_identity, do_login or register_ids is cut off, a file
   that names a key names one the keystore holds. *)
THEOREM HandlesAlwaysResolve == Spec => []HandlesResolve
<1>1. AccountInv => HandlesResolve
  BY DEF AccountInv, KeyInv
<1> QED BY <1>1, AccountInductive, PTL

(* The app never runs on files migrate has not converted, wherever a former
   start was cut off. *)
THEOREM MigrationAlwaysHolds == Spec => []MigrationHolds
<1>1. AccountInv => MigrationHolds
  <2> SUFFICES ASSUME AccountInv, phase = "run"
               PROVE  /\ \A f \in {"hw_info", "id", "gsa"} : ~IsOld(f)
                      /\ "hw_info" \notin cut =>
                            disk["hw_info"] \in {Absent, Torn} \/ disk["hw_info"].form = "new"
                      /\ {"gsa", "findmy"} \cap cut = {} => ~IsOld("findmy")
    BY DEF MigrationHolds
  <2>1. TypeOK /\ Moving /\ HalfWay /\ Together
    BY DEF AccountInv, Base, MoveInv
  <2>2. \A f \in {"hw_info", "id", "gsa"} : ~IsOld(f)
    BY <2>1 DEF Moving
  <2>3. Present("hw_info") => disk["hw_info"].form \in {"old", "keypair", "new"}
    BY <2>1, PresentType, Files
  <2>4. ASSUME "hw_info" \notin cut PROVE disk["hw_info"] \in {Absent, Torn} \/ disk["hw_info"].form = "new"
    BY <2>1, <2>2, <2>3, <2>4 DEF HalfWay, Present, IsOld
  <2>5. {"gsa", "findmy"} \cap cut = {} => ~IsOld("findmy")
    BY <2>1 DEF Together
  <2> QED BY <2>2, <2>4, <2>5
<1> QED BY <1>1, AccountInductive, PTL

(* reset_state never leaves an identity that has been used without its replay
   counters, wherever it is cut off. *)
THEOREM CountersAlwaysKept == Spec => []CountersKept
<1>1. AccountInv => CountersKept
  BY DEF AccountInv, Counted, CountersKept, Parses, Present
<1> QED BY <1>1, AccountInductive, PTL

(* Neither a death of the process nor a failed save mixes two accounts' files:
   try_auth's reset, do_login's saves, migrate and the services' own saves all
   keep them the account's that gsa.plist names. *)
THEOREM AlwaysOneAccount == Spec => []OneAccount
<1>1. AccountInv => OneAccount
  BY DEF AccountInv, Owned, OneAccount, Parses, Present
<1> QED BY <1>1, AccountInductive, PTL

(* Once do_login is through after a sign-in with credentials, the directory is
   whole and the new account's, whatever it was before: what stays torn is
   exactly what a save of this process failed to write since. *)
THEOREM LoginAlwaysHeals == Spec => []LoginHeals
<1>1. AccountInv => LoginHeals
  <2> SUFFICES ASSUME AccountInv, ~late, AccountFile \cap kept = {}, Idle, stage = "fresh"
               PROVE  /\ "gsa" \notin spoiled => Parses("gsa") /\ disk["gsa"].own = acct
                      /\ \A f \in ServiceFile :
                            \/ disk[f] = Absent
                            \/ Parses(f) /\ disk[f].own \in {NoOne, acct}
                            \/ disk[f] = Torn /\ f \in spoiled
    BY DEF LoginHeals
  <2>1. TypeOK /\ Owned /\ acct \in Owner
    BY DEF AccountInv, Base, TypeOK, Owner
  <2>2. ~LoginAhead
    BY DEF Idle, LoginAhead
  <2>3. "gsa" \notin spoiled => disk["gsa"] = Saved(acct, "new")
    BY <2>1, <2>2 DEF Owned
  <2>4. "gsa" \notin spoiled => Parses("gsa") /\ disk["gsa"].own = acct
    BY <2>1, <2>3, SavedPresent DEF Parses
  <2>5. \A f \in ServiceFile :
           \/ disk[f] = Absent
           \/ Parses(f) /\ disk[f].own \in {NoOne, acct}
           \/ disk[f] = Torn /\ f \in spoiled
    BY <2>1 DEF Owned, Parses, Present
  <2> QED BY <2>4, <2>5
<1> QED BY <1>1, AccountInductive, PTL
============================================================================
