------------------------------ MODULE AuthRules ------------------------------
(***************************************************************************)
(* How keystore.rs (kept, not compiled) tells the hardware what a wrapped  *)
(* key may be used for: AuthorizationList::from_auth_rules, with the       *)
(* numbers of Android's KeyMint, the format of wrap_import_key, and the    *)
(* curve NativeKeystoreHolder::derive reads off a point's length.          *)
(***************************************************************************)
EXTENDS Naturals

KeyType == [alg : {"Rsa", "Aes"}, size : 1..4096] \cup [alg : {"Ec"}, size : {256, 384}]

KeystoreDigest == {"Sha384", "Sha256", "Sha1"}
KeystorePadding == {"PKCS1", "OAEP", "None"}

KeystoreAccessRules ==
    [block_modes : SUBSET {"Rsa", "Gcm"}, digests : SUBSET KeystoreDigest,
     encryption_paddings : SUBSET KeystorePadding, mgf1_digests : SUBSET KeystoreDigest,
     signature_padding : SUBSET KeystorePadding, require_user : BOOLEAN, can_agree : BOOLEAN,
     can_sign : BOOLEAN, can_encrypt : BOOLEAN, can_decrypt : BOOLEAN]

(* The enums of KeyMint. *)
KeyPurpose == [Encrypt |-> 0, Decrypt |-> 1, Sign |-> 2, AgreeKey |-> 6]
Algorithm == [Rsa |-> 1, Ec |-> 3, Aes |-> 32]
BlockMode == [Rsa |-> 1, Gcm |-> 32]
Digest == [Sha1 |-> 2, Sha256 |-> 4, Sha384 |-> 5]
SignPadding == [None |-> 1, OAEP |-> 2, PKCS1 |-> 5]
EncryptPadding == [None |-> 1, OAEP |-> 2, PKCS1 |-> 4]
EcCurve(size) == IF size = 256 THEN 1 ELSE 2
KeyFormat(type) == IF type.alg = "Aes" THEN 3 ELSE 1

(* An optional field is a set of at most one value; a set of numbers that is
   absent is the empty set. *)
Purposes(rules) ==
    {KeyPurpose[p] : p \in {q \in DOMAIN KeyPurpose :
        CASE q = "AgreeKey" -> rules.can_agree
          [] q = "Decrypt" -> rules.can_decrypt
          [] q = "Encrypt" -> rules.can_encrypt
          [] OTHER -> rules.can_sign}}

(* Mutant: PKCS1 has one number for both uses. *)
PaddingsAlike(rules) ==
    IF rules.signature_padding \cup rules.encryption_paddings = {}
    THEN {SignPadding["None"]}
    ELSE {SignPadding[p] : p \in rules.signature_padding \cup rules.encryption_paddings}

(* A key without paddings is given the padding None. *)
Paddings(rules) ==
    IF rules.signature_padding \cup rules.encryption_paddings = {}
    THEN {SignPadding["None"]}
    ELSE {SignPadding[p] : p \in rules.signature_padding}
         \cup {EncryptPadding[p] : p \in rules.encryption_paddings}

AuthorizationList(type, rules) ==
    [format |-> KeyFormat(type),
     purpose |-> Purposes(rules),
     algorithm |-> Algorithm[type.alg],
     key_size |-> type.size,
     block_mode |-> {BlockMode[m] : m \in rules.block_modes},
     digest |-> {Digest[d] : d \in rules.digests},
     min_mac_length |-> IF "Gcm" \in rules.block_modes THEN {128} ELSE {},
     padding |-> Paddings(rules),
     ec_curve |-> IF type.alg = "Ec" THEN {EcCurve(type.size)} ELSE {},
     mgf_digest |-> {Digest[d] : d \in rules.mgf1_digests},
     no_auth_required |-> ~rules.require_user,
     user_auth_type |-> IF rules.require_user THEN {3} ELSE {},
     auth_timeout |-> IF rules.require_user THEN {0} ELSE {}]

(* The curve of a point: 33 or 65 bytes, 49 or 97, or an error. *)
DeriveGroup(len) ==
    CASE len \in {33, 65} -> "P256"
      [] len \in {97, 49} -> "P384"
      [] OTHER -> "error"

----------------------------------------------------------------------------
(* How KeyMint reads a list.  Each use of a key has a purpose, a padding, for
   a signature a digest, and happens with or without the user at hand. *)
Operation == [purpose : DOMAIN KeyPurpose, padding : KeystorePadding,
              digest : KeystoreDigest, user : BOOLEAN]

Permits(list, op) ==
    /\ CASE op.purpose = "Encrypt" -> 0 \in list.purpose
         [] op.purpose = "Decrypt" -> 1 \in list.purpose
         [] op.purpose = "Sign" -> 2 \in list.purpose
         [] OTHER -> 6 \in list.purpose
    /\ CASE op.padding = "None" -> 1 \in list.padding
         [] op.padding = "OAEP" -> 2 \in list.padding
         [] op.padding = "PKCS1" /\ op.purpose = "Sign" -> 5 \in list.padding
         [] OTHER -> 4 \in list.padding
    /\ op.purpose = "Sign" =>
          (CASE op.digest = "Sha1" -> 2 [] op.digest = "Sha256" -> 4 [] OTHER -> 5) \in list.digest
    /\ 32 \in list.block_mode => list.min_mac_length = {128}
    /\ op.user \/ list.no_auth_required

(* What the rules ask for.  None and OAEP have one number for both uses of a
   key; a key without paddings is used without. *)
AskedFor(rules, op) ==
    LET both == rules.signature_padding \cup rules.encryption_paddings
        mine == IF op.purpose = "Sign" THEN rules.signature_padding ELSE rules.encryption_paddings
    IN  /\ CASE op.purpose = "Encrypt" -> rules.can_encrypt
             [] op.purpose = "Decrypt" -> rules.can_decrypt
             [] op.purpose = "Sign" -> rules.can_sign
             [] OTHER -> rules.can_agree
        /\ \/ op.padding \in mine
           \/ op.padding \in both \ {"PKCS1"}
           \/ op.padding = "None" /\ both = {}
        /\ op.purpose = "Sign" => op.digest \in rules.digests
        /\ op.user \/ ~rules.require_user

PointLength(curve, compressed) ==
    LET n == IF curve = "P256" THEN 32 ELSE 48
    IN  IF compressed THEN 1 + n ELSE 1 + 2 * n
=============================================================================
