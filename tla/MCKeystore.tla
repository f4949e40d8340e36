----------------------------- MODULE MCKeystore -----------------------------
(* A small instance of Keystore for TLC.                                   *)
EXTENDS Keystore

Rsa == [alg |-> "Rsa", size |-> 2048]

(* The keys of the account layer and one with everything. *)
MCRequest ==
    {[type |-> Rsa, rules |-> [NoRules EXCEPT !.signature_padding = {"PKCS1"},
                                              !.digests = {"Sha1"}, !.can_sign = TRUE]],
     [type |-> [alg |-> "Aes", size |-> 256],
      rules |-> [NoRules EXCEPT !.block_modes = {"Gcm"}, !.can_encrypt = TRUE,
                                !.can_decrypt = TRUE]],
     [type |-> Rsa, rules |-> [NoRules EXCEPT !.block_modes = {"Rsa"},
                                              !.encryption_paddings = {"PKCS1", "OAEP"},
                                              !.mgf1_digests = {"Sha256"}, !.can_decrypt = TRUE,
                                              !.can_sign = TRUE, !.digests = {"Sha256"},
                                              !.require_user = TRUE]]}
=============================================================================
