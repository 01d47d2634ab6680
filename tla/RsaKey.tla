------------------------------- MODULE RsaKey -------------------------------
(***************************************************************************)
(* The RSA key objects of src/src/rsa.c that the signing commands use:    *)
(* reading a PEM private key file, the SHA-256 fingerprint of the public  *)
(* key and RSASSA signing.                                                 *)
(*                                                                         *)
(* A key file is NoFile (fopen fails), NotPem (PEM_read_* finds no key of  *)
(* the kind it looks for) or a PEM key [pem, type, key]: a "private" or    *)
(* "public" PEM block, the OpenSSL key type ("RSA", "EC") and the key     *)
(* pair it holds.  A private PEM block is not a PUBKEY block and the other *)
(* way round, so each reader finds nothing in the other's file.  A        *)
(* fingerprint and a signature are terms of the key pair and what they    *)
(* are computed over.                                                      *)
(***************************************************************************)
CONSTANTS
  NoFile,   \* a key file fopen cannot open
  NotPem,   \* a key file without a PEM block of the kind the reader wants
  NULL

(* tpm_rsa_key_alloc: the key object, owning the path and the EVP_PKEY.  *)
tpm_rsa_key_alloc(f, priv) == [key |-> f.key, is_private |-> priv]

(* What PEM_read_PrivateKey or PEM_read_PUBKEY returns for a file: the    *)
(* key of a PEM block of the kind asked for, else NULL.                    *)
PemKind(f, pem) == f \notin {NoFile, NotPem} /\ f.pem = pem

(* tpm_rsa_key_read_private: fopen, PEM_read_PrivateKey, and a key other  *)
(* than RSA refused (EVP_PKEY_id).                                         *)
tpm_rsa_key_read_private(f) ==
  IF ~PemKind(f, "private") \/ f.type # "RSA" THEN NULL ELSE tpm_rsa_key_alloc(f, TRUE)

(* tpm_rsa_key_public_digest: SHA-256 over the DER public key; here the  *)
(* key it names, as the JSON's "pkfp" is compared with keys.  der_size   *)
(* is unsigned, so its "< 0" checks never fire; i2d_PublicKey does not    *)
(* fail on an RSA key the readers accepted.                                *)
tpm_rsa_key_public_digest(k) == k.key

(* tpm_rsa_sign: refused for a public key; EVP_DigestSignInit or           *)
(* EVP_DigestSign may fail ("evp" other than "ok").  0 bytes is NULL here. *)
tpm_rsa_sign(k, tbs, evp) ==
  IF ~k.is_private \/ evp # "ok" THEN NULL ELSE <<tbs, k.key>>

=============================================================================
