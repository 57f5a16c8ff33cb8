---------------------------- MODULE DeviceKeys ----------------------------
(***************************************************************************)
(* The signing key (sign/ecdsa.c, the start of main.c).  The private key   *)
(* is kept in flash, encrypted with an AES key that only the KMU slot      *)
(* holds; the public key lies next to it, in the clear.  The first start   *)
(* makes both, later ones decrypt the private key.  The slot and the       *)
(* record are written one after the other, and power may fail at any step. *)
(* The record is read twice in a start, to check it and to decrypt it, and *)
(* either read may fail unnoticed: local_storage.c:72 compares a negative  *)
(* result with an unsigned length, and neither caller looks.               *)
(*                                                                         *)
(* A key pair is named by one value, private key and public key alike.  A  *)
(* write of NVS is whole or not at all, so a record fails its CRC only     *)
(* where there is none; but its CRC may be 0 by chance, which the code     *)
(* takes for no record.  NoKey also stands for bytes that are no key.      *)
(***************************************************************************)
EXTENDS FiniteSets

CONSTANTS
    Pairs,    \* the values gen_ecc_key may yield
    AesKeys,  \* the values genAESKey may yield
    NoKey

ASSUME KeysAssumption == NoKey \notin Pairs \cup AesKeys

VARIABLES
    flash,     \* the record of SID_ECC_KEY
    kmu,       \* the AES key in slot AES_KMU_SLOT
    pc,        \* where the start is
    mounted,   \* iotex_local_storage_init succeeded in this start
    blind,     \* the check of this start could not read the record
    pair, aes, \* the keys this start has generated
    priv,      \* what SetEccPrivKey was given
    unread,    \* history: get_ecc_key of this start could not read the record
    unsaved,   \* history: the record was not saved in this start
    spoiled    \* history: a blind start changed the slot, and none has saved since

ram == <<mounted, blind, pair, aes, priv, unread, unsaved>>
vars == <<flash, kmu, pc, ram, spoiled>>

Record ==
    [pub : Pairs \cup {NoKey}, sealed : Pairs \cup {NoKey},
     under : AesKeys \cup {NoKey}, crc : {"zero", "other"}]

\* What is read where nothing is stored: a buffer of zeros.
NoRecord == [pub |-> NoKey, sealed |-> NoKey, under |-> NoKey, crc |-> "zero"]

Steps == {"generate", "provision", "encrypt", "save", "decrypt"}

TypeOK ==
    /\ flash \in Record
    /\ kmu \in AesKeys \cup {NoKey}
    /\ pc \in {"off", "up", "dead"} \cup Steps
    /\ mounted \in BOOLEAN
    /\ blind \in BOOLEAN
    /\ pair \in Pairs \cup {NoKey}
    /\ aes \in AesKeys \cup {NoKey}
    /\ priv \in Pairs \cup {NoKey}
    /\ unread \in BOOLEAN
    /\ unsaved \in BOOLEAN
    /\ spoiled \in BOOLEAN

Init ==
    /\ flash = NoRecord
    /\ kmu = NoKey
    /\ pc = "off"
    /\ mounted = FALSE
    /\ blind = FALSE
    /\ pair = NoKey
    /\ aes = NoKey
    /\ priv = NoKey
    /\ unread = FALSE
    /\ unsaved = FALSE
    /\ spoiled = FALSE

-----------------------------------------------------------------------------
\* CRC16(buf, 64) == crc and crc; the CRC of 64 zeros is 0.
ValidZeroCrc(r) == TRUE
ValidNever(r) == FALSE
Valid(r) == r.crc # "zero"

\* The results of iotex_local_storage_init and of the load are ignored: a load
\* that fails leaves the zeros of memset, which are no record.
Start ==
    /\ pc = "off"
    /\ mounted' \in BOOLEAN
    /\ blind' \in BOOLEAN
    /\ ~ mounted' => blind'
    /\ pc' = IF ~ blind' /\ Valid(flash) THEN "decrypt" ELSE "generate"
    /\ UNCHANGED <<flash, kmu, pair, aes, priv, unread, unsaved, spoiled>>

\* Any call fails: "system will not startup".  The watchdog runs already and
\* is fed, so that the device stays like this.
Fail ==
    /\ pc \in {"off", "generate", "encrypt", "decrypt"}
    /\ pc' = "dead"
    /\ UNCHANGED <<flash, kmu, ram, spoiled>>

Generate ==
    /\ pc = "generate"
    /\ pair' \in Pairs \ {flash.pub, flash.sealed}
    /\ pc' = "provision"
    /\ UNCHANGED <<flash, kmu, mounted, blind, aes, priv, unread, unsaved, spoiled>>

\* genAESKey and store_key_in_kmu
Provision ==
    /\ pc = "provision"
    /\ aes' \in AesKeys \ {flash.under, kmu}
    /\ kmu' = aes'
    /\ spoiled' = (spoiled \/ blind)
    /\ pc' = "encrypt"
    /\ UNCHANGED <<flash, mounted, blind, pair, priv, unread, unsaved>>

\* A failed store leaves the slot as it was, empty or with the new key.
ProvisionFails ==
    /\ pc = "provision"
    /\ aes' \in AesKeys \ {flash.under, kmu}
    /\ kmu' \in {kmu, aes', NoKey}
    /\ spoiled' = (spoiled \/ blind)
    /\ pc' = "dead"
    /\ UNCHANGED <<flash, mounted, blind, pair, priv, unread, unsaved>>

Encrypt ==
    /\ pc = "encrypt"
    /\ pc' = "save"
    /\ UNCHANGED <<flash, kmu, ram, spoiled>>

Save ==
    /\ pc = "save"
    /\ mounted
    /\ \E c \in {"zero", "other"} :
          flash' = [pub |-> pair, sealed |-> pair, under |-> aes, crc |-> c]
    /\ spoiled' = FALSE
    /\ pc' = "decrypt"
    /\ UNCHANGED <<kmu, ram>>

\* The result of iotex_local_storage_save is ignored.
SaveFails ==
    /\ pc = "save"
    /\ unsaved' = TRUE
    /\ pc' = "decrypt"
    /\ UNCHANGED <<flash, kmu, mounted, blind, pair, aes, priv, unread, spoiled>>

\* The cipher does not notice a wrong key.
DecryptedNever(r) == r
Decrypted(r) == IF r.under = kmu THEN r.sealed ELSE NoKey

\* get_ecc_key reads the record again.  A load that fails leaves the bytes that
\* were on the stack, and those are decrypted.
Decrypt ==
    /\ pc = "decrypt"
    /\ unread' \in BOOLEAN
    /\ ~ mounted => unread'
    /\ priv' = IF unread' THEN NoKey ELSE Decrypted(flash)
    /\ pc' = "up"
    /\ UNCHANGED <<flash, kmu, mounted, blind, pair, aes, unsaved, spoiled>>

PowerFails ==
    /\ pc # "off"
    /\ pc' = "off"
    /\ mounted' = FALSE
    /\ blind' = FALSE
    /\ pair' = NoKey
    /\ aes' = NoKey
    /\ priv' = NoKey
    /\ unread' = FALSE
    /\ unsaved' = FALSE
    /\ UNCHANGED <<flash, kmu, spoiled>>

Next ==
    \/ Start \/ Fail
    \/ Generate \/ Provision \/ ProvisionFails \/ Encrypt
    \/ Save \/ SaveFails \/ Decrypt
    \/ PowerFails

Spec == Init /\ [][Next]_vars

-----------------------------------------------------------------------------
(* Properties *)

\* A device that is up signs with the key whose public part is in its record,
\* wherever power failed and whatever call failed before.  Three cases are
\* excepted: a start that could not save its record or not read it back (lines
\* 143 and 49), which the next start puts right, and a record that a start could
\* not read (line 109) and whose AES key it replaced without saving a record in
\* its place; that one stays unreadable until a blind start saves another.
Matches == priv # NoKey /\ priv = flash.pub

KeyPairMatches == pc = "up" => Matches \/ unsaved \/ unread \/ spoiled

\* A record with a CRC that holds is replaced only in a start whose check could
\* not read it: no other failure, and no loss of power between the steps, costs
\* a device the identity it has (lines 109-143).
IdentityKept == [][flash.crc # "zero" /\ flash'.pub # flash.pub => blind]_vars
=============================================================================
