------------------------------ MODULE KeyFile ------------------------------
(***************************************************************************)
(* EnDeFile.initKey: the first call that finds no key file generates a key *)
(* pair, puts it in the static fields the worker tasks encrypt and decrypt *)
(* with, and only then writes it to Keydir\mo.txt; later calls read it     *)
(* back.  uploadDocFile calls initKey before it encrypts a file,           *)
(* getDownloadTmpFile before it decrypts one, each on its request thread.  *)
(* The server may crash: threads and statics are gone, the files stay.     *)
(*                                                                         *)
(* The key pair a call generates is named by the call.                     *)
(***************************************************************************)
EXTENDS Integers, Sequences, FiniteSets

CONSTANTS Calls,       \* the requests that call initKey
          OldKey,      \* the pair of a key file made long ago
          Absent,      \* there is no key file
          NoKey,       \* a null field
          AtStart,     \* what the key file may hold when the server starts
          Blocks,      \* bound: blocks of a file, each encrypted on its own
          MaxFirst,    \* bound: requests that generate a pair together
          MaxCrashes   \* bound: crashes of the server

Keys == Calls \cup {OldKey}
Empty == <<>>          \* the file as `new FileWriter` leaves it until close

ASSUME KeyNames ==
  /\ IsFiniteSet(Calls) /\ OldKey \notin Calls
  /\ Absent \notin Keys /\ NoKey \notin Keys
  /\ Empty \notin Keys /\ Empty # Absent
ASSUME StartFiles == AtStart \subseteq {Absent, OldKey}
ASSUME KeyBounds == Blocks \in Nat /\ MaxFirst \in Nat /\ MaxCrashes \in Nat

VARIABLES keyFile,      \* what Keydir\mo.txt holds
          publicKey,    \* encodeThread.publicKey
          privateKey,   \* decodeThread.privateKey
          pc,           \* pc[c]: where request c stands
          key,          \* key[c]: the pair in the fields of c's EnDeFile
          new,          \* new[c]: c found no key file
          used,         \* used[c]: the keys c's blocks were encrypted with
          crashes       \* crashes so far

vars == <<keyFile, publicKey, privateKey, pc, key, new, used, crashes>>

Phases == {"idle", "keyed", "public", "private", "opened", "ready",
           "stored", "read", "failed"}
Active(c) == pc[c] \in {"keyed", "public", "private", "opened", "ready"}

Init == /\ keyFile \in AtStart
        /\ publicKey = NoKey /\ privateKey = NoKey
        /\ pc = [c \in Calls |-> "idle"]
        /\ key = [c \in Calls |-> NoKey]
        /\ new = [c \in Calls |-> FALSE]
        /\ used = [c \in Calls |-> <<>>]
        /\ crashes = 0
-----------------------------------------------------------------------------
(* Mutant of Missing: generates a pair although the file is there.         *)
NotEmpty == keyFile # Empty
Missing == keyFile = Absent

(* kf.exists(): generate a pair, or read the two lines.  An empty file     *)
(* gives a null line, and the exception ends the request.                  *)
FindKey(c) ==
  /\ pc[c] = "idle"
  /\ \/ /\ Missing
        /\ Cardinality({d \in Calls : Active(d) /\ new[d]}) < MaxFirst
        /\ key' = [key EXCEPT ![c] = c]
        /\ new' = [new EXCEPT ![c] = TRUE]
        /\ pc' = [pc EXCEPT ![c] = "keyed"]
     \/ /\ keyFile \in Keys
        /\ key' = [key EXCEPT ![c] = keyFile]
        /\ pc' = [pc EXCEPT ![c] = "keyed"]
        /\ UNCHANGED new
     \/ /\ keyFile = Empty
        /\ pc' = [pc EXCEPT ![c] = "failed"]
        /\ UNCHANGED <<key, new>>
  /\ UNCHANGED <<keyFile, publicKey, privateKey, used, crashes>>

SetPublic(c) ==
  /\ pc[c] = "keyed"
  /\ publicKey' = key[c]
  /\ pc' = [pc EXCEPT ![c] = "public"]
  /\ UNCHANGED <<keyFile, privateKey, key, new, used, crashes>>

(* Mutant of PrivateField: the static is set only with a new pair.         *)
OnlyNew(c) == IF new[c] THEN key[c] ELSE privateKey
PrivateField(c) == key[c]

SetPrivate(c) ==
  /\ pc[c] = "public"
  /\ privateKey' = PrivateField(c)
  /\ pc' = [pc EXCEPT ![c] = IF new[c] THEN "private" ELSE "ready"]
  /\ UNCHANGED <<keyFile, publicKey, key, new, used, crashes>>

(* new FileWriter(kf) creates the file empty, or truncates it.             *)
Open(c) ==
  /\ pc[c] = "private"
  /\ keyFile' = Empty
  /\ pc' = [pc EXCEPT ![c] = "opened"]
  /\ UNCHANGED <<publicKey, privateKey, key, new, used, crashes>>

(* The directory may be missing (a download does not create it).           *)
OpenFails(c) ==
  /\ pc[c] = "private"
  /\ pc' = [pc EXCEPT ![c] = "failed"]
  /\ UNCHANGED <<keyFile, publicKey, privateKey, key, new, used, crashes>>

(* Mutant of Written: the writer is not closed.                            *)
NotFlushed(c) == Empty
Written(c) == key[c]

(* The two lines are shorter than the writer's buffer: they reach the file *)
(* when it is closed, whatever another writer has put there since.         *)
Close(c) ==
  /\ pc[c] = "opened"
  /\ keyFile' = Written(c)
  /\ pc' = [pc EXCEPT ![c] = "ready"]
  /\ UNCHANGED <<publicKey, privateKey, key, new, used, crashes>>

(* A worker encrypts the next block with what the static holds by then.    *)
Encrypt(c) ==
  /\ pc[c] = "ready" /\ Len(used[c]) < Blocks
  /\ used' = [used EXCEPT ![c] = Append(@, publicKey)]
  /\ UNCHANGED <<keyFile, publicKey, privateKey, pc, key, new, crashes>>

(* The encrypted file is in HDFS.                                          *)
Store(c) ==
  /\ pc[c] = "ready" /\ Len(used[c]) = Blocks
  /\ pc' = [pc EXCEPT ![c] = "stored"]
  /\ UNCHANGED <<keyFile, publicKey, privateKey, key, new, used, crashes>>

(* A download instead: the worker decrypts a stored block, and used[c]     *)
(* records the key it did so with.                                         *)
Decrypt(c) ==
  /\ pc[c] = "ready" /\ used[c] = <<>>
  /\ \E d \in Calls : pc[d] = "stored"
  /\ used' = [used EXCEPT ![c] = <<privateKey>>]
  /\ pc' = [pc EXCEPT ![c] = "read"]
  /\ UNCHANGED <<keyFile, publicKey, privateKey, key, new, crashes>>

Crash ==
  /\ crashes < MaxCrashes
  /\ crashes' = crashes + 1
  /\ publicKey' = NoKey /\ privateKey' = NoKey
  /\ pc' = [c \in Calls |-> IF Active(c) THEN "failed" ELSE pc[c]]
  /\ UNCHANGED <<keyFile, key, new, used>>
-----------------------------------------------------------------------------
InitKey(c) == \/ FindKey(c) \/ SetPublic(c) \/ SetPrivate(c)
              \/ Open(c) \/ OpenFails(c) \/ Close(c)
Use(c) == Encrypt(c) \/ Store(c) \/ Decrypt(c)

Next == Crash \/ \E c \in Calls : InitKey(c) \/ Use(c)

Spec == Init /\ [][Next]_vars
-----------------------------------------------------------------------------
(* Type invariant of the key file, the static keys and the requests.       *)
TypeOK ==
  /\ keyFile \in Keys \cup {Absent, Empty}
  /\ publicKey \in Keys \cup {NoKey} /\ privateKey \in Keys \cup {NoKey}
  /\ pc \in [Calls -> Phases]
  /\ key \in [Calls -> Keys \cup {NoKey}]
  /\ new \in [Calls -> BOOLEAN]
  /\ used \in [Calls -> Seq(Keys \cup {NoKey})]
  /\ crashes \in Nat

(* Every block of every stored file was encrypted with the key pair the    *)
(* key file holds: it can be decrypted after any number of restarts.       *)
StoredReadable ==
  \A c \in Calls : pc[c] = "stored" =>
    \A k \in 1..Len(used[c]) : used[c][k] = keyFile

(* A download decrypts with the very key every stored block was encrypted  *)
(* with, although the static may have been set by any other request.       *)
DownloadReadsUpload ==
  \A c, d \in Calls : pc[c] = "read" /\ pc[d] = "stored" =>
    \A k \in 1..Len(used[d]) : used[d][k] = used[c][1]

(* A key file that holds a pair holds it for ever: no request truncates or *)
(* replaces it, crashed or not.                                            *)
KeyKept == [][(keyFile \in Keys) => keyFile' = keyFile]_vars
=============================================================================
