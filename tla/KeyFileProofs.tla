--------------------------- MODULE KeyFileProofs ---------------------------
(***************************************************************************)
(* Theorems about KeyFile for any number of requests, crashes and blocks:  *)
(* keys are safe when no two requests generate a pair at the same time.    *)
(***************************************************************************)
EXTENDS KeyFile, FiniteSetTheorems, TLAPS

FirstAlone == MaxFirst = 1

(* What holds of a request c in each of its phases.                        *)
Phased(c) ==
  /\ pc[c] = "idle" => ~new[c]
  /\ pc[c] \in {"idle", "keyed", "public", "private", "opened"} => used[c] = <<>>
  /\ Active(c) => key[c] \in Keys
  /\ Active(c) /\ (~new[c] \/ pc[c] = "ready") => keyFile = key[c]
  /\ pc[c] \in {"keyed", "public", "private"} /\ new[c] => keyFile = Absent
  /\ pc[c] = "private" => new[c]
  /\ pc[c] = "opened" => new[c] /\ keyFile = Empty
  /\ pc[c] \in {"public", "private", "opened", "ready"} => publicKey = key[c]
  /\ pc[c] \in {"private", "opened", "ready"} => privateKey = key[c]
  /\ pc[c] \in {"ready", "stored", "read"} =>
       keyFile \in Keys /\ \A k \in 1..Len(used[c]) : used[c][k] = keyFile
  /\ pc[c] = "read" => Len(used[c]) = 1

(* Requests overlap only when the key file already holds a pair.           *)
Apart == \A c, d \in Calls : Active(c) /\ Active(d) /\ c # d => keyFile \in Keys

KeyInv == /\ TypeOK /\ Apart
          /\ \A c \in Calls : Phased(c)

-----------------------------------------------------------------------------
LEMMA NamesDiffer == Absent \notin Keys /\ NoKey \notin Keys /\ Empty \notin Keys /\ Empty # Absent
BY KeyNames

LEMMA TypeInit == Init => TypeOK
BY StartFiles DEF Init, TypeOK, Phases, Keys

(* With the pair every request in progress has, TypeOK is inductive.       *)
Keyed == \A c \in Calls : Active(c) => key[c] \in Keys

LEMMA KeyedStep == TypeOK /\ Keyed /\ [Next]_vars => Keyed'
<1> SUFFICES ASSUME TypeOK, Keyed, [Next]_vars PROVE Keyed'
  OBVIOUS
<1> USE DEF TypeOK, Keyed, Active
<1>1. CASE UNCHANGED vars
  BY <1>1 DEF vars
<1>2. CASE Crash
  BY <1>2 DEF Crash
<1>3. ASSUME NEW c \in Calls, FindKey(c) PROVE Keyed'
  BY <1>3 DEF FindKey, Missing, Keys
<1>4. ASSUME NEW c \in Calls, SetPublic(c) \/ SetPrivate(c) \/ Open(c) \/ OpenFails(c) \/ Close(c)
      PROVE  Keyed'
  BY <1>4 DEF SetPublic, SetPrivate, Open, OpenFails, Close
<1>5. ASSUME NEW c \in Calls, Use(c) PROVE Keyed'
  BY <1>5 DEF Use, Encrypt, Store, Decrypt
<1> QED
  BY <1>1, <1>2, <1>3, <1>4, <1>5 DEF Next, InitKey

LEMMA TypeStep == TypeOK /\ Keyed /\ [Next]_vars => TypeOK'
<1> SUFFICES ASSUME TypeOK, Keyed, [Next]_vars PROVE TypeOK'
  OBVIOUS
<1> USE DEF TypeOK, Phases
<1>1. CASE UNCHANGED vars
  BY <1>1 DEF vars
<1>2. CASE Crash
  BY <1>2 DEF Crash
<1>3. ASSUME NEW c \in Calls, FindKey(c) PROVE TypeOK'
  <2>1. /\ pc' \in [Calls -> Phases]
        /\ UNCHANGED <<keyFile, publicKey, privateKey, used, crashes>>
    BY <1>3 DEF FindKey
  <2>2. key' \in [Calls -> Keys \cup {NoKey}]
    BY <1>3 DEF FindKey, Missing, Keys
  <2>3. new' \in [Calls -> BOOLEAN]
    <3>1. new' = [new EXCEPT ![c] = TRUE] \/ new' = new
      BY <1>3 DEF FindKey
    <3> QED
      BY <3>1
  <2> QED
    BY <2>1, <2>2, <2>3
<1>4. ASSUME NEW c \in Calls, SetPublic(c) \/ SetPrivate(c) PROVE TypeOK'
  BY <1>4 DEF SetPublic, SetPrivate, PrivateField
<1>5. ASSUME NEW c \in Calls, Open(c) \/ OpenFails(c) \/ Store(c) PROVE TypeOK'
  BY <1>5 DEF Open, OpenFails, Store
<1>6. ASSUME NEW c \in Calls, Close(c) PROVE TypeOK'
  <2>1. key[c] \in Keys
    BY <1>6 DEF Close, Active, Keyed
  <2> QED
    BY <1>6, <2>1 DEF Close, Written
<1>7. ASSUME NEW c \in Calls, Encrypt(c) PROVE TypeOK'
  BY <1>7 DEF Encrypt
<1>8. ASSUME NEW c \in Calls, Decrypt(c) PROVE TypeOK'
  BY <1>8 DEF Decrypt
<1> QED
  BY <1>1, <1>2, <1>3, <1>4, <1>5, <1>6, <1>7, <1>8 DEF Next, InitKey, Use

(* A request that finds no key file is alone: the others in progress would *)
(* be generating a pair themselves.                                        *)
LEMMA FirstIsAlone ==
  ASSUME FirstAlone, KeyInv, NEW c \in Calls, FindKey(c), keyFile = Absent,
         NEW d \in Calls
  PROVE  ~Active(d)
<1> DEFINE S == {e \in Calls : Active(e) /\ new[e]}
<1>1. IsFiniteSet(S)
  BY KeyNames, FS_Subset
<1>2. Cardinality(S) \in Nat
  BY <1>1, FS_CardinalityType
<1>3. Cardinality(S) < 1
  BY NamesDiffer DEF FindKey, FirstAlone, Empty
<1>4. S = {}
  BY <1>1, <1>2, <1>3, FS_EmptySet
<1>5. ~Active(d) \/ new[d]
  BY NamesDiffer DEF KeyInv, Phased
<1> QED
  BY <1>4, <1>5

(* A request in progress that generated its pair and has not closed the    *)
(* file is the only one in progress.                                       *)
LEMMA WriterIsAlone ==
  ASSUME KeyInv, NEW c \in Calls, NEW d \in Calls, d # c,
         pc[c] \in {"keyed", "public", "private", "opened"}, new[c]
  PROVE  ~Active(d) /\ keyFile \notin Keys /\ pc[d] \notin {"stored", "read"}
BY NamesDiffer DEF KeyInv, Apart, Phased, Active

LEMMA KeyInvInit == Init => KeyInv
BY TypeInit DEF Init, KeyInv, Apart, Phased, Active, Keys

(* What the step of a request leaves alone for another request d keeps     *)
(* what is known of d.                                                     *)
LEMMA OtherPhased ==
  ASSUME NEW d \in Calls, Phased(d),
         pc'[d] = pc[d], key'[d] = key[d], new'[d] = new[d], used'[d] = used[d],
         ~Active(d) \/ (publicKey' = publicKey /\ privateKey' = privateKey),
         keyFile' = keyFile \/ (~Active(d) /\ pc[d] \notin {"stored", "read"})
  PROVE  Phased(d)'
BY DEF Phased, Active

LEMMA KeyInvStep ==
  ASSUME FirstAlone, KeyInv, [Next]_vars
  PROVE  KeyInv'
<1>t. TypeOK /\ TypeOK'
  BY TypeStep DEF KeyInv, Keyed, Phased
<1>p. Apart /\ \A c \in Calls : Phased(c)
  BY DEF KeyInv
<1>1. CASE UNCHANGED vars
  BY <1>1 DEF vars, KeyInv, TypeOK, Apart, Phased, Active
<1>2. CASE Crash
  BY <1>2, <1>t DEF Crash, KeyInv, TypeOK, Apart, Phased, Active
<1>3. ASSUME NEW c \in Calls, FindKey(c) PROVE KeyInv'
  <2>1. /\ \A d \in Calls : d # c => pc'[d] = pc[d] /\ key'[d] = key[d] /\ new'[d] = new[d]
        /\ UNCHANGED <<keyFile, publicKey, privateKey, used>>
    BY <1>3, <1>t DEF FindKey, TypeOK
  <2>2. ASSUME NEW d \in Calls, d # c PROVE Phased(d)'
    BY <1>p, <2>1, <2>2, OtherPhased
  <2>3. pc[c] = "idle" /\ ~new[c] /\ used[c] = <<>>
    BY <1>3, <1>p DEF FindKey, Phased
  <2>4. CASE keyFile \in Keys
    <3>1. pc'[c] = "keyed" /\ key'[c] = keyFile /\ new'[c] = new[c]
      BY <1>3, <1>t, <2>4, NamesDiffer DEF FindKey, Missing, TypeOK
    <3>2. Phased(c)'
      BY <2>1, <2>3, <2>4, <3>1 DEF Phased, Active
    <3>3. Apart'
      BY <2>1, <2>4 DEF Apart
    <3> QED
      BY <1>t, <2>2, <3>2, <3>3 DEF KeyInv
  <2>5. CASE keyFile = Absent
    <3>1. \A d \in Calls : ~Active(d)
      BY <1>3, <2>5, FirstIsAlone
    <3>2. pc'[c] = "keyed" /\ key'[c] = c /\ new'[c]
      BY <1>3, <1>t, <2>5, NamesDiffer DEF FindKey, TypeOK
    <3>3. Phased(c)'
      BY <2>1, <2>3, <2>5, <3>2 DEF Phased, Active, Keys
    <3>4. Apart'
      BY <2>1, <3>1 DEF Apart, Active
    <3> QED
      BY <1>t, <2>2, <3>3, <3>4 DEF KeyInv
  <2>6. CASE keyFile = Empty
    <3>1. pc'[c] = "failed" /\ key'[c] = key[c] /\ new'[c] = new[c]
      BY <1>3, <1>t, <2>6, NamesDiffer DEF FindKey, Missing, TypeOK
    <3>2. Phased(c)'
      BY <2>1, <2>3, <3>1 DEF Phased, Active
    <3>3. Apart'
      BY <1>p, <2>1, <3>1 DEF Apart, Active
    <3> QED
      BY <1>t, <2>2, <3>2, <3>3 DEF KeyInv
  <2> QED
    BY <1>3, <2>4, <2>5, <2>6 DEF FindKey, Missing
<1>4. ASSUME NEW c \in Calls, SetPublic(c) PROVE KeyInv'
  <2>1. /\ \A d \in Calls : d # c => pc'[d] = pc[d]
        /\ pc[c] = "keyed" /\ pc'[c] = "public" /\ publicKey' = key[c]
        /\ UNCHANGED <<keyFile, privateKey, key, new, used>>
    BY <1>4, <1>t DEF SetPublic, TypeOK
  <2>2. Phased(c)'
    BY <1>p, <2>1 DEF Phased, Active
  <2>3. ASSUME NEW d \in Calls, d # c PROVE Phased(d)'
    <3>1. Active(d) => publicKey' = publicKey \/ pc[d] = "keyed"
      BY <1>p, <2>1, <2>3, NamesDiffer DEF Apart, Phased, Active
    <3> QED
      BY <1>p, <2>1, <2>3, <3>1 DEF Phased, Active
  <2>4. Apart'
    BY <1>p, <2>1 DEF Apart, Active
  <2> QED
    BY <1>t, <2>2, <2>3, <2>4 DEF KeyInv
<1>5. ASSUME NEW c \in Calls, SetPrivate(c) PROVE KeyInv'
  <2>1. /\ \A d \in Calls : d # c => pc'[d] = pc[d]
        /\ pc[c] = "public" /\ pc'[c] = IF new[c] THEN "private" ELSE "ready"
        /\ privateKey' = key[c]
        /\ UNCHANGED <<keyFile, publicKey, key, new, used>>
    BY <1>5, <1>t DEF SetPrivate, PrivateField, TypeOK
  <2>2. Phased(c)'
    BY <1>p, <2>1 DEF Phased, Active
  <2>3. ASSUME NEW d \in Calls, d # c PROVE Phased(d)'
    <3>1. Active(d) => privateKey' = privateKey \/ pc[d] \in {"keyed", "public"}
      BY <1>p, <2>1, <2>3, NamesDiffer DEF Apart, Phased, Active
    <3> QED
      BY <1>p, <2>1, <2>3, <3>1 DEF Phased, Active
  <2>4. Apart'
    BY <1>p, <2>1 DEF Apart, Active
  <2> QED
    BY <1>t, <2>2, <2>3, <2>4 DEF KeyInv
<1>6. ASSUME NEW c \in Calls, Open(c) \/ OpenFails(c) \/ Close(c) PROVE KeyInv'
  <2>1. /\ pc[c] \in {"private", "opened"} /\ new[c] /\ used[c] = <<>> /\ key[c] \in Keys
        /\ \A d \in Calls : d # c => pc'[d] = pc[d]
        /\ UNCHANGED <<publicKey, privateKey, key, new, used>>
    BY <1>6, <1>t, <1>p DEF Open, OpenFails, Close, TypeOK, Phased, Active
  <2>2. ASSUME NEW d \in Calls, d # c
        PROVE  ~Active(d) /\ keyFile \notin Keys /\ pc[d] \notin {"stored", "read"}
    BY <2>1, <2>2, WriterIsAlone
  <2>3. ASSUME NEW d \in Calls, d # c PROVE Phased(d)'
    BY <1>p, <2>1, <2>2, <2>3, OtherPhased
  <2>4. Phased(c)'
    BY <1>6, <1>t, <1>p, <2>1
       DEF Open, OpenFails, Close, Written, TypeOK, Phased, Active
  <2>5. Apart'
    BY <2>1, <2>2 DEF Apart, Active
  <2> QED
    BY <1>t, <2>3, <2>4, <2>5 DEF KeyInv
<1>7. ASSUME NEW c \in Calls, Encrypt(c) PROVE KeyInv'
  BY <1>7, <1>t DEF Encrypt, KeyInv, TypeOK, Apart, Phased, Active
<1>8. ASSUME NEW c \in Calls, Store(c) \/ Decrypt(c) PROVE KeyInv'
  BY <1>8, <1>t DEF Store, Decrypt, KeyInv, TypeOK, Apart, Phased, Active
<1> QED
  BY <1>1, <1>2, <1>3, <1>4, <1>5, <1>6, <1>7, <1>8 DEF Next, InitKey, Use

-----------------------------------------------------------------------------
(* The key file, the statics and the requests keep their types.            *)
THEOREM TypeCorrect == Spec => []TypeOK
<1>1. Init => Keyed
  BY DEF Init, Keyed, Active
<1> QED
  BY <1>1, TypeInit, KeyedStep, TypeStep, PTL DEF Spec

LEMMA KeyInvHolds == ASSUME FirstAlone PROVE Spec => []KeyInv
<1>1. KeyInv /\ [Next]_vars => KeyInv'
  BY KeyInvStep
<1> QED
  BY <1>1, KeyInvInit, PTL DEF Spec

(* No two requests generate a pair at the same time: however often the     *)
(* server crashes, a stored file can be decrypted with the key file.       *)
THEOREM StoredFilesReadable ==
  ASSUME FirstAlone PROVE Spec => []StoredReadable
<1>1. KeyInv => StoredReadable
  BY DEF KeyInv, Phased, StoredReadable
<1> QED
  BY <1>1, KeyInvHolds, PTL

(* Under the same assumption every download uses the key of every upload.  *)
THEOREM DownloadsReadUploads ==
  ASSUME FirstAlone PROVE Spec => []DownloadReadsUpload
<1>1. KeyInv => DownloadReadsUpload
  <2> SUFFICES ASSUME KeyInv, NEW c \in Calls, NEW d \in Calls,
                      pc[c] = "read", pc[d] = "stored", NEW k \in 1..Len(used[d])
               PROVE  used[d][k] = used[c][1]
    BY DEF DownloadReadsUpload
  <2>1. used[d][k] = keyFile /\ Len(used[c]) = 1
    BY DEF KeyInv, Phased
  <2>2. used[c][1] = keyFile
    BY <2>1 DEF KeyInv, Phased
  <2> QED
    BY <2>1, <2>2
<1> QED
  BY <1>1, KeyInvHolds, PTL

(* And the pair in the key file is never truncated or replaced.            *)
THEOREM KeyIsKept ==
  ASSUME FirstAlone PROVE Spec => KeyKept
<1>1. KeyInv /\ [Next]_vars => [(keyFile \in Keys) => keyFile' = keyFile]_vars
  <2> SUFFICES ASSUME KeyInv, [Next]_vars, keyFile \in Keys PROVE keyFile' = keyFile
    OBVIOUS
  <2>1. ASSUME NEW c \in Calls PROVE ~Open(c) /\ ~Close(c)
    BY NamesDiffer DEF KeyInv, Phased, Open, Close
  <2> QED
    BY <2>1 DEF Next, vars, Crash, InitKey, Use, FindKey, SetPublic, SetPrivate,
       OpenFails, Encrypt, Store, Decrypt
<1> QED
  BY <1>1, KeyInvHolds, PTL DEF Spec, KeyKept
=============================================================================
