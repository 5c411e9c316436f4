-------------------------- MODULE FileStoreProofs --------------------------
(***************************************************************************)
(* Theorems about FileStore for any number of requests, any paths and any  *)
(* settings: what is downloaded can be read, what is reported is whole,    *)
(* and the index names the text documents.                                 *)
(***************************************************************************)
EXTENDS FileStore, FiniteSetTheorems, TLAPS

Phases == {"idle", "key", "encode", "encoding", "temp", "check", "create", "copy", "add",
           "addCommit", "kind", "unindex", "delCommit", "remove", "mkdirs", "move", "fetch", "query", "stat",
           "done"}
Results == {"none", "true", "false", "noindex", "part", "garbled"}
Bytes == [by : Users, part : {"open", "some", "mixed", "whole"}, sealed : BOOLEAN]

TypeOK ==
  /\ setting \in DOMAIN Settings
  /\ files \in [DOMAIN files -> Bytes] /\ spoilt \subseteq Users /\ stale \in BOOLEAN
  /\ tmp \in [DOMAIN tmp -> Bytes]
  /\ index \subseteq Paths /\ hasIndex \in BOOLEAN
  /\ pc \in [Users -> Phases] /\ res \in [Users -> Results]
  /\ todo \in [Users -> Seq(Paths)] /\ snap \in [Users -> SUBSET Paths]
  /\ DOMAIN req = Users /\ DOMAIN fs = Users /\ DOMAIN dir = Users

(* Request u is dealing with a document.                                   *)
Document(u) == Attr[Path(u)].sealed
Uploads(u) == Op(u) = "upload" /\ Document(u)

(* What is known of a request by its phase.                                *)
Doing(u) ==
  /\ Active(u) => req[u] \in Given.requests[u]
  /\ pc[u] # "done" => res[u] = "none"
  /\ Active(u) /\ pc[u] \notin {"query", "stat"} => todo[u] # <<>> /\ Path(u) \in Paths
  /\ pc[u] \in {"key", "encode", "encoding", "temp"} => Uploads(u)
  /\ pc[u] \in {"create", "copy"} => Op(u) = "upload"
  /\ pc[u] \in {"add", "addCommit"} => Uploads(u)
  /\ pc[u] = "addCommit" => Attr[Path(u)].ext = "indexed"
  /\ pc[u] \in {"kind", "unindex", "delCommit", "remove"} => Op(u) = "delete"
  /\ pc[u] = "mkdirs" => Op(u) = "folder"
  /\ pc[u] = "idle" => Op(u) = "search"
  /\ pc[u] = "move" => Op(u) = "rename"
  /\ pc[u] = "fetch" => Op(u) = "download"
  /\ pc[u] \in {"query", "stat"} => Op(u) = "search"
  /\ Op(u) \notin {"delete", "folder"} => todo[u] = req[u].paths
  /\ Op(u) = "delete" => RangeOf(todo[u]) \subseteq RangeOf(req[u].paths)

(* Request u has the temporary file of its document open.                  *)
InHand(u) == pc[u] \in {"encoding", "check", "create", "copy"} /\ Uploads(u)

Held == \A u \in Users : InHand(u) => Name(u) \in DOMAIN tmp

Inv == TypeOK /\ Held /\ \A u \in Users : Doing(u)
-----------------------------------------------------------------------------
LEMMA SetIs ==
  ASSUME NEW f, NEW k, NEW v
  PROVE  /\ DOMAIN Set(f, k, v) = DOMAIN f \cup {k}
         /\ Set(f, k, v)[k] = v
         /\ \A x \in DOMAIN f : x # k => Set(f, k, v)[x] = f[x]
         /\ \A S : f \in [DOMAIN f -> S] /\ v \in S => Set(f, k, v) \in [DOMAIN f \cup {k} -> S]
BY DEF Set

LEMMA DropIs ==
  ASSUME NEW f, NEW k
  PROVE  /\ DOMAIN Drop(f, k) = DOMAIN f \ {k}
         /\ \A x \in DOMAIN f : x # k => Drop(f, k)[x] = f[x]
         /\ \A S : f \in [DOMAIN f -> S] => Drop(f, k) \in [DOMAIN f \ {k} -> S]
BY DEF Drop

(* The step of a request leaves what the others remember alone.            *)
LEMMA OthersKeep ==
  ASSUME TypeOK, NEW u \in Users, Serve(u), NEW v \in Users, v # u
  PROVE  /\ pc'[v] = pc[v] /\ req'[v] = req[v] /\ todo'[v] = todo[v]
         /\ res'[v] = res[v] /\ snap'[v] = snap[v]
<1> USE DEF TypeOK, Goto, Return
<1>1. CASE Begin(u)
  BY <1>1 DEF Begin
<1>2. CASE Upload(u)
  BY <1>2 DEF Upload, Key, Encode, EncodeEnds, WriteBlocks, WriteCut, OpenTemp, CheckUpload, Create, Copy,
              IndexAdd, AddCommit
<1>3. CASE Delete(u)
  BY <1>3 DEF Delete, CheckDelete, CheckKind, IndexDel, DelCommit, Remove
<1>4. CASE Folder(u) \/ Rename(u) \/ Download(u)
  BY <1>4 DEF Folder, CheckFolder, MakeFolder, Rename, CheckRename, Move, Download, CheckDownload, Fetch
<1>5. CASE Search(u)
  BY <1>5 DEF Search, Query, Stat, CloseDirectory
<1>6. CASE Throws(u)
  BY <1>6 DEF Throws
<1> QED
  BY <1>1, <1>2, <1>3, <1>4, <1>5, <1>6 DEF Serve

(* A request of the setting.                                               *)
LEMMA RequestIs ==
  ASSUME TypeOK, NEW u \in Users, NEW r \in Given.requests[u]
  PROVE  /\ r.op \in {"upload", "folder", "delete", "rename", "download", "search"}
         /\ r.paths \in Seq(Paths)
         /\ r.op # "search" => r.paths # <<>> /\ r.paths[1] \in Paths
         /\ r.op \in {"rename", "folder"} => r.to \in Paths
BY SettingAssumption DEF TypeOK, Given
-----------------------------------------------------------------------------
(* What a step of request u has to establish: its own part of the          *)
(* invariant, and that nobody's temporary file is deleted.                 *)
Kept(u) == /\ TypeOK' /\ Doing(u)'
           /\ InHand(u)' => (Name(u) \in DOMAIN tmp)'
           /\ \A v \in Users \ {u} : InHand(v) => Name(v) \in DOMAIN tmp'

LEMMA KeptSuffices ==
  ASSUME Inv, UNCHANGED setting, NEW u \in Users, Serve(u), Kept(u)
  PROVE  Inv'
<1>1. ASSUME NEW v \in Users, v # u
      PROVE  Doing(v)' /\ (InHand(v)' => (Name(v) \in DOMAIN tmp)')
  <2>1. /\ pc'[v] = pc[v] /\ req'[v] = req[v] /\ todo'[v] = todo[v]
        /\ res'[v] = res[v] /\ snap'[v] = snap[v]
    BY <1>1, OthersKeep DEF Inv
  <2>2. Doing(v) /\ (InHand(v) => Name(v) \in DOMAIN tmp')
    BY <1>1 DEF Inv, Kept
  <2> QED
    BY <2>1, <2>2 DEF Doing, InHand, Uploads, Document, Op, Path, Name, Active, Given
<1> QED
  BY <1>1 DEF Inv, Kept, Held

(* Steps that change only where a request stands, and what it returns.     *)
LEMMA KeptByBegin ==
  ASSUME Inv, UNCHANGED setting, NEW u \in Users, Begin(u)
  PROVE  Kept(u)
<1>1. PICK r \in Given.requests[u] :
        /\ req' = [req EXCEPT ![u] = r] /\ todo' = [todo EXCEPT ![u] = r.paths]
        /\ Goto(u, FirstPhase(r))
  BY DEF Begin
<1>2. /\ r.op \in {"upload", "folder", "delete", "rename", "download", "search"}
      /\ r.paths \in Seq(Paths)
      /\ r.op # "search" => r.paths # <<>> /\ r.paths[1] \in Paths
  BY RequestIs DEF Inv
<1>3. /\ req'[u] = r /\ todo'[u] = r.paths /\ pc'[u] = FirstPhase(r) /\ res' = res
  BY <1>1 DEF Inv, TypeOK, Goto
<1>4. FirstPhase(r) \in {"query", "key", "check"}
  BY DEF FirstPhase
<1>5. TypeOK'
  BY <1>1, <1>2, <1>4 DEF Inv, TypeOK, Begin, Goto, Phases, cipher
<1>6. UNCHANGED <<tmp, files, cipher, setting>>
  BY DEF Begin
<1>7. res[u] = "none"
  BY DEF Inv, Doing, Begin
<1>8. Doing(u)'
  BY <1>2, <1>3, <1>4, <1>6, <1>7
     DEF Doing, FirstPhase, Active, Uploads, Document, Op, Path, Given
<1>9. ~InHand(u)'
  BY <1>2, <1>3 DEF InHand, FirstPhase, Uploads, Document, Op, Path
<1> QED
  BY <1>5, <1>6, <1>8, <1>9 DEF Kept, Inv, Held

(* What the phase says of a request that deals with a path.                *)
LEMMA PathIs ==
  ASSUME Inv, NEW u \in Users, Active(u), pc[u] \notin {"query", "stat"}
  PROVE  /\ Path(u) \in Paths /\ todo[u] # <<>> /\ todo[u] \in Seq(Paths)
         /\ Document(u) \in BOOLEAN /\ Attr[Path(u)].opened \in BOOLEAN
         /\ Attr[Path(u)].ext \in {"indexed", "other", "none"}
BY AttrAssumption DEF Inv, TypeOK, Doing, Document

(* A step of u that leaves its request, its paths and the temporary files  *)
(* alone keeps the invariant if the new phase is one its request has.      *)
LEMMA KeptByMoving ==
  ASSUME Inv, UNCHANGED <<setting, req, todo, tmp>>, NEW u \in Users, TypeOK', Active(u),
         InHand(u)' => InHand(u),
         Doing(u)'
  PROVE  Kept(u)
BY DEF Kept, Inv, Held, InHand, Uploads, Document, Op, Path, Name

LEMMA KeptByUpload ==
  ASSUME Inv, UNCHANGED setting, NEW u \in Users,
         Key(u) \/ OpenTemp(u) \/ CheckUpload(u) \/ IndexAdd(u) \/ AddCommit(u)
  PROVE  Kept(u)
<1> USE DEF Goto, Return
<1>1. /\ UNCHANGED <<files, tmp, req, todo>> /\ Active(u) /\ pc[u] \notin {"query", "stat"}
  BY DEF Key, OpenTemp, CheckUpload, IndexAdd, AddCommit, Active
<1>2. Path(u) \in Paths
  BY <1>1, PathIs
<1>3. TypeOK'
  <2> USE <1>1, <1>2 DEF Inv, TypeOK, Phases, Results, cipher
  <2>1. CASE Key(u)
    <3>1. /\ \/ pc' = [pc EXCEPT ![u] = "encode"] /\ res' = res
             \/ pc' = [pc EXCEPT ![u] = "done"] /\ res' = [res EXCEPT ![u] = "false"]
          /\ spoilt' \subseteq Users
      BY <2>1 DEF Key, Sharing
    <3>2. pc' \in [Users -> Phases]
      BY <3>1
    <3>3. res' \in [Users -> Results]
      BY <3>1
    <3> QED
      BY <2>1, <3>1, <3>2, <3>3 DEF Key
  <2>2. CASE OpenTemp(u)
    BY <2>2 DEF OpenTemp
  <2>3. CASE CheckUpload(u)
    BY <2>3 DEF CheckUpload
  <2>4. CASE IndexAdd(u)
    BY <2>4 DEF IndexAdd
  <2>5. CASE AddCommit(u)
    BY <2>5 DEF AddCommit
  <2> QED
    BY <2>1, <2>2, <2>3, <2>4, <2>5
<1>4. Doing(u)'
  BY <1>1, <1>2 DEF Inv, TypeOK, Doing, Active, Uploads, Document, Op, Path, Given, Refused,
                    Key, OpenTemp, CheckUpload, IndexAdd, AddCommit
<1>5. (InHand(u) => Name(u) \in DOMAIN tmp)'
  BY <1>1 DEF Inv, TypeOK, Held, InHand, Uploads, Document, Op, Path, Name,
              Key, OpenTemp, CheckUpload, IndexAdd, AddCommit
<1> QED
  BY <1>1, <1>3, <1>4, <1>5 DEF Kept, Inv, Held

(* The steps that write the temporary file.                                *)
LEMMA KeptByEncode ==
  ASSUME Inv, UNCHANGED setting, NEW u \in Users, Encode(u) \/ EncodeEnds(u)
  PROVE  Kept(u)
<1> USE DEF Goto
<1>1. /\ UNCHANGED <<files, index, hasIndex, req, todo, fs, dir, snap, res>>
      /\ Active(u) /\ pc[u] \notin {"query", "stat"} /\ Uploads(u)
      /\ pc' = [pc EXCEPT ![u] = pc'[u]] /\ pc'[u] \in {"encoding", "temp"}
      /\ spoilt' \subseteq Users /\ stale' \in BOOLEAN
  BY DEF Encode, EncodeEnds, WriteBlocks, WriteCut, Namesakes, Active, Inv, TypeOK, Doing
<1>2. /\ DOMAIN tmp \subseteq DOMAIN tmp' /\ tmp' \in [DOMAIN tmp' -> Bytes]
      /\ pc'[u] = "encoding" => Name(u) \in DOMAIN tmp'
  <2>1. CASE Encode(u)
    <3>1. Truncated(u) \in Bytes
      BY DEF Truncated, Bytes
    <3>2. CASE tmp' = Set(tmp, Name(u), Truncated(u))
      <4>1. DOMAIN tmp' = DOMAIN tmp \cup {Name(u)}
        BY <3>2, SetIs
      <4>2. tmp' \in [DOMAIN tmp \cup {Name(u)} -> Bytes]
        BY <3>1, <3>2, SetIs DEF Inv, TypeOK
      <4> QED
        BY <4>1, <4>2
    <3>3. CASE UNCHANGED tmp /\ pc'[u] = "temp"
      BY <3>3 DEF Inv, TypeOK
    <3> QED
      BY <2>1, <3>2, <3>3 DEF Encode, Inv, TypeOK
  <2>2. CASE EncodeEnds(u)
    <3>1. Name(u) \in DOMAIN tmp
      BY <1>1, <2>2 DEF Inv, Held, InHand, EncodeEnds
    <3>2. tmp[Name(u)] \in Bytes
      BY <3>1 DEF Inv, TypeOK
    <3>4. \/ UNCHANGED tmp
          \/ \E part \in {"whole", "mixed", "some"} :
               tmp' = [tmp EXCEPT ![Name(u)] = [tmp[Name(u)] EXCEPT !.part = part]]
      BY <2>2 DEF EncodeEnds, WriteBlocks, WriteCut, Written
    <3>3. \A part \in {"whole", "mixed", "some"} : [tmp[Name(u)] EXCEPT !.part = part] \in Bytes
      BY <3>2 DEF Bytes
    <3>5. pc'[u] = "temp"
      BY <2>2 DEF EncodeEnds, Inv, TypeOK
    <3>6. tmp' \in [DOMAIN tmp -> Bytes] /\ DOMAIN tmp' = DOMAIN tmp
      BY <3>1, <3>3, <3>4 DEF Inv, TypeOK
    <3> QED
      BY <3>5, <3>6
  <2> QED
    BY <2>1, <2>2
<1>3. TypeOK'
  BY <1>1, <1>2 DEF Inv, TypeOK, Phases
<1>4. Doing(u)'
  BY <1>1 DEF Inv, TypeOK, Doing, Active, Uploads, Document, Op, Path, Given
<1> QED
  BY <1>1, <1>2, <1>3, <1>4 DEF Kept, Inv, TypeOK, Held, InHand, Uploads, Document, Op, Path, Name

(* The steps that leave files, temporary files and paths alone.            *)
Looks(u) == \/ CheckDelete(u) \/ CheckKind(u) \/ IndexDel(u) \/ DelCommit(u) \/ CheckRename(u)
            \/ CheckDownload(u) \/ Fetch(u) \/ Query(u) \/ Stat(u) \/ CloseDirectory(u)
            \/ Throws(u)

LEMMA LooksMove ==
  ASSUME Inv, NEW u \in Users, Looks(u)
  PROVE  /\ UNCHANGED <<files, tmp, req, todo>> /\ Active(u)
         /\ \/ pc' = [pc EXCEPT ![u] = pc'[u]] /\ pc'[u] \in Phases /\ res' = res
            \/ \E r \in Results : /\ pc' = [pc EXCEPT ![u] = "done"]
                                  /\ res' = [res EXCEPT ![u] = r]
<1> USE DEF Goto, Return, Inv, TypeOK, Phases, Results, Active
<1>1. CASE CheckDelete(u) \/ CheckKind(u)
  BY <1>1 DEF CheckDelete, CheckKind, AfterDelete
<1>2. CASE IndexDel(u) \/ DelCommit(u)
  BY <1>2 DEF IndexDel, DelCommit
<1>3. CASE CheckRename(u) \/ CheckDownload(u)
  BY <1>3 DEF CheckRename, CheckDownload
<1>4. CASE Fetch(u)
  <2>1. Delivered(u, files[Path(u)]) \in Results
    BY DEF Delivered
  <2> QED
    BY <1>4, <2>1 DEF Fetch
<1>5. CASE Query(u) \/ Stat(u) \/ CloseDirectory(u)
  BY <1>5 DEF Query, Stat, CloseDirectory
<1>6. CASE Throws(u)
  <2>1. UNCHANGED <<files, tmp, req, todo>> /\ Active(u)
    BY <1>6 DEF Throws
  <2>2. \/ pc' = [pc EXCEPT ![u] = "remove"] /\ res' = res
        \/ pc' = [pc EXCEPT ![u] = "done"] /\ res' = [res EXCEPT ![u] = "part"]
        \/ pc' = [pc EXCEPT ![u] = "done"] /\ res' = [res EXCEPT ![u] = "false"]
    BY <1>6 DEF Throws
  <2> QED
    BY <2>1, <2>2
<1> QED
  BY <1>1, <1>2, <1>3, <1>4, <1>5, <1>6 DEF Looks

LEMMA KeptByLooking ==
  ASSUME Inv, UNCHANGED setting, NEW u \in Users, Looks(u)
  PROVE  Kept(u)
<1>1. /\ UNCHANGED <<files, tmp, req, todo>> /\ Active(u)
      /\ pc' \in [Users -> Phases] /\ res' \in [Users -> Results]
      /\ pc'[u] = "done" \/ res' = res
  <2>1. CASE pc' = [pc EXCEPT ![u] = pc'[u]] /\ pc'[u] \in Phases /\ res' = res
    BY <2>1, LooksMove DEF Inv, TypeOK
  <2>2. ASSUME NEW r \in Results, pc' = [pc EXCEPT ![u] = "done"], res' = [res EXCEPT ![u] = r]
        PROVE  pc' \in [Users -> Phases] /\ res' \in [Users -> Results] /\ pc'[u] = "done"
    BY <2>2 DEF Inv, TypeOK, Phases
  <2> QED
    BY <2>1, <2>2, LooksMove
<1>2. index' \subseteq Paths /\ hasIndex' \in BOOLEAN /\ snap' \in [Users -> SUBSET Paths]
  <2> USE DEF Inv, TypeOK
  <2>1. CASE IndexDel(u) \/ Query(u) \/ Stat(u)
    BY <2>1 DEF IndexDel, Query, Stat
  <2>2. CASE DelCommit(u)
    BY <2>2 DEF DelCommit
  <2>3. CASE CheckDelete(u) \/ CheckKind(u) \/ CheckRename(u) \/ CheckDownload(u) \/ Fetch(u)
    BY <2>3 DEF CheckDelete, CheckKind, CheckRename, CheckDownload, Fetch
  <2>4. CASE CloseDirectory(u) \/ Throws(u)
    BY <2>4 DEF CloseDirectory, Throws
  <2> QED
    BY <2>1, <2>2, <2>3, <2>4 DEF Looks
<1>3. DOMAIN fs' = Users /\ DOMAIN dir' = Users /\ UNCHANGED <<spoilt, stale>>
  <2> USE DEF Inv, TypeOK, cipher
  <2>1. CASE CloseDirectory(u)
    BY <2>1 DEF CloseDirectory
  <2>2. CASE ~CloseDirectory(u)
    BY <2>2 DEF Looks, IndexDel, Query, Stat, DelCommit, CheckDelete, CheckKind, CheckRename, CheckDownload,
                Fetch, Throws
  <2> QED
    BY <2>1, <2>2
<1>4. TypeOK'
  BY <1>1, <1>2, <1>3 DEF Inv, TypeOK
<1>5. /\ pc'[u] \in {"done", "kind", "unindex", "remove", "delCommit", "move", "fetch", "stat"}
      /\ pc'[u] \in {"kind", "unindex", "remove", "delCommit"} => Op(u) = "delete"
      /\ pc'[u] = "move" => Op(u) = "rename"
      /\ pc'[u] = "fetch" => Op(u) = "download"
      /\ pc'[u] = "stat" => Op(u) = "search"
      /\ pc'[u] # "stat" /\ pc'[u] # "done" => pc[u] \notin {"query", "stat"}
  <2> USE DEF Inv, TypeOK, Goto, Return, Doing
  <2>1. CASE CheckDelete(u) \/ CheckKind(u)
    BY <2>1 DEF CheckDelete, CheckKind, AfterDelete
  <2>2. CASE IndexDel(u) \/ DelCommit(u)
    BY <2>2 DEF IndexDel, DelCommit
  <2>3. CASE CheckRename(u) \/ CheckDownload(u) \/ Fetch(u)
    BY <2>3 DEF CheckRename, CheckDownload, Fetch
  <2>4. CASE Query(u) \/ Stat(u) \/ CloseDirectory(u)
    BY <2>4 DEF Query, Stat, CloseDirectory
  <2>5. CASE Throws(u)
    BY <2>5 DEF Throws
  <2> QED
    BY <2>1, <2>2, <2>3, <2>4, <2>5 DEF Looks
<1>6. Doing(u)'
  BY <1>1, <1>5 DEF Inv, TypeOK, Doing, Active, Op, Path, Given
<1> QED
  BY <1>1, <1>4, <1>5, <1>6 DEF Kept, Inv, Held, InHand

(* The steps that write the namespace.                                     *)
LEMMA BeginningIs ==
  ASSUME Inv, NEW u \in Users, Path(u) \in Paths
  PROVE  Beginning(u) \in Bytes
BY AttrAssumption DEF Beginning, Bytes

LEMMA SourceIs ==
  ASSUME Inv, NEW u \in Users, pc[u] = "copy"
  PROVE  Source(u) \in Bytes
<1>1. CASE Document(u)
  <2>1. Name(u) \in DOMAIN tmp
    BY <1>1 DEF Inv, Held, InHand, Uploads, Doing
  <2> QED
    BY <1>1, <2>1 DEF Source, Document, Inv, TypeOK
<1>2. CASE ~Document(u)
  BY <1>2 DEF Source, Document, Bytes
<1> QED
  BY <1>1, <1>2

LEMMA KeptByCreate ==
  ASSUME Inv, UNCHANGED setting, NEW u \in Users, Create(u)
  PROVE  Kept(u)
<1> USE DEF Goto, Return
<1>1. /\ UNCHANGED <<tmp, index, hasIndex, cipher, req, todo, fs, dir, snap>>
      /\ Active(u) /\ pc[u] = "create" /\ Op(u) = "upload" /\ Path(u) \in Paths
  BY PathIs DEF Create, Active, Inv, Doing
<1>2. \/ files' = Set(files, Path(u), Beginning(u)) /\ res' = res /\ pc' = [pc EXCEPT ![u] = "copy"]
      \/ UNCHANGED files /\ pc' = [pc EXCEPT ![u] = "done"] /\ res' = [res EXCEPT ![u] = "false"]
  BY DEF Create
<1>3. files' \in [DOMAIN files' -> Bytes]
  <2>1. CASE files' = Set(files, Path(u), Beginning(u))
    <3>1. DOMAIN files' = DOMAIN files \cup {Path(u)}
      BY <2>1, SetIs
    <3>2. files' \in [DOMAIN files \cup {Path(u)} -> Bytes]
      BY <1>1, <2>1, SetIs, BeginningIs DEF Inv, TypeOK
    <3> QED
      BY <1>1, <3>1, <3>2 DEF Inv, TypeOK
  <2> QED
    BY <1>2, <2>1 DEF Inv, TypeOK
<1>4. TypeOK'
  <2>1. pc' \in [Users -> Phases] /\ res' \in [Users -> Results]
    BY <1>2 DEF Inv, TypeOK, Phases, Results
  <2> QED
    BY <1>1, <1>3, <2>1 DEF Inv, TypeOK, cipher
<1>5. Doing(u)'
  BY <1>1, <1>2 DEF Inv, TypeOK, Doing, Active, Op, Path, Given
<1> QED
  BY <1>1, <1>2, <1>4, <1>5 DEF Kept, Inv, TypeOK, Held, InHand, Uploads, Document, Op, Path, Name

LEMMA KeptByCopy ==
  ASSUME Inv, UNCHANGED setting, NEW u \in Users, Copy(u)
  PROVE  Kept(u)
<1> USE DEF Goto, Return
<1>1. /\ UNCHANGED <<index, hasIndex, cipher, req, todo, fs, dir, snap>>
      /\ Active(u) /\ pc[u] = "copy" /\ Op(u) = "upload" /\ Path(u) \in Paths
  BY PathIs DEF Copy, Active, Inv, Doing
<1>2. \/ UNCHANGED files
      \/ Path(u) \in DOMAIN files /\ files' = [files EXCEPT ![Path(u)] = Source(u)]
  BY DEF Copy
<1>3. \/ UNCHANGED tmp
      \/ Document(u) /\ ~TempInUse(u) /\ tmp' = Drop(tmp, Name(u))
  BY DEF Copy, Document
<1>4. \/ Document(u) /\ res' = res /\ pc' = [pc EXCEPT ![u] = "add"]
      \/ pc' = [pc EXCEPT ![u] = "done"] /\ res' = [res EXCEPT ![u] = "true"]
      \/ pc' = [pc EXCEPT ![u] = "done"] /\ res' = [res EXCEPT ![u] = "false"]
  BY DEF Copy, Document
<1>5. /\ files' \in [DOMAIN files' -> Bytes]
      /\ tmp' \in [DOMAIN tmp' -> Bytes]
  <2>1. Source(u) \in Bytes
    BY <1>1, SourceIs
  <2>2. files' \in [DOMAIN files -> Bytes] /\ DOMAIN files' = DOMAIN files
    BY <1>2, <2>1 DEF Inv, TypeOK
  <2>3. tmp' \in [DOMAIN tmp' -> Bytes]
    <3>1. CASE tmp' = Drop(tmp, Name(u))
      <4>1. DOMAIN tmp' = DOMAIN tmp \ {Name(u)}
        BY <3>1, DropIs
      <4>2. tmp' \in [DOMAIN tmp \ {Name(u)} -> Bytes]
        BY <3>1, DropIs DEF Inv, TypeOK
      <4> QED
        BY <4>1, <4>2
    <3> QED
      BY <1>3, <3>1 DEF Inv, TypeOK
  <2> QED
    BY <2>2, <2>3 DEF Inv, TypeOK
<1>6. TypeOK'
  <2>1. pc' \in [Users -> Phases] /\ res' \in [Users -> Results]
    BY <1>4 DEF Inv, TypeOK, Phases, Results
  <2> QED
    BY <1>1, <1>5, <2>1 DEF Inv, TypeOK, cipher
<1>7. Doing(u)'
  <2>1. CASE Document(u) /\ res' = res /\ pc' = [pc EXCEPT ![u] = "add"]
    BY <1>1, <2>1 DEF Inv, TypeOK, Doing, Active, Uploads, Document, Op, Path, Given
  <2>2. CASE pc'[u] = "done"
    BY <1>1, <2>2 DEF Inv, Doing, Active, Op
  <2>3. pc \in [Users -> Phases]
    BY DEF Inv, TypeOK
  <2> QED
    BY <1>4, <2>1, <2>2, <2>3
<1>8. ASSUME NEW v \in Users \ {u}, InHand(v) PROVE Name(v) \in DOMAIN tmp'
  <2>1. Name(v) \in DOMAIN tmp
    BY <1>8 DEF Inv, Held
  <2>2. CASE ~TempInUse(u) /\ tmp' = Drop(tmp, Name(u))
    <3>1. Name(v) # Name(u)
      BY <1>8, <2>2 DEF TempInUse, InHand, Uploads, Document
    <3> QED
      BY <2>1, <2>2, <3>1, DropIs
  <2> QED
    BY <1>3, <2>1, <2>2
<1>9. ~InHand(u)'
  BY <1>4 DEF InHand, Inv, TypeOK
<1> QED
  BY <1>6, <1>7, <1>8, <1>9 DEF Kept

LEMMA TailIs ==
  ASSUME NEW S, NEW s \in Seq(S), Len(s) > 1
  PROVE  Tail(s) \in Seq(S) /\ Tail(s) # <<>> /\ Tail(s)[1] \in S
<1>1. Len(Tail(s)) = Len(s) - 1 /\ Tail(s) \in Seq(S) /\ Tail(s)[1] = s[2]
  OBVIOUS
<1>2. s[2] \in S
  OBVIOUS
<1>3. Tail(s) # <<>>
  <2>1. Len(Tail(s)) # Len(<<>>)
    BY <1>1
  <2> QED
    BY <2>1
<1> QED
  BY <1>1, <1>2, <1>3

LEMMA TailRange ==
  ASSUME NEW S, NEW s \in Seq(S), Len(s) > 1
  PROVE  RangeOf(Tail(s)) \subseteq RangeOf(s)
<1>1. Len(Tail(s)) = Len(s) - 1 /\ \A n \in 1..Len(Tail(s)) : Tail(s)[n] = s[n + 1]
  OBVIOUS
<1> QED
  BY <1>1 DEF RangeOf

LEMMA KeptByRemove ==
  ASSUME Inv, UNCHANGED setting, NEW u \in Users, Remove(u)
  PROVE  Kept(u)
<1> USE DEF Goto, Return
<1>1. /\ UNCHANGED <<tmp, index, hasIndex, cipher, req, dir, snap>>
      /\ files' = [p \in {q \in DOMAIN files : ~Within(q, Path(u))} |-> files[p]]
      /\ fs' = [fs EXCEPT ![u] = TRUE]
      /\ Active(u) /\ pc[u] = "remove" /\ Op(u) = "delete" /\ Path(u) \in Paths
      /\ todo[u] # <<>> /\ todo[u] \in Seq(Paths)
  BY PathIs DEF Remove, Active, Inv, Doing
<1>2. \/ /\ Len(todo[u]) > 1 /\ todo' = [todo EXCEPT ![u] = Tail(todo[u])]
         /\ pc' = [pc EXCEPT ![u] = "check"] /\ res' = res
      \/ /\ UNCHANGED todo
         /\ pc' = [pc EXCEPT ![u] = "done"] /\ res' = [res EXCEPT ![u] = "true"]
  BY DEF Remove, More
<1>3. Len(todo[u]) > 1 =>
        Tail(todo[u]) \in Seq(Paths) /\ Tail(todo[u]) # <<>> /\ Tail(todo[u])[1] \in Paths
  BY <1>1, TailIs
<1>4. files' \in [DOMAIN files' -> Bytes]
  BY <1>1 DEF Inv, TypeOK
<1>5. TypeOK'
  <2>1. /\ pc' \in [Users -> Phases] /\ res' \in [Users -> Results]
        /\ todo' \in [Users -> Seq(Paths)]
    <3>1. /\ pc' = [pc EXCEPT ![u] = "check"] \/ pc' = [pc EXCEPT ![u] = "done"]
          /\ res' = res \/ res' = [res EXCEPT ![u] = "true"]
          /\ \/ UNCHANGED todo
             \/ \E s \in Seq(Paths) : todo' = [todo EXCEPT ![u] = s]
      BY <1>2, <1>3
    <3>2. pc' \in [Users -> Phases] /\ res' \in [Users -> Results]
      <4>1. pc' \in [Users -> Phases]
        BY <3>1 DEF Inv, TypeOK, Phases
      <4>2. res' \in [Users -> Results]
        BY <3>1 DEF Inv, TypeOK, Results
      <4> QED
        BY <4>1, <4>2
    <3>3. todo' \in [Users -> Seq(Paths)]
      BY <3>1 DEF Inv, TypeOK
    <3> QED
      BY <3>2, <3>3
  <2>2. DOMAIN fs' = Users
    BY <1>1 DEF Inv, TypeOK
  <2> QED
    BY <1>1, <1>4, <2>1, <2>2 DEF Inv, TypeOK, cipher
<1>6. Doing(u)'
  <2>0. RangeOf(todo'[u]) \subseteq RangeOf(req[u].paths)
    <3>1. RangeOf(todo[u]) \subseteq RangeOf(req[u].paths)
      BY <1>1 DEF Inv, Doing
    <3>2. Len(todo[u]) > 1 => RangeOf(Tail(todo[u])) \subseteq RangeOf(todo[u])
      BY <1>1, TailRange
    <3>3. todo'[u] = todo[u] \/ (Len(todo[u]) > 1 /\ todo'[u] = Tail(todo[u]))
      BY <1>2 DEF Inv, TypeOK
    <3> QED
      BY <3>1, <3>2, <3>3
  <2>1. CASE pc'[u] = "check" /\ res' = res /\ todo'[u] # <<>> /\ Path(u)' \in Paths
    BY <1>1, <2>0, <2>1 DEF Inv, Doing, Active, Op, Given
  <2>2. CASE pc'[u] = "done"
    BY <1>1, <2>0, <2>2 DEF Inv, Doing, Active, Op
  <2>3. pc \in [Users -> Phases] /\ todo \in [Users -> Seq(Paths)]
    BY DEF Inv, TypeOK
  <2> QED
    BY <1>2, <1>3, <2>1, <2>2, <2>3 DEF Path
<1>7. ~InHand(u)'
  BY <1>1 DEF InHand, Uploads, Op
<1> QED
  BY <1>1, <1>5, <1>6, <1>7 DEF Kept, Inv, Held

LEMMA KeptByMove ==
  ASSUME Inv, UNCHANGED setting, NEW u \in Users, Move(u)
  PROVE  Kept(u)
<1> USE DEF Goto, Return
<1>1. /\ UNCHANGED <<tmp, index, hasIndex, cipher, req, todo, fs, dir, snap>>
      /\ pc' = [pc EXCEPT ![u] = "done"] /\ res' = [res EXCEPT ![u] = "true"]
      /\ Active(u) /\ pc[u] = "move" /\ Op(u) = "rename"
  BY DEF Move, Active, Inv, Doing
<1>3. files' \in [DOMAIN files' -> Bytes]
  <2> DEFINE Goes(q) == Moved(q, u)
  <2>1. CASE UNCHANGED files
    BY <2>1 DEF Inv, TypeOK
  <2>2. CASE files' = [p \in {Goes(q) : q \in DOMAIN files} |->
                         files[CHOOSE q \in DOMAIN files : Goes(q) = p]]
    <3> HIDE DEF Goes
    <3>1. \A p \in {Goes(q) : q \in DOMAIN files} :
            (CHOOSE q \in DOMAIN files : Goes(q) = p) \in DOMAIN files
      OBVIOUS
    <3>2. \A p \in {Goes(q) : q \in DOMAIN files} :
            files[CHOOSE q \in DOMAIN files : Goes(q) = p] \in Bytes
      BY <3>1 DEF Inv, TypeOK
    <3> QED
      BY <2>2, <3>2
  <2> QED
    BY <2>1, <2>2 DEF Move
<1>4. TypeOK'
  <2>1. pc' \in [Users -> Phases] /\ res' \in [Users -> Results]
    BY <1>1 DEF Inv, TypeOK, Phases, Results
  <2> QED
    BY <1>1, <1>3, <2>1 DEF Inv, TypeOK, cipher
<1>5. Doing(u)'
  BY <1>1 DEF Inv, TypeOK, Doing, Active, Op, Path, Given
<1> QED
  BY <1>1, <1>4, <1>5 DEF Kept, Inv, TypeOK, Held, InHand

(* A folder is made.                                                       *)
LEMMA KeptByFolder ==
  ASSUME Inv, UNCHANGED setting, NEW u \in Users, CheckFolder(u) \/ MakeFolder(u)
  PROVE  Kept(u)
<1> USE DEF Goto, Return
<1>1. /\ UNCHANGED <<files, cipher, tmp, index, hasIndex, req, fs, dir, snap>>
      /\ Active(u) /\ pc[u] \in {"check", "mkdirs"} /\ Op(u) = "folder"
  BY DEF CheckFolder, MakeFolder, Active, Inv, Doing
<1>2. todo[u] \in Seq(Paths) /\ todo[u] # <<>> /\ Path(u) \in Paths
  BY <1>1, PathIs
<1>3. req[u].to \in Paths
  BY <1>1, RequestIs DEF Inv, Doing, Op
<1>4. /\ \/ todo' = todo
         \/ todo' = [todo EXCEPT ![u] = <<req[u].to>>]
      /\ \/ pc' = [pc EXCEPT ![u] = "mkdirs"] /\ res' = res
         \/ /\ pc' = [pc EXCEPT ![u] = "done"]
            /\ \E r \in {"true", "false"} : res' = [res EXCEPT ![u] = r]
  BY DEF CheckFolder, MakeFolder
<1>5. /\ <<req[u].to>> \in Seq(Paths) /\ <<req[u].to>> # <<>> /\ <<req[u].to>>[1] \in Paths
  <2>1. Len(<<req[u].to>>) # Len(<<>>)
    OBVIOUS
  <2> QED
    BY <1>3, <2>1
<1>6. TypeOK'
  <2>1. pc' \in [Users -> Phases] /\ res' \in [Users -> Results]
    <3>1. pc' \in [Users -> Phases]
      BY <1>4 DEF Inv, TypeOK, Phases
    <3>2. res' \in [Users -> Results]
      BY <1>4 DEF Inv, TypeOK, Results
    <3> QED
      BY <3>1, <3>2
  <2>2. todo' \in [Users -> Seq(Paths)]
    BY <1>4, <1>5 DEF Inv, TypeOK
  <2> QED
    BY <1>1, <2>1, <2>2 DEF Inv, TypeOK, cipher
<1>7. todo'[u] # <<>> /\ Path(u)' \in Paths
  BY <1>2, <1>4, <1>5 DEF Inv, TypeOK, Path
<1>8. (pc'[u] = "mkdirs" /\ res' = res) \/ pc'[u] = "done"
  BY <1>4 DEF Inv, TypeOK
<1>9. Doing(u)'
  BY <1>1, <1>7, <1>8 DEF Inv, Doing, Active, Op, Given
<1>10. ~InHand(u)'
  BY <1>1 DEF InHand, Uploads, Op
<1> QED
  BY <1>1, <1>6, <1>9, <1>10 DEF Kept, Inv, Held

LEMMA InvInit == Init => Inv
<1> SUFFICES ASSUME Init PROVE Inv
  OBVIOUS
<1> USE DEF Init
<1>1. DOMAIN files = {} /\ DOMAIN tmp = {}
  BY DEF Nothing
<1>2. files \in [DOMAIN files -> Bytes] /\ tmp \in [DOMAIN tmp -> Bytes]
  BY DEF Nothing
<1>3. pc \in [Users -> Phases] /\ res \in [Users -> Results]
  BY DEF Phases, Results
<1>4. /\ todo \in [Users -> Seq(Paths)] /\ snap \in [Users -> SUBSET Paths]
      /\ DOMAIN req = Users /\ DOMAIN fs = Users /\ DOMAIN dir = Users
  OBVIOUS
<1>5. stale \in BOOLEAN /\ hasIndex \in BOOLEAN /\ spoilt \subseteq Users /\ index \subseteq Paths
  OBVIOUS
<1>6. TypeOK
  BY <1>2, <1>3, <1>4, <1>5 DEF TypeOK
<1> QED
  BY <1>6 DEF Inv, Held, InHand, Doing, Active, Op

LEMMA InvStep == Inv /\ [Next]_vars => Inv'
<1> SUFFICES ASSUME Inv, [Next]_vars PROVE Inv'
  OBVIOUS
<1>1. CASE UNCHANGED vars
  BY <1>1 DEF vars, cipher, Inv, TypeOK, Held, InHand, Uploads, Document, Doing, Active, Op, Path, Name, Given
<1>2. ASSUME UNCHANGED setting, NEW u \in Users, Serve(u) PROVE Inv'
  <2>1. Kept(u)
    <3>1. CASE Begin(u)
      BY <1>2, <3>1, KeptByBegin
    <3>2. CASE Upload(u)
      BY <1>2, <3>2, KeptByUpload, KeptByEncode, KeptByCreate, KeptByCopy DEF Upload
    <3>3. CASE Remove(u) \/ Folder(u) \/ Move(u)
      BY <1>2, <3>3, KeptByRemove, KeptByFolder, KeptByMove DEF Folder
    <3>4. CASE Looks(u)
      BY <1>2, <3>4, KeptByLooking
    <3> QED
      BY <1>2, <3>1, <3>2, <3>3, <3>4 DEF Serve, Delete, Folder, Rename, Download, Search, Looks
  <2> QED
    BY <1>2, <2>1, KeptSuffices
<1> QED
  BY <1>1, <1>2 DEF Next

THEOREM Invariance == Spec => []Inv
BY InvInit, InvStep, PTL DEF Spec
-----------------------------------------------------------------------------
(* Files are encrypted as their paths say, temporary files always are, and *)
(* so a download is garbled only when its path and its name disagree.      *)
AsPathSays == \A p \in DOMAIN files : files[p].sealed = Attr[p].sealed
TempsSealed == \A n \in DOMAIN tmp : tmp[n].sealed
GarbledOnlyIf ==
  \A u \in Users : res[u] = "garbled" =>
    pc[u] = "done" /\ Attr[req[u].paths[1]].sealed # Attr[req[u].paths[1]].opened

ReadInv == Inv /\ TempsSealed /\ (NoRename => AsPathSays /\ GarbledOnlyIf)

LEMMA TempsSealedStep ==
  ASSUME Inv, TempsSealed, NEW u \in Users, Serve(u)
  PROVE  TempsSealed'
<1>1. CASE Encode(u)
  <2>1. CASE tmp' = Set(tmp, Name(u), Truncated(u))
    BY <2>1 DEF Set, Truncated, TempsSealed
  <2> QED
    BY <1>1, <2>1 DEF Encode, TempsSealed
<1>2. CASE EncodeEnds(u)
  <2>1. DOMAIN tmp' = DOMAIN tmp /\ \A n \in DOMAIN tmp : tmp'[n].sealed = tmp[n].sealed
    <3>1. Name(u) \in DOMAIN tmp /\ tmp[Name(u)] \in Bytes
      BY <1>2 DEF EncodeEnds, Inv, TypeOK, Held, InHand, Doing
    <3>2. \A part : [tmp[Name(u)] EXCEPT !.part = part].sealed = tmp[Name(u)].sealed
      BY <3>1 DEF Bytes
    <3>3. \/ UNCHANGED tmp
          \/ \E part \in Written(u) :
               tmp' = [tmp EXCEPT ![Name(u)] = [tmp[Name(u)] EXCEPT !.part = part]]
      BY <1>2 DEF EncodeEnds, WriteBlocks, WriteCut
    <3> QED
      BY <3>2, <3>3
  <2> QED
    BY <2>1 DEF TempsSealed
<1>3. CASE Copy(u)
  <2>1. CASE tmp' = Drop(tmp, Name(u))
    BY <2>1 DEF Drop, TempsSealed
  <2> QED
    BY <1>3, <2>1 DEF Copy, TempsSealed
<1>4. CASE ~Encode(u) /\ ~EncodeEnds(u) /\ ~Copy(u)
  <2>1. UNCHANGED tmp
    BY <1>4, LooksMove DEF Serve, Upload, Delete, Folder, Rename, Download, Search, Looks,
       Begin, Key, OpenTemp, CheckUpload, Create, IndexAdd, AddCommit, Remove, CheckFolder,
       MakeFolder, Move
  <2> QED
    BY <2>1 DEF TempsSealed
<1> QED
  BY <1>1, <1>2, <1>3, <1>4

LEMMA AsPathSaysStep ==
  ASSUME Inv, TempsSealed, NoRename, AsPathSays, NEW u \in Users, Serve(u)
  PROVE  AsPathSays'
<1>1. CASE Create(u)
  <2>1. CASE files' = Set(files, Path(u), Beginning(u))
    BY <2>1 DEF Set, Beginning, AsPathSays
  <2> QED
    BY <1>1, <2>1 DEF Create, AsPathSays
<1>2. CASE Copy(u)
  <2>1. Source(u).sealed = Document(u)
    <3>1. CASE Document(u)
      <4>1. Name(u) \in DOMAIN tmp
        BY <1>2, <3>1 DEF Copy, Inv, Held, InHand, Uploads, Doing
      <4>2. tmp[Name(u)].sealed = TRUE
        BY <4>1 DEF TempsSealed, Inv, TypeOK, Bytes
      <4>3. Document(u) = TRUE /\ Source(u) = tmp[Name(u)]
        BY <1>2, <3>1, PathIs DEF Copy, Active, Source, Document
      <4> QED
        BY <4>2, <4>3
    <3>2. CASE ~Document(u)
      <4>1. Document(u) = FALSE
        BY <1>2, <3>2, PathIs DEF Copy, Active
      <4> QED
        BY <4>1 DEF Source, Document
    <3> QED
      BY <3>1, <3>2
  <2>2. CASE Path(u) \in DOMAIN files /\ files' = [files EXCEPT ![Path(u)] = Source(u)]
    BY <2>1, <2>2 DEF AsPathSays, Document
  <2> QED
    BY <1>2, <2>2 DEF Copy, AsPathSays
<1>3. CASE Remove(u)
  BY <1>3 DEF Remove, AsPathSays
<1>4. ~Move(u)
  BY DEF Move, Inv, Doing, Active, NoRename, Op
<1>5. CASE ~Create(u) /\ ~Copy(u) /\ ~Remove(u)
  <2>1. UNCHANGED files
    BY <1>4, <1>5, LooksMove DEF Serve, Upload, Delete, Folder, Rename, Download, Search, Looks,
       CheckFolder, MakeFolder, Begin, Key, Encode, EncodeEnds, OpenTemp, CheckUpload, IndexAdd, AddCommit
  <2> QED
    BY <2>1 DEF AsPathSays
<1> QED
  BY <1>1, <1>2, <1>3, <1>5

LEMMA GarbledOnlyIfStep ==
  ASSUME Inv, AsPathSays, GarbledOnlyIf, NEW u \in Users, Serve(u)
  PROVE  GarbledOnlyIf'
<1>1. ASSUME NEW v \in Users, v # u, res'[v] = "garbled"
      PROVE  pc'[v] = "done" /\ (Attr[req[v].paths[1]].sealed # Attr[req[v].paths[1]].opened)'
  BY <1>1, OthersKeep DEF Inv, GarbledOnlyIf
<1>2. ASSUME res'[u] = "garbled"
      PROVE  pc'[u] = "done" /\ (Attr[req[u].paths[1]].sealed # Attr[req[u].paths[1]].opened)'
  <2>1. res[u] # "garbled"
    <3>1. pc[u] # "done"
      BY DEF Serve, Upload, Delete, Folder, Rename, Download, Search, CheckKind, CheckFolder,
             MakeFolder, Begin, Key, Encode, EncodeEnds,
             OpenTemp, CheckUpload, Create, Copy, IndexAdd, AddCommit, CheckDelete, IndexDel,
             DelCommit, Remove, CheckRename, Move, CheckDownload, Fetch, Query, Stat,
             CloseDirectory, Throws
    <3> QED
      BY <3>1 DEF Inv, Doing
  <2>2. /\ Fetch(u) /\ Path(u) \in DOMAIN files
        /\ Delivered(u, files[Path(u)]) = "garbled" /\ pc'[u] = "done"
    <3> USE DEF Goto, Return, Inv, TypeOK
    <3>1. CASE Begin(u)
      BY <1>2, <2>1, <3>1 DEF Begin
    <3>2. CASE Upload(u)
      BY <1>2, <2>1, <3>2 DEF Upload, Key, Encode, EncodeEnds, WriteBlocks, WriteCut, OpenTemp, CheckUpload, Create, Copy,
                              IndexAdd, AddCommit
    <3>3. CASE Delete(u) \/ Folder(u) \/ Rename(u) \/ CheckDownload(u)
      BY <1>2, <2>1, <3>3 DEF Delete, CheckDelete, CheckKind, IndexDel, DelCommit, Remove, Rename,
                              Folder, CheckFolder, MakeFolder, CheckRename, Move, CheckDownload
    <3>4. CASE Search(u) \/ Throws(u)
      BY <1>2, <2>1, <3>4 DEF Search, Query, Stat, CloseDirectory, Throws
    <3>5. CASE Fetch(u)
      BY <1>2, <2>1, <3>5 DEF Fetch
    <3> QED
      BY <3>1, <3>2, <3>3, <3>4, <3>5 DEF Serve, Download
  <2>3. files[Path(u)].sealed # Attr[Path(u)].opened
    BY <2>2 DEF Delivered
  <2>4. req' = req /\ Path(u) = req[u].paths[1]
    BY <2>2 DEF Fetch, Inv, Doing, Path
  <2> QED
    BY <2>2, <2>3, <2>4 DEF AsPathSays
<1> QED
  BY <1>1, <1>2 DEF GarbledOnlyIf

LEMMA ReadInvStep == ReadInv /\ [Next]_vars => ReadInv'
<1> SUFFICES ASSUME ReadInv, [Next]_vars PROVE ReadInv'
  OBVIOUS
<1>1. Inv'
  BY InvStep DEF ReadInv
<1>2. CASE UNCHANGED vars
  BY <1>1, <1>2 DEF vars, ReadInv, TempsSealed, NoRename, Given, AsPathSays, GarbledOnlyIf
<1>3. ASSUME UNCHANGED setting, NEW u \in Users, Serve(u) PROVE ReadInv'
  <2>1. TempsSealed'
    BY <1>3, TempsSealedStep DEF ReadInv
  <2>2. ASSUME NoRename PROVE AsPathSays' /\ GarbledOnlyIf'
    BY <1>3, <2>2, AsPathSaysStep, GarbledOnlyIfStep DEF ReadInv
  <2> QED
    BY <1>1, <1>3, <2>1, <2>2 DEF ReadInv, NoRename, Given
<1> QED
  BY <1>2, <1>3 DEF Next

(* For any number of requests at once, whatever they are but renames and   *)
(* whatever fails: a download returns what cannot be read only if docCheck *)
(* judges the path and the name of the file differently.                   *)
THEOREM DownloadsAreReadable == Spec => []DownloadReadable
<1>1. Init => ReadInv
  BY InvInit DEF Init, Nothing, ReadInv, TempsSealed, AsPathSays, GarbledOnlyIf
<1>2. ReadInv => DownloadReadable
  BY DEF ReadInv, GarbledOnlyIf, DownloadReadable
<1> QED
  BY <1>1, <1>2, ReadInvStep, PTL DEF Spec
-----------------------------------------------------------------------------
(* Uploads of documents that are still in the temporary file.              *)
WholeOf(u) == [by |-> u, part |-> "whole", sealed |-> TRUE]

OwnTemp(u) ==
  u \notin spoilt =>
    /\ pc[u] = "encoding" => tmp[Name(u)] = Truncated(u)
    /\ pc[u] = "temp" /\ Name(u) \in DOMAIN tmp => tmp[Name(u)] = WholeOf(u)
    /\ pc[u] \in {"check", "create", "copy"} /\ Uploads(u) => tmp[Name(u)] = WholeOf(u)

(* Whoever shares the table of blocks or the temporary file is spoilt.     *)
Apart ==
  \A u, v \in Users : u # v =>
    /\ Encrypting(u) /\ Encrypting(v) => v \in spoilt
    /\ pc[u] = "encoding" /\ Pending(v) /\ Name(u) = Name(v) => v \in spoilt

WholeInv == Inv /\ Apart /\ \A u \in Users : OwnTemp(u)

LEMMA SpoiltGrows ==
  ASSUME NEW u \in Users, Serve(u)
  PROVE  spoilt \subseteq spoilt'
<1> USE DEF cipher
<1>1. CASE Begin(u) \/ Upload(u)
  BY <1>1 DEF Begin, Upload, Key, Encode, EncodeEnds, WriteBlocks, WriteCut, OpenTemp,
              CheckUpload, Create, Copy, IndexAdd, AddCommit
<1>2. CASE Delete(u) \/ Folder(u) \/ Rename(u) \/ Download(u)
  BY <1>2 DEF Delete, CheckDelete, CheckKind, IndexDel, DelCommit, Remove, Folder, CheckFolder,
              MakeFolder, Rename, CheckRename, Move, Download, CheckDownload, Fetch
<1>3. CASE Search(u) \/ Throws(u)
  BY <1>3 DEF Search, Query, Stat, CloseDirectory, Throws
<1> QED
  BY <1>1, <1>2, <1>3 DEF Serve

(* How a request comes to encrypt, to write its file, and to wait.         *)
LEMMA Becomes ==
  ASSUME Inv, NEW u \in Users, Serve(u)
  PROVE  /\ Encrypting(u)' => Encrypting(u) \/ (~Encrypting(u) /\ Sharing(u) \subseteq spoilt')
         /\ pc'[u] = "encoding" =>
              Encrypting(u) /\ Namesakes(u) \subseteq spoilt' /\ Name(u)' = Name(u)
         /\ Pending(u)' => \/ Pending(u) /\ Name(u)' = Name(u)
                           \/ pc[u] = "encoding"
                           \/ u \in spoilt'
<1> USE DEF Goto, Return
<1>t. pc \in [Users -> Phases] /\ DOMAIN req = Users /\ todo \in [Users -> Seq(Paths)]
  BY DEF Inv, TypeOK
<1>1. CASE Begin(u)
  <2>1. PICK r \in Given.requests[u] :
          /\ req' = [req EXCEPT ![u] = r] /\ todo' = [todo EXCEPT ![u] = r.paths]
          /\ Goto(u, FirstPhase(r))
    BY <1>1 DEF Begin
  <2>2. req'[u] = r /\ todo'[u] = r.paths /\ pc'[u] = FirstPhase(r)
    BY <1>t, <2>1
  <2>3. pc'[u] \in {"query", "key", "check"} /\ ~(pc'[u] = "check" /\ Uploads(u)')
    BY <2>2 DEF FirstPhase, Uploads, Document, Op, Path
  <2> QED
    BY <2>3 DEF Encrypting, Pending, Uploads, Document
<1>2. CASE Key(u)
  <2>1. pc[u] = "key" /\ \/ pc'[u] = "encode" /\ spoilt' = spoilt \cup Sharing(u)
                         \/ pc'[u] = "done"
    BY <1>t, <1>2 DEF Key
  <2> QED
    BY <2>1 DEF Encrypting, Pending
<1>3. CASE Encode(u)
  <2>1. /\ pc[u] = "encode" /\ UNCHANGED <<req, todo>>
        /\ \/ pc'[u] = "encoding" /\ spoilt' = spoilt \cup Namesakes(u)
           \/ pc'[u] = "temp" /\ spoilt' = spoilt \cup {u}
    BY <1>t, <1>3 DEF Encode
  <2> QED
    BY <2>1 DEF Encrypting, Pending, Name, Path
<1>4. CASE EncodeEnds(u)
  <2>1. pc[u] = "encoding" /\ pc'[u] = "temp"
    BY <1>t, <1>4 DEF EncodeEnds
  <2> QED
    BY <2>1 DEF Encrypting, Pending
<1>5. CASE OpenTemp(u) \/ CheckUpload(u) \/ Create(u)
  <2>1. /\ UNCHANGED <<req, todo>> /\ pc[u] \in {"temp", "check", "create"}
        /\ pc'[u] \in {"check", "create", "copy", "done"}
    BY <1>t, <1>5 DEF OpenTemp, CheckUpload, Create
  <2> QED
    BY <2>1 DEF Encrypting, Pending, Name, Path, Op
<1>6. CASE Copy(u) \/ IndexAdd(u) \/ AddCommit(u) \/ Move(u) \/ CheckFolder(u) \/ MakeFolder(u)
  <2>1. pc'[u] \notin {"encode", "encoding", "temp", "check", "create", "copy"}
    BY <1>t, <1>6 DEF Copy, IndexAdd, AddCommit, Move, CheckFolder, MakeFolder
  <2> QED
    BY <2>1 DEF Encrypting, Pending
<1>7. CASE Remove(u)
  <2>1. Op(u)' = "delete" /\ pc'[u] \in {"check", "done"}
    BY <1>t, <1>7 DEF Remove, Inv, Doing, Op
  <2> QED
    BY <2>1 DEF Encrypting, Pending
<1>8. CASE Looks(u)
  <2>1. pc'[u] \notin {"encode", "encoding", "temp", "check", "create", "copy"}
    BY <1>t, <1>8 DEF Looks, CheckDelete, CheckKind, AfterDelete, IndexDel, DelCommit, CheckRename,
       CheckDownload, Fetch, Query, Stat, CloseDirectory, Throws
  <2> QED
    BY <2>1 DEF Encrypting, Pending
<1> QED
  BY <1>1, <1>2, <1>3, <1>4, <1>5, <1>6, <1>7, <1>8
     DEF Serve, Upload, Delete, Folder, Rename, Download, Search, Looks

(* The others encrypt and wait as before.                                  *)
LEMMA OthersWait ==
  ASSUME Inv, NEW u \in Users, Serve(u), NEW v \in Users, v # u
  PROVE  /\ pc'[v] = pc[v] /\ Encrypting(v)' = Encrypting(v) /\ Pending(v)' = Pending(v)
         /\ Name(v)' = Name(v) /\ Path(v)' = Path(v) /\ Uploads(v)' = Uploads(v)
BY OthersKeep DEF Inv, Encrypting, Pending, Name, Path, Uploads, Document, Op

LEMMA ApartStep ==
  ASSUME Inv, Apart, NEW u \in Users, Serve(u)
  PROVE  Apart'
<1> SUFFICES ASSUME NEW a \in Users, NEW b \in Users, a # b
             PROVE  /\ Encrypting(a)' /\ Encrypting(b)' => b \in spoilt'
                    /\ pc'[a] = "encoding" /\ Pending(b)' /\ Name(a)' = Name(b)' => b \in spoilt'
  BY DEF Apart
<1>0. spoilt \subseteq spoilt'
  BY SpoiltGrows
<1>1. CASE u # a /\ u # b
  BY <1>0, <1>1, OthersWait DEF Apart
<1>2. CASE u = a
  <2>1. /\ pc'[b] = pc[b] /\ Encrypting(b)' = Encrypting(b) /\ Pending(b)' = Pending(b)
        /\ Name(b)' = Name(b)
    BY <1>2, OthersWait
  <2>2. Encrypting(b) => b \in Sharing(a)
    BY DEF Sharing
  <2>3. Pending(b) /\ Name(b) = Name(a) => b \in Namesakes(a)
    BY DEF Namesakes
  <2> QED
    BY <1>0, <1>2, <2>1, <2>2, <2>3, Becomes DEF Apart
<1>3. CASE u = b
  <2>1. /\ pc'[a] = pc[a] /\ Encrypting(a)' = Encrypting(a) /\ Name(a)' = Name(a)
    BY <1>3, OthersWait
  <2>2. Encrypting(a) => b \in Sharing(b)
    BY DEF Sharing
  <2>3. pc[a] = "encoding" => Encrypting(a)
    BY DEF Encrypting
  <2>4. pc[b] = "encoding" => Encrypting(b)
    BY DEF Encrypting
  <2> QED
    BY <1>0, <1>3, <2>1, <2>2, <2>3, <2>4, Becomes DEF Apart
<1> QED
  BY <1>1, <1>2, <1>3

LEMMA TempsChange ==
  ASSUME Inv, NEW u \in Users, Serve(u)
  PROVE  \/ UNCHANGED tmp
         \/ /\ \/ Encode(u) /\ Namesakes(u) \subseteq spoilt'
               \/ EncodeEnds(u)
               \/ ~TempInUse(u) /\ Name(u) \notin DOMAIN tmp'
            /\ \A n \in DOMAIN tmp : n # Name(u) => n \in DOMAIN tmp' /\ tmp'[n] = tmp[n]
            /\ \A n \in DOMAIN tmp' : n # Name(u) => n \in DOMAIN tmp
<1>1. CASE Encode(u)
  <2>1. CASE tmp' = Set(tmp, Name(u), Truncated(u)) /\ spoilt' = spoilt \cup Namesakes(u)
    BY <1>1, <2>1 DEF Set
  <2> QED
    BY <1>1, <2>1 DEF Encode
<1>2. CASE EncodeEnds(u)
  <2>1. DOMAIN tmp' = DOMAIN tmp /\ \A n \in DOMAIN tmp : n # Name(u) => tmp'[n] = tmp[n]
    BY <1>2 DEF EncodeEnds, WriteBlocks, WriteCut
  <2> QED
    BY <1>2, <2>1
<1>3. CASE Copy(u)
  <2>1. CASE ~TempInUse(u) /\ tmp' = Drop(tmp, Name(u))
    BY <2>1 DEF Drop
  <2> QED
    BY <1>3, <2>1 DEF Copy
<1>4. CASE ~Encode(u) /\ ~EncodeEnds(u) /\ ~Copy(u)
  BY <1>4, LooksMove DEF Serve, Upload, Delete, Folder, Rename, Download, Search, Looks,
     Begin, Key, OpenTemp, CheckUpload, Create, IndexAdd, AddCommit, Remove, CheckFolder,
     MakeFolder, Move
<1> QED
  BY <1>1, <1>2, <1>3, <1>4

LEMMA OthersOwnTemp ==
  ASSUME Inv, Apart, NEW u \in Users, Serve(u), NEW v \in Users, v # u, OwnTemp(v), Inv'
  PROVE  OwnTemp(v)'
<1> SUFFICES ASSUME v \notin spoilt' PROVE OwnTemp(v)'
  BY DEF OwnTemp
<1>0. v \notin spoilt
  BY SpoiltGrows
<1>1. /\ pc'[v] = pc[v] /\ Name(v)' = Name(v) /\ Uploads(v)' = Uploads(v)
  BY OthersWait
<1>3. CASE UNCHANGED tmp
  BY <1>0, <1>1, <1>3 DEF OwnTemp, Truncated, WholeOf
<1>4. CASE ~UNCHANGED tmp
  <2>1. \A n \in DOMAIN tmp : n # Name(u) => n \in DOMAIN tmp' /\ tmp'[n] = tmp[n]
    BY <1>4, TempsChange
  <2>2. \A n \in DOMAIN tmp' : n # Name(u) => n \in DOMAIN tmp
    BY <1>4, TempsChange
  <2>3. pc[v] \in {"encoding", "temp"} => Uploads(v)
    BY DEF Inv, Doing
  <2>4. Uploads(v) /\ pc[v] \in {"temp", "check", "create", "copy"} => Pending(v)
    BY DEF Uploads, Document, Pending
  <2>5. CASE Encode(u) /\ Namesakes(u) \subseteq spoilt'
    <3>1. Encrypting(u) /\ (pc[v] = "encoding" => Encrypting(v))
      BY <2>5 DEF Encode, Encrypting
    <3>2. pc[v] # "encoding"
      BY <1>0, <3>1 DEF Apart
    <3>3. Pending(v) => Name(v) # Name(u)
      BY <2>5 DEF Namesakes
    <3>4. InHand(v) => Name(v) \in DOMAIN tmp
      BY DEF Inv, Held
    <3> QED
      BY <1>0, <1>1, <2>1, <2>2, <2>3, <2>4, <3>2, <3>3, <3>4 DEF OwnTemp, InHand, WholeOf
  <2>6. CASE EncodeEnds(u)
    <3>1. pc[u] = "encoding" /\ Encrypting(u) /\ (pc[v] = "encoding" => Encrypting(v))
      BY <2>6 DEF EncodeEnds, Encrypting
    <3>2. pc[v] # "encoding" /\ (Pending(v) => Name(v) # Name(u))
      BY <1>0, <3>1 DEF Apart
    <3>4. InHand(v) => Name(v) \in DOMAIN tmp
      BY DEF Inv, Held
    <3> QED
      BY <1>0, <1>1, <2>1, <2>2, <2>3, <2>4, <3>2, <3>4 DEF OwnTemp, InHand, WholeOf
  <2>7. CASE ~TempInUse(u) /\ Name(u) \notin DOMAIN tmp'
    <3>1. InHand(v) => Name(v) # Name(u)
      BY <2>7 DEF TempInUse, InHand, Uploads, Document
    <3>2. InHand(v) => Name(v) \in DOMAIN tmp
      BY DEF Inv, Held
    <3>3. pc[v] \in {"encoding", "check", "create", "copy"} /\ Uploads(v) => InHand(v)
      BY DEF InHand
    <3> QED
      BY <1>0, <1>1, <2>1, <2>2, <2>3, <2>7, <3>1, <3>2, <3>3 DEF OwnTemp, Truncated, WholeOf
  <2> QED
    BY <1>4, <2>5, <2>6, <2>7, TempsChange
<1> QED
  BY <1>3, <1>4

LEMMA OwnTempStep ==
  ASSUME Inv, NEW u \in Users, Serve(u), OwnTemp(u), Inv'
  PROVE  OwnTemp(u)'
<1> USE DEF Goto, Return
<1> SUFFICES ASSUME u \notin spoilt' PROVE OwnTemp(u)'
  BY DEF OwnTemp
<1>0. u \notin spoilt
  BY SpoiltGrows
<1>t. pc \in [Users -> Phases] /\ DOMAIN req = Users /\ todo \in [Users -> Seq(Paths)]
  BY DEF Inv, TypeOK
<1>1. CASE Begin(u)
  <2>1. PICK r \in Given.requests[u] :
          /\ req' = [req EXCEPT ![u] = r] /\ todo' = [todo EXCEPT ![u] = r.paths]
          /\ Goto(u, FirstPhase(r))
    BY <1>1 DEF Begin
  <2>2. req'[u] = r /\ todo'[u] = r.paths /\ pc'[u] = FirstPhase(r)
    BY <1>t, <2>1
  <2>3. pc'[u] \in {"query", "key", "check"} /\ ~(pc'[u] = "check" /\ Uploads(u)')
    BY <2>2 DEF FirstPhase, Uploads, Document, Op, Path
  <2> QED
    BY <2>3 DEF OwnTemp
<1>2. CASE Encode(u)
  <2>1. tmp' = Set(tmp, Name(u), Truncated(u)) /\ pc'[u] = "encoding" /\ UNCHANGED <<req, todo>>
    BY <1>t, <1>2 DEF Encode
  <2>2. Name(u)' = Name(u)
    BY <2>1 DEF Name, Path
  <2>3. tmp'[Name(u)] = Truncated(u)
    BY <2>1 DEF Set
  <2> QED
    BY <2>1, <2>2, <2>3 DEF OwnTemp, Truncated
<1>3. CASE EncodeEnds(u)
  <2>1. pc[u] = "encoding" /\ pc'[u] = "temp" /\ UNCHANGED <<req, todo>>
    BY <1>t, <1>3 DEF EncodeEnds
  <2>2. Name(u) \in DOMAIN tmp /\ tmp[Name(u)] = Truncated(u)
    BY <1>0, <1>3, <2>1 DEF EncodeEnds, Inv, Held, InHand, Doing, OwnTemp
  <2> DEFINE b == [Truncated(u) EXCEPT !.part = "whole"]
  <2>3. tmp' = [tmp EXCEPT ![Name(u)] = b]
    <3>1. WriteBlocks(u)
      BY <1>3 DEF EncodeEnds, WriteCut
    <3>2. PICK part \in Written(u) : tmp' = [tmp EXCEPT ![Name(u)].part = part]
      BY <3>1 DEF WriteBlocks
    <3>3. part = "whole"
      BY <1>0, <2>2 DEF Written
    <3> QED
      BY <2>2, <3>2, <3>3
  <2>4. b = WholeOf(u)
    <3>1. b \in Bytes /\ WholeOf(u) \in Bytes
      BY DEF Bytes, Truncated, WholeOf
    <3>2. b.by = WholeOf(u).by /\ b.part = WholeOf(u).part /\ b.sealed = WholeOf(u).sealed
      BY DEF Truncated, WholeOf
    <3>3. \A x, y \in Bytes : x.by = y.by /\ x.part = y.part /\ x.sealed = y.sealed => x = y
      BY DEF Bytes
    <3> HIDE DEF b
    <3> QED
      BY <3>1, <3>2, <3>3
  <2> HIDE DEF b
  <2>5. tmp'[Name(u)] = WholeOf(u) /\ Name(u)' = Name(u)
    BY <2>1, <2>2, <2>3, <2>4 DEF Name, Path
  <2> QED
    BY <2>1, <2>5 DEF OwnTemp, WholeOf
<1>4. CASE OpenTemp(u) \/ CheckUpload(u) \/ Create(u)
  <2>1. /\ UNCHANGED <<tmp, req, todo>>
        /\ \/ pc'[u] = "done"
           \/ pc[u] = "temp" /\ pc'[u] = "check" /\ Name(u) \in DOMAIN tmp
           \/ pc[u] = "check" /\ pc'[u] = "create"
           \/ pc[u] = "create" /\ pc'[u] = "copy"
    BY <1>t, <1>4 DEF OpenTemp, CheckUpload, Create
  <2> QED
    BY <1>0, <2>1 DEF OwnTemp, Name, Path, Uploads, Document, Op, WholeOf
<1>5. CASE \/ Key(u) \/ Copy(u) \/ IndexAdd(u) \/ AddCommit(u) \/ Move(u) \/ CheckFolder(u)
           \/ MakeFolder(u)
  <2>1. pc'[u] \notin {"encoding", "temp", "check", "create", "copy"}
    BY <1>t, <1>5 DEF Key, Copy, IndexAdd, AddCommit, Move, CheckFolder, MakeFolder
  <2> QED
    BY <2>1 DEF OwnTemp
<1>6. CASE Remove(u)
  <2>1. Op(u)' = "delete" /\ pc'[u] \in {"check", "done"}
    BY <1>t, <1>6 DEF Remove, Inv, Doing, Op
  <2> QED
    BY <2>1 DEF OwnTemp, Uploads
<1>7. CASE Looks(u)
  <2>1. pc'[u] \notin {"encoding", "temp", "check", "create", "copy"}
    BY <1>t, <1>7 DEF Looks, CheckDelete, CheckKind, AfterDelete, IndexDel, DelCommit, CheckRename,
       CheckDownload, Fetch, Query, Stat, CloseDirectory, Throws
  <2> QED
    BY <2>1 DEF OwnTemp
<1> QED
  BY <1>1, <1>2, <1>3, <1>4, <1>5, <1>6, <1>7
     DEF Serve, Upload, Delete, Folder, Rename, Download, Search, Looks

LEMMA WholeInvStep ==
  ASSUME WholeInv, [Next]_vars
  PROVE  WholeInv'
<1>1. Inv'
  BY InvStep DEF WholeInv
<1>2. CASE UNCHANGED vars
  <2>1. Apart'
    BY <1>2 DEF vars, cipher, WholeInv, Apart, Encrypting, Pending, Op, Path, Name
  <2>2. \A v \in Users : OwnTemp(v)'
    BY <1>2 DEF vars, cipher, WholeInv, OwnTemp, Uploads, Document, Op, Path, Name, Truncated,
                WholeOf
  <2> QED
    BY <1>1, <2>1, <2>2 DEF WholeInv
<1>3. ASSUME UNCHANGED setting, NEW u \in Users, Serve(u) PROVE WholeInv'
  <2>1. ASSUME NEW v \in Users PROVE OwnTemp(v)'
    BY <1>1, <1>3, OwnTempStep, OthersOwnTemp DEF WholeInv
  <2>2. Apart'
    BY <1>3, ApartStep DEF WholeInv
  <2> QED
    BY <1>1, <2>1, <2>2 DEF WholeInv
<1> QED
  BY <1>2, <1>3 DEF Next

(* When the copy of an upload succeeds, its own bytes are in HDFS.         *)
LEMMA CopiedWhole ==
  ASSUME WholeInv, NEW u \in Users, u \notin spoilt, Copy(u), pc'[u] = "add" \/ res'[u] = "true"
  PROVE  /\ Path(u) \in DOMAIN files'
         /\ files'[Path(u)] = [by |-> u, part |-> "whole", sealed |-> Attr[Path(u)].sealed]
<1> USE DEF Goto, Return
<1>1. Path(u) \in DOMAIN files /\ files' = [files EXCEPT ![Path(u)] = Source(u)]
  <2>1. pc \in [Users -> Phases] /\ res \in [Users -> Results] /\ res[u] = "none"
    BY DEF WholeInv, Inv, TypeOK, Doing, Copy
  <2> QED
    BY <2>1 DEF Copy
<1>2. Source(u) = [by |-> u, part |-> "whole", sealed |-> Document(u)]
  <2>1. CASE Document(u)
    <3>1. Document(u) = TRUE
      BY <2>1, PathIs DEF Copy, Active, WholeInv
    <3>2. tmp[Name(u)] = WholeOf(u)
      BY <2>1 DEF WholeInv, OwnTemp, Copy, Uploads, Inv, Doing
    <3> QED
      BY <3>1, <3>2 DEF Source, Document, WholeOf
  <2>2. CASE ~Document(u)
    <3>1. Document(u) = FALSE
      BY <2>2, PathIs DEF Copy, Active, WholeInv
    <3> QED
      BY <3>1 DEF Source, Document
  <2> QED
    BY <2>1, <2>2
<1> QED
  BY <1>1, <1>2 DEF Document

(* An upload is reported only with its own whole bytes in HDFS, whatever   *)
(* else runs and whatever fails, unless its own encryption failed or it    *)
(* shared the table of blocks or the temporary file with another document. *)
THEOREM ReportedUploadsWhole == Spec => ReportedWhole
<1>1. Init => WholeInv
  BY InvInit DEF WholeInv, Apart, Encrypting, OwnTemp, Init
<1>2. WholeInv /\ [Next]_vars => WholeInv'
  BY WholeInvStep
<1>3. WholeInv /\ [Next]_vars => [\A u \in Users : ReportsOwn(u)]_vars
  <2> SUFFICES ASSUME WholeInv, Next, NEW u \in Users, u \notin spoilt,
                      pc[u] = "copy", pc'[u] = "add" \/ res'[u] = "true"
               PROVE  /\ Path(u) \in DOMAIN files'
                      /\ files'[Path(u)] =
                           [by |-> u, part |-> "whole", sealed |-> Attr[Path(u)].sealed]
    BY DEF ReportsOwn
  <2>1. PICK v \in Users : Serve(v)
    BY DEF Next
  <2>2. res[u] = "none"
    BY DEF WholeInv, Inv, Doing
  <2>3. v = u
    BY <2>1, <2>2, OthersKeep DEF WholeInv, Inv
  <2>4. Copy(u) \/ Throws(u)
    BY <2>1, <2>3 DEF Serve, Upload, Delete, Folder, Rename, Download, Search, Begin, Key, Encode,
       EncodeEnds, OpenTemp, CheckUpload, Create, IndexAdd, AddCommit, CheckDelete, CheckKind,
       IndexDel, DelCommit, Remove, CheckFolder, MakeFolder, CheckRename, Move, CheckDownload, Fetch, Query, Stat, CloseDirectory
  <2>5. ~Throws(u)
    BY DEF Throws, Goto, Return, WholeInv, Inv, TypeOK
  <2> QED
    BY <2>4, <2>5, CopiedWhole
<1> QED
  BY <1>1, <1>2, <1>3, PTL DEF Spec, ReportedWhole
-----------------------------------------------------------------------------
(* Requests one after the other.                                           *)
Orphans == {p \in Paths : InDeletedFolder(p)}

(* The index holds the text documents of F, and orphans of folders.        *)
Agrees(F) == Texts(F) \subseteq index /\ index \subseteq Texts(F) \cup Orphans

(* The path that is in HDFS and not in the index as yet, or any more.      *)
Due(u) == IF pc[u] \in {"copy", "add", "addCommit", "remove"} THEN {Path(u)} ELSE {}

(* What holds while u is served.                                           *)
Tidy(u) ==
  /\ fs[u]
  /\ Agrees(DOMAIN files \ Due(u))
  /\ pc[u] \in {"addCommit", "delCommit"} => dir[u] /\ snap[u] = index
  /\ pc[u] = "create" => Path(u) \notin DOMAIN files
  /\ pc[u] = "copy" => files[Path(u)] = Beginning(u)
  /\ pc[u] \in {"copy", "add", "addCommit"} => Path(u) \in DOMAIN files

Exact == Agrees(DOMAIN files)

OrderInv == /\ \A u, v \in Users : Active(u) /\ Active(v) => u = v
            /\ \A u \in Users : Active(u) => Tidy(u)
            /\ (\A u \in Users : ~Active(u)) => Exact

IndexInv == Inv /\ (Orderly => OrderInv)

(* Every text document is one for the deletion too, which looks behind the *)
(* first dot of the path.                                                  *)
DotsAgree == \A p \in Paths : Attr[p].sealed /\ Attr[p].ext = "indexed" => Attr[p].unindexed

After(u) == IF Active(u) THEN Tidy(u) ELSE Exact

LEMMA AloneSuffices ==
  ASSUME TypeOK, NEW u \in Users, Serve(u), After(u)',
         \A v \in Users : v # u => ~Active(v)
  PROVE  OrderInv'
<1>1. \A v \in Users : v # u => ~Active(v)'
  BY OthersKeep DEF Active
<1> QED
  BY <1>1 DEF OrderInv, After

(* Deletions asked for stay asked for.                                     *)
LEMMA OrphansStay ==
  ASSUME Inv, NEW u \in Users, Serve(u)
  PROVE  Orphans \subseteq Orphans'
<1>1. ASSUME NEW v \in Users, Op(v) = "delete" PROVE req'[v] = req[v]
  <2>1. CASE v = u
    <3>1. ~Begin(u)
      BY <1>1, <2>1 DEF Begin, Inv, Doing
    <3> QED
      BY <2>1, <3>1, LooksMove DEF Serve, Upload, Delete, Folder, Rename, Download, Search, Looks,
         Key, Encode, EncodeEnds, OpenTemp, CheckUpload, Create, Copy, IndexAdd, AddCommit, Remove,
         CheckFolder, MakeFolder, Move
  <2> QED
    BY <2>1, OthersKeep DEF Inv
<1> QED
  BY <1>1 DEF Orphans, InDeletedFolder, Op

(* Nobody else is served when a request begins.                            *)
LEMMA BeginsAlone ==
  ASSUME Orderly, NEW u \in Users, Begin(u), NEW v \in Users
  PROVE  ~Active(v)
<1> DEFINE S == {w \in Users : Active(w)}
<1>1. IsFiniteSet(S)
  BY UsersFinite, FS_Subset
<1>2. Cardinality(S) \in Nat /\ Cardinality(S) < 1
  BY <1>1, FS_CardinalityType DEF Begin, Orderly
<1>3. S = {}
  BY <1>1, <1>2, FS_EmptySet
<1> QED
  BY <1>3

LEMMA AfterBegin ==
  ASSUME Inv, NEW u \in Users, Begin(u), Exact, Orphans \subseteq Orphans'
  PROVE  After(u)'
<1>1. PICK r \in Given.requests[u] : Goto(u, FirstPhase(r))
  BY DEF Begin
<1>2. pc'[u] \in {"query", "key", "check"}
  BY <1>1 DEF Goto, FirstPhase, Inv, TypeOK
<1>3. fs'[u] /\ UNCHANGED <<files, index>>
  BY DEF Begin, Inv, TypeOK
<1>4. Due(u)' = {}
  BY <1>2 DEF Due
<1> QED
  BY <1>2, <1>3, <1>4 DEF After, Tidy, Exact, Agrees, Texts

(* The steps that change neither files nor index nor what is due.          *)
LEMMA AfterPreparing ==
  ASSUME Inv, NEW u \in Users, Tidy(u), Orphans \subseteq Orphans',
         \/ Key(u) \/ Encode(u) \/ EncodeEnds(u) \/ OpenTemp(u) \/ CheckUpload(u)
         \/ CheckFolder(u) \/ MakeFolder(u) \/ CheckRename(u) \/ CheckDownload(u) \/ Fetch(u) \/ Query(u) \/ Stat(u)
         \/ CloseDirectory(u)
  PROVE  After(u)'
<1> USE DEF Goto, Return
<1>t. pc \in [Users -> Phases] /\ DOMAIN fs = Users /\ Due(u) \in SUBSET {Path(u)}
  BY DEF Inv, TypeOK, Due
<1>1. /\ UNCHANGED <<files, index>> /\ Due(u) = {}
      /\ pc'[u] \in {"encode", "encoding", "temp", "check", "create", "mkdirs", "move", "fetch",
                     "stat", "done"}
  BY <1>t DEF Key, Encode, EncodeEnds, WriteBlocks, WriteCut, OpenTemp, CheckUpload, CheckFolder, MakeFolder, CheckRename, CheckDownload, Fetch,
     Query, Stat, CloseDirectory, Due
<1>2. Due(u)' = {}
  BY <1>1 DEF Due
<1>3. pc'[u] # "done" => fs'[u]
  BY <1>t DEF Tidy, Key, Encode, EncodeEnds, WriteBlocks, WriteCut, OpenTemp, CheckUpload, CheckFolder, MakeFolder, CheckRename, CheckDownload,
     Fetch, Query, Stat, CloseDirectory
<1>4. pc'[u] = "create" => Path(u) \notin DOMAIN files /\ Path(u)' = Path(u)
  BY <1>t DEF Key, Encode, EncodeEnds, WriteBlocks, WriteCut, OpenTemp, CheckUpload, CheckFolder, MakeFolder, CheckRename, CheckDownload,
     Fetch, Query, Stat, CloseDirectory, Refused, Exists, Path
<1>5. Agrees(DOMAIN files)' /\ Agrees(DOMAIN files \ Due(u))'
  BY <1>1, <1>2 DEF Tidy, Agrees, Texts
<1>6. CASE pc'[u] = "done"
  BY <1>5, <1>6 DEF After, Active, Exact
<1>7. CASE pc'[u] # "done"
  <2>1. Tidy(u)'
    BY <1>1, <1>3, <1>4, <1>5, <1>7 DEF Tidy
  <2> QED
    BY <1>1, <1>7, <2>1 DEF After, Active
<1> QED
  BY <1>6, <1>7

(* An upload reaches HDFS, then the index.                                 *)
LEMMA AfterUpload ==
  ASSUME Inv, NEW u \in Users, Tidy(u), Orphans \subseteq Orphans',
         Create(u) \/ Copy(u) \/ IndexAdd(u) \/ AddCommit(u)
  PROVE  After(u)'
<1> USE DEF Goto, Return
<1>t. /\ pc \in [Users -> Phases] /\ DOMAIN fs = Users /\ DOMAIN dir = Users
      /\ snap \in [Users -> SUBSET Paths]
  BY DEF Inv, TypeOK
<1>f. fs[u] /\ Agrees(DOMAIN files \ Due(u))
  BY DEF Tidy
<1>1. CASE Create(u)
  <2>0. pc[u] = "create" /\ Path(u) \notin DOMAIN files /\ Due(u) = {}
    BY <1>1 DEF Create, Tidy, Due
  <2>1. CASE UNCHANGED files /\ pc'[u] = "done"
    <3>1. UNCHANGED index
      BY <1>1 DEF Create
    <3>2. Exact'
      BY <1>f, <2>0, <2>1, <3>1 DEF Exact, Agrees, Texts
    <3> QED
      BY <2>1, <3>2 DEF After, Active
  <2>2. CASE files' = Set(files, Path(u), Beginning(u)) /\ pc'[u] = "copy"
    <3>1. UNCHANGED <<index, fs, todo>>
      BY <1>1 DEF Create
    <3>2. DOMAIN files' = DOMAIN files \cup {Path(u)} /\ files'[Path(u)] = Beginning(u)
      BY <2>2 DEF Set
    <3>3. Due(u)' = {Path(u)} /\ Path(u)' = Path(u) /\ Beginning(u)' = Beginning(u)
      BY <2>2, <3>1 DEF Due, Path, Beginning
    <3>4. DOMAIN files' \ {Path(u)} = DOMAIN files
      BY <2>0, <3>2
    <3>5. Agrees(DOMAIN files \ Due(u))'
      BY <1>f, <2>0, <3>1, <3>3, <3>4 DEF Agrees, Texts
    <3>6. Tidy(u)'
      BY <1>f, <2>2, <3>1, <3>2, <3>3, <3>5 DEF Tidy
    <3> QED
      BY <2>2, <3>6 DEF After, Active
  <2> QED
    BY <1>1, <1>t, <2>1, <2>2 DEF Create
<1>2. CASE Copy(u)
  <2>1. Path(u) \in DOMAIN files /\ files[Path(u)] = Beginning(u) /\ Due(u) = {Path(u)}
    BY <1>2 DEF Copy, Tidy, Due
  <2>2. DOMAIN files' = DOMAIN files /\ UNCHANGED <<index, fs, todo>>
    BY <1>2, <2>1 DEF Copy
  <2>3. CASE Attr[Path(u)].sealed
    <3>1. pc'[u] = "add"
      BY <1>2, <1>t, <2>1, <2>3 DEF Copy
    <3>2. Due(u)' = {Path(u)} /\ Path(u)' = Path(u)
      BY <2>2, <3>1 DEF Due, Path
    <3>3. Tidy(u)'
      BY <1>f, <2>1, <2>2, <3>1, <3>2 DEF Tidy, Agrees, Texts
    <3> QED
      BY <3>1, <3>3 DEF After, Active
  <2>4. CASE ~Attr[Path(u)].sealed
    <3>1. pc'[u] = "done"
      BY <1>2, <1>t, <2>1, <2>4 DEF Copy
    <3>2. Texts(DOMAIN files \ {Path(u)}) = Texts(DOMAIN files)
      BY <2>4 DEF Texts
    <3>3. Exact'
      BY <1>f, <2>1, <2>2, <3>2 DEF Exact, Agrees, Texts
    <3> QED
      BY <3>1, <3>3 DEF After, Active
  <2> QED
    BY <2>3, <2>4
<1>3. CASE IndexAdd(u)
  <2>1. /\ UNCHANGED <<files, index, fs, todo>> /\ Due(u) = {Path(u)} /\ Path(u) \in DOMAIN files
        /\ snap'[u] = index /\ dir'[u]
    BY <1>3, <1>t DEF IndexAdd, Due, Tidy
  <2>2. CASE Attr[Path(u)].ext = "indexed"
    <3>1. pc'[u] = "addCommit"
      BY <1>3, <1>t, <2>2 DEF IndexAdd
    <3>2. Due(u)' = {Path(u)} /\ Path(u)' = Path(u)
      BY <2>1, <3>1 DEF Due, Path
    <3>3. Tidy(u)'
      BY <1>f, <2>1, <3>1, <3>2 DEF Tidy, Agrees, Texts
    <3> QED
      BY <3>1, <3>3 DEF After, Active
  <2>3. CASE Attr[Path(u)].ext # "indexed"
    <3>1. pc'[u] = "done"
      BY <1>3, <1>t, <2>3 DEF IndexAdd
    <3>2. Texts(DOMAIN files \ {Path(u)}) = Texts(DOMAIN files)
      BY <2>3 DEF Texts
    <3>3. Exact'
      BY <1>f, <2>1, <3>2 DEF Exact, Agrees, Texts
    <3> QED
      BY <3>1, <3>3 DEF After, Active
  <2> QED
    BY <2>2, <2>3
<1>4. CASE AddCommit(u)
  <2>1. /\ UNCHANGED files /\ index' = snap[u] \cup {Path(u)} /\ pc'[u] = "done"
        /\ snap[u] = index /\ Due(u) = {Path(u)} /\ Path(u) \in DOMAIN files
    BY <1>4, <1>t DEF AddCommit, Tidy, Due
  <2>2. Attr[Path(u)].sealed /\ Attr[Path(u)].ext = "indexed"
    BY <1>4 DEF AddCommit, Inv, Doing, Uploads, Document
  <2>3. Exact'
    BY <1>f, <2>1, <2>2 DEF Exact, Agrees, Texts
  <2> QED
    BY <2>1, <2>3 DEF After, Active
<1> QED
  BY <1>1, <1>2, <1>3, <1>4

(* A deletion leaves the index, then HDFS.                                 *)
LEMMA AfterDeletion ==
  ASSUME DotsAgree, Inv, NEW u \in Users, Tidy(u), Orphans \subseteq Orphans',
         CheckDelete(u) \/ CheckKind(u) \/ IndexDel(u) \/ DelCommit(u) \/ Remove(u)
  PROVE  After(u)'
<1> USE DEF Goto, Return
<1>t. /\ pc \in [Users -> Phases] /\ DOMAIN fs = Users /\ DOMAIN dir = Users
      /\ snap \in [Users -> SUBSET Paths]
  BY DEF Inv, TypeOK
<1>f. fs[u] /\ Agrees(DOMAIN files \ Due(u))
  BY DEF Tidy
<1>1. CASE CheckDelete(u)
  <2>1. /\ Due(u) = {} /\ UNCHANGED <<files, index, fs, todo>> /\ pc'[u] \in {"kind", "done"}
    BY <1>1, <1>t DEF CheckDelete, Due
  <2>2. Due(u)' = {}
    BY <2>1 DEF Due
  <2>3. Exact' /\ Agrees(DOMAIN files \ Due(u))'
    BY <1>f, <2>1, <2>2 DEF Exact, Agrees, Texts
  <2>4. Tidy(u)'
    BY <1>f, <2>1, <2>3 DEF Tidy
  <2> QED
    BY <2>3, <2>4 DEF After
<1>5. CASE CheckKind(u)
  <2>1. Due(u) = {} /\ UNCHANGED <<files, index, fs, todo>> /\ Path(u)' = Path(u)
    BY <1>5 DEF CheckKind, Due, Path
  <2>4. CASE pc'[u] = "unindex"
    <3>1. Due(u)' = {}
      BY <2>4 DEF Due
    <3>2. Tidy(u)'
      BY <1>f, <2>1, <2>4, <3>1 DEF Tidy, Agrees, Texts
    <3> QED
      BY <2>4, <3>2 DEF After, Active
  <2>5. CASE pc'[u] = "remove" /\ (Path(u) \notin DOMAIN files \/ ~Attr[Path(u)].unindexed)
    <3>1. Path(u) \in Paths
      BY <1>5, PathIs DEF CheckKind, Active
    <3>2. Due(u)' = {Path(u)}
      BY <2>1, <2>5 DEF Due
    <3>3. Texts(DOMAIN files \ {Path(u)}) = Texts(DOMAIN files)
      BY <2>5, <3>1 DEF Texts, DotsAgree
    <3>4. Agrees(DOMAIN files \ Due(u))'
      BY <1>f, <2>1, <3>2, <3>3 DEF Agrees, Texts
    <3>5. Tidy(u)'
      BY <1>f, <2>1, <2>5, <3>4 DEF Tidy
    <3> QED
      BY <2>5, <3>5 DEF After, Active
  <2> QED
    BY <1>5, <1>t, <2>4, <2>5 DEF CheckKind, AfterDelete
<1>2. CASE IndexDel(u)
  <2>1. /\ UNCHANGED <<files, index, fs, todo>> /\ pc'[u] = "delCommit"
        /\ snap'[u] = index /\ dir'[u] /\ Due(u) = {} /\ Due(u)' = {}
    BY <1>2, <1>t DEF IndexDel, Due
  <2>2. Tidy(u)'
    BY <1>f, <2>1 DEF Tidy, Agrees, Texts
  <2> QED
    BY <2>1, <2>2 DEF After, Active
<1>3. CASE DelCommit(u)
  <2>1. /\ UNCHANGED <<files, fs, todo>> /\ pc'[u] = "remove" /\ index' = snap[u] \ {Path(u)}
        /\ snap[u] = index /\ Due(u) = {} /\ Path(u)' = Path(u)
    BY <1>3, <1>t DEF DelCommit, Due, Tidy, Path
  <2>2. Due(u)' = {Path(u)}
    BY <2>1 DEF Due
  <2>3. Tidy(u)'
    BY <1>f, <2>1, <2>2 DEF Tidy, Agrees, Texts
  <2> QED
    BY <2>1, <2>3 DEF After, Active
<1>4. CASE Remove(u)
  <2>1. /\ DOMAIN files' = {q \in DOMAIN files : ~Within(q, Path(u))}
        /\ UNCHANGED <<index, req>> /\ fs'[u] /\ Due(u) = {Path(u)}
        /\ pc'[u] \in {"check", "done"}
    BY <1>4, <1>t DEF Remove, Due
  <2>2. /\ Path(u) \in Paths /\ Op(u) = "delete"
        /\ Path(u) \in RangeOf(req[u].paths)
    <3>1. Path(u) \in Paths /\ Op(u) = "delete" /\ todo[u] # <<>> /\ todo[u] \in Seq(Paths)
      BY <1>4, PathIs DEF Remove, Active, Inv, Doing
    <3>2. Path(u) \in RangeOf(todo[u])
      BY <3>1 DEF RangeOf, Path
    <3> QED
      BY <3>1, <3>2 DEF Inv, Doing
  <2>3. Within(Path(u), Path(u))
    <3>1. Path(u) \in Seq(STRING)
      BY <2>2, AttrAssumption
    <3> QED
      BY <3>1 DEF Within
  <2>4. \A p \in Paths : Within(p, Path(u)) /\ p # Path(u) => p \in Orphans'
    BY <2>1, <2>2 DEF Orphans, InDeletedFolder, Op
  <2>5. index \subseteq Paths
    BY DEF Inv, TypeOK
  <2>6. Texts(DOMAIN files') \subseteq Texts(DOMAIN files \ {Path(u)})
    BY <2>1, <2>3 DEF Texts
  <2>7. \A p \in Texts(DOMAIN files \ {Path(u)}) :
          p \in Texts(DOMAIN files') \/ (Within(p, Path(u)) /\ p # Path(u))
    BY <2>1 DEF Texts
  <2>8. Exact'
    BY <1>f, <2>1, <2>4, <2>5, <2>6, <2>7 DEF Exact, Agrees, Texts
  <2>9. Due(u)' = {}
    BY <2>1 DEF Due
  <2>10. Tidy(u)' \/ pc'[u] = "done"
    BY <1>f, <2>1, <2>8, <2>9 DEF Tidy, Exact, Agrees, Texts
  <2> QED
    BY <2>1, <2>8, <2>10 DEF After, Active
<1> QED
  BY <1>1, <1>2, <1>3, <1>4, <1>5

(* Only a search can be cut short, and it changes nothing.                 *)
LEMMA AfterThrow ==
  ASSUME Orderly, Inv, NEW u \in Users, Tidy(u), Orphans \subseteq Orphans', Throws(u)
  PROVE  After(u)'
<1>1. pc[u] = "stat"
  BY DEF Throws, Tidy, Overtaken, Orderly
<1>2. pc'[u] = "done" /\ UNCHANGED <<files, index>>
  BY <1>1 DEF Throws, Goto, Return, Inv, TypeOK
<1>3. Agrees(DOMAIN files \ Due(u)) /\ Due(u) = {}
  BY <1>1 DEF Tidy, Due
<1> QED
  BY <1>2, <1>3 DEF After, Active, Exact, Agrees, Texts

LEMMA OrderStep ==
  ASSUME DotsAgree, Orderly, Inv, OrderInv, NEW u \in Users, Serve(u)
  PROVE  OrderInv'
<1>0. Orphans \subseteq Orphans'
  BY OrphansStay
<1>1. CASE Begin(u)
  BY <1>0, <1>1, BeginsAlone, AfterBegin, AloneSuffices DEF Inv, OrderInv
<1>2. CASE ~Begin(u)
  <2>1. ~Move(u)
    BY DEF Move, Inv, Doing, Active, Orderly, NoRename, Op
  <2>2. Active(u)
    BY <1>2 DEF Active, Serve, Upload, Delete, Folder, Rename, Download, Search, Key, Encode, EncodeEnds,
       OpenTemp, CheckUpload, Create, Copy, IndexAdd, AddCommit, CheckDelete, CheckKind,
       IndexDel, DelCommit, Remove, CheckFolder, MakeFolder, CheckRename, Move, CheckDownload, Fetch, Query, Stat, CloseDirectory,
       Throws
  <2>3. Tidy(u) /\ \A v \in Users : v # u => ~Active(v)
    BY <2>2 DEF OrderInv
  <2>4. After(u)'
    BY <1>0, <1>2, <2>1, <2>3, AfterPreparing, AfterUpload, AfterDeletion, AfterThrow
       DEF Serve, Upload, Delete, Folder, Rename, Download, Search
  <2> QED
    BY <2>3, <2>4, AloneSuffices DEF Inv
<1> QED
  BY <1>1, <1>2

LEMMA IndexInvStep ==
  ASSUME DotsAgree, IndexInv, [Next]_vars
  PROVE  IndexInv'
<1>1. Inv'
  BY InvStep DEF IndexInv
<1>2. CASE UNCHANGED vars
  <2>1. Orphans' = Orphans
    BY <1>2 DEF vars, Orphans, InDeletedFolder, Op
  <2> QED
    BY <1>1, <1>2, <2>1 DEF vars, IndexInv, Orderly, NoRename, Given, OrderInv, Active, Tidy,
       Exact, Agrees, Texts, Due, Path, Beginning
<1>3. ASSUME UNCHANGED setting, NEW u \in Users, Serve(u) PROVE IndexInv'
  BY <1>1, <1>3, OrderStep DEF IndexInv, Orderly, NoRename, Given
<1> QED
  BY <1>2, <1>3 DEF Next

(* Requests served one after the other, none of them a rename, with HDFS   *)
(* up: between requests the index names every text document of the drive,  *)
(* and otherwise only documents deleted together with a folder, if the     *)
(* deletion recognises the same paths as the upload.                       *)
THEOREM IndexNamesTheTexts ==
  ASSUME DotsAgree PROVE Spec => []IndexExact
<1>1. Init => IndexInv
  BY InvInit DEF Init, Nothing, IndexInv, OrderInv, Active, Exact, Agrees, Texts
<1>2. IndexInv => IndexExact
  BY DEF IndexInv, OrderInv, Exact, Agrees, Orphans, IndexExact
<1>3. IndexInv /\ [Next]_vars => IndexInv'
  BY IndexInvStep
<1> QED
  BY <1>1, <1>2, <1>3, PTL DEF Spec
=============================================================================
