----------------------------- MODULE FileStore -----------------------------
(***************************************************************************)
(* The drive's files: hdfs.hdfsOperation and fileactions.FileOperation,    *)
(* with the text index of luceneSearch.LuceneOperation.  Each request runs *)
(* on its own thread; between its calls to HDFS, to the index and to the   *)
(* local temporary file, any other request may run.                        *)
(*                                                                         *)
(* Four things are shared without a lock: the HDFS namespace, the file     *)
(* tmpEnDeDir\<name> in which a document is encrypted, the static table of *)
(* encrypted blocks (module EnDeFile), and the one FileSystem object that  *)
(* FileSystem.get hands to everybody and that the end of a search closes.  *)
(*                                                                         *)
(* A path is the sequence of its components; the root <<>> is no entry of  *)
(* the namespace.  A file's bytes are [by, part, sealed]: the request that *)
(* uploaded them, whether they are whole, and whether they are encrypted.  *)
(***************************************************************************)
EXTENDS Integers, Sequences, FiniteSets

CONSTANTS Users,      \* the requests, each on a thread of its own
          Paths,      \* paths in the drive
          Attr,       \* Attr[p]: what the code reads off path p, see below
          Settings    \* Settings[s]: what is asked of the drive in s, and what befalls it

(* sealed:    docCheck(whole path), asked on upload                        *)
(* opened:    docCheck(file name), asked on download                       *)
(* ext:       "indexed" (txt, pdf, doc), "other", or "none"                *)
(* unindexed: the text after the FIRST dot is txt, pdf or doc, on deletion *)
ASSUME AttrAssumption ==
  \A p \in Paths : /\ p \in Seq(STRING) \ {<<>>}
                   /\ Attr[p].sealed \in BOOLEAN /\ Attr[p].opened \in BOOLEAN
                   /\ Attr[p].unindexed \in BOOLEAN
                   /\ Attr[p].ext \in {"indexed", "other", "none"}
ASSUME UsersFinite == IsFiniteSet(Users)
(* requests[u]: what u may ask for: [op, paths, to]                        *)
(* to:          the new path of a rename; the stamped name of a new folder *)
(* faults:      what may go wrong: "key", "hdfs", "encode_none", "encode_part" *)
(* atOnce:      bound: requests in progress together                       *)
ASSUME SettingAssumption ==
  \A s \in DOMAIN Settings : \A u \in Users : \A r \in Settings[s].requests[u] :
                      /\ r.op \in {"upload", "folder", "delete", "rename", "download", "search"}
                      /\ r.paths \in Seq(Paths)
                      /\ r.op # "search" => r.paths # <<>>
                      /\ r.op \in {"rename", "folder"} => r.to \in Paths

VARIABLES files,    \* the files of the HDFS namespace: path -> bytes
          folders,  \* the paths of its folders
          tmp,      \* Key\tmpEnDeDir: name -> bytes
          index,    \* the paths of the documents in the committed index
          hasIndex, \* something has been committed to the index's directory
          stale,    \* encoded_list may hold blocks of an encryption that failed
          spoilt,   \* (history) uploads whose temporary file need not be theirs
          pc,       \* pc[u]: where request u stands
          req,      \* req[u]: what it was asked
          todo,     \* todo[u]: the paths it has not dealt with
          fs,       \* fs[u]: its FileSystem is not closed
          dir,      \* dir[u]: nor is the one of its HdfsDirectory
          snap,     \* snap[u]: the index as its writer or reader opened it
          res,      \* res[u]: what it returned
          setting   \* the setting chosen

cipher == <<stale, spoilt>>
vars == <<files, folders, tmp, index, hasIndex, cipher, pc, req, todo, fs, dir, snap, res, setting>>

Given == Settings[setting]
Op(u) == req[u].op
Path(u) == todo[u][1]
Last(p) == p[Len(p)]
Name(u) == Last(Path(u))
Active(u) == pc[u] \notin {"idle", "done"}

(* HDFS: what exists, what lies at or under a path, the folders above it.  *)
Exists(p) == p \in DOMAIN files \cup folders
Within(q, p) == Len(p) <= Len(q) /\ SubSeq(q, 1, Len(p)) = p
Above(p) == {SubSeq(p, 1, n) : n \in 1..(Len(p) - 1)}

Set(f, k, v) == [x \in DOMAIN f \cup {k} |-> IF x = k THEN v ELSE f[x]]
Drop(f, k) == [x \in DOMAIN f \ {k} |-> f[x]]
Nothing == [x \in {} |-> 0]

Init == /\ files = Nothing /\ folders = {} /\ stale = FALSE /\ spoilt = {}
        /\ tmp = Nothing /\ index = {} /\ hasIndex \in BOOLEAN
        /\ pc = [u \in Users |-> "idle"]
        /\ req = [u \in Users |-> [op |-> "search", paths |-> <<>>]]
        /\ todo = [u \in Users |-> <<>>]
        /\ fs = [u \in Users |-> FALSE] /\ dir = [u \in Users |-> FALSE]
        /\ snap = [u \in Users |-> {}]
        /\ res = [u \in Users |-> "none"]
        /\ setting \in DOMAIN Settings

Goto(u, phase) == pc' = [pc EXCEPT ![u] = phase] /\ UNCHANGED res
Return(u, r) == pc' = [pc EXCEPT ![u] = "done"] /\ res' = [res EXCEPT ![u] = r]

(* copyFile sends a document to uploadDocFile, any other file to uploadFile.*)
FirstPhase(r) == CASE r.op = "search" -> "query"
                   [] r.op = "upload" /\ Attr[r.paths[1]].sealed -> "key"
                   [] OTHER -> "check"

Begin(u) ==
  /\ pc[u] = "idle"
  /\ Cardinality({v \in Users : Active(v)}) < Given.atOnce
  /\ \E r \in Given.requests[u] : /\ req' = [req EXCEPT ![u] = r]
                         /\ todo' = [todo EXCEPT ![u] = r.paths]
                         /\ Goto(u, FirstPhase(r))
  /\ fs' = [fs EXCEPT ![u] = TRUE]
  /\ UNCHANGED <<files, folders, cipher, tmp, index, hasIndex, dir, snap>>
-----------------------------------------------------------------------------
(* uploadDocFile: the key, then the encrypted copy in the temporary file.  *)

Encrypting(u) == pc[u] \in {"encode", "encoding"}

(* The uploads that share encoded_list with others' blocks once u encrypts.*)
Sharing(u) ==
  LET others == {v \in Users \ {u} : Encrypting(v)}
  IN  others \cup IF others # {} \/ stale THEN {u} ELSE {}

Key(u) ==
  /\ pc[u] = "key"
  /\ \/ Goto(u, "encode") /\ spoilt' = spoilt \cup Sharing(u)
     \/ "key" \in Given.faults /\ Return(u, "false") /\ UNCHANGED spoilt
  /\ UNCHANGED <<files, folders, stale, tmp, index, hasIndex, req, todo, fs, dir, snap>>

(* What opening the output leaves in the file.                             *)
(* Mutant of Truncated: it is opened for appending.                        *)
Appended(u) == IF Name(u) \in DOMAIN tmp THEN tmp[Name(u)]
               ELSE [by |-> u, sealed |-> TRUE, part |-> "some"]
Truncated(u) == [by |-> u, sealed |-> TRUE, part |-> "some"]

(* A document encrypted and not copied as yet.                             *)
Pending(u) == /\ pc[u] \in {"temp", "check", "create", "copy"}
              /\ Op(u) = "upload" /\ Attr[Path(u)].sealed

(* Uploads that have not copied the temporary file u is about to truncate. *)
Namesakes(u) == {v \in Users \ {u} : Pending(v) /\ Name(v) = Name(u)}

(* fileEncode encrypts, then opens its output; or it throws before, and    *)
(* uploadDocFile logs the exception and goes on.                           *)
Encode(u) ==
  /\ pc[u] = "encode"
  /\ \/ /\ tmp' = Set(tmp, Name(u), Truncated(u)) /\ Goto(u, "encoding")
        /\ spoilt' = spoilt \cup Namesakes(u) /\ UNCHANGED stale
     \/ /\ "encode_none" \in Given.faults /\ UNCHANGED tmp /\ Goto(u, "temp")
        /\ spoilt' = spoilt \cup {u} /\ stale' = TRUE
  /\ UNCHANGED <<files, folders, index, hasIndex, req, todo, fs, dir, snap>>

(* It writes the entries of encoded_list and clears it.  They are its own  *)
(* blocks, unless other uploads' blocks came under the same numbers; and   *)
(* another upload of that name may have truncated the file.                *)
Written(u) == IF tmp[Name(u)] # Truncated(u) THEN {"mixed"}
              ELSE IF u \in spoilt THEN {"whole", "mixed", "some"} ELSE {"whole"}

WriteBlocks(u) ==
  /\ \E part \in Written(u) : tmp' = [tmp EXCEPT ![Name(u)].part = part]
  /\ stale' \in {FALSE, stale} /\ UNCHANGED spoilt

(* Or it throws half way, with the table as it is: an entry is missing,    *)
(* which another upload's clear() brings about too; or the cipher rejected *)
(* its last blocks, and nobody is told.                                    *)
WriteCut(u) ==
  /\ "encode_part" \in Given.faults \/ u \in spoilt
  /\ spoilt' = spoilt \cup {u} /\ stale' \in BOOLEAN /\ UNCHANGED tmp

EncodeEnds(u) ==
  /\ pc[u] = "encoding"
  /\ WriteBlocks(u) \/ WriteCut(u)
  /\ Goto(u, "temp")
  /\ UNCHANGED <<files, folders, index, hasIndex, req, todo, fs, dir, snap>>

(* The temporary file is opened for reading, and a FileSystem is asked for.*)
OpenTemp(u) ==
  /\ pc[u] = "temp"
  /\ IF Name(u) \in DOMAIN tmp THEN Goto(u, "check") ELSE Return(u, "false")
  /\ fs' = [fs EXCEPT ![u] = TRUE]
  /\ UNCHANGED <<files, folders, cipher, tmp, index, hasIndex, req, todo, dir, snap>>
-----------------------------------------------------------------------------
(* uploadFile, and the end of uploadDocFile.                               *)

Refused(u) == \/ Exists(Path(u))
              \/ Attr[Path(u)].sealed /\ Attr[Path(u)].ext = "none"

CheckUpload(u) ==
  /\ pc[u] = "check" /\ Op(u) = "upload" /\ fs[u]
  /\ IF Refused(u) THEN Return(u, "false") ELSE Goto(u, "create")
  /\ UNCHANGED <<files, folders, cipher, tmp, index, hasIndex, req, todo, fs, dir, snap>>

Beginning(u) == [by |-> u, part |-> "open", sealed |-> Attr[Path(u)].sealed]

(* A request is writing the file at path p: HDFS gives nobody else a lease.*)
Leased(p) ==
  /\ p \in DOMAIN files /\ files[p].part = "open"
  /\ pc[files[p].by] = "copy" /\ fs[files[p].by]

(* No file can be at p: a folder is there, or a file where a folder of its *)
(* path should be.                                                         *)
Blocked(p) == p \in folders \/ Above(p) \cap DOMAIN files # {}

(* fs.create overwrites what is there, unless it is still being written;   *)
(* it makes the folders of the path.                                       *)
Create(u) ==
  /\ pc[u] = "create" /\ fs[u]
  /\ IF Leased(Path(u)) \/ Blocked(Path(u))
     THEN UNCHANGED <<files, folders>> /\ Return(u, "false")
     ELSE /\ files' = Set(files, Path(u), Beginning(u))
          /\ folders' = folders \cup Above(Path(u))
          /\ Goto(u, "copy")
  /\ UNCHANGED <<tmp, index, hasIndex, cipher, req, todo, fs, dir, snap>>

(* The bytes copied: the temporary file as it is now, or the upload itself.*)
(* Mutant: the plain upload in either case.                                *)
UploadItself(u) == [by |-> u, part |-> "whole", sealed |-> FALSE]
Source(u) == IF Attr[Path(u)].sealed THEN tmp[Name(u)]
             ELSE [by |-> u, part |-> "whole", sealed |-> FALSE]

(* Others that have the temporary file open keep it from being deleted.    *)
TempInUse(u) ==
  \E v \in Users \ {u} :
    /\ pc[v] \in {"encoding", "check", "create", "copy"} /\ Op(v) = "upload"
    /\ Attr[Path(v)].sealed /\ Name(v) = Name(u)

(* copyBytes.  HDFS finds the file being written by its path: when it was  *)
(* deleted or renamed meanwhile, closing it fails.  The temporary file is  *)
(* deleted if nobody has it open; an upload refused at CheckUpload never   *)
(* closed it, so it may stay in any case.                                  *)
Copy(u) ==
  /\ pc[u] = "copy" /\ fs[u]
  /\ IF Path(u) \in DOMAIN files /\ files[Path(u)] = Beginning(u)
     THEN /\ files' = [files EXCEPT ![Path(u)] = Source(u)]
          /\ \/ UNCHANGED tmp
             \/ /\ Attr[Path(u)].sealed /\ ~TempInUse(u)
                /\ tmp' = Drop(tmp, Name(u))
          /\ IF Attr[Path(u)].sealed THEN Goto(u, "add") ELSE Return(u, "true")
     ELSE UNCHANGED <<files, tmp>> /\ Return(u, "false")
  /\ UNCHANGED <<folders, cipher, index, hasIndex, req, todo, fs, dir, snap>>
-----------------------------------------------------------------------------
(* LuceneOperation.  A writer starts from the committed index; there is no *)
(* lock, so a commit replaces whatever was committed since.                *)

IndexAdd(u) ==
  /\ pc[u] = "add"
  /\ IF Attr[Path(u)].ext = "indexed" THEN Goto(u, "addCommit") ELSE Return(u, "false")
  /\ snap' = [snap EXCEPT ![u] = index]
  /\ dir' = [dir EXCEPT ![u] = TRUE]
  /\ UNCHANGED <<files, folders, cipher, tmp, index, hasIndex, req, todo, fs>>

AddCommit(u) ==
  /\ pc[u] = "addCommit" /\ dir[u]
  /\ index' = snap[u] \cup {Path(u)} /\ hasIndex' = TRUE
  /\ Return(u, "true")
  /\ UNCHANGED <<files, folders, cipher, tmp, req, todo, fs, dir, snap>>

IndexDel(u) ==
  /\ pc[u] = "unindex"
  /\ snap' = [snap EXCEPT ![u] = index]
  /\ dir' = [dir EXCEPT ![u] = TRUE]
  /\ Goto(u, "delCommit")
  /\ UNCHANGED <<files, folders, cipher, tmp, index, hasIndex, req, todo, fs>>

DelCommit(u) ==
  /\ pc[u] = "delCommit" /\ dir[u]
  /\ index' = snap[u] \ {Path(u)} /\ hasIndex' = TRUE
  /\ Goto(u, "remove")
  /\ UNCHANGED <<files, folders, cipher, tmp, req, todo, fs, dir, snap>>

(* DirectoryReader.open throws when nothing was ever committed.            *)
Query(u) ==
  /\ pc[u] = "query"
  /\ snap' = [snap EXCEPT ![u] = index]
  /\ dir' = [dir EXCEPT ![u] = TRUE]
  /\ IF hasIndex THEN Goto(u, "stat") ELSE Return(u, "noindex")
  /\ UNCHANGED <<files, folders, cipher, tmp, index, hasIndex, req, todo, fs>>

(* A hit is looked up in HDFS; one that is gone ends the whole search.     *)
Stat(u) ==
  /\ pc[u] = "stat" /\ dir[u]
  /\ \E p \in snap[u] :
       /\ snap' = [snap EXCEPT ![u] = @ \ {p}]
       /\ IF Exists(p) THEN Goto(u, "stat") ELSE Return(u, "false")
  /\ UNCHANGED <<files, folders, cipher, tmp, index, hasIndex, req, todo, fs, dir>>

(* directory.close() closes the FileSystem that every request in progress  *)
(* is using; requests that ask for one later get a new one.                *)
CloseDirectory(u) ==
  /\ pc[u] = "stat" /\ snap[u] = {}
  /\ fs' = IF dir[u] THEN [v \in Users |-> FALSE] ELSE fs
  /\ dir' = IF dir[u] THEN [v \in Users |-> FALSE] ELSE dir
  /\ Return(u, "true")
  /\ UNCHANGED <<files, folders, cipher, tmp, index, hasIndex, req, todo, snap>>
-----------------------------------------------------------------------------
(* FileDelete: the files and folders of the request one after the other,   *)
(* until one is missing.                                                   *)

CheckDelete(u) ==
  /\ pc[u] = "check" /\ Op(u) = "delete" /\ fs[u]
  /\ IF Exists(Path(u)) THEN Goto(u, "kind") ELSE Return(u, "false")
  /\ UNCHANGED <<files, folders, cipher, tmp, index, hasIndex, req, todo, fs, dir, snap>>

(* Only a file is taken out of the index, never what a folder holds.       *)
(* Mutant of AfterDelete: the index keeps the document.                    *)
NotUnindexed(p) == "remove"
AfterDelete(p) == IF p \in DOMAIN files /\ Attr[p].unindexed THEN "unindex" ELSE "remove"

CheckKind(u) ==
  /\ pc[u] = "kind" /\ fs[u]
  /\ Goto(u, AfterDelete(Path(u)))
  /\ UNCHANGED <<files, folders, cipher, tmp, index, hasIndex, req, todo, fs, dir, snap>>

More(u) == Len(todo[u]) > 1

(* fs.delete takes what is under a folder with it.                         *)
Remove(u) ==
  /\ pc[u] = "remove" /\ fs[u]
  /\ files' = [p \in {q \in DOMAIN files : ~Within(q, Path(u))} |-> files[p]]
  /\ folders' = {q \in folders : ~Within(q, Path(u))}
  /\ IF More(u)
     THEN todo' = [todo EXCEPT ![u] = Tail(@)] /\ Goto(u, "check")
     ELSE UNCHANGED todo /\ Return(u, "true")
  /\ fs' = [fs EXCEPT ![u] = TRUE]
  /\ UNCHANGED <<tmp, index, hasIndex, cipher, req, dir, snap>>

(* FolderCreate: a name that is taken gets the time appended, and whether  *)
(* that one is taken is not asked.                                         *)
CheckFolder(u) ==
  /\ pc[u] = "check" /\ Op(u) = "folder" /\ fs[u]
  /\ todo' = IF Exists(Path(u)) THEN [todo EXCEPT ![u] = <<req[u].to>>] ELSE todo
  /\ Goto(u, "mkdirs")
  /\ UNCHANGED <<files, folders, cipher, tmp, index, hasIndex, req, fs, dir, snap>>

MakeFolder(u) ==
  /\ pc[u] = "mkdirs" /\ fs[u]
  /\ IF ({Path(u)} \cup Above(Path(u))) \cap DOMAIN files # {}
     THEN UNCHANGED folders /\ Return(u, "false")
     ELSE folders' = folders \cup {Path(u)} \cup Above(Path(u)) /\ Return(u, "true")
  /\ UNCHANGED <<files, cipher, tmp, index, hasIndex, req, todo, fs, dir, snap>>

(* FileRename: the index is not told, and rename's answer is not read.     *)
CheckRename(u) ==
  /\ pc[u] = "check" /\ Op(u) = "rename" /\ fs[u]
  /\ IF Exists(Path(u)) /\ ~Exists(req[u].to) THEN Goto(u, "move") ELSE Return(u, "false")
  /\ UNCHANGED <<files, folders, cipher, tmp, index, hasIndex, req, todo, fs, dir, snap>>

(* fs.rename moves into a folder that has come to be there, and refuses    *)
(* what is taken, under the source, or has no folder to be in.             *)
Target(u) == IF req[u].to \in folders THEN Append(req[u].to, Name(u)) ELSE req[u].to
Movable(u) == /\ Exists(Path(u)) /\ ~Exists(Target(u))
              /\ ~Within(Target(u), Path(u)) /\ Above(Target(u)) \subseteq folders

(* Where the entry at path q is when u's folder or file has been moved.    *)
Moved(q, u) == IF Within(q, Path(u))
               THEN Target(u) \o SubSeq(q, Len(Path(u)) + 1, Len(q)) ELSE q

Move(u) ==
  /\ pc[u] = "move" /\ fs[u]
  /\ IF Movable(u)
     THEN /\ files' = [p \in {Moved(q, u) : q \in DOMAIN files} |->
                         files[CHOOSE q \in DOMAIN files : Moved(q, u) = p]]
          /\ folders' = {Moved(q, u) : q \in folders}
     ELSE UNCHANGED <<files, folders>>
  /\ Return(u, "true")
  /\ UNCHANGED <<tmp, index, hasIndex, cipher, req, todo, fs, dir, snap>>

(* getDownloadTmpFile and getDownloadNotDocFile: the file is copied, and   *)
(* decrypted when its NAME looks like a document's.                        *)
CheckDownload(u) ==
  /\ pc[u] = "check" /\ Op(u) = "download" /\ fs[u]
  /\ IF Path(u) \in DOMAIN files THEN Goto(u, "fetch") ELSE Return(u, "false")
  /\ UNCHANGED <<files, folders, cipher, tmp, index, hasIndex, req, todo, fs, dir, snap>>

Delivered(u, b) == CASE b.part # "whole" -> "part"
                     [] b.sealed # Attr[Path(u)].opened -> "garbled"
                     [] OTHER -> "true"

(* Two documents decrypted at once share decoded_list: neither is sure of  *)
(* its own blocks.                                                         *)
Fetch(u) ==
  /\ pc[u] = "fetch" /\ fs[u]
  /\ \/ IF Path(u) \in DOMAIN files
        THEN Return(u, Delivered(u, files[Path(u)])) ELSE Return(u, "false")
     \/ Attr[Path(u)].opened /\ Given.atOnce > 1 /\ Return(u, "part")
  /\ UNCHANGED <<files, folders, cipher, tmp, index, hasIndex, req, todo, fs, dir, snap>>
-----------------------------------------------------------------------------
(* An HDFS call throws: the FileSystem was closed, or the cluster failed.  *)
(* A commit or a search may also throw because another commit deleted the  *)
(* segments under it.  The request returns false, except that indexDel's   *)
(* answer is not read and that a download which is not decrypted delivers  *)
(* what it has.                                                            *)
Overtaken(u) == \/ pc[u] \in {"addCommit", "delCommit"} /\ snap[u] # index
                \/ pc[u] = "stat" /\ ~(snap[u] \subseteq index)

Throws(u) ==
  /\ \/ pc[u] \in {"check", "create", "copy", "kind", "remove", "mkdirs", "move", "fetch"}
        /\ (~fs[u] \/ "hdfs" \in Given.faults)
     \/ pc[u] \in {"addCommit", "delCommit", "stat"}
        /\ (~dir[u] \/ Overtaken(u) \/ "hdfs" \in Given.faults)
  /\ IF pc[u] = "delCommit" THEN Goto(u, "remove")
     ELSE Return(u, IF pc[u] = "fetch" /\ ~Attr[Path(u)].opened THEN "part" ELSE "false")
  /\ UNCHANGED <<files, folders, cipher, tmp, index, hasIndex, req, todo, fs, dir, snap>>

Upload(u) == \/ Key(u) \/ Encode(u) \/ EncodeEnds(u) \/ OpenTemp(u)
             \/ CheckUpload(u) \/ Create(u) \/ Copy(u) \/ IndexAdd(u) \/ AddCommit(u)
Delete(u) == CheckDelete(u) \/ CheckKind(u) \/ IndexDel(u) \/ DelCommit(u) \/ Remove(u)
Folder(u) == CheckFolder(u) \/ MakeFolder(u)
Rename(u) == CheckRename(u) \/ Move(u)
Download(u) == CheckDownload(u) \/ Fetch(u)
Search(u) == Query(u) \/ Stat(u) \/ CloseDirectory(u)

Serve(u) == \/ Begin(u) \/ Upload(u) \/ Delete(u) \/ Folder(u) \/ Rename(u)
            \/ Download(u) \/ Search(u) \/ Throws(u)

Next == (\E u \in Users : Serve(u)) /\ UNCHANGED setting

Spec == Init /\ [][Next]_vars
-----------------------------------------------------------------------------
(* When an upload is reported successful its own bytes, whole, and         *)
(* encrypted if it is a document, are in HDFS under its path, whatever     *)
(* earlier uploads left in the temporary file and whatever is deleted,     *)
(* renamed, created or fails meanwhile.  Three things alone can spoil it:  *)
(* its own encryption failing (hdfsOperation.java:240), encoded_list       *)
(* shared with an encryption at the same time or one that threw before     *)
(* (encodeThread.java:6), and a document of the same name encrypted before *)
(* this one was copied (hdfsOperation.java:237).                           *)
ReportsOwn(u) ==
  pc[u] = "copy" /\ (pc'[u] = "add" \/ res'[u] = "true") /\ u \notin spoilt =>
    /\ Path(u) \in DOMAIN files'
    /\ files'[Path(u)] = [by |-> u, part |-> "whole", sealed |-> Attr[Path(u)].sealed]
ReportedWhole == [][\A u \in Users : ReportsOwn(u)]_vars

(* Nobody asks for a rename.                                               *)
NoRename == \A u \in Users : \A r \in Given.requests[u] : r.op # "rename"

(* Requests one after the other, none of them a rename, and nothing wrong  *)
(* but the key and the encryption.                                         *)
Orderly == Given.atOnce = 1 /\ NoRename /\ "hdfs" \notin Given.faults

(* The text documents among the files of F.                                *)
Texts(F) == {p \in F : Attr[p].sealed /\ Attr[p].ext = "indexed"}

RangeOf(seq) == {seq[n] : n \in 1..Len(seq)}

(* A folder that path p lies in has been asked to be deleted.              *)
InDeletedFolder(p) ==
  \E u \in Users : Op(u) = "delete" /\ \E f \in RangeOf(req[u].paths) : p # f /\ Within(p, f)

(* Between requests the index holds every text document of the drive, and  *)
(* whatever else it holds was deleted together with a folder (the only     *)
(* deletion the index is not told of, hdfsOperation.java:129), whatever    *)
(* was uploaded, refused, deleted or failed to encrypt: only there can a   *)
(* search meet a document that is gone.                                    *)
IndexExact ==
  Orderly /\ (\A u \in Users : ~Active(u)) =>
    /\ Texts(DOMAIN files) \subseteq index
    /\ \A p \in index : p \in Texts(DOMAIN files) \/ InDeletedFolder(p)

(* A download delivers a document decrypted, and any other file as it is,  *)
(* never the encrypted bytes and never the result of decrypting plain ones,*)
(* provided docCheck says the same of its path and of its name; whatever   *)
(* else goes on, as long as no file was renamed.                           *)
DownloadReadable ==
  NoRename => \A u \in Users : res[u] = "garbled" =>
                Attr[req[u].paths[1]].sealed # Attr[req[u].paths[1]].opened
=============================================================================
