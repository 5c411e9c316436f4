---------------------------- MODULE MC_FileStore ----------------------------
(* Small instances of FileStore: paths as the code reads them, and requests.*)
EXTENDS FileStore, TLC

TextFile == [sealed |-> TRUE, opened |-> TRUE, ext |-> "indexed", unindexed |-> TRUE]
Photo    == [sealed |-> FALSE, opened |-> FALSE, ext |-> "other", unindexed |-> FALSE]
Page     == [sealed |-> TRUE, opened |-> TRUE, ext |-> "other", unindexed |-> FALSE]
(* A file without an extension, in a folder whose name contains "doc".     *)
Note     == [sealed |-> TRUE, opened |-> FALSE, ext |-> "none", unindexed |-> FALSE]
(* A photo in such a folder: encrypted on upload, not decrypted.           *)
DocPhoto == [sealed |-> TRUE, opened |-> FALSE, ext |-> "other", unindexed |-> FALSE]
Plain    == [sealed |-> FALSE, opened |-> FALSE, ext |-> "none", unindexed |-> FALSE]

(* "/a.txt" and "/f/a.txt" share a temporary file.                         *)
aTxt == <<"a.txt">>
f    == <<"f">>
fTxt == <<"f", "a.txt">>
g    == <<"g">>
page == <<"w.html">>
photo == <<"p.jpg">>
note == <<"doc", "note">>
docPhoto == <<"doc", "p.jpg">>
MCPaths == {aTxt, f, fTxt, g, page, photo, note, docPhoto}

MCAttr == [p \in MCPaths |-> CASE p \in {f, g} -> Plain
                               [] p = photo -> Photo
                               [] p = page -> Page
                               [] p = note -> Note
                               [] p = docPhoto -> DocPhoto
                               [] OTHER -> TextFile]

Up(p) == [op |-> "upload", paths |-> <<p>>]
Down(p) == [op |-> "download", paths |-> <<p>>]
Del(s) == [op |-> "delete", paths |-> s]
Ren(p, q) == [op |-> "rename", paths |-> <<p>>, to |-> q]
Dir(p, q) == [op |-> "folder", paths |-> <<p>>, to |-> q]
Find == [op |-> "search", paths |-> <<>>]

(* Requests one after the other, the key missing, encryption failing,      *)
(* folders made, deleted with what they hold, and filled again.            *)
CONSTANTS u1, u2, u3, u4
Sequential ==
  [requests |-> [u \in Users |->
                   CASE u = u1 -> {Up(fTxt), Up(photo), Up(docPhoto), Up(note), Dir(f, g)}
                     [] u = u2 -> {Up(aTxt), Del(<<f>>), Del(<<photo, fTxt>>), Down(docPhoto)}
                     [] OTHER -> {Up(fTxt), Del(<<f>>), Del(<<photo, fTxt>>), Down(fTxt), Find}],
   faults   |-> {"key", "encode_none", "encode_part"},
   atOnce   |-> 1]

(* Two at once that upload documents under one name or under two, while    *)
(* the others delete, rename and make folders or search.                   *)
Crossing ==
  [requests |-> [u \in Users |->
                   CASE u = u1 -> {Up(fTxt)}
                     [] u = u2 -> {Up(photo), Up(aTxt), Up(page)}
                     [] OTHER -> {Del(<<f>>), Ren(photo, fTxt), Ren(f, g), Find}],
   faults   |-> {},
   atOnce   |-> 3]

(* Two at once with HDFS failing at any step.                              *)
Failing ==
  [requests |-> [u \in Users |->
                   CASE u = u1 -> {Up(fTxt)}
                     [] u = u2 -> {Up(aTxt), Down(fTxt)}
                     [] OTHER -> {Del(<<f>>), Ren(f, g), Find}],
   faults   |-> {"key", "hdfs"},
   atOnce   |-> 2]

AllSettings == [s \in {"sequential", "crossing", "failing"} |->
                  CASE s = "crossing" -> Crossing [] s = "failing" -> Failing
                    [] OTHER -> Sequential]
UserSymmetry == Permutations({u3, u4})
=============================================================================
