------------------------ MODULE UploadProgressProofs ------------------------
(***************************************************************************)
(* For any drive, table, requests and uploads: the rows belong to the      *)
(* folder the label names, a user who waits sees the drive, and the bar of *)
(* uploads that follow one another shows their own progress.               *)
(***************************************************************************)
EXTENDS UploadProgress, FiniteSetTheorems, TLAPS

-----------------------------------------------------------------------------
(* Types.  A row that has been filled is named after a file; only the      *)
(* prompt has a row in hand.                                               *)
DriveOK == drive \in [Folders -> [Names -> Kinds]]
TableOK ==
  /\ row \in [Rows -> Cells]
  /\ label \in Folders
  /\ view # "sample" => \A r \in Shown : row[r].name \in Names
  /\ chosen # None => row[chosen].name \in Names
BoxOK ==
  /\ view \in {"sample", "listing", "hits"}
  /\ box \in {"none", "message", "prompt", "bar"}
  /\ chosen \in Rows \cup {None}
  /\ box = "prompt" => chosen # None /\ view = "listing"
CallsOK == calls \in [Calls -> Call \cup {None}]
UserOK ==
  /\ left \in [requests : Nat, uploads : Nat]
  /\ astray \in BOOLEAN /\ quiet \in BOOLEAN /\ orderly \in BOOLEAN
  /\ dialog \in Folders \cup {None}
ServerOK ==
  /\ phase \in [Uploads -> {"none", "sent", "reading", "copying", "ok", "failed"}]
  /\ to \in [Uploads -> Folders \X (Names \cup {Sample})]
  /\ \A u \in Uploads : phase[u] # "none" => to[u][2] \in Names
  /\ read \in [Uploads -> 0..Total]
  /\ session \in 0..Total \cup {None}
  /\ threw \in BOOLEAN
Poll == [state : {"none", "sent", "served"}, found : 0..Total \cup {None}]
TaskOK ==
  /\ task \in [Uploads -> {"none", "on", "stopped"}]
  /\ poll \in [Uploads -> [Polls -> Poll]]
  /\ bar \in [of : Uploads \cup {None}, shows : 0..Total]
TypeOK == DriveOK /\ TableOK /\ BoxOK /\ CallsOK /\ UserOK /\ ServerOK /\ TaskOK

(* A part of the state that a step leaves alone keeps its type.            *)
LEMMA Kept ==
  /\ DriveOK /\ UNCHANGED drive => DriveOK'
  /\ TableOK /\ UNCHANGED <<row, label, view, chosen>> => TableOK'
  /\ BoxOK /\ UNCHANGED <<view, box, chosen>> => BoxOK'
  /\ UserOK /\ UNCHANGED <<left, astray, quiet, orderly, dialog>> => UserOK'
  /\ ServerOK /\ UNCHANGED server => ServerOK'
  /\ TaskOK /\ UNCHANGED <<task, poll, bar>> => TaskOK'
BY DEF DriveOK, TableOK, BoxOK, UserOK, ServerOK, TaskOK, server, Shown

-----------------------------------------------------------------------------
(* Requests.                                                               *)

(* The fields a request has depend on what it asks for.                    *)
LEMMA RequestFields ==
  ASSUME NEW q \in Request
  PROVE  /\ q.op \in {"list", "new", "search", "upload", "delete", "rename"}
         /\ q.op # "search" => q.folder \in Folders
         /\ q.op = "delete" => q.names \subseteq Names \cup {Sample}
         /\ q.op = "rename" => q.old \in Names /\ q.new \in Names /\ q.row \in Rows
         /\ q.op = "upload" => q.name \in Names
BY DEF Request

LEMMA CallFields ==
  ASSUME CallsOK, NEW c \in InFlight
  PROVE  /\ c \in Calls /\ calls[c] \in Call
         /\ calls[c].request \in Request
         /\ calls[c].served \in BOOLEAN /\ calls[c].ok \in BOOLEAN
         /\ calls[c].hits \subseteq Hit
BY DEF CallsOK, InFlight, Call

(* The three things that can become of a call; the others are left alone.  *)
LEMMA PostsCall ==
  ASSUME CallsOK, NEW c \in Calls, NEW q \in Request, Posts(c, q)
  PROVE  /\ CallsOK'
         /\ InFlight' = InFlight \cup {c}
         /\ calls'[c] = [request |-> q, served |-> FALSE, ok |-> TRUE, hits |-> {}]
         /\ \A d \in Calls \ {c} : calls'[d] = calls[d]
<1> DEFINE new == [request |-> q, served |-> FALSE, ok |-> TRUE, hits |-> {}]
<1>1. new \in Call
  BY DEF Call
<1>2. new # None
  BY <1>1, NoneAssumption
<1>3. calls' = [calls EXCEPT ![c] = new]
  BY DEF Posts
<1> HIDE DEF new
<1>4. CallsOK' /\ InFlight' = InFlight \cup {c} /\ calls'[c] = new
        /\ \A d \in Calls \ {c} : calls'[d] = calls[d]
  BY <1>1, <1>2, <1>3 DEF CallsOK, InFlight
<1> QED
  BY <1>4 DEF new

LEMMA RepliesCall ==
  ASSUME CallsOK, NEW c \in InFlight, NEW ok \in BOOLEAN, NEW hits \in SUBSET Hit,
         Replies(c, ok, hits)
  PROVE  /\ CallsOK'
         /\ InFlight' = InFlight
         /\ calls'[c] = [request |-> calls[c].request, served |-> TRUE, ok |-> ok, hits |-> hits]
         /\ \A d \in Calls \ {c} : calls'[d] = calls[d]
<1> DEFINE new == [request |-> calls[c].request, served |-> TRUE, ok |-> ok, hits |-> hits]
<1>0. c \in Calls /\ calls[c] \in Call /\ calls[c].request \in Request
  BY CallFields
<1>1. new \in Call
  BY <1>0 DEF Call
<1>2. new # None
  BY <1>1, NoneAssumption
<1>3. calls' = [calls EXCEPT ![c] = new]
  <2>1. PICK old, yes : old = calls[c] /\ yes = TRUE
    OBVIOUS
  <2>2. PICK old1 : old1 = [old EXCEPT !.served = yes]
    OBVIOUS
  <2>3. PICK old2 : old2 = [old1 EXCEPT !.ok = ok]
    OBVIOUS
  <2>4. old = [request |-> old.request, served |-> old.served, ok |-> old.ok, hits |-> old.hits]
    BY <1>0, <2>1 DEF Call
  <2>5. old1 = [request |-> old.request, served |-> yes, ok |-> old.ok, hits |-> old.hits]
    BY <2>2, <2>4
  <2>6. old2 = [request |-> old.request, served |-> yes, ok |-> ok, hits |-> old.hits]
    BY <2>3, <2>5
  <2>7. [old2 EXCEPT !.hits = hits] = new
    <3>1. PICK old3 : old3 = [old2 EXCEPT !.hits = hits]
      OBVIOUS
    <3>2. old3 = [request |-> old.request, served |-> yes, ok |-> ok, hits |-> hits]
      BY <2>6, <3>1
    <3> QED
      BY <2>1, <3>1, <3>2
  <2>8. calls' = [calls EXCEPT ![c] = [old2 EXCEPT !.hits = hits]]
    BY <1>0, <2>1, <2>2, <2>3 DEF Replies, CallsOK
  <2> QED
    BY <2>7, <2>8
<1> HIDE DEF new
<1>4. CallsOK' /\ InFlight' = InFlight /\ calls'[c] = new
        /\ \A d \in Calls \ {c} : calls'[d] = calls[d]
  BY <1>0, <1>1, <1>2, <1>3 DEF CallsOK, InFlight
<1> QED
  BY <1>4 DEF new

LEMMA DoneCall ==
  ASSUME CallsOK, NEW c \in InFlight, Done(c)
  PROVE  /\ CallsOK'
         /\ InFlight' = InFlight \ {c}
         /\ \A d \in Calls \ {c} : calls'[d] = calls[d]
BY DEF CallsOK, InFlight, Done

-----------------------------------------------------------------------------
(* The invariant of the first theorem: the types; what a listing brings is *)
(* one folder's; the requests that were aimed at rows of the table asked   *)
(* their folder.                                                           *)
OneFolder(c) == Asked(c).op = "list" => \A e \in calls[c].hits : e[1] = Asked(c).folder
Right(q) == q.op \in {"rename", "delete"} /\ q.listed => q.right
CallInv == CallsOK /\ \A c \in InFlight : OneFolder(c) /\ Right(Asked(c))
TableInv == TableOK /\ (view = "listing" => FromLabel(Shown))
RowsInv == /\ DriveOK /\ TableInv /\ BoxOK /\ CallInv /\ UserOK /\ ServerOK /\ TaskOK
           /\ ~astray

LEMMA PostsInv ==
  ASSUME CallInv, NEW c \in Calls, NEW q \in Request, Right(q), Posts(c, q)
  PROVE  CallInv'
<1>1. CallsOK' /\ InFlight' = InFlight \cup {c}
        /\ calls'[c] = [request |-> q, served |-> FALSE, ok |-> TRUE, hits |-> {}]
        /\ \A d \in Calls \ {c} : calls'[d] = calls[d]
  BY PostsCall DEF CallInv
<1>2. ASSUME NEW d \in InFlight' PROVE OneFolder(d)' /\ Right(Asked(d))'
  <2>1. CASE d = c
    BY <1>1, <2>1 DEF OneFolder, Right, Asked
  <2>2. CASE d # c
    BY <1>1, <2>2, CallFields DEF OneFolder, Right, Asked, CallInv
  <2> QED
    BY <2>1, <2>2
<1> QED
  BY <1>1, <1>2 DEF CallInv

LEMMA RepliesInv ==
  ASSUME CallInv, NEW c \in InFlight, NEW ok \in BOOLEAN, NEW hits \in SUBSET Hit,
         Asked(c).op = "list" => \A e \in hits : e[1] = Asked(c).folder,
         Replies(c, ok, hits)
  PROVE  CallInv'
<1>1. CallsOK' /\ InFlight' = InFlight
        /\ calls'[c] = [request |-> calls[c].request, served |-> TRUE, ok |-> ok, hits |-> hits]
        /\ \A d \in Calls \ {c} : calls'[d] = calls[d]
  BY RepliesCall DEF CallInv
<1>2. ASSUME NEW d \in InFlight' PROVE OneFolder(d)' /\ Right(Asked(d))'
  <2>1. CASE d = c
    BY <1>1, <2>1 DEF OneFolder, Right, Asked, CallInv
  <2>2. CASE d # c
    BY <1>1, <2>2, CallFields DEF OneFolder, Right, Asked, CallInv
  <2> QED
    BY <2>1, <2>2
<1> QED
  BY <1>1, <1>2 DEF CallInv

LEMMA DoneInv ==
  ASSUME CallInv, NEW c \in InFlight, Done(c)
  PROVE  CallInv'
<1>1. CallsOK' /\ InFlight' = InFlight \ {c} /\ \A d \in Calls \ {c} : calls'[d] = calls[d]
  BY DoneCall DEF CallInv
<1>2. ASSUME NEW d \in InFlight' PROVE OneFolder(d)' /\ Right(Asked(d))'
  BY <1>1, CallFields DEF OneFolder, Right, Asked, CallInv
<1> QED
  BY <1>1, <1>2 DEF CallInv

-----------------------------------------------------------------------------
(* What the server does to the drive.                                      *)

(* Made, Moved and Deleted keep the drive a table of folders and names.    *)
LEMMA MadeOK ==
  ASSUME DriveOK, NEW f \in Folders, NEW n \in Names, NEW kind \in Kinds, Made(f, n, kind)
  PROVE  DriveOK'
<1>1. Root \in Folders /\ (f # Root => f \in Names)
  BY DEF Folders
<1> DEFINE in == [drive EXCEPT ![f][n] = kind]
<1>2. in \in [Folders -> [Names -> Kinds]]
  BY DEF DriveOK
<1>3. drive' = IF f = Root THEN in ELSE [in EXCEPT ![Root][f] = "dir"]
  BY DEF Made
<1> HIDE DEF in
<1> QED
  BY <1>1, <1>2, <1>3 DEF DriveOK, Kinds

LEMMA MovedOK ==
  ASSUME DriveOK, NEW f \in Folders, NEW old \in Names, NEW new \in Names, Moved(f, old, new)
  PROVE  DriveOK'
<1> DEFINE in == [drive EXCEPT ![f][new] = drive[f][old], ![f][old] = "none"]
<1>2. in \in [Folders -> [Names -> Kinds]]
  BY DEF DriveOK, Kinds
<1>3. drive' = IF f = Root THEN [in EXCEPT ![new] = drive[old], ![old] = Empty] ELSE in
  BY DEF Moved
<1>4. drive[old] \in [Names -> Kinds] /\ Empty \in [Names -> Kinds]
  BY DEF DriveOK, Empty, Kinds, Folders
<1> HIDE DEF in
<1> QED
  BY <1>2, <1>3, <1>4 DEF DriveOK, Folders

LEMMA DeletedOK ==
  ASSUME DriveOK, NEW f \in Folders, NEW ns, Deleted(f, ns)
  PROVE  DriveOK'
BY DEF DriveOK, Deleted, Empty, Kinds

(* What a listing or a search brings are entries of the drive.             *)
LEMMA EntriesAreHits ==
  ASSUME DriveOK, NEW f \in Folders
  PROVE  Entries(f) \subseteq Hit /\ \A e \in Entries(f) : e[1] = f
BY DEF DriveOK, Entries, Hit

-----------------------------------------------------------------------------
(* The table.                                                              *)

(* An answer fills one row per entry, takes no row that is in hand, and    *)
(* leaves nothing else in the table.                                       *)
Filled(place, entries) ==
  /\ \A e \in entries : row'[place[e]] = [name |-> e[2], kind |-> e[3], from |-> e[1],
                                          checked |-> FALSE, shown |-> TRUE]
  /\ Shown' = {place[e] : e \in entries}
LEMMA RefilledTable ==
  ASSUME row \in [Rows -> Cells], NEW entries \in SUBSET Hit, Refilled(entries)
  PROVE  /\ row' \in [Rows -> Cells]
         /\ \A r \in Rows \cap InHand : row'[r].name = row[r].name
         /\ \E place \in Injection(entries, Rows \ InHand) : Filled(place, entries)
<1>1. PICK place \in Injection(entries, Rows \ InHand) :
        row' = [r \in Rows |->
                 IF r \in InHand THEN [row[r] EXCEPT !.shown = FALSE]
                 ELSE IF r \notin Range(place) THEN NoRow
                 ELSE LET e == CHOOSE e \in entries : place[e] = r
                      IN  [name |-> e[2], kind |-> e[3], from |-> e[1],
                           checked |-> FALSE, shown |-> TRUE]]
  BY DEF Refilled
<1>2. place \in [entries -> Rows \ InHand]
        /\ \A e, d \in entries : place[e] = place[d] => e = d
  BY <1>1 DEF Injection, IsInjective
<1>3. Range(place) = {place[e] : e \in entries}
  BY <1>2 DEF Range
<1> DEFINE cells(e) == [name |-> e[2], kind |-> e[3], from |-> e[1],
                        checked |-> FALSE, shown |-> TRUE]
<1>4. ASSUME NEW e \in entries
      PROVE  row'[place[e]] = cells(e) /\ cells(e) \in Cells
  <2>1. place[e] \in Rows /\ place[e] \notin InHand /\ place[e] \in Range(place)
    BY <1>2, <1>3
  <2>2. (CHOOSE d \in entries : place[d] = place[e]) = e
    BY <1>2
  <2>3. cells(e) \in Cells
    BY DEF Cells, Hit
  <2> QED
    BY <1>1, <2>1, <2>2, <2>3
<1>5. ASSUME NEW r \in Rows, r \in InHand
      PROVE  /\ row'[r] \in Cells /\ row'[r].name = row[r].name /\ ~row'[r].shown
  <2>1. row'[r] = [row[r] EXCEPT !.shown = FALSE]
    BY <1>1, <1>5
  <2>2. row[r] \in Cells
    OBVIOUS
  <2> QED
    BY <2>1, <2>2 DEF Cells
<1>6. NoRow \in Cells /\ ~NoRow.shown
  BY DEF NoRow, Cells, Folders, Kinds
<1>7. ASSUME NEW r \in Rows, r \notin InHand, r \notin Range(place)
      PROVE  row'[r] = NoRow
  BY <1>1, <1>7
<1>8. DOMAIN row' = Rows /\ row' = [r \in Rows |-> row'[r]]
  BY <1>1
<1> HIDE DEF cells
<1>9. row' \in [Rows -> Cells]
  BY <1>2, <1>3, <1>4, <1>5, <1>6, <1>7, <1>8
<1>10. \A e \in entries : cells(e).shown
  BY DEF cells
<1>11. Shown' = {place[e] : e \in entries}
  BY <1>2, <1>3, <1>4, <1>5, <1>6, <1>7, <1>10 DEF Shown
<1> QED
  BY <1>1, <1>4, <1>5, <1>9, <1>11 DEF Filled, cells

-----------------------------------------------------------------------------
(* Clicks.                                                                 *)

(* A table that nobody touches keeps its part of the invariant, and so do  *)
(* the calls; a click on the page touches nothing of an upload.            *)
LEMMA KeptRows ==
  /\ TableInv /\ UNCHANGED <<row, label, view, chosen>> => TableInv'
  /\ CallInv /\ UNCHANGED calls => CallInv'
BY DEF TableInv, TableOK, FromLabel, Shown, CallInv, CallsOK, InFlight, OneFolder, Right, Asked

LEMMA KeptUpload ==
  ASSUME ServerOK, TaskOK, UNCHANGED uploadVars
  PROVE  /\ ServerOK' /\ TaskOK' /\ UNCHANGED <<orderly, dialog>>
BY Kept DEF uploadVars

(* A request that is sent is right when it names the label's folder.       *)
LEMMA SendsInv ==
  ASSUME CallInv, UserOK, NEW c \in Calls, NEW q \in Request, Right(q), Sends(c, q), Waits,
         UNCHANGED <<astray, orderly, dialog>>
  PROVE  CallInv' /\ UserOK'
<1>1. CallInv'
  BY PostsInv DEF Sends
<1>2. left' \in [requests : Nat, uploads : Nat]
  BY DEF Sends, UserOK
<1>3. quiet' \in BOOLEAN
  BY DEF Waits, UserOK
<1> QED
  BY <1>1, <1>2, <1>3 DEF UserOK

(* A check mark changes no other cell.                                     *)
Marks == /\ DOMAIN row' = Rows /\ row' = [r \in Rows |-> row'[r]]
         /\ \A r \in Rows : \E b \in BOOLEAN : row'[r] = [row[r] EXCEPT !.checked = b]
LEMMA MarkedRows ==
  ASSUME row \in [Rows -> Cells], Marks
  PROVE  /\ row' \in [Rows -> Cells] /\ Shown' = Shown
         /\ \A r \in Rows : /\ row'[r].name = row[r].name /\ row'[r].kind = row[r].kind
                             /\ row'[r].from = row[r].from
<1>1. ASSUME NEW r \in Rows
      PROVE  /\ row'[r] \in Cells /\ row'[r].name = row[r].name /\ row'[r].kind = row[r].kind
             /\ row'[r].from = row[r].from /\ row'[r].shown = row[r].shown
  <2>1. PICK b \in BOOLEAN : row'[r] = [row[r] EXCEPT !.checked = b]
    BY DEF Marks
  <2>2. row[r] \in Cells
    OBVIOUS
  <2> QED
    BY <2>1, <2>2 DEF Cells
<1> QED
  BY <1>1 DEF Marks, Shown

LEMMA MarkedTable ==
  ASSUME TableInv, BoxOK, Marks, UNCHANGED <<label, view, chosen>>
  PROVE  TableInv'
<1>1. /\ row' \in [Rows -> Cells] /\ Shown' = Shown
      /\ \A r \in Rows : row'[r].name = row[r].name /\ row'[r].from = row[r].from
  BY MarkedRows DEF TableInv, TableOK
<1>2. Shown \subseteq Rows /\ (chosen # None => chosen \in Rows)
  BY DEF Shown, BoxOK
<1> QED
  BY <1>1, <1>2 DEF TableInv, TableOK, FromLabel

LEMMA ClickMarks ==
  ASSUME row \in [Rows -> Cells]
  PROVE  /\ \A r \in Rows : row' = [row EXCEPT ![r].checked = TRUE] => Marks
         /\ \A r \in Rows : row' = [row EXCEPT ![r].checked = ~@] => Marks
         /\ \A all \in BOOLEAN :
              row' = [r \in Rows |-> [row[r] EXCEPT !.checked = IF r \in Shown THEN all ELSE @]]
                => Marks
<1>0. \A r \in Rows : row[r].checked \in BOOLEAN /\ row[r] = [row[r] EXCEPT !.checked = row[r].checked]
  BY DEF Cells
<1>1. ASSUME NEW r \in Rows, NEW b \in BOOLEAN, row' = [row EXCEPT ![r].checked = b]
      PROVE  Marks
  <2>1. \A s \in Rows : row'[s] = IF s = r THEN [row[r] EXCEPT !.checked = b] ELSE row[s]
    BY <1>1
  <2>2. DOMAIN row' = Rows /\ row' = [s \in Rows |-> row'[s]]
    BY <1>1
  <2> QED
    BY <1>0, <2>1, <2>2 DEF Marks
<1>2. ASSUME NEW r \in Rows, row' = [row EXCEPT ![r].checked = ~@] PROVE Marks
  <2>1. PICK b \in BOOLEAN : b = ~row[r].checked
    OBVIOUS
  <2> QED
    BY <1>1, <1>2, <2>1
<1>3. ASSUME NEW all \in BOOLEAN,
             row' = [r \in Rows |-> [row[r] EXCEPT !.checked = IF r \in Shown THEN all ELSE @]]
      PROVE  Marks
  <2>1. ASSUME NEW r \in Rows
        PROVE  \E b \in BOOLEAN : row'[r] = [row[r] EXCEPT !.checked = b]
    BY <1>0, <1>3
  <2> QED
    BY <1>3, <2>1 DEF Marks
<1> QED
  BY <1>1, <1>2, <1>3

(* The requests a click can send.                                          *)
LEMMA ListRequest ==
  ASSUME NEW f \in Folders
  PROVE  Lists(f) \in Request /\ Right(Lists(f)) /\ Lists(f).op = "list" /\ Lists(f).folder = f
BY DEF Lists, Request, Right

LEMMA DeleteRequest ==
  ASSUME TableInv, NEW rs \in SUBSET Shown, NEW c \in Calls, Del(c, rs)
  PROVE  \E q \in Request : /\ q.op = "delete" /\ q.folder = label /\ Right(q)
                            /\ q.names = {row[r].name : r \in rs} /\ Sends(c, q)
<1>1. PICK listed \in BOOLEAN : listed = (view = "listing")
  OBVIOUS
<1>2. PICK right \in BOOLEAN : right = FromLabel(rs)
  BY DEF FromLabel
<1> DEFINE names == {row[r].name : r \in rs}
<1>3. PICK twice \in BOOLEAN : twice = (Cardinality(names) < Cardinality(rs))
  <2>1. IsFiniteSet(rs)
    BY RowsAssumption, FS_Subset DEF Shown
  <2>2. IsFiniteSet(names)
    <3>1. [r \in rs |-> row[r].name] \in Surjection(rs, names)
      BY DEF Surjection
    <3> QED
      BY <2>1, <3>1, FS_Surjection DEF ExistsSurjection
  <2>3. Cardinality(names) \in Nat /\ Cardinality(rs) \in Nat
    BY <2>1, <2>2, FS_CardinalityType
  <2>4. \A i, j \in Nat : (i < j) \in BOOLEAN
    OBVIOUS
  <2>5. (Cardinality(names) < Cardinality(rs)) \in BOOLEAN
    BY <2>3, <2>4
  <2> QED
    BY <2>5, Zenon
<1> DEFINE q == [op |-> "delete", folder |-> label, names |-> names,
                 twice |-> twice, listed |-> listed, right |-> right]
<1>4. q \in Request
  <2>1. names \subseteq Names \cup {Sample}
    BY DEF TableInv, TableOK, Shown, Cells
  <2> HIDE DEF names
  <2> QED
    BY <2>1 DEF Request, TableInv, TableOK
<1>5. Right(q)
  BY <1>1, <1>2 DEF Right, TableInv, FromLabel
<1>6. Sends(c, q)
  BY <1>1, <1>2, <1>3 DEF Del
<1> QED
  BY <1>4, <1>5, <1>6

LEMMA RenameRequest ==
  ASSUME TableInv, BoxOK, NEW c \in Calls, NEW new \in Names, Rename(c, new)
  PROVE  \E q \in Request : /\ q.op = "rename" /\ q.folder = label /\ Right(q)
                            /\ q.old = row[chosen].name /\ q.new = new /\ q.row = chosen
                            /\ Sends(c, q)
<1>0. chosen # None /\ chosen \in Rows /\ view = "listing" /\ row[chosen].name \in Names
  BY DEF Rename, BoxOK, TableInv, TableOK
<1>1. PICK listed \in BOOLEAN : listed = (chosen \in Shown)
  <2>1. (chosen \in Shown) \in BOOLEAN
    OBVIOUS
  <2> QED
    BY <2>1, Zenon
<1>2. PICK right \in BOOLEAN : right = FromLabel({chosen})
  BY DEF FromLabel
<1> DEFINE q == [op |-> "rename", folder |-> label, old |-> row[chosen].name, new |-> new,
                 row |-> chosen, listed |-> listed, right |-> right]
<1>3. q \in Request
  BY <1>0 DEF Request, TableInv, TableOK
<1>4. Right(q)
  BY <1>0, <1>1, <1>2 DEF Right, TableInv, FromLabel
<1>5. Sends(c, q)
  BY <1>1, <1>2 DEF Rename
<1> QED
  BY <1>3, <1>4, <1>5

(* A click on the page or in the prompt keeps the invariant.               *)
LEMMA ClickRows ==
  ASSUME RowsInv, NEW c \in Calls, Click(c), UNCHANGED uploadVars
  PROVE  RowsInv'
<1>0. /\ DriveOK /\ TableInv /\ BoxOK /\ CallInv /\ UserOK /\ ~astray
      /\ ServerOK' /\ TaskOK' /\ UNCHANGED <<orderly, dialog>>
      /\ row \in [Rows -> Cells] /\ label \in Folders
  BY KeptUpload DEF RowsInv, TableInv, TableOK
<1>1. ASSUME NEW q \in Request, Right(q), Sends(c, q), Waits, UNCHANGED <<drive, page>>
      PROVE  RowsInv'
  <2>1. CallInv' /\ UserOK'
    BY <1>0, <1>1, SendsInv DEF page
  <2>2. DriveOK' /\ TableInv' /\ BoxOK' /\ ~astray'
    BY <1>0, <1>1, Kept, KeptRows DEF page
  <2> QED
    BY <1>0, <2>1, <2>2 DEF RowsInv
<1>2. CASE AllList(c)
  BY <1>1, <1>2, ListRequest DEF AllList, Folders
<1>3. CASE \E r \in Rows : OpenFolder(c, r)
  <2>1. PICK r \in Rows : OpenFolder(c, r)
    BY <1>3
  <2>2. row[r].name \in Folders
    BY <1>0, <2>1 DEF OpenFolder, TableInv, TableOK, Folders
  <2> QED
    BY <1>1, <2>1, <2>2, ListRequest DEF OpenFolder
<1>4. CASE NewFolder(c)
  <2>1. [op |-> "new", folder |-> label] \in Request /\ Right([op |-> "new", folder |-> label])
    BY <1>0 DEF Request, Right
  <2> QED
    BY <1>1, <1>4, <2>1 DEF NewFolder
<1>5. CASE Search(c)
  <2>1. [op |-> "search"] \in Request /\ Right([op |-> "search"])
    BY DEF Request, Right
  <2> QED
    BY <1>1, <1>5, <2>1 DEF Search
<1>6. CASE DeleteChecked(c)
  <2>1. Checked \subseteq Shown
    BY DEF Checked
  <2>2. Del(c, Checked) /\ Waits /\ UNCHANGED <<drive, page>>
    BY <1>6 DEF DeleteChecked
  <2>3. PICK q \in Request : Right(q) /\ Sends(c, q)
    BY <1>0, <2>1, <2>2, DeleteRequest
  <2> QED
    BY <1>1, <2>2, <2>3
<1>7. CASE \E r \in Rows : DeleteRow(c, r)
  <2>1. PICK r \in Rows : DeleteRow(c, r)
    BY <1>7
  <2>2. Checked \cup {r} \subseteq Shown
    BY <2>1 DEF DeleteRow, Checked
  <2>3. /\ Del(c, Checked \cup {r}) /\ Waits /\ row' = [row EXCEPT ![r].checked = TRUE]
        /\ UNCHANGED <<drive, label, view, box, chosen, astray>>
    BY <2>1 DEF DeleteRow
  <2>4. PICK q \in Request : Right(q) /\ Sends(c, q)
    BY <1>0, <2>2, <2>3, DeleteRequest
  <2>5. CallInv' /\ UserOK'
    BY <1>0, <2>3, <2>4, SendsInv
  <2>6. TableInv'
    BY <1>0, <2>3, ClickMarks, MarkedTable
  <2>7. DriveOK' /\ BoxOK' /\ ~astray'
    BY <1>0, <2>3, Kept
  <2> QED
    BY <1>0, <2>5, <2>6, <2>7 DEF RowsInv
<1>8. CASE \E new \in Names : Rename(c, new)
  <2>1. PICK new \in Names : Rename(c, new)
    BY <1>8
  <2>2. /\ box' = "none" /\ chosen' = None /\ Waits
        /\ UNCHANGED <<drive, label, row, view, astray>>
    BY <2>1 DEF Rename
  <2>3. PICK q \in Request : Right(q) /\ Sends(c, q)
    BY <1>0, <2>1, RenameRequest
  <2>4. CallInv' /\ UserOK'
    BY <1>0, <2>2, <2>3, SendsInv
  <2>5. TableInv' /\ BoxOK'
    BY <1>0, <2>2 DEF TableInv, TableOK, BoxOK, FromLabel, Shown
  <2>6. DriveOK' /\ ~astray'
    BY <1>0, <2>2, Kept
  <2> QED
    BY <1>0, <2>4, <2>5, <2>6 DEF RowsInv
<1> QED
  BY <1>2, <1>3, <1>4, <1>5, <1>6, <1>7, <1>8 DEF Click

(* So does a click that sends nothing.                                     *)
LEMMA LookRows ==
  ASSUME RowsInv, UNCHANGED uploadVars,
         \/ \E r \in Rows : Download(r) \/ Check(r) \/ Prompt(r)
         \/ \E all \in BOOLEAN : Judge(all)
         \/ Dismiss
  PROVE  RowsInv'
<1>0. /\ DriveOK /\ TableInv /\ BoxOK /\ CallInv /\ UserOK /\ ~astray
      /\ ServerOK' /\ TaskOK' /\ UNCHANGED <<orderly, dialog>>
      /\ row \in [Rows -> Cells] /\ label \in Folders
  BY KeptUpload DEF RowsInv, TableInv, TableOK
<1>1. ASSUME NEW r \in Rows, Download(r) PROVE RowsInv'
  <2>1. UNCHANGED <<left, drive, label, row, view, box, chosen, calls, quiet>>
    BY <1>1 DEF Download
  <2>2. astray' = FALSE
    BY <1>0, <1>1 DEF Download, TableInv, FromLabel
  <2>3. UserOK'
    BY <1>0, <2>1, <2>2 DEF UserOK
  <2> QED
    BY <1>0, <2>1, <2>2, <2>3, Kept, KeptRows DEF RowsInv
<1>2. ASSUME Marks, Waits, UNCHANGED <<left, drive, label, view, box, chosen, calls, astray>>
      PROVE  RowsInv'
  <2>1. TableInv'
    BY <1>0, <1>2, MarkedTable
  <2>2. UserOK'
    BY <1>0, <1>2 DEF UserOK, Waits
  <2> QED
    BY <1>0, <1>2, <2>1, <2>2, Kept, KeptRows DEF RowsInv
<1>3. ASSUME NEW r \in Rows, Check(r) PROVE RowsInv'
  BY <1>0, <1>2, <1>3, ClickMarks DEF Check
<1>4. ASSUME NEW all \in BOOLEAN, Judge(all) PROVE RowsInv'
  BY <1>0, <1>2, <1>4, ClickMarks DEF Judge
<1>5. ASSUME NEW r \in Rows, Prompt(r) PROVE RowsInv'
  <2>1. /\ r \in Shown /\ view = "listing" /\ box' = "prompt" /\ chosen' = r /\ Waits
        /\ UNCHANGED <<left, drive, label, row, view, calls, astray>>
    BY <1>5 DEF Prompt
  <2>2. BoxOK'
    BY <1>0, <2>1, NoneAssumption DEF BoxOK
  <2>3. TableInv'
    BY <1>0, <2>1 DEF TableInv, TableOK, FromLabel, Shown
  <2>4. UserOK'
    BY <1>0, <2>1 DEF UserOK, Waits
  <2> QED
    BY <1>0, <2>1, <2>2, <2>3, <2>4, Kept, KeptRows DEF RowsInv
<1>6. CASE Dismiss
  <2>1. /\ box' = "none" /\ chosen' = None
        /\ UNCHANGED <<left, drive, label, row, view, calls, astray, quiet>>
    BY <1>6 DEF Dismiss
  <2>2. BoxOK' /\ TableInv'
    BY <1>0, <2>1 DEF BoxOK, TableInv, TableOK, FromLabel, Shown
  <2> QED
    BY <1>0, <2>1, <2>2, Kept, KeptRows DEF RowsInv
<1> QED
  BY <1>1, <1>3, <1>4, <1>5, <1>6

-----------------------------------------------------------------------------
(* The network.                                                            *)

(* A call that is served or answered is in flight.                         *)
LEMMA CallOf ==
  ASSUME CallsOK, NEW c \in Calls, NEW op, Pending(c, op) \/ Answered(c, op)
  PROVE  c \in InFlight /\ Asked(c) \in Request /\ Asked(c).op = op
<1>1. c \in InFlight
  BY DEF Pending, Answered, InFlight, CallsOK
<1> QED
  BY <1>1, CallFields DEF Pending, Answered, Asked

(* The server keeps the invariant, whatever it does with a request.        *)
LEMMA ServeRows ==
  ASSUME RowsInv, NEW c \in Calls, Serve(c), UNCHANGED uploadVars
  PROVE  RowsInv'
<1>0. /\ DriveOK /\ TableInv /\ BoxOK /\ CallInv /\ CallsOK /\ UserOK /\ ~astray
      /\ ServerOK' /\ TaskOK' /\ UNCHANGED <<orderly, dialog>>
  BY KeptUpload DEF RowsInv, CallInv
<1>1. UNCHANGED <<left, page, quiet>>
  BY DEF Serve, ServeList, ServeSearch, ServeNew, ServeRename, ServeDelete
<1>2. TableInv' /\ BoxOK' /\ UserOK' /\ ~astray'
  BY <1>0, <1>1, Kept, KeptRows DEF page
<1>3. SUFFICES DriveOK' /\ CallInv'
  BY <1>0, <1>2 DEF RowsInv
<1>4. ASSUME NEW ok \in BOOLEAN, c \in InFlight, Replies(c, ok, {}) PROVE CallInv'
  BY <1>0, <1>4, RepliesInv
<1>5. CASE ServeList(c)
  <2>1. Pending(c, "list")
    BY <1>5 DEF ServeList
  <2>2. c \in InFlight /\ Asked(c) \in Request /\ Asked(c).op = "list"
    BY <1>0, <2>1, CallOf
  <2>3. Asked(c).folder \in Folders
    BY <2>2, RequestFields
  <2> DEFINE f == Asked(c).folder
  <2>4. UNCHANGED drive /\ \/ Replies(c, TRUE, Entries(f))
                           \/ f \in Names /\ Replies(c, TRUE, {<<f, f, "file">>})
                           \/ Replies(c, FALSE, {})
    BY <1>5, <2>3 DEF ServeList, Refuses, Exists, Folders
  <2>5. Entries(f) \subseteq Hit /\ \A e \in Entries(f) : e[1] = f
    BY <1>0, <2>3, EntriesAreHits
  <2>6. f \in Names => {<<f, f, "file">>} \subseteq Hit /\ \A e \in {<<f, f, "file">>} : e[1] = f
    BY DEF Hit, Kinds, Folders
  <2> HIDE DEF f
  <2>7. CallInv'
    <3>1. CASE Replies(c, TRUE, Entries(f))
      BY <1>0, <2>2, <2>5, <3>1, RepliesInv DEF f
    <3>2. CASE f \in Names /\ Replies(c, TRUE, {<<f, f, "file">>})
      BY <1>0, <2>2, <2>6, <3>2, RepliesInv DEF f
    <3> QED
      BY <1>4, <2>2, <2>4, <3>1, <3>2
  <2> QED
    BY <1>0, <2>4, <2>7, Kept
<1>6. CASE ServeSearch(c)
  <2>1. PICK hits \in SUBSET Found : Replies(c, TRUE, hits) /\ UNCHANGED drive
    BY <1>6 DEF ServeSearch
  <2>2. hits \subseteq Hit
    BY <1>0, EntriesAreHits DEF Found
  <2>3. c \in InFlight /\ Asked(c).op = "search"
    BY <1>0, <1>6, CallOf DEF ServeSearch
  <2>4. CallInv'
    BY <1>0, <2>1, <2>2, <2>3, RepliesInv
  <2> QED
    BY <1>0, <2>1, <2>4, Kept
<1>7. CASE ServeNew(c)
  <2>1. c \in InFlight /\ Asked(c) \in Request /\ Asked(c).op = "new"
    BY <1>0, <1>7, CallOf DEF ServeNew
  <2>2. Asked(c).folder \in Folders
    BY <2>1, RequestFields
  <2>3. CASE Refuses(c)
    BY <1>0, <1>4, <2>1, <2>3, Kept DEF Refuses
  <2>4. CASE ~Refuses(c)
    <3>1. PICK n \in Fresh : Made(Asked(c).folder, n, "dir") /\ Replies(c, TRUE, {})
      BY <1>7, <2>4 DEF ServeNew
    <3>2. n \in Names /\ "dir" \in Kinds
      BY NameAssumption DEF Kinds
    <3> QED
      BY <1>0, <1>4, <2>1, <2>2, <3>1, <3>2, MadeOK
  <2> QED
    BY <2>3, <2>4
<1>8. CASE ServeRename(c)
  <2>1. c \in InFlight /\ Asked(c) \in Request /\ Asked(c).op = "rename"
    BY <1>0, <1>8, CallOf DEF ServeRename
  <2>2. Asked(c).folder \in Folders /\ Asked(c).old \in Names /\ Asked(c).new \in Names
    BY <2>1, RequestFields
  <2>3. \/ Refuses(c)
        \/ Moved(Asked(c).folder, Asked(c).old, Asked(c).new) /\ Replies(c, TRUE, {})
    BY <1>8 DEF ServeRename
  <2> QED
    BY <1>0, <1>4, <2>1, <2>2, <2>3, MovedOK, Kept DEF Refuses
<1>9. CASE ServeDelete(c)
  <2>1. c \in InFlight /\ Asked(c) \in Request /\ Asked(c).op = "delete"
    BY <1>0, <1>9, CallOf DEF ServeDelete
  <2>2. Asked(c).folder \in Folders
    BY <2>1, RequestFields
  <2>3. PICK ns : \E ok \in BOOLEAN : Deleted(Asked(c).folder, ns) /\ Replies(c, ok, {})
    <3> DEFINE there == {n \in Asked(c).names \ {Sample} : In(Asked(c).folder, n)}
    <3>1. \/ Deleted(Asked(c).folder, there) /\ Replies(c, TRUE, {})
          \/ \E ns \in SUBSET there : Deleted(Asked(c).folder, ns) /\ Replies(c, FALSE, {})
      BY <1>9 DEF ServeDelete
    <3> HIDE DEF there
    <3>2. CASE Deleted(Asked(c).folder, there) /\ Replies(c, TRUE, {})
      BY <3>2, Zenon
    <3>3. CASE \E ns \in SUBSET there : Deleted(Asked(c).folder, ns) /\ Replies(c, FALSE, {})
      BY <3>3, Zenon
    <3> QED
      BY <3>1, <3>2, <3>3
  <2> QED
    BY <1>0, <1>4, <2>1, <2>2, <2>3, DeletedOK
<1> QED
  BY <1>5, <1>6, <1>7, <1>8, <1>9 DEF Serve

(* An answer's rows are those of the folder it asked for.                  *)
LEMMA RefilledInv ==
  ASSUME TableInv, BoxOK, NEW entries \in SUBSET Hit, Refilled(entries), label' \in Folders,
         chosen' \in {chosen, None},
         view' = "listing" => \A e \in entries : e[1] = label'
  PROVE  TableInv'
<1>1. /\ row' \in [Rows -> Cells]
      /\ \A r \in Rows \cap InHand : row'[r].name = row[r].name
      /\ \E place \in Injection(entries, Rows \ InHand) : Filled(place, entries)
  BY RefilledTable DEF TableInv, TableOK
<1>2. PICK place : Filled(place, entries)
  BY <1>1
<1>3. ASSUME NEW r \in Shown'
      PROVE  row'[r].name \in Names /\ (view' = "listing" => row'[r].from = label')
  <2>1. PICK e \in entries : r = place[e]
    BY <1>2, <1>3 DEF Filled
  <2>2. row'[r].name = e[2] /\ row'[r].from = e[1]
    <3>1. row'[r] = [name |-> e[2], kind |-> e[3], from |-> e[1],
                      checked |-> FALSE, shown |-> TRUE]
      BY <1>2, <2>1 DEF Filled
    <3> QED
      BY <3>1
  <2> QED
    BY <2>1, <2>2 DEF Hit
<1>4. chosen' # None => row'[chosen'].name \in Names
  <2>1. ASSUME chosen' # None PROVE chosen' = chosen /\ chosen \in Rows \cap InHand
    BY <2>1 DEF BoxOK, InHand
  <2> QED
    BY <1>1, <2>1 DEF TableInv, TableOK
<1> QED
  BY <1>1, <1>3, <1>4 DEF TableInv, TableOK, FromLabel

LEMMA AnswerRows ==
  ASSUME RowsInv, NEW c \in Calls, Answer(c) \/ Lost(c), UNCHANGED uploadVars
  PROVE  RowsInv'
<1>0. /\ DriveOK /\ TableInv /\ BoxOK /\ CallInv /\ CallsOK /\ UserOK /\ ~astray
      /\ ServerOK' /\ TaskOK' /\ UNCHANGED <<orderly, dialog>>
      /\ row \in [Rows -> Cells] /\ label \in Folders
  BY KeptUpload DEF RowsInv, CallInv, TableInv, TableOK
<1>1. UNCHANGED <<left, drive, astray>>
  BY DEF Answer, Lost, ListAnswered, SearchAnswered, NewAnswered, RenameAnswered, DeleteAnswered
<1>2. DriveOK' /\ ~astray'
  BY <1>0, <1>1, Kept
<1>3. c \in InFlight /\ calls[c].ok \in BOOLEAN
  <2>1. c \in InFlight
    BY <1>0, CallOf DEF Answer, ListAnswered, SearchAnswered, NewAnswered, RenameAnswered,
                        DeleteAnswered, Lost, InFlight, CallsOK
  <2> QED
    BY <1>0, <2>1, CallFields
<1>4. UserOK'
  <2>1. quiet' \in BOOLEAN
    BY <1>0, <1>3 DEF Answer, Lost, ListAnswered, SearchAnswered, NewAnswered, RenameAnswered,
                 DeleteAnswered, Believed, UserOK
  <2> QED
    BY <1>0, <1>1, <2>1 DEF UserOK
<1>5. SUFFICES TableInv' /\ BoxOK' /\ CallInv'
  BY <1>0, <1>2, <1>4 DEF RowsInv
<1>6. Shows /\ view' \in {view, "hits"} => BoxOK'
  BY <1>0 DEF Shows, BoxOK
<1>7. CASE ListAnswered(c)
  <2>1. Asked(c) \in Request /\ Asked(c).op = "list"
    BY <1>0, <1>7, CallOf DEF ListAnswered
  <2>2. calls[c].hits \in SUBSET Hit /\ Asked(c).folder \in Folders
    BY <1>0, <1>3, <2>1, CallFields, RequestFields
  <2>3. \A e \in calls[c].hits : e[1] = Asked(c).folder
    BY <1>0, <1>3, <2>1 DEF CallInv, OneFolder
  <2>4. /\ label' = Asked(c).folder /\ view' = "listing" /\ Refilled(calls[c].hits) /\ Done(c)
        /\ UNCHANGED <<box, chosen>>
    BY <1>7 DEF ListAnswered, Relabels
  <2>5. TableInv'
    BY <1>0, <2>2, <2>3, <2>4, RefilledInv
  <2>6. BoxOK'
    BY <1>0, <2>4 DEF BoxOK
  <2> QED
    BY <1>0, <1>3, <2>4, <2>5, <2>6, DoneInv
<1>8. CASE SearchAnswered(c)
  <2>1. /\ view' = "hits" /\ Refilled(calls[c].hits) /\ Done(c) /\ Shows /\ label' = label
    BY <1>8 DEF SearchAnswered
  <2>2. calls[c].hits \in SUBSET Hit
    BY <1>0, <1>3, CallFields
  <2>3. TableInv'
    BY <1>0, <2>1, <2>2, RefilledInv DEF Shows
  <2> QED
    BY <1>0, <1>3, <1>6, <2>1, <2>3, DoneInv
<1>9. ASSUME Shows, UNCHANGED <<label, row, view>> PROVE TableInv' /\ BoxOK'
  <2>1. chosen' = None
    BY <1>9 DEF Shows
  <2> QED
    BY <1>0, <1>6, <1>9, <2>1 DEF TableInv, TableOK, FromLabel, Shown
<1>10. CASE NewAnswered(c)
  <2>1. Asked(c) \in Request /\ Asked(c).op = "new"
    BY <1>0, <1>10, CallOf DEF NewAnswered
  <2>2. Asked(c).folder \in Folders
    BY <2>1, RequestFields
  <2> QED
    BY <1>0, <1>9, <1>10, <2>2, ListRequest, PostsInv DEF NewAnswered
<1>11. CASE Lost(c)
  BY <1>0, <1>3, <1>9, <1>11, DoneInv DEF Lost
<1>12. CASE RenameAnswered(c)
  <2>1. Asked(c) \in Request /\ Asked(c).op = "rename"
    BY <1>0, <1>12, CallOf DEF RenameAnswered
  <2> DEFINE q == Asked(c)
  <2>2. q.new \in Names /\ q.row \in Rows
    BY <2>1, RequestFields
  <2>3. row' = [row EXCEPT ![q.row].name = q.new] /\ Shows /\ Done(c) /\ UNCHANGED <<label, view>>
    BY <1>12 DEF RenameAnswered
  <2> HIDE DEF q
  <2>4. row[q.row] \in Cells
    BY <1>0, <2>2
  <2>5. /\ row'[q.row] = [row[q.row] EXCEPT !.name = q.new]
        /\ \A r \in Rows \ {q.row} : row'[r] = row[r]
        /\ row' = [r \in Rows |-> row'[r]]
    BY <1>0, <2>2, <2>3
  <2>6. /\ row'[q.row] \in Cells /\ row'[q.row].name = q.new
        /\ row'[q.row].from = row[q.row].from /\ row'[q.row].shown = row[q.row].shown
    BY <2>2, <2>4, <2>5 DEF Cells
  <2>7. row' \in [Rows -> Cells] /\ Shown' = Shown
    BY <1>0, <2>5, <2>6 DEF Shown
  <2>8. \A r \in Rows : row'[r].from = row[r].from /\ row'[r].name \in {row[r].name, q.new}
    BY <2>5, <2>6
  <2>9. TableInv'
    BY <1>0, <2>2, <2>3, <2>7, <2>8 DEF TableInv, TableOK, Shows, FromLabel, Shown
  <2> QED
    BY <1>0, <1>3, <1>6, <2>3, <2>9, DoneInv
<1>13. CASE DeleteAnswered(c)
  <2>1. /\ row' = [r \in Rows |-> IF r \in Checked THEN [row[r] EXCEPT !.shown = FALSE]
                                 ELSE row[r]]
        /\ Shows /\ Done(c) /\ UNCHANGED <<label, view>>
    BY <1>13 DEF DeleteAnswered, Removed
  <2>2. ASSUME NEW r \in Rows
        PROVE  /\ row'[r] \in Cells /\ row'[r].name = row[r].name /\ row'[r].from = row[r].from
               /\ row'[r].shown => row[r].shown
    <3>1. row[r] \in Cells
      BY <1>0
    <3>2. CASE r \in Checked
      <4>1. row'[r] = [row[r] EXCEPT !.shown = FALSE]
        BY <2>1, <3>2
      <4> QED
        BY <3>1, <4>1 DEF Cells
    <3>3. CASE r \notin Checked
      BY <2>1, <3>1, <3>3
    <3> QED
      BY <3>2, <3>3
  <2>3. row' \in [Rows -> Cells] /\ Shown' \subseteq Shown
    BY <2>1, <2>2 DEF Shown
  <2>4. TableInv'
    BY <1>0, <2>1, <2>2, <2>3 DEF TableInv, TableOK, Shows, FromLabel, Shown
  <2> QED
    BY <1>0, <1>3, <1>6, <2>1, <2>4, DoneInv
<1> QED
  BY <1>7, <1>8, <1>10, <1>11, <1>12, <1>13 DEF Answer

-----------------------------------------------------------------------------
(* Uploads.                                                                *)

(* The dialog and the form.                                                *)
LEMMA FormRows ==
  ASSUME RowsInv,
         \/ OpenDialog \/ CloseDialog \/ InvalidForm
         \/ \E u \in Uploads, n \in Uploaded : Submit(u, n)
  PROVE  RowsInv'
<1>0. /\ DriveOK /\ TableInv /\ BoxOK /\ CallInv /\ UserOK /\ ServerOK /\ TaskOK /\ ~astray
      /\ label \in Folders /\ dialog \in Folders \cup {None}
  BY DEF RowsInv, TableInv, TableOK, UserOK
<1>1. CASE OpenDialog
  <2>1. UserOK'
    BY <1>0, <1>1 DEF OpenDialog, UserOK, Waits, page
  <2> QED
    BY <1>0, <1>1, <2>1, Kept, KeptRows DEF OpenDialog, RowsInv, page
<1>2. CASE CloseDialog
  <2>1. UserOK'
    BY <1>0, <1>2 DEF CloseDialog, UserOK, pageVars, page
  <2> QED
    BY <1>0, <1>2, <2>1, Kept, KeptRows DEF CloseDialog, RowsInv, pageVars, page
<1>3. CASE InvalidForm
  <2>1. /\ UNCHANGED <<drive, label, row, view, calls, astray, left, quiet, uploadVars>>
        /\ box' = "message" /\ chosen' = None
    BY <1>3 DEF InvalidForm, Shows
  <2>2. TableInv' /\ BoxOK'
    BY <1>0, <2>1 DEF TableInv, TableOK, BoxOK, FromLabel, Shown
  <2>3. UserOK'
    BY <1>0, <2>1 DEF UserOK, uploadVars
  <2> QED
    BY <1>0, <2>1, <2>2, <2>3, Kept, KeptRows, KeptUpload DEF RowsInv
<1>4. ASSUME NEW u \in Uploads, NEW n \in Uploaded, Submit(u, n) PROVE RowsInv'
  <2> DEFINE q == [op |-> "upload", folder |-> dialog, name |-> n]
  <2>1. /\ dialog \in Folders /\ n \in Names /\ u \in Calls /\ Posts(u, q)
        /\ UNCHANGED <<drive, label, row, view, chosen, astray, dialog, read, session, threw, poll>>
        /\ box' = "bar" /\ bar' = [of |-> u, shows |-> 0] /\ box = "none"
    BY <1>0, <1>4, UploadAssumption DEF Submit
  <2>2. q \in Request /\ Right(q)
    BY <2>1 DEF Request, Right
  <2>3. CallInv'
    BY <1>0, <2>1, <2>2, PostsInv
  <2>4. BoxOK'
    BY <1>0, <2>1 DEF BoxOK
  <2>5. UserOK'
    <3>1. left' \in [requests : Nat, uploads : Nat]
      BY <1>0, <1>4 DEF Submit, UserOK
    <3>2. orderly' \in BOOLEAN /\ quiet' \in BOOLEAN
      BY <1>0, <1>4 DEF Submit, UserOK, Waits, Over
    <3> QED
      BY <1>0, <2>1, <3>1, <3>2 DEF UserOK
  <2>6. ServerOK'
    <3>1. phase' = [phase EXCEPT ![u] = "sent"] /\ to' = [to EXCEPT ![u] = <<dialog, n>>]
      BY <1>4 DEF Submit
    <3> QED
      BY <1>0, <2>1, <3>1 DEF ServerOK
  <2>7. TaskOK'
    <3>1. task' = [task EXCEPT ![u] = "on"]
      BY <1>4 DEF Submit
    <3>2. bar' \in [of : Uploads \cup {None}, shows : 0..Total]
      BY <2>1, UploadAssumption
    <3> QED
      BY <1>0, <2>1, <3>1, <3>2 DEF TaskOK
  <2> QED
    BY <1>0, <2>1, <2>3, <2>4, <2>5, <2>6, <2>7, Kept, KeptRows DEF RowsInv
<1> QED
  BY <1>1, <1>2, <1>3, <1>4

(* The server's side of an upload.                                         *)
LEMMA TellsInv ==
  ASSUME CallInv, NEW u \in Uploads, NEW ok \in BOOLEAN, Tells(u, ok)
  PROVE  CallInv'
<1>1. CASE calls[u] = None
  BY <1>1, KeptRows DEF Tells
<1>2. CASE calls[u] # None
  BY <1>2, RepliesInv, UploadAssumption DEF Tells, CallInv, CallsOK, InFlight
<1> QED
  BY <1>1, <1>2

LEMMA UploadRows ==
  ASSUME RowsInv, NEW u \in Uploads, Upload(u)
  PROVE  RowsInv'
<1>0. /\ DriveOK /\ TableInv /\ BoxOK /\ CallInv /\ UserOK /\ ServerOK /\ TaskOK /\ ~astray
  BY DEF RowsInv
<1>1. UNCHANGED <<page, left, quiet, dialog, orderly, task, poll, bar>>
  BY DEF Upload, Parse, Update, UpdateThrows, ReadAll, Copied, NotCopied, pageVars
<1>2. TableInv' /\ BoxOK' /\ UserOK' /\ TaskOK' /\ ~astray'
  BY <1>0, <1>1, Kept, KeptRows DEF page
<1>3. SUFFICES DriveOK' /\ CallInv' /\ ServerOK'
  BY <1>2 DEF RowsInv
<1>4. Total \in Nat \ {0}
  BY UploadAssumption
<1>5. CASE Parse(u)
  <2>1. ServerOK'
    BY <1>0, <1>4, <1>5 DEF Parse, Goes, ServerOK
  <2> QED
    BY <1>0, <1>5, <2>1, Kept, KeptRows DEF Parse, pageVars
<1>6. CASE Update(u)
  <2>1. read[u] \in 0..Total /\ read[u] + 1 \in 0..Total
    BY <1>0, <1>4, <1>6 DEF Update, ServerOK
  <2>2. ServerOK'
    BY <1>0, <1>6, <2>1 DEF Update, ServerOK
  <2> QED
    BY <1>0, <1>6, <2>2, Kept, KeptRows DEF Update, pageVars
<1>7. CASE ReadAll(u)
  <2>1. ServerOK'
    BY <1>0, <1>7 DEF ReadAll, Goes, ServerOK
  <2> QED
    BY <1>0, <1>7, <2>1, Kept, KeptRows DEF ReadAll, pageVars
<1>8. CASE UpdateThrows(u) \/ NotCopied(u)
  <2>1. ServerOK'
    BY <1>0, <1>8 DEF UpdateThrows, NotCopied, Goes, ServerOK
  <2>2. CallInv'
    BY <1>0, <1>8, TellsInv DEF UpdateThrows, NotCopied
  <2> QED
    BY <1>0, <1>8, <2>1, <2>2, Kept DEF UpdateThrows, NotCopied
<1>9. CASE Copied(u)
  <2>1. ServerOK'
    BY <1>0, <1>9 DEF Copied, Goes, ServerOK, AfterSuccess
  <2>2. CallInv'
    BY <1>0, <1>9, TellsInv DEF Copied
  <2>3. to[u][1] \in Folders /\ to[u][2] \in Names /\ "file" \in Kinds
    BY <1>0, <1>9 DEF Copied, ServerOK, Kinds
  <2>4. DriveOK'
    BY <1>0, <1>9, <2>3, MadeOK DEF Copied
  <2> QED
    BY <2>1, <2>2, <2>4
<1> QED
  BY <1>5, <1>6, <1>7, <1>8, <1>9 DEF Upload

(* The form's answer, and the task.                                        *)
LEMMA ReportRows ==
  ASSUME RowsInv, NEW u \in Uploads, UploadAnswered(u) \/ UploadFailed(u)
  PROVE  RowsInv'
<1>0. /\ DriveOK /\ TableInv /\ BoxOK /\ CallInv /\ CallsOK /\ UserOK /\ ServerOK /\ TaskOK
      /\ ~astray /\ u \in Calls
  BY UploadAssumption DEF RowsInv, CallInv
<1>1. Answered(u, "upload") /\ Shows /\ UNCHANGED <<drive, label, row, view, astray, left, uploadVars>>
  BY DEF UploadAnswered, UploadFailed
<1>2. u \in InFlight /\ Asked(u) \in Request /\ Asked(u).op = "upload"
  BY <1>0, <1>1, CallOf
<1>3. Asked(u).folder \in Folders
  BY <1>2, RequestFields
<1>4. CallInv'
  BY <1>0, <1>2, <1>3, ListRequest, PostsInv, DoneInv DEF UploadAnswered, UploadFailed
<1>5. quiet' \in BOOLEAN
  BY <1>0 DEF UploadAnswered, UploadFailed, UserOK
<1>6. UserOK'
  BY <1>0, <1>1, <1>5 DEF UserOK, uploadVars
<1>7. TableInv' /\ BoxOK'
  BY <1>0, <1>1 DEF Shows, TableInv, TableOK, BoxOK, FromLabel, Shown
<1> QED
  BY <1>0, <1>1, <1>4, <1>6, <1>7, Kept, KeptUpload DEF RowsInv

LEMMA TaskRows ==
  ASSUME RowsInv, NEW u \in Uploads, NEW i \in Polls,
         Tick(u, i) \/ ServePoll(u, i) \/ PollShown(u, i) \/ PollInVain(u, i)
  PROVE  RowsInv'
<1>0. /\ DriveOK /\ TableInv /\ BoxOK /\ CallInv /\ UserOK /\ ServerOK /\ TaskOK /\ ~astray
  BY DEF RowsInv
<1>1. UNCHANGED <<pageVars, dialog, server, orderly>>
  BY DEF Tick, ServePoll, PollShown, PollInVain
<1>2. DriveOK' /\ TableInv' /\ BoxOK' /\ CallInv' /\ UserOK' /\ ServerOK' /\ ~astray'
  BY <1>0, <1>1, Kept, KeptRows DEF pageVars, page
<1>3. SUFFICES TaskOK'
  BY <1>2 DEF RowsInv
<1>4. NoPoll \in Poll
  BY DEF NoPoll, Poll
<1>5. poll[u][i] \in Poll /\ session \in 0..Total \cup {None}
  BY <1>0 DEF TaskOK, ServerOK
<1>6. ASSUME NEW p \in Poll, Becomes(u, i, p)
      PROVE  poll' \in [Uploads -> [Polls -> Poll]]
  BY <1>0, <1>6 DEF TaskOK, Becomes
<1>7. CASE Tick(u, i)
  <2>1. [state |-> "sent", found |-> None] \in Poll
    BY DEF Poll
  <2> QED
    BY <1>0, <1>6, <1>7, <2>1 DEF Tick, TaskOK
<1>8. CASE ServePoll(u, i)
  <2>1. [state |-> "served", found |-> session] \in Poll
    BY <1>5 DEF Poll
  <2> QED
    BY <1>0, <1>6, <1>8, <2>1 DEF ServePoll, TaskOK
<1>9. CASE PollShown(u, i)
  <2>1. poll[u][i].found \in 0..Total
    BY <1>5, <1>9 DEF PollShown, Poll
  <2>2. bar' \in [of : Uploads \cup {None}, shows : 0..Total]
    BY <1>0, <1>9, <2>1 DEF PollShown, TaskOK
  <2>3. task' \in [Uploads -> {"none", "on", "stopped"}]
    BY <1>0, <1>9 DEF PollShown, TaskOK
  <2> QED
    BY <1>4, <1>6, <1>9, <2>2, <2>3 DEF PollShown, TaskOK
<1>10. CASE PollInVain(u, i)
  BY <1>0, <1>4, <1>6, <1>10 DEF PollInVain, TaskOK
<1> QED
  BY <1>7, <1>8, <1>9, <1>10

-----------------------------------------------------------------------------
LEMMA RowsInit == Init => RowsInv
<1> SUFFICES ASSUME Init PROVE RowsInv
  OBVIOUS
<1>1. PICK s \in Starts : /\ drive = [f \in Folders |-> IF f = Root THEN s.root ELSE Empty]
                          /\ left = [requests |-> s.requests, uploads |-> s.uploads]
  BY DEF Init, PageInit
<1>2. s \in [root : [Names -> Kinds], requests : Nat, uploads : Nat]
  BY <1>1, StartsAssumption
<1>3. DriveOK
  BY <1>1, <1>2 DEF DriveOK, Empty, Kinds
<1>4. label = Root /\ view = "sample" /\ box = "none" /\ chosen = None
        /\ calls = [c \in Calls |-> None] /\ astray = FALSE /\ quiet = TRUE
  BY DEF Init, PageInit
<1>5. TableInv
  <2>1. row = [r \in Rows |-> [NoRow EXCEPT !.shown = r = CHOOSE t \in Rows : TRUE]]
    BY DEF Init, PageInit
  <2>2. ASSUME NEW r \in Rows PROVE row[r] \in Cells
    <3>1. PICK b \in BOOLEAN : b = (r = CHOOSE t \in Rows : TRUE)
      OBVIOUS
    <3>2. row[r] = [NoRow EXCEPT !.shown = b]
      BY <2>1, <3>1
    <3>3. NoRow \in Cells
      BY DEF NoRow, Cells, Folders, Kinds
    <3> QED
      BY <3>2, <3>3 DEF Cells
  <2>3. row \in [Rows -> Cells]
    BY <2>1, <2>2
  <2> QED
    BY <1>4, <2>3 DEF TableInv, TableOK, Folders
<1>6. BoxOK
  BY <1>4 DEF BoxOK
<1>7. CallInv
  BY <1>4 DEF CallInv, CallsOK, InFlight
<1>8. UserOK
  BY <1>1, <1>2, <1>4 DEF UserOK, Init
<1>9. ServerOK
  <2>1. /\ phase = [u \in Uploads |-> "none"] /\ to = [u \in Uploads |-> <<Root, Sample>>]
        /\ read = [u \in Uploads |-> 0] /\ session = None /\ threw = FALSE
    BY DEF Init
  <2>2. 0 \in 0..Total /\ <<Root, Sample>> \in Folders \X (Names \cup {Sample})
    BY UploadAssumption DEF Folders
  <2> QED
    BY <2>1, <2>2 DEF ServerOK
<1>10. TaskOK
  <2>1. NoPoll \in Poll
    BY DEF NoPoll, Poll
  <2> QED
    BY <2>1, UploadAssumption DEF TaskOK, Init
<1> QED
  BY <1>3, <1>4, <1>5, <1>6, <1>7, <1>8, <1>9, <1>10 DEF RowsInv

LEMMA RowsNext == RowsInv /\ [Next]_vars => RowsInv'
<1> SUFFICES ASSUME RowsInv, [Next]_vars PROVE RowsInv'
  OBVIOUS
<1>1. CASE UNCHANGED vars
  BY <1>1, Kept, KeptRows, KeptUpload DEF vars, pageVars, page, uploadVars, RowsInv
<1>2. CASE ByUser(Calls \ Uploads) /\ UNCHANGED uploadVars
  BY <1>2, ClickRows, LookRows DEF ByUser
<1>3. CASE OverNetwork /\ UNCHANGED uploadVars
  BY <1>3, ServeRows, AnswerRows DEF OverNetwork
<1>4. CASE Dismiss /\ UNCHANGED uploadVars
  BY <1>4, LookRows
<1>5. CASE OpenDialog \/ CloseDialog \/ InvalidForm
  BY <1>5, FormRows
<1>6. ASSUME NEW u \in Uploads,
             \/ Upload(u) \/ UploadAnswered(u) \/ UploadFailed(u)
             \/ \E n \in Uploaded : Submit(u, n)
             \/ \E i \in Polls : \/ Tick(u, i) \/ ServePoll(u, i)
                                \/ PollShown(u, i) \/ PollInVain(u, i)
      PROVE  RowsInv'
  BY <1>6, UploadRows, ReportRows, FormRows, TaskRows
<1> QED
  BY <1>1, <1>2, <1>3, <1>4, <1>5, <1>6 DEF Next

LEMMA RowsAlways == Spec => []RowsInv
BY RowsInit, RowsNext, PTL DEF Spec

(* Every variable keeps its type: the prompt is about a row, a row that    *)
(* was filled has a file's name, progress lies within the upload.          *)
THEOREM TypeCorrect == Spec => []TypeOK
<1>1. RowsInv => TypeOK
  BY DEF RowsInv, TypeOK, TableInv, CallInv
<1> QED
  BY <1>1, RowsAlways, PTL

(* Whatever the order of clicks and answers: the rows of a listing come    *)
(* from the folder the label names, and renames, deletions and downloads   *)
(* that start from a row of the table go to that folder.                   *)
THEOREM RowsBelong == Spec => []RowsUnderLabel
<1>1. RowsInv => RowsUnderLabel
  BY DEF RowsInv, RowsUnderLabel, TableInv, CallInv, Right
<1> QED
  BY <1>1, RowsAlways, PTL

-----------------------------------------------------------------------------
(* Uploads one after the other: the progress object, and what questions    *)
(* found in it, is about the upload whose bar was shown last; the others   *)
(* are over.  The object is there while a body is parsed, because nobody   *)
(* else can remove it.                                                     *)
Own ==
  /\ ~threw
  /\ box = "bar" => bar.of \in Uploads
  /\ \A u \in Uploads : u # bar.of => phase[u] \in {"none", "ok"}
  /\ \A u \in Uploads : phase[u] \in {"none", "sent"} => read[u] = 0
  /\ \A u \in Uploads : phase[u] \in {"reading", "copying"} => session # None
  /\ session # None => /\ bar.of \in Uploads /\ session = read[bar.of]
                       /\ phase[bar.of] \in {"reading", "copying", "failed"}
  /\ \A u \in Uploads, i \in Polls :
       poll[u][i].state = "served" /\ poll[u][i].found # None =>
         bar.of \in Uploads /\ poll[u][i].found <= read[bar.of]
  /\ bar.of \in Uploads => bar.shows <= read[bar.of]
OwnInv == orderly => Own

(* What the page does beside the uploads never brings up a bar.            *)
LEMMA KeptOwn ==
  ASSUME OwnInv, box' = "bar" => box = "bar",
         UNCHANGED <<orderly, threw, bar, task, phase, session, read, poll>>
  PROVE  OwnInv'
BY DEF OwnInv, Own

LEMMA PageOwn ==
  ASSUME OwnInv, ByUser(Calls \ Uploads) \/ OverNetwork \/ Dismiss, UNCHANGED uploadVars
  PROVE  OwnInv'
<1>1. UNCHANGED <<orderly, threw, bar, task, phase, session, read, poll>>
  BY DEF uploadVars, server
<1>2. ASSUME NEW c \in Calls, Click(c) PROVE box' = "bar" => box = "bar"
  BY <1>2 DEF Click, AllList, OpenFolder, NewFolder, Search, DeleteChecked, DeleteRow, Rename, page
<1>3. ASSUME NEW r \in Rows, Download(r) \/ Check(r) \/ Prompt(r) PROVE box' = "bar" => box = "bar"
  BY <1>3 DEF Download, Check, Prompt
<1>4. ASSUME NEW all \in BOOLEAN, Judge(all) PROVE box' = "bar" => box = "bar"
  BY <1>4 DEF Judge
<1>5. ASSUME NEW c \in Calls, Serve(c) PROVE box' = "bar" => box = "bar"
  BY <1>5 DEF Serve, ServeList, ServeSearch, ServeNew, ServeRename, ServeDelete, page
<1>6. ASSUME NEW c \in Calls, Answer(c) \/ Lost(c) PROVE box' = "bar" => box = "bar"
  BY <1>6 DEF Answer, Lost, ListAnswered, SearchAnswered, NewAnswered, RenameAnswered,
              DeleteAnswered, Shows
<1>7. box' = "bar" => box = "bar"
  BY <1>2, <1>3, <1>4, <1>5, <1>6 DEF ByUser, OverNetwork, Dismiss
<1> QED
  BY <1>1, <1>7, KeptOwn

LEMMA FormOwn ==
  ASSUME RowsInv, OwnInv,
         \/ OpenDialog \/ CloseDialog \/ InvalidForm
         \/ \E u \in Uploads : UploadAnswered(u) \/ UploadFailed(u)
  PROVE  OwnInv'
<1>1. UNCHANGED <<orderly, threw, bar, task, phase, session, read, poll>>
  BY DEF OpenDialog, CloseDialog, InvalidForm, UploadAnswered, UploadFailed, uploadVars, server
<1>2. box' = "bar" => box = "bar"
  BY DEF OpenDialog, CloseDialog, InvalidForm, UploadAnswered, UploadFailed, Shows, pageVars, page
<1> QED
  BY <1>1, <1>2, KeptOwn

(* The bar of a new upload starts where no question has found anything and *)
(* the progress of the last one has been removed.                          *)
LEMMA SubmitOwn ==
  ASSUME RowsInv, OwnInv, NEW u \in Uploads, NEW n \in Uploaded, Submit(u, n)
  PROVE  OwnInv'
<1>1. SUFFICES ASSUME orderly, \A v \in Uploads : Over(v) PROVE Own'
  BY DEF Submit, OwnInv
<1>2. Own /\ ServerOK /\ TaskOK
  BY <1>1 DEF OwnInv, RowsInv
<1>3. /\ phase[u] = "none" /\ phase' = [phase EXCEPT ![u] = "sent"] /\ bar' = [of |-> u, shows |-> 0]
      /\ UNCHANGED <<read, session, threw, poll>>
  BY DEF Submit
<1>4. session = None
  BY <1>1, <1>2 DEF Over, Own
<1>5. \A v \in Uploads : phase'[v] = IF v = u THEN "sent" ELSE phase[v]
  BY <1>2, <1>3 DEF ServerOK
<1>6. bar'.of = u /\ bar'.shows = 0 /\ read[u] \in 0..Total
  BY <1>2, <1>3 DEF ServerOK
<1>7. \A v \in Uploads, i \in Polls : poll[v][i].state = "none"
  BY <1>1 DEF Over, NoPoll
<1> QED
  BY <1>1, <1>2, <1>3, <1>4, <1>5, <1>6, <1>7 DEF Own, Over

(* The server counts in the object and in the upload alike.                *)
LEMMA UploadOwn ==
  ASSUME RowsInv, OwnInv, NEW u \in Uploads, Upload(u)
  PROVE  OwnInv'
<1>1. UNCHANGED <<page, orderly, to, bar, task, poll>>
  BY DEF Upload, Parse, Update, UpdateThrows, ReadAll, Copied, NotCopied, pageVars
<1>2. SUFFICES ASSUME orderly PROVE Own'
  BY <1>1 DEF OwnInv
<1>3. Own /\ ServerOK /\ TaskOK /\ box' = box
  BY <1>1, <1>2 DEF OwnInv, RowsInv, page
<1>4. \A v \in Uploads : read[v] \in Nat
  BY <1>3, UploadAssumption DEF ServerOK
<1>5. None \notin 0..Total /\ 0 \in 0..Total /\ Total \in Nat
  BY UploadAssumption
<1>6. \A p : Goes(u, p) => \A v \in Uploads : phase'[v] = IF v = u THEN p ELSE phase[v]
  BY <1>3 DEF Goes, ServerOK
<1>7. u = bar.of \/ phase[u] \in {"none", "ok"}
  BY <1>3 DEF Own
<1>8. CASE Parse(u)
  <2>1. /\ phase[u] = "sent" /\ Goes(u, "reading") /\ session' = 0 /\ UNCHANGED <<read, threw>>
    BY <1>8 DEF Parse
  <2>2. read[u] = 0 /\ u = bar.of
    BY <1>3, <1>7, <2>1 DEF Own
  <2> QED
    BY <1>1, <1>3, <1>5, <1>6, <2>1, <2>2 DEF Own
<1>9. CASE Update(u)
  <2>1. /\ phase[u] = "reading" /\ session # None /\ session' = read[u] + 1
        /\ read' = [read EXCEPT ![u] = @ + 1] /\ UNCHANGED <<phase, threw>>
    BY <1>9 DEF Update
  <2>2. u = bar.of
    BY <1>7, <2>1
  <2>3. \A v \in Uploads : read'[v] = IF v = u THEN read[u] + 1 ELSE read[v]
    BY <1>3, <2>1 DEF ServerOK
  <2>4. read[u] < Total /\ session' \in 0..Total
    BY <1>4, <1>9, <2>1, UploadAssumption DEF Update
  <2>5. \A v \in Uploads, i \in Polls : poll[v][i].found \in 0..Total \cup {None}
    BY <1>3 DEF TaskOK, Poll
  <2>6. bar.shows \in 0..Total
    BY <1>3 DEF TaskOK
  <2> QED
    BY <1>1, <1>3, <1>4, <1>5, <2>1, <2>2, <2>3, <2>4, <2>5, <2>6 DEF Own
<1>10. CASE UpdateThrows(u)
  BY <1>3, <1>10 DEF UpdateThrows, Own
<1>11. CASE ReadAll(u)
  <2>1. phase[u] = "reading" /\ Goes(u, "copying") /\ UNCHANGED <<read, session, threw>>
    BY <1>11 DEF ReadAll
  <2> QED
    BY <1>1, <1>3, <1>6, <1>7, <2>1 DEF Own
<1>12. CASE Copied(u)
  <2>1. phase[u] = "copying" /\ Goes(u, "ok") /\ session' = None /\ UNCHANGED <<read, threw>>
    BY <1>12 DEF Copied, AfterSuccess
  <2> QED
    BY <1>1, <1>3, <1>6, <1>7, <2>1 DEF Own
<1>13. CASE NotCopied(u)
  <2>1. phase[u] = "copying" /\ Goes(u, "failed") /\ UNCHANGED <<read, session, threw>>
    BY <1>13 DEF NotCopied
  <2> QED
    BY <1>1, <1>3, <1>6, <1>7, <2>1 DEF Own
<1> QED
  BY <1>8, <1>9, <1>10, <1>11, <1>12, <1>13 DEF Upload

(* A question finds what the object holds; an answer shows what was found. *)
LEMMA TaskOwn ==
  ASSUME RowsInv, OwnInv, NEW u \in Uploads, NEW i \in Polls,
         Tick(u, i) \/ ServePoll(u, i) \/ PollShown(u, i) \/ PollInVain(u, i)
  PROVE  OwnInv'
<1>1. UNCHANGED <<pageVars, dialog, server, orderly>>
  BY DEF Tick, ServePoll, PollShown, PollInVain
<1>2. SUFFICES ASSUME orderly PROVE Own'
  BY <1>1 DEF OwnInv
<1>3. Own /\ ServerOK /\ TaskOK /\ UNCHANGED <<box, phase, read, session, threw>>
  BY <1>1, <1>2 DEF OwnInv, RowsInv, pageVars, page, server
<1>4. \A v \in Uploads : read[v] \in Nat
  BY <1>3, UploadAssumption DEF ServerOK
<1>5. \A p : Becomes(u, i, p) =>
        \A v \in Uploads, j \in Polls : poll'[v][j] = IF v = u /\ j = i THEN p ELSE poll[v][j]
  BY <1>3 DEF TaskOK, Becomes
<1>6. CASE Tick(u, i)
  <2>1. Becomes(u, i, [state |-> "sent", found |-> None]) /\ UNCHANGED bar
    BY <1>6 DEF Tick
  <2>2. \A v \in Uploads, j \in Polls :
          poll'[v][j].state = "served" => poll'[v][j] = poll[v][j]
    BY <1>5, <2>1
  <2> QED
    BY <1>3, <2>1, <2>2 DEF Own
<1>7. CASE ServePoll(u, i)
  <2>1. Becomes(u, i, [state |-> "served", found |-> session]) /\ UNCHANGED bar
    BY <1>7 DEF ServePoll
  <2>2. \A v \in Uploads, j \in Polls :
          poll'[v][j].found = session \/ poll'[v][j] = poll[v][j]
    BY <1>5, <2>1
  <2> QED
    BY <1>3, <1>4, <2>1, <2>2 DEF Own
<1>8. ASSUME Becomes(u, i, NoPoll)
      PROVE  \A v \in Uploads, j \in Polls :
               poll'[v][j].state = "served" => poll'[v][j] = poll[v][j]
  BY <1>5, <1>8 DEF NoPoll
<1>9. CASE PollShown(u, i)
  <2>1. /\ poll[u][i].state = "served" /\ poll[u][i].found # None /\ Becomes(u, i, NoPoll)
        /\ bar' = [bar EXCEPT !.shows = poll[u][i].found]
    BY <1>9 DEF PollShown
  <2>2. bar'.of = bar.of /\ bar'.shows = poll[u][i].found
    BY <1>3, <2>1 DEF TaskOK
  <2> QED
    BY <1>3, <1>8, <2>1, <2>2 DEF Own
<1>10. CASE PollInVain(u, i)
  BY <1>3, <1>8, <1>10 DEF PollInVain, Own
<1> QED
  BY <1>6, <1>7, <1>9, <1>10

LEMMA OwnNext == RowsInv /\ OwnInv /\ [Next]_vars => OwnInv'
<1> SUFFICES ASSUME RowsInv, OwnInv, [Next]_vars PROVE OwnInv'
  OBVIOUS
<1>1. CASE UNCHANGED vars
  BY <1>1, KeptOwn DEF vars, pageVars, page, uploadVars, server
<1>2. CASE (ByUser(Calls \ Uploads) \/ OverNetwork \/ Dismiss) /\ UNCHANGED uploadVars
  BY <1>2, PageOwn
<1>3. CASE OpenDialog \/ CloseDialog \/ InvalidForm
  BY <1>3, FormOwn
<1>4. ASSUME NEW u \in Uploads,
             \/ Upload(u) \/ UploadAnswered(u) \/ UploadFailed(u)
             \/ \E n \in Uploaded : Submit(u, n)
             \/ \E i \in Polls : \/ Tick(u, i) \/ ServePoll(u, i)
                                \/ PollShown(u, i) \/ PollInVain(u, i)
      PROVE  OwnInv'
  BY <1>4, UploadOwn, FormOwn, SubmitOwn, TaskOwn
<1> QED
  BY <1>1, <1>2, <1>3, <1>4 DEF Next

(* Uploads that each begin when all before were reported a success: the    *)
(* listener finds its object, and the bar shows no more than what the      *)
(* server has read of the upload it is about.                              *)
THEOREM ProgressBelongs == Spec => []ProgressIsOwn
<1>1. Init => OwnInv
  BY UploadAssumption DEF Init, PageInit, NoPoll, OwnInv, Own
<1>2. OwnInv => ProgressIsOwn
  BY DEF OwnInv, Own, ProgressIsOwn
<1> QED
  BY <1>1, <1>2, OwnNext, RowsAlways, PTL DEF Spec

-----------------------------------------------------------------------------
(* A user who waits.  As long as the page is quiet at most one request is  *)
(* under way, it is about the folder of the label, and what it will do to  *)
(* the table is what the server does, or did, to the drive.                *)
Seen(rs) == {<<label, row[r].name, row[r].kind>> : r \in rs}
OneEach == \A r, s \in Shown : row[r].name = row[s].name => r = s
Accurate == Seen(Shown) = Entries(label) /\ OneEach

Named(q, r) == IF r = q.row THEN q.new ELSE row[r].name
Renamed(q) == /\ {<<label, Named(q, r), row[r].kind>> : r \in Shown} = Entries(label)
              /\ \A r, s \in Shown : Named(q, r) = Named(q, s) => r = s
Struck == Seen(Shown \ Checked) = Entries(label) /\ OneEach

Asking(q) ==
  /\ q.op = "list" => Exists(q.folder) /\ (dialog # None => q.folder = dialog)
  /\ q.op \in {"new", "upload", "rename", "delete"} => q.folder = label
  /\ q.op = "rename" => view = "listing" /\ q.row \in Shown
Waiting(q) ==
  /\ q.op = "rename" => Accurate /\ q.old = row[q.row].name
  /\ q.op = "delete" /\ view = "listing" =>
       Accurate /\ q.names = {row[r].name : r \in Checked}
Granted(q, hits) ==
  /\ q.op = "list" => hits = Entries(q.folder)
  /\ q.op = "rename" => Renamed(q)
  /\ q.op = "delete" /\ view = "listing" => Struck
Expected(c) ==
  /\ Asking(Asked(c))
  /\ ~calls[c].served => Waiting(Asked(c))
  /\ calls[c].served /\ calls[c].ok => Granted(Asked(c), calls[c].hits)

Working(u) == phase[u] \in {"sent", "reading", "copying"}
Heard(u) == /\ u \in InFlight /\ Asked(u).op = "upload" /\ ~calls[u].served
            /\ to[u][1] = Asked(u).folder
Waited ==
  /\ Exists(label)
  /\ dialog # None => dialog = label
  /\ \A c, d \in InFlight : c = d
  /\ box = "prompt" => InFlight = {} /\ chosen \in Shown
  /\ view = "listing" /\ InFlight = {} => Accurate
  /\ \A u \in Uploads : Working(u) => Heard(u)
  /\ \A c \in InFlight : Expected(c)
WaitedInv == quiet => Waited

(* Steps of others: nothing the page or the request can tell apart.        *)
LEMMA KeptWaited ==
  ASSUME WaitedInv, quiet' => quiet, dialog' \in {dialog, None},
         box' = "prompt" => box = "prompt" /\ chosen' = chosen,
         UNCHANGED <<drive, label, row, view, calls, to>>,
         \A u \in Uploads : Working(u)' => Working(u)
  PROVE  WaitedInv'
<1>1. SUFFICES ASSUME quiet, Waited PROVE Waited'
  BY DEF WaitedInv
<1>2. InFlight' = InFlight /\ Shown' = Shown /\ Checked' = Checked
  BY DEF InFlight, Shown, Checked
<1>3. \A f : Entries(f)' = Entries(f) /\ (Exists(f)' <=> Exists(f))
  BY DEF Entries, Exists
<1>4. Accurate' <=> Accurate
  BY <1>2, <1>3 DEF Accurate, Seen, OneEach
<1>5. ASSUME NEW c \in InFlight PROVE Expected(c)'
  <2>1. Expected(c) /\ (Asked(c) = Asked(c)')
    BY <1>1 DEF Waited, Asked
  <2>2. PICK q, h : q = Asked(c) /\ h = calls[c].hits
    OBVIOUS
  <2>3. Asking(q) => Asking(q)'
    BY <1>2, <1>3 DEF Asking
  <2>4. Waiting(q) => Waiting(q)'
    BY <1>2, <1>4 DEF Waiting
  <2>5. Granted(q, h) => Granted(q, h)'
    BY <1>2, <1>3 DEF Granted, Renamed, Named, Struck, Seen, OneEach
  <2>6. Expected(c) => /\ Asking(q) /\ (~calls[c].served => Waiting(q))
                       /\ (calls[c].served /\ calls[c].ok => Granted(q, h))
    BY <2>2 DEF Expected
  <2>7. /\ Asking(q)' /\ (~calls[c].served => Waiting(q)')
        /\ (calls[c].served /\ calls[c].ok => Granted(q, h)')
    BY <2>1, <2>3, <2>4, <2>5, <2>6
  <2> QED
    BY <2>1, <2>2, <2>7 DEF Expected
<1>6. ASSUME NEW u \in Uploads, Working(u)' PROVE Heard(u)'
  BY <1>1, <1>2, <1>6 DEF Waited, Heard, Asked
<1> QED
  BY <1>1, <1>2, <1>3, <1>4, <1>5, <1>6 DEF Waited

(* Check marks change nothing the user sees.                               *)
LEMMA MarkedAccurate ==
  ASSUME row \in [Rows -> Cells], Marks, Accurate, UNCHANGED <<drive, label>>
  PROVE  Accurate'
<1>1. Shown' = Shown /\ Shown \subseteq Rows
  BY MarkedRows DEF Shown
<1>2. \A r \in Shown : row'[r].name = row[r].name /\ row'[r].kind = row[r].kind
  BY <1>1, MarkedRows
<1>3. Entries(label)' = Entries(label)
  BY DEF Entries
<1>4. Seen(Shown)' = Seen(Shown)
  BY <1>1, <1>2 DEF Seen
<1> QED
  BY <1>1, <1>2, <1>3, <1>4 DEF Accurate, OneEach

(* A click of a user who has waited.                                       *)
LEMMA AsksWaited ==
  ASSUME CallsOK, quiet' => Waited /\ InFlight = {},
         NEW c \in Calls, NEW q \in Request, Posts(c, q), box' # "prompt",
         UNCHANGED <<drive, label, dialog>>,
         Waited /\ InFlight = {} => Asking(q)' /\ Waiting(q)',
         \A u \in Uploads : Working(u)' =>
           Working(u) \/ (u = c /\ q.op = "upload" /\ to'[u][1] = q.folder)
  PROVE  WaitedInv'
<1>1. SUFFICES ASSUME Waited, InFlight = {} PROVE Waited'
  BY DEF WaitedInv
<1>2. /\ InFlight' = {c}
      /\ calls'[c] = [request |-> q, served |-> FALSE, ok |-> TRUE, hits |-> {}]
  BY <1>1, PostsCall
<1>3. Asked(c)' = q /\ calls'[c].served = FALSE
  BY <1>2 DEF Asked
<1>4. Exists(label)' /\ (dialog' # None => dialog' = label')
  BY <1>1 DEF Waited, Exists
<1>5. Expected(c)'
  BY <1>1, <1>3 DEF Expected
<1>6. ASSUME NEW u \in Uploads, Working(u)' PROVE Heard(u)'
  <2>1. ~Working(u)
    BY <1>1 DEF Waited, Heard
  <2> QED
    BY <1>2, <1>3, <1>6, <2>1 DEF Heard
<1> QED
  BY <1>2, <1>4, <1>5, <1>6 DEF Waited

(* The server's answer to the one request under way.                       *)
LEMMA ReplyWaited ==
  ASSUME CallsOK, WaitedInv, NEW c \in InFlight, NEW ok \in BOOLEAN, NEW hits \in SUBSET Hit,
         Replies(c, ok, hits), UNCHANGED <<page, quiet, dialog, to>>,
         quiet /\ Waited => Exists(label)', NEW q, q = Asked(c),
         q.op = "list" => UNCHANGED drive,
         quiet /\ Waited /\ ok => Granted(q, hits)',
         quiet /\ Waited => \A u \in Uploads : Working(u)' => Working(u) /\ u # c
  PROVE  WaitedInv'
<1>1. SUFFICES ASSUME quiet, Waited PROVE Waited'
  BY DEF WaitedInv
<1>2. /\ InFlight' = InFlight
      /\ calls'[c] = [request |-> calls[c].request, served |-> TRUE, ok |-> ok, hits |-> hits]
  BY RepliesCall
<1>3. Asked(c)' = q /\ calls'[c].served = TRUE /\ calls'[c].ok = ok /\ calls'[c].hits = hits
  BY <1>2 DEF Asked
<1>4. InFlight = {c}
  BY <1>1 DEF Waited
<1>5. /\ label' = label /\ row' = row /\ view' = view /\ box' = box /\ chosen' = chosen
      /\ dialog' = dialog /\ Shown' = Shown
  BY DEF page, Shown
<1>6. Asking(q)'
  <2>1. Asking(q)
    BY <1>1 DEF Waited, Expected
  <2>2. q.op = "list" => Exists(q.folder)'
    BY <2>1 DEF Asking, Exists
  <2> QED
    BY <1>5, <2>1, <2>2 DEF Asking
<1>7. Expected(c)'
  BY <1>1, <1>3, <1>6 DEF Expected
<1>8. ASSUME NEW u \in Uploads, Working(u)' PROVE FALSE
  BY <1>1, <1>4, <1>8 DEF Waited, Heard
<1>9. box' # "prompt"
  BY <1>1, <1>4, <1>5 DEF Waited
<1> QED
  BY <1>1, <1>2, <1>4, <1>5, <1>7, <1>8, <1>9 DEF Waited

(* The answer is the last word: nothing is under way any more.             *)
LEMMA LastWaited ==
  ASSUME CallsOK, quiet' => Waited, NEW c \in InFlight, Done(c), UNCHANGED <<drive, phase, dialog>>,
         quiet' /\ Waited => /\ Exists(label)' /\ (dialog' # None => dialog' = label')
                             /\ Asked(c).op # "upload"
                             /\ box' = "prompt" => box = "prompt"
                             /\ (view' = "listing" => Accurate')
  PROVE  WaitedInv'
<1>1. SUFFICES ASSUME quiet', Waited PROVE Waited'
  BY DEF WaitedInv
<1>2. InFlight = {c}
  BY <1>1 DEF Waited
<1>3. InFlight' = {}
  BY <1>2, DoneCall
<1>4. \A u \in Uploads : ~Working(u)'
  BY <1>1, <1>2 DEF Waited, Heard, Working
<1> QED
  BY <1>1, <1>2, <1>3, <1>4 DEF Waited

LEMMA ClickWaited ==
  ASSUME RowsInv, WaitedInv, NEW c \in Calls \ Uploads, Click(c), dialog = None,
         UNCHANGED uploadVars
  PROVE  WaitedInv'
<1>0. /\ TableInv /\ BoxOK /\ CallsOK /\ row \in [Rows -> Cells] /\ label \in Folders
      /\ UNCHANGED <<dialog, phase, to>>
  BY DEF RowsInv, CallInv, TableInv, TableOK, uploadVars, server
<1>1. ASSUME NEW q \in Request, Sends(c, q), Waits, box' # "prompt", UNCHANGED <<drive, label>>,
             Waited /\ InFlight = {} => Asking(q)' /\ Waiting(q)'
      PROVE  WaitedInv'
  <2>1. quiet' => Waited /\ InFlight = {}
    BY <1>1 DEF Waits, WaitedInv
  <2>2. \A u \in Uploads : Working(u)' => Working(u)
    BY <1>0 DEF Working
  <2>3. Posts(c, q)
    BY <1>1 DEF Sends
  <2> QED
    BY <1>0, <1>1, <2>1, <2>2, <2>3, AsksWaited
<1>2. ASSUME NEW f \in Folders, Sends(c, Lists(f)), Waits, UNCHANGED <<drive, page>>,
             box = "none", Waited /\ InFlight = {} => Exists(f)
      PROVE  WaitedInv'
  <2>1. Waited /\ InFlight = {} => Asking(Lists(f))' /\ Waiting(Lists(f))'
    <3>1. PICK q : q = Lists(f)
      OBVIOUS
    <3>2. q.op = "list" /\ q.folder = f
      BY <3>1, ListRequest
    <3>3. Exists(f) => Exists(f)'
      BY <1>2 DEF Exists
    <3>4. Waited /\ InFlight = {} => Asking(q)' /\ Waiting(q)'
      BY <1>0, <1>2, <3>2, <3>3 DEF Asking, Waiting
    <3>5. Asking(q)' = Asking(Lists(f))' /\ Waiting(q)' = Waiting(Lists(f))'
      BY <3>1 DEF Asking, Waiting, Lists
    <3> QED
      BY <3>4, <3>5
  <2> QED
    BY <1>1, <1>2, <2>1, ListRequest DEF page
<1>3. CASE AllList(c)
  <2>1. Exists(Root) /\ Root \in Folders
    BY DEF Exists, Folders
  <2> QED
    BY <1>2, <1>3, <2>1 DEF AllList
<1>4. CASE \E r \in Rows : OpenFolder(c, r)
  <2>1. PICK r \in Rows : OpenFolder(c, r)
    BY <1>4
  <2>2. /\ r \in Shown /\ view = "listing" /\ row[r].kind = "dir" /\ label = Root /\ box = "none"
        /\ Sends(c, Lists(row[r].name)) /\ Waits /\ UNCHANGED <<drive, page>>
    BY <2>1 DEF OpenFolder
  <2>3. row[r].name \in Names
    BY <1>0, <2>2 DEF TableInv, TableOK
  <2>4. ASSUME Waited, InFlight = {} PROVE Exists(row[r].name)
    <3>1. <<label, row[r].name, row[r].kind>> \in Entries(label)
      BY <2>2, <2>4 DEF Waited, Accurate, Seen
    <3>2. drive[Root][row[r].name] = "dir"
      BY <2>2, <3>1 DEF Entries
    <3> QED
      BY <2>3, <3>2 DEF Exists
  <2>5. row[r].name \in Folders
    BY <2>3 DEF Folders
  <2> QED
    BY <1>2, <2>2, <2>4, <2>5
<1>5. CASE NewFolder(c)
  <2>1. PICK q : q = [op |-> "new", folder |-> label]
    OBVIOUS
  <2>2. q \in Request
    BY <1>0, <2>1 DEF Request
  <2>3. q.op = "new" /\ q.folder = label
    BY <2>1
  <2>4. Sends(c, q) /\ Waits /\ UNCHANGED <<drive, page>> /\ box = "none"
    BY <1>5, <2>1 DEF NewFolder
  <2>5. Asking(q)' /\ Waiting(q)'
    BY <2>3, <2>4 DEF Asking, Waiting, page
  <2> QED
    BY <1>1, <2>2, <2>4, <2>5 DEF page
<1>6. CASE Search(c)
  <2>1. PICK q : q = [op |-> "search"]
    OBVIOUS
  <2>2. q \in Request
    BY <2>1 DEF Request
  <2>3. q.op = "search"
    BY <2>1
  <2>4. Sends(c, q) /\ Waits /\ UNCHANGED <<drive, page>> /\ box = "none"
    BY <1>6, <2>1 DEF Search
  <2>5. Asking(q)' /\ Waiting(q)'
    BY <2>3, <2>4 DEF Asking, Waiting, page
  <2> QED
    BY <1>1, <2>2, <2>4, <2>5 DEF page
<1>7. ASSUME NEW rs \in SUBSET Shown, Del(c, rs), Waits, box = "none", Marks \/ UNCHANGED row,
             Checked' = rs, UNCHANGED <<drive, label, view, box, chosen>>
      PROVE  WaitedInv'
  <2>1. PICK q \in Request : /\ q.op = "delete" /\ q.folder = label
                             /\ q.names = {row[r].name : r \in rs} /\ Sends(c, q)
    BY <1>0, <1>7, DeleteRequest
  <2>2. Accurate => Accurate'
    <3>1. CASE Marks
      BY <1>0, <1>7, <3>1, MarkedAccurate
    <3>2. CASE UNCHANGED row
      BY <1>7, <3>2 DEF Accurate, Seen, OneEach, Shown, Entries
    <3> QED
      BY <1>7, <3>1, <3>2
  <2>3. q.names = {row'[r].name : r \in Checked'}
    <3>1. \A r \in rs : row'[r].name = row[r].name
      BY <1>0, <1>7, MarkedRows DEF Shown
    <3> QED
      BY <1>7, <2>1, <3>1
  <2>4. Asking(q)'
    BY <1>7, <2>1 DEF Asking
  <2>5. Waited /\ InFlight = {} => Waiting(q)'
    BY <1>7, <2>1, <2>2, <2>3 DEF Waiting, Waited
  <2> QED
    BY <1>1, <1>7, <2>1, <2>4, <2>5
<1>8. CASE DeleteChecked(c)
  <2>1. Checked \subseteq Shown
    BY DEF Checked
  <2>2. Del(c, Checked) /\ Waits /\ box = "none" /\ UNCHANGED <<drive, page>>
    BY <1>8 DEF DeleteChecked
  <2>3. Checked' = Checked
    BY <2>2 DEF page, Checked, Shown
  <2> QED
    BY <1>7, <2>1, <2>2, <2>3 DEF page
<1>9. CASE \E r \in Rows : DeleteRow(c, r)
  <2>1. PICK r \in Rows : DeleteRow(c, r)
    BY <1>9
  <2>2. /\ Del(c, Checked \cup {r}) /\ Waits /\ box = "none" /\ r \in Shown
        /\ row' = [row EXCEPT ![r].checked = TRUE]
        /\ UNCHANGED <<drive, label, view, box, chosen>>
    BY <2>1 DEF DeleteRow
  <2>3. Marks
    BY <1>0, <2>2, ClickMarks
  <2>4. Checked' = Checked \cup {r} /\ Checked \cup {r} \subseteq Shown
    <3>1. Shown' = Shown /\ Shown \subseteq Rows
      BY <1>0, <2>3, MarkedRows DEF Shown
    <3>2. row'[r] = [row[r] EXCEPT !.checked = TRUE] /\ \A s \in Rows \ {r} : row'[s] = row[s]
      BY <1>0, <2>2
    <3>3. row'[r].checked
      BY <1>0, <3>2 DEF Cells
    <3> QED
      BY <2>2, <3>1, <3>2, <3>3 DEF Checked
  <2> QED
    BY <1>7, <2>2, <2>3, <2>4
<1>10. CASE \E new \in Names : Rename(c, new)
  <2>1. PICK new \in Names : Rename(c, new)
    BY <1>10
  <2>2. /\ box = "prompt" /\ box' = "none" /\ Waits /\ UNCHANGED <<drive, label, row, view>>
    BY <2>1 DEF Rename
  <2>3. PICK q \in Request : /\ q.op = "rename" /\ q.folder = label
                             /\ q.old = row[chosen].name /\ q.new = new /\ q.row = chosen
                             /\ Sends(c, q)
    BY <1>0, <2>1, RenameRequest
  <2>4. view = "listing"
    BY <1>0, <2>2 DEF BoxOK
  <2>5. Accurate => Accurate' /\ Shown' = Shown
    BY <2>2 DEF Accurate, Seen, OneEach, Shown, Entries
  <2>6. Waited /\ InFlight = {} => Asking(q)' /\ Waiting(q)'
    BY <2>2, <2>3, <2>4, <2>5 DEF Asking, Waiting, Waited
  <2> QED
    BY <1>1, <2>2, <2>3, <2>6
<1> QED
  BY <1>3, <1>4, <1>5, <1>6, <1>8, <1>9, <1>10 DEF Click

LEMMA LookWaited ==
  ASSUME RowsInv, WaitedInv, UNCHANGED uploadVars,
         \/ \E r \in Rows : Download(r) \/ Check(r) \/ Prompt(r)
         \/ \E all \in BOOLEAN : Judge(all)
         \/ Dismiss
  PROVE  WaitedInv'
<1>0. /\ row \in [Rows -> Cells] /\ UNCHANGED <<dialog, to>>
      /\ \A u \in Uploads : Working(u)' <=> Working(u)
  BY DEF RowsInv, TableInv, TableOK, uploadVars, server, Working
<1>1. ASSUME NEW r \in Rows, Download(r) PROVE WaitedInv'
  BY <1>0, <1>1, KeptWaited DEF Download
<1>2. CASE Dismiss
  BY <1>0, <1>2, KeptWaited DEF Dismiss
<1>3. ASSUME Waits, box' \in {"none", "prompt"}, box' = "prompt" => chosen' \in Shown,
             Marks \/ UNCHANGED row, UNCHANGED <<drive, label, view, calls>>
      PROVE  WaitedInv'
  <2>1. SUFFICES ASSUME Waited, InFlight = {} PROVE Waited'
    BY <1>3 DEF Waits, WaitedInv
  <2>2. InFlight' = {} /\ Exists(label)' /\ (dialog' # None => dialog' = label')
    BY <1>0, <1>3, <2>1 DEF InFlight, Exists, Waited
  <2>3. Accurate => Accurate'
    <3>1. CASE Marks
      BY <1>0, <1>3, <3>1, MarkedAccurate
    <3>2. CASE UNCHANGED row
      BY <1>3, <3>2 DEF Accurate, Seen, OneEach, Shown, Entries
    <3> QED
      BY <1>3, <3>1, <3>2
  <2>4. Shown' = Shown
    BY <1>0, <1>3, MarkedRows DEF Shown
  <2>5. \A u \in Uploads : ~Working(u)'
    BY <1>0, <2>1 DEF Waited, Heard
  <2> QED
    BY <1>3, <2>1, <2>2, <2>3, <2>4, <2>5 DEF Waited
<1>4. ASSUME NEW r \in Rows, Check(r) \/ Prompt(r) PROVE WaitedInv'
  BY <1>0, <1>3, <1>4, ClickMarks DEF Check, Prompt
<1>5. ASSUME NEW all \in BOOLEAN, Judge(all) PROVE WaitedInv'
  BY <1>0, <1>3, <1>5, ClickMarks DEF Judge
<1> QED
  BY <1>1, <1>2, <1>4, <1>5

(* What a rename and a deletion do to the folder of the label.             *)
LEMMA MovedFolder ==
  ASSUME DriveOK, NEW f \in Folders, NEW old \in Names, NEW new \in Names, new # old,
         Moved(f, old, new)
  PROVE  /\ \A n \in Names : drive'[f][n] = IF n = old THEN "none"
                                            ELSE IF n = new THEN drive[f][old] ELSE drive[f][n]
         /\ f # Root => drive'[Root] = drive[Root]
<1> DEFINE in == [drive EXCEPT ![f][new] = drive[f][old], ![f][old] = "none"]
<1>1. Root \in Folders /\ Root # old /\ Root # new
  BY NameAssumption DEF Folders
<1>2. /\ \A n \in Names : in[f][n] = IF n = old THEN "none"
                                     ELSE IF n = new THEN drive[f][old] ELSE drive[f][n]
      /\ f # Root => in[Root] = drive[Root]
  BY <1>1 DEF DriveOK
<1>3. in \in [Folders -> [Names -> Kinds]]
  BY DEF DriveOK, Kinds
<1>4. drive' = IF f = Root THEN [in EXCEPT ![new] = drive[old], ![old] = Empty] ELSE in
  BY DEF Moved
<1> HIDE DEF in
<1>5. f = Root => drive'[Root] = in[Root]
  BY <1>1, <1>3, <1>4
<1> QED
  BY <1>2, <1>4, <1>5

LEMMA DeletedFolder ==
  ASSUME DriveOK, NEW f \in Folders, NEW ns, Deleted(f, ns)
  PROVE  /\ \A n \in Names : drive'[f][n] = IF n \in ns THEN "none" ELSE drive[f][n]
         /\ f # Root => drive'[Root] = drive[Root]
BY DEF Deleted, Folders

LEMMA MadeFolder ==
  ASSUME DriveOK, NEW f \in Folders, NEW n \in Names, NEW kind \in Kinds, Made(f, n, kind),
         Exists(f)
  PROVE  Exists(f)'
<1>1. CASE f = Root
  BY <1>1 DEF Exists
<1>2. CASE f # Root
  <2> DEFINE in == [drive EXCEPT ![f][n] = kind]
  <2>1. drive' = [in EXCEPT ![Root][f] = "dir"]
    BY <1>2 DEF Made
  <2>2. in \in [Folders -> [Names -> Kinds]] /\ Root \in Folders /\ f \in Names
    BY <1>2 DEF DriveOK, Folders
  <2> HIDE DEF in
  <2>3. drive'[Root][f] = "dir"
    BY <2>1, <2>2
  <2> QED
    BY <2>2, <2>3 DEF Exists
<1> QED
  BY <1>1, <1>2

(* A folder other than the root stays where it is when what happens below  *)
(* happens in it.                                                          *)
LEMMA StaysThere ==
  ASSUME NEW f \in Folders, Exists(f), f # Root => drive'[Root] = drive[Root]
  PROVE  Exists(f)'
BY DEF Exists

LEMMA MovedSeen ==
  ASSUME DriveOK, TableOK, view = "listing", NEW q \in Request, q.op = "rename",
         q.folder = label, q.row \in Shown,
         Accurate, q.old = row[q.row].name, ~In(label, q.new), In(label, q.old),
         Moved(label, q.old, q.new), UNCHANGED <<row, label>>
  PROVE  Renamed(q)'
<1>1. q.old \in Names /\ q.new \in Names /\ q.new # q.old /\ label \in Folders
  BY RequestFields DEF In, TableOK
<1>2. \A n \in Names : drive'[label][n] = IF n = q.old THEN "none"
                       ELSE IF n = q.new THEN drive[label][q.old] ELSE drive[label][n]
  BY <1>1, MovedFolder
<1>3. ASSUME NEW r \in Shown
      PROVE  /\ row[r].name \in Names /\ drive[label][row[r].name] = row[r].kind
             /\ row[r].kind # "none"
  <2>1. <<label, row[r].name, row[r].kind>> \in Entries(label)
    BY DEF Accurate, Seen
  <2> QED
    BY <2>1 DEF Entries
<1>4. Shown' = Shown /\ \A r : Named(q, r)' = Named(q, r)
  BY DEF Shown, Named
<1>5. ASSUME NEW r \in Shown
      PROVE  /\ Named(q, r) \in Names /\ drive'[label][Named(q, r)] = row[r].kind
             /\ r # q.row => row[r].name # q.new /\ row[r].name # q.old
  BY <1>1, <1>2, <1>3 DEF Named, In, Accurate, OneEach
<1>6. ASSUME NEW n \in Names, drive'[label][n] # "none"
      PROVE  \E r \in Shown : Named(q, r) = n /\ row[r].kind = drive'[label][n]
  <2>1. CASE n = q.new
    BY <1>5, <2>1 DEF Named
  <2>2. CASE n # q.new
    <3>1. n # q.old /\ drive'[label][n] = drive[label][n]
      BY <1>2, <1>6, <2>2
    <3>2. <<label, n, drive[label][n]>> \in Entries(label)
      BY <1>6, <3>1 DEF Entries
    <3>3. PICK r \in Shown : <<label, n, drive[label][n]>> = <<label, row[r].name, row[r].kind>>
      BY <3>2 DEF Accurate, Seen
    <3> QED
      BY <3>1, <3>3 DEF Named
  <2> QED
    BY <2>1, <2>2
<1>7. {<<label, Named(q, r), row[r].kind>> : r \in Shown}
        = {<<label, n, drive'[label][n]>> : n \in {m \in Names : drive'[label][m] # "none"}}
  BY <1>3, <1>5, <1>6
<1>8. \A r, s \in Shown : Named(q, r) = Named(q, s) => r = s
  BY <1>5 DEF Named, Accurate, OneEach
<1> QED
  BY <1>4, <1>7, <1>8 DEF Renamed, Entries

LEMMA DeletedSeen ==
  ASSUME DriveOK, TableOK, NEW names, names = {row[r].name : r \in Checked},
         Accurate, Deleted(label, names), UNCHANGED <<row, label>>
  PROVE  Struck'
<1>1. \A n \in Names : drive'[label][n] = IF n \in names THEN "none" ELSE drive[label][n]
  BY DeletedFolder DEF TableOK
<1>2. ASSUME NEW r \in Shown
      PROVE  /\ row[r].name \in Names /\ drive[label][row[r].name] = row[r].kind
             /\ row[r].kind # "none"
  <2>1. <<label, row[r].name, row[r].kind>> \in Entries(label)
    BY DEF Accurate, Seen
  <2> QED
    BY <2>1 DEF Entries
<1>3. \A r \in Shown : row[r].name \in names <=> r \in Checked
  BY DEF Accurate, OneEach, Checked
<1>4. ASSUME NEW n \in Names, drive'[label][n] # "none"
      PROVE  \E r \in Shown \ Checked : row[r].name = n /\ row[r].kind = drive'[label][n]
  <2>1. n \notin names /\ drive'[label][n] = drive[label][n]
    BY <1>1, <1>4
  <2>2. <<label, n, drive[label][n]>> \in Entries(label)
    BY <1>4, <2>1 DEF Entries
  <2>3. PICK r \in Shown : <<label, n, drive[label][n]>> = <<label, row[r].name, row[r].kind>>
    BY <2>2 DEF Accurate, Seen
  <2> QED
    BY <1>3, <2>1, <2>3
<1>5. {<<label, row[r].name, row[r].kind>> : r \in Shown \ Checked}
        = {<<label, n, drive'[label][n]>> : n \in {m \in Names : drive'[label][m] # "none"}}
  BY <1>1, <1>2, <1>3, <1>4
<1>6. Shown' = Shown /\ Checked' = Checked
  BY DEF Shown, Checked
<1> QED
  BY <1>5, <1>6 DEF Struck, Seen, Entries, Accurate, OneEach

LEMMA ServeWaited ==
  ASSUME RowsInv, WaitedInv, NEW c \in Calls, Serve(c), UNCHANGED uploadVars
  PROVE  WaitedInv'
<1>0. /\ DriveOK /\ TableOK /\ CallsOK /\ label \in Folders
      /\ UNCHANGED <<dialog, to>> /\ \A u \in Uploads : Working(u)' <=> Working(u)
  BY DEF RowsInv, CallInv, TableInv, TableOK, uploadVars, server, Working
<1>1. UNCHANGED <<page, quiet>> /\ UNCHANGED <<label, row, view>>
  BY DEF Serve, ServeList, ServeSearch, ServeNew, ServeRename, ServeDelete, page
<1>2. c \in InFlight /\ Asked(c) \in Request /\ Asked(c).op # "upload"
  <2>1. PICK op \in {"list", "search", "new", "rename", "delete"} : Pending(c, op)
    BY DEF Serve, ServeList, ServeSearch, ServeNew, ServeRename, ServeDelete
  <2> QED
    BY <1>0, <2>1, CallOf
<1>3. PICK q \in Request : q = Asked(c)
  BY <1>2
<1>4. quiet /\ Waited => \A u \in Uploads : Working(u)' => Working(u) /\ u # c
  BY <1>0, <1>2 DEF Waited, Heard
<1>5. ASSUME NEW ok \in BOOLEAN, NEW hits \in SUBSET Hit, Replies(c, ok, hits),
             quiet /\ Waited => Exists(label)', q.op = "list" => UNCHANGED drive,
             quiet /\ Waited /\ ok => Granted(q, hits)'
      PROVE  WaitedInv'
  BY <1>0, <1>1, <1>2, <1>3, <1>4, <1>5, ReplyWaited
<1>6. UNCHANGED drive => (Waited => Exists(label)')
  BY <1>1 DEF Waited, Exists
<1>7. quiet /\ Waited => /\ Asking(q) /\ Exists(label)
                         /\ ~calls[c].served => Waiting(q)
  BY <1>2, <1>3 DEF Waited, Expected
<1>8. ASSUME Refuses(c) PROVE WaitedInv'
  BY <1>5, <1>6, <1>8 DEF Refuses
<1>9. CASE ServeList(c)
  <2>1. q.op = "list" /\ q.folder \in Folders /\ UNCHANGED drive
    <3>1. Pending(c, "list") /\ UNCHANGED drive
      BY <1>9 DEF ServeList, Refuses
    <3> QED
      BY <1>0, <1>3, <3>1, CallOf, RequestFields
  <2>2. quiet /\ Waited => Exists(q.folder)
    BY <1>7, <2>1 DEF Asking
  <2>3. Entries(q.folder) \subseteq Hit /\ Entries(q.folder)' = Entries(q.folder)
    BY <1>0, <2>1, EntriesAreHits DEF Entries
  <2>4. CASE Replies(c, TRUE, Entries(q.folder))
    <3>1. Granted(q, Entries(q.folder))'
      BY <2>1, <2>3 DEF Granted
    <3>2. PICK hits \in SUBSET Hit : hits = Entries(q.folder)
      BY <2>3
    <3>3. Granted(q, hits)'
      BY <2>1, <2>3, <3>2 DEF Granted
    <3> QED
      BY <1>5, <1>6, <2>1, <2>4, <3>2, <3>3
  <2>5. CASE ~Exists(q.folder) /\ \E h \in SUBSET Hit : \E ok \in BOOLEAN : Replies(c, ok, h)
    <3>1. PICK h \in SUBSET Hit, ok \in BOOLEAN : Replies(c, ok, h)
      BY <2>5
    <3> QED
      BY <1>5, <2>1, <2>2, <2>5, <3>1, <1>6
  <2>6. \/ Replies(c, TRUE, Entries(q.folder))
        \/ ~Exists(q.folder) /\ \E h \in SUBSET Hit : \E ok \in BOOLEAN : Replies(c, ok, h)
    <3>1. CASE Replies(c, TRUE, {<<q.folder, q.folder, "file">>}) /\ ~Exists(q.folder)
      <4>1. {<<q.folder, q.folder, "file">>} \in SUBSET Hit
        BY <2>1, <3>1 DEF Hit, Kinds, Folders, Exists
      <4> QED
        BY <3>1, <4>1, Zenon
    <3>2. CASE Refuses(c) /\ ~Exists(q.folder)
      <4>1. {} \in SUBSET Hit
        OBVIOUS
      <4>2. Replies(c, FALSE, {})
        BY <3>2 DEF Refuses
      <4> QED
        BY <3>2, <4>1, <4>2, Zenon
    <3> QED
      BY <1>3, <1>9, <3>1, <3>2 DEF ServeList
  <2> QED
    BY <2>4, <2>5, <2>6
<1>10. CASE ServeSearch(c)
  <2>1. PICK hits \in SUBSET Found : Replies(c, TRUE, hits) /\ UNCHANGED drive
    BY <1>10 DEF ServeSearch
  <2>2. hits \subseteq Hit
    BY <1>0, EntriesAreHits DEF Found
  <2>3. q.op = "search"
    BY <1>0, <1>3, <1>10, CallOf DEF ServeSearch
  <2>4. Granted(q, hits)'
    BY <2>3 DEF Granted
  <2> QED
    BY <1>5, <1>6, <2>1, <2>2, <2>3, <2>4
<1>11. CASE ServeNew(c)
  <2>1. q.op = "new" /\ q.folder \in Folders /\ ~calls[c].served
    BY <1>0, <1>3, <1>11, CallOf, RequestFields DEF ServeNew, Pending
  <2>2. CASE ~Refuses(c)
    <3>1. PICK n \in Fresh : Made(q.folder, n, "dir") /\ Replies(c, TRUE, {})
      BY <1>3, <1>11, <2>2 DEF ServeNew
    <3>2. n \in Names /\ "dir" \in Kinds
      BY NameAssumption DEF Kinds
    <3>3. quiet /\ Waited => Exists(label)'
      <4>1. quiet /\ Waited => q.folder = label /\ Exists(label)
        BY <1>7, <2>1 DEF Asking
      <4>2. Exists(q.folder) => Exists(q.folder)'
        BY <1>0, <2>1, <3>1, <3>2, MadeFolder
      <4> QED
        BY <1>1, <4>1, <4>2
    <3>4. Granted(q, {})'
      BY <2>1 DEF Granted
    <3> QED
      BY <1>5, <2>1, <3>1, <3>3, <3>4
  <2> QED
    BY <1>8, <2>2
<1>12. CASE ServeRename(c)
  <2>1. q.op = "rename" /\ q.folder \in Folders /\ q.old \in Names /\ q.new \in Names
        /\ ~calls[c].served
    BY <1>0, <1>3, <1>12, CallOf, RequestFields DEF ServeRename, Pending
  <2>2. CASE ~Refuses(c)
    <3>1. /\ In(q.folder, q.old) /\ ~In(q.folder, q.new)
          /\ Moved(q.folder, q.old, q.new) /\ Replies(c, TRUE, {})
      BY <1>3, <1>12, <2>2 DEF ServeRename
    <3>2. q.new # q.old
      BY <3>1 DEF In
    <3>3. ASSUME quiet, Waited PROVE Exists(label)' /\ Renamed(q)'
      <4>1. /\ q.folder = label /\ Exists(label) /\ Accurate /\ q.old = row[q.row].name
            /\ view = "listing" /\ q.row \in Shown
        BY <1>7, <2>1, <3>3 DEF Asking, Waiting
      <4>2. Exists(label)'
        <5>1. label # Root => drive'[Root] = drive[Root]
          BY <1>0, <2>1, <3>1, <3>2, <4>1, MovedFolder
        <5> QED
          BY <1>0, <1>1, <4>1, <5>1, StaysThere
      <4>3. Renamed(q)'
        BY <1>0, <1>1, <2>1, <3>1, <4>1, MovedSeen
      <4> QED
        BY <4>2, <4>3
    <3>4. quiet /\ Waited => Granted(q, {})'
      BY <2>1, <3>3 DEF Granted
    <3> QED
      BY <1>5, <2>1, <3>1, <3>3, <3>4
  <2> QED
    BY <1>8, <2>2
<1>13. CASE ServeDelete(c)
  <2>1. q.op = "delete" /\ q.folder \in Folders /\ ~calls[c].served
    BY <1>0, <1>3, <1>13, CallOf, RequestFields DEF ServeDelete, Pending
  <2>2. ASSUME NEW ns, Deleted(q.folder, ns), quiet, Waited
        PROVE  Exists(label)' /\ q.folder = label
    <3>1. q.folder = label /\ Exists(label)
      BY <1>7, <2>1, <2>2 DEF Asking
    <3>2. label # Root => drive'[Root] = drive[Root]
      BY <1>0, <2>2, <3>1, DeletedFolder
    <3> QED
      BY <1>0, <1>1, <3>1, <3>2, StaysThere
  <2> DEFINE there == {n \in q.names \ {Sample} : In(q.folder, n)}
  <2>3. CASE there = q.names /\ Deleted(q.folder, there) /\ Replies(c, TRUE, {})
    <3>1. ASSUME quiet, Waited, view = "listing" PROVE Struck'
      <4>1. Accurate /\ q.names = {row[r].name : r \in Checked}
        BY <1>7, <2>1, <3>1 DEF Waiting
      <4>2. Deleted(label, q.names)
        BY <2>2, <2>3, <3>1
      <4> QED
        BY <1>0, <1>1, <4>1, <4>2, DeletedSeen
    <3>2. quiet /\ Waited => Granted(q, {})'
      BY <1>1, <2>1, <3>1 DEF Granted
    <3>3. quiet /\ Waited => Exists(label)'
      BY <2>2, <2>3
    <3> QED
      BY <1>5, <2>1, <2>3, <3>2, <3>3
  <2>4. CASE \E ns \in SUBSET there : Deleted(q.folder, ns) /\ Replies(c, FALSE, {})
    <3>1. PICK ns \in SUBSET there : Deleted(q.folder, ns) /\ Replies(c, FALSE, {})
      BY <2>4
    <3>2. quiet /\ Waited => Exists(label)'
      BY <2>2, <3>1
    <3> QED
      BY <1>5, <2>1, <3>1, <3>2
  <2> QED
    BY <1>3, <1>13, <2>3, <2>4 DEF ServeDelete
<1> QED
  BY <1>9, <1>10, <1>11, <1>12, <1>13 DEF Serve

(* A listing fills the table with the folder's entries.                    *)
LEMMA FilledAccurate ==
  ASSUME DriveOK, row \in [Rows -> Cells], NEW f \in Folders, Refilled(Entries(f)),
         label' = f, UNCHANGED drive
  PROVE  Accurate'
<1>1. Entries(f) \subseteq Hit /\ Entries(label)' = Entries(f)
  BY EntriesAreHits DEF Entries
<1>2. PICK entries \in SUBSET Hit : entries = Entries(f)
  BY <1>1
<1>3. \E place \in Injection(entries, Rows \ InHand) : Filled(place, entries)
  BY <1>2, RefilledTable
<1>4. PICK place : Filled(place, entries)
  BY <1>3
<1>5. ASSUME NEW e \in entries
      PROVE  e = <<f, e[2], e[3]>> /\ e[3] = drive[f][e[2]]
  BY <1>2 DEF Entries
<1>6. ASSUME NEW e \in entries
      PROVE  row'[place[e]].name = e[2] /\ row'[place[e]].kind = e[3]
  <2>1. PICK r : r = place[e]
    OBVIOUS
  <2>2. row'[r] = [name |-> e[2], kind |-> e[3], from |-> e[1], checked |-> FALSE, shown |-> TRUE]
    BY <1>4, <2>1 DEF Filled
  <2> QED
    BY <2>1, <2>2
<1>7. Shown' = {place[e] : e \in entries}
  BY <1>4 DEF Filled
<1>8. Seen(Shown)' = entries
  <2>1. Seen(Shown)' = {<<f, row'[r].name, row'[r].kind>> : r \in Shown'}
    BY DEF Seen
  <2>2. ASSUME NEW e \in entries PROVE <<f, row'[place[e]].name, row'[place[e]].kind>> = e
    BY <1>5, <1>6
  <2>3. ASSUME NEW x \in {<<f, row'[r].name, row'[r].kind>> : r \in Shown'} PROVE x \in entries
    <3>1. PICK r \in Shown' : x = <<f, row'[r].name, row'[r].kind>>
      OBVIOUS
    <3>2. PICK e \in entries : r = place[e]
      BY <1>7
    <3> QED
      BY <2>2, <3>1, <3>2
  <2>4. ASSUME NEW e \in entries PROVE e \in {<<f, row'[r].name, row'[r].kind>> : r \in Shown'}
    BY <1>7, <2>2
  <2> QED
    BY <2>1, <2>3, <2>4
<1>9. ASSUME NEW e \in entries, NEW d \in entries, row'[place[e]].name = row'[place[d]].name
      PROVE  place[e] = place[d]
  BY <1>5, <1>6, <1>9
<1> QED
  BY <1>1, <1>2, <1>7, <1>8, <1>9 DEF Accurate, OneEach

(* A request that has made something lists its folder again.               *)
LEMMA RelistWaited ==
  ASSUME CallsOK, quiet' => Waited, NEW c \in InFlight, NEW f \in Folders, Posts(c, Lists(f)),
         quiet' /\ Waited => f = label, calls[c].served, box' # "prompt",
         UNCHANGED <<drive, label, row, view, dialog, phase, to>>
  PROVE  WaitedInv'
<1>1. SUFFICES ASSUME quiet', Waited PROVE Waited'
  BY DEF WaitedInv
<1>2. PICK q \in Request : q = Lists(f)
  BY ListRequest
<1>3. q.op = "list" /\ q.folder = f /\ f = label /\ Exists(label) /\ (dialog # None => dialog = label)
  BY <1>1, <1>2, ListRequest DEF Waited
<1>4. InFlight = {c} /\ c \in Calls
  BY <1>1, CallFields DEF Waited
<1>5. /\ InFlight' = {c}
      /\ calls'[c] = [request |-> q, served |-> FALSE, ok |-> TRUE, hits |-> {}]
  BY <1>2, <1>4, PostsCall
<1>6. Asked(c)' = q /\ calls'[c].served = FALSE
  BY <1>5 DEF Asked
<1>7. Asking(q)' /\ Waiting(q)'
  BY <1>3 DEF Asking, Waiting, Exists
<1>8. Expected(c)'
  BY <1>6, <1>7 DEF Expected
<1>9. ASSUME NEW u \in Uploads, Working(u)' PROVE FALSE
  BY <1>1, <1>4, <1>9 DEF Waited, Heard, Working
<1> QED
  BY <1>1, <1>3, <1>5, <1>8, <1>9 DEF Waited, Exists

LEMMA AnswerWaited ==
  ASSUME RowsInv, WaitedInv, NEW c \in Calls, Answer(c) \/ Lost(c), UNCHANGED uploadVars
  PROVE  WaitedInv'
<1>0. /\ DriveOK /\ TableOK /\ CallsOK /\ row \in [Rows -> Cells] /\ label \in Folders
      /\ UNCHANGED <<dialog, to, phase>> /\ \A u \in Uploads : Working(u)' <=> Working(u)
  BY DEF RowsInv, CallInv, TableInv, TableOK, uploadVars, server, Working
<1>1. UNCHANGED drive
  BY DEF Answer, Lost, ListAnswered, SearchAnswered, NewAnswered, RenameAnswered, DeleteAnswered
<1>2. CASE Lost(c)
  <2>1. quiet' = FALSE
    BY <1>2 DEF Lost
  <2> QED
    BY <2>1 DEF WaitedInv
<1>3. CASE \E op \in {"list", "search", "new", "rename", "delete"} : Answered(c, op)
  <2>1. PICK op \in {"list", "search", "new", "rename", "delete"} : Answered(c, op)
    BY <1>3
  <2>2. c \in InFlight /\ Asked(c) \in Request /\ Asked(c).op = op
    BY <1>0, <2>1, CallOf
  <2>3. PICK q \in Request : q = Asked(c)
    BY <2>2
  <2>4. calls[c].served /\ calls[c].ok \in BOOLEAN /\ calls[c].hits \in SUBSET Hit
    BY <1>0, <2>1, <2>2, CallFields DEF Answered
  <2>5. Waited => /\ Asking(q) /\ Exists(label)
                  /\ calls[c].ok => Granted(q, calls[c].hits)
    BY <2>2, <2>3, <2>4 DEF Waited, Expected
  <2>6. label' = label => (Waited => Exists(label)' /\ (dialog' # None => dialog' = label'))
    BY <1>0, <1>1 DEF Waited, Exists
  <2>7. CASE ListAnswered(c)
    <3>1. /\ label' = q.folder /\ Refilled(calls[c].hits) /\ Done(c) /\ box' = box
          /\ quiet' = (quiet /\ calls[c].ok) /\ Answered(c, "list")
      BY <2>3, <2>7 DEF ListAnswered, Relabels, Believed
    <3>2. q.op = "list" /\ q.folder \in Folders
      BY <1>0, <2>3, <3>1, CallOf, RequestFields
    <3>3. ASSUME quiet', Waited
          PROVE  Exists(label)' /\ (dialog' # None => dialog' = label') /\ Accurate'
      <4>1. calls[c].hits = Entries(q.folder)
        BY <2>5, <3>1, <3>2, <3>3 DEF Granted
      <4>2. Accurate'
        BY <1>0, <1>1, <3>1, <3>2, <4>1, FilledAccurate
      <4>3. Exists(q.folder) /\ (dialog # None => q.folder = dialog)
        BY <2>5, <3>2, <3>3 DEF Asking
      <4> QED
        BY <1>0, <1>1, <3>1, <4>2, <4>3 DEF Exists
    <3>4. quiet' => Waited
      BY <3>1 DEF WaitedInv
    <3> QED
      BY <1>0, <1>1, <2>2, <2>3, <3>1, <3>2, <3>3, <3>4, LastWaited
  <2>8. CASE SearchAnswered(c)
    <3>1. view' = "hits" /\ box' = "message" /\ Done(c) /\ quiet' = quiet /\ label' = label
            /\ Asked(c).op = "search"
      BY <1>0, <2>8, CallOf DEF SearchAnswered, Shows
    <3>2. quiet' => Waited
      BY <3>1 DEF WaitedInv
    <3> QED
      BY <1>0, <1>1, <2>2, <2>6, <3>1, <3>2, LastWaited
  <2>9. CASE NewAnswered(c)
    <3>1. /\ Posts(c, Lists(q.folder)) /\ box' = "message" /\ UNCHANGED <<label, row, view>>
          /\ quiet' = (quiet /\ calls[c].ok) /\ Answered(c, "new")
      BY <2>3, <2>9 DEF NewAnswered, Shows, Believed
    <3>2. q.op = "new" /\ q.folder \in Folders
      BY <1>0, <2>3, <3>1, CallOf, RequestFields
    <3>3. ASSUME quiet', Waited PROVE q.folder = label
      BY <2>5, <3>2, <3>3 DEF Asking
    <3> QED
      BY <1>0, <1>1, <2>2, <2>4, <3>1, <3>2, <3>3, RelistWaited DEF WaitedInv
  <2>10. CASE RenameAnswered(c)
    <3>1. /\ row' = [row EXCEPT ![q.row].name = q.new] /\ Done(c) /\ box' = "message"
          /\ quiet' = (quiet /\ calls[c].ok) /\ Answered(c, "rename") /\ UNCHANGED <<label, view>>
      BY <2>3, <2>10 DEF RenameAnswered, Shows, Believed
    <3>2. q.op = "rename" /\ q.row \in Rows /\ q.new \in Names
      BY <1>0, <2>3, <3>1, CallOf, RequestFields
    <3>3. ASSUME quiet', Waited PROVE Accurate'
      <4>1. Renamed(q)
        BY <2>5, <3>1, <3>2, <3>3 DEF Granted
      <4>2. ASSUME NEW r \in Rows
            PROVE  /\ row'[r].name = Named(q, r) /\ row'[r].kind = row[r].kind
                   /\ row'[r].shown = row[r].shown
        BY <1>0, <3>1, <3>2 DEF Named, Cells
      <4>3. Shown' = Shown /\ Shown \subseteq Rows
        BY <4>2 DEF Shown
      <4>4. Entries(label)' = Entries(label)
        BY <1>1, <3>1 DEF Entries
      <4>5. Seen(Shown)' = {<<label, Named(q, r), row[r].kind>> : r \in Shown}
        BY <3>1, <4>2, <4>3 DEF Seen
      <4> QED
        BY <4>1, <4>2, <4>3, <4>4, <4>5 DEF Accurate, OneEach, Renamed
    <3>4. quiet' => Waited
      BY <3>1 DEF WaitedInv
    <3> QED
      BY <1>0, <1>1, <2>2, <2>3, <2>6, <3>1, <3>2, <3>3, <3>4, LastWaited
  <2>11. CASE DeleteAnswered(c)
    <3>1. /\ row' = [r \in Rows |-> IF r \in Checked THEN [row[r] EXCEPT !.shown = FALSE]
                                   ELSE row[r]]
          /\ Done(c) /\ box' = "message"
          /\ quiet' = (quiet /\ calls[c].ok) /\ Answered(c, "delete") /\ UNCHANGED <<label, view>>
      BY <2>3, <2>11 DEF DeleteAnswered, Removed, Shows, Believed
    <3>2. q.op = "delete"
      BY <1>0, <2>3, <3>1, CallOf
    <3>3. ASSUME quiet', Waited, view' = "listing" PROVE Accurate'
      <4>1. Struck
        BY <2>5, <3>1, <3>2, <3>3 DEF Granted
      <4>2. ASSUME NEW r \in Rows
            PROVE  /\ row'[r].name = row[r].name /\ row'[r].kind = row[r].kind
                   /\ row'[r].shown <=> (row[r].shown /\ r \notin Checked)
        <5>1. row[r] \in Cells
          BY <1>0
        <5>2. CASE r \in Checked
          <6>1. row'[r] = [row[r] EXCEPT !.shown = FALSE]
            BY <3>1, <5>2
          <6> QED
            BY <5>1, <5>2, <6>1 DEF Cells
        <5>3. CASE r \notin Checked
          BY <3>1, <5>3
        <5> QED
          BY <5>2, <5>3
      <4>3. Shown' = Shown \ Checked /\ Shown \subseteq Rows
        BY <4>2 DEF Shown
      <4>4. Entries(label)' = Entries(label)
        BY <1>1, <3>1 DEF Entries
      <4>5. Seen(Shown)' = Seen(Shown \ Checked)
        BY <3>1, <4>2, <4>3 DEF Seen
      <4> QED
        BY <4>1, <4>2, <4>3, <4>4, <4>5 DEF Accurate, OneEach, Struck
    <3>4. quiet' => Waited
      BY <3>1 DEF WaitedInv
    <3> QED
      BY <1>0, <1>1, <2>2, <2>3, <2>6, <3>1, <3>2, <3>3, <3>4, LastWaited
  <2> QED
    BY <1>2, <2>7, <2>8, <2>9, <2>10, <2>11 DEF Answer
<1> QED
  BY <1>2, <1>3 DEF Answer, ListAnswered, SearchAnswered, NewAnswered, RenameAnswered,
                    DeleteAnswered

LEMMA FormWaited ==
  ASSUME RowsInv, WaitedInv,
         \/ OpenDialog \/ CloseDialog \/ InvalidForm
         \/ \E u \in Uploads, n \in Uploaded : Submit(u, n)
  PROVE  WaitedInv'
<1>0. /\ BoxOK /\ CallsOK /\ ServerOK /\ label \in Folders /\ dialog \in Folders \cup {None}
  BY DEF RowsInv, CallInv, TableInv, TableOK, UserOK
<1>1. CASE OpenDialog
  <2>1. /\ box = "none" /\ Waits /\ dialog' = label
        /\ UNCHANGED <<drive, label, row, view, box, calls, phase, to>>
    BY <1>1 DEF OpenDialog, page, server
  <2>2. SUFFICES ASSUME Waited, InFlight = {} PROVE Waited'
    BY <2>1 DEF Waits, WaitedInv
  <2>3. InFlight' = {} /\ (Exists(label)' <=> Exists(label)) /\ (Accurate' <=> Accurate)
    BY <2>1, <2>2 DEF InFlight, Exists, Accurate, Seen, OneEach, Shown, Entries
  <2>4. \A u \in Uploads : ~Working(u)'
    BY <2>1, <2>2 DEF Waited, Heard, Working
  <2> QED
    BY <2>1, <2>2, <2>3, <2>4 DEF Waited
<1>2. CASE CloseDialog
  <2>1. /\ dialog' = None /\ UNCHANGED <<drive, label, row, view, box, chosen, calls, quiet, to>>
        /\ UNCHANGED phase
    BY <1>2 DEF CloseDialog, pageVars, page, server
  <2>2. \A u \in Uploads : Working(u)' => Working(u)
    BY <2>1 DEF Working
  <2> QED
    BY <2>1, <2>2, KeptWaited
<1>3. CASE InvalidForm
  <2>1. /\ box' = "message" /\ UNCHANGED <<drive, label, row, view, calls, quiet, dialog, to, phase>>
    BY <1>3 DEF InvalidForm, Shows, uploadVars, server
  <2>2. \A u \in Uploads : Working(u)' => Working(u)
    BY <2>1 DEF Working
  <2> QED
    BY <2>1, <2>2, KeptWaited
<1>4. ASSUME NEW u \in Uploads, NEW n \in Uploaded, Submit(u, n) PROVE WaitedInv'
  <2>1. PICK q : q = [op |-> "upload", folder |-> dialog, name |-> n]
    OBVIOUS
  <2>2. /\ dialog # None /\ dialog \in Folders /\ n \in Names /\ u \in Calls
        /\ Posts(u, q) /\ Waits /\ box' = "bar" /\ UNCHANGED <<drive, label, row, view, dialog>>
        /\ phase' = [phase EXCEPT ![u] = "sent"] /\ to' = [to EXCEPT ![u] = <<dialog, n>>]
    BY <1>0, <1>4, <2>1, UploadAssumption DEF Submit
  <2>3. q \in Request
    BY <2>1, <2>2 DEF Request
  <2>4. q.op = "upload" /\ q.folder = dialog
    BY <2>1
  <2>5. Waited => Asking(q)' /\ Waiting(q)'
    BY <2>2, <2>4 DEF Asking, Waiting, Waited
  <2>6. \A v \in Uploads : Working(v)' => Working(v) \/ (v = u /\ to'[v][1] = dialog)
    BY <1>0, <2>2 DEF ServerOK, Working
  <2>7. quiet' => Waited /\ InFlight = {}
    BY <2>2 DEF Waits, WaitedInv
  <2> QED
    BY <1>0, <2>2, <2>3, <2>4, <2>5, <2>6, <2>7, AsksWaited
<1> QED
  BY <1>1, <1>2, <1>3, <1>4

(* The server works on the one upload under way.                           *)
LEMMA UploadWaited ==
  ASSUME RowsInv, WaitedInv, NEW u \in Uploads, Upload(u)
  PROVE  WaitedInv'
<1>0. /\ DriveOK /\ CallsOK /\ ServerOK /\ label \in Folders
  BY DEF RowsInv, CallInv, TableInv, TableOK
<1>1. UNCHANGED <<page, quiet, dialog, to>> /\ UNCHANGED <<label, row, view, box, chosen>>
  BY DEF Upload, Parse, Update, UpdateThrows, ReadAll, Copied, NotCopied, pageVars, page
<1>2. \A p : Goes(u, p) => \A v \in Uploads : phase'[v] = IF v = u THEN p ELSE phase[v]
  BY <1>0 DEF Goes, ServerOK
<1>3. Working(u)
  BY DEF Upload, Parse, Update, UpdateThrows, ReadAll, Copied, NotCopied, Working
<1>4. quiet => Waited /\ Heard(u)
  BY <1>3 DEF Waited, WaitedInv
<1>5. CASE Parse(u) \/ Update(u) \/ ReadAll(u)
  <2>1. UNCHANGED <<drive, calls>>
    BY <1>5 DEF Parse, Update, ReadAll, pageVars
  <2>2. \A v \in Uploads : Working(v)' => Working(v)
    BY <1>2, <1>3, <1>5 DEF Parse, Update, ReadAll, Working
  <2> QED
    BY <1>1, <2>1, <2>2, KeptWaited
<1>6. ASSUME NEW ok \in BOOLEAN, NEW p \in {"ok", "failed"}, Tells(u, ok), Goes(u, p),
             quiet /\ Waited /\ Heard(u) => Exists(label)'
      PROVE  WaitedInv'
  <2>1. CASE ~quiet
    BY <1>1, <2>1 DEF WaitedInv
  <2>2. CASE quiet
    <3>1. u \in InFlight /\ Asked(u).op = "upload"
      BY <1>4, <2>2 DEF Heard
    <3>2. Replies(u, ok, {})
      BY <1>6, <3>1 DEF Tells, InFlight
    <3>3. PICK q : q = Asked(u)
      OBVIOUS
    <3>4. Granted(q, {})'
      BY <3>1, <3>3 DEF Granted
    <3>5. \A v \in Uploads : Working(v)' => Working(v) /\ v # u
      BY <1>2, <1>6 DEF Working
    <3>6. quiet /\ Waited => Exists(label)'
      BY <1>4, <1>6
    <3> QED
      BY <1>0, <1>1, <1>6, <3>1, <3>2, <3>3, <3>4, <3>5, <3>6, ReplyWaited
  <2> QED
    BY <2>1, <2>2
<1>7. CASE UpdateThrows(u) \/ NotCopied(u)
  <2>1. UNCHANGED drive /\ Tells(u, FALSE) /\ Goes(u, "failed")
    BY <1>7 DEF UpdateThrows, NotCopied
  <2>2. quiet /\ Waited => Exists(label)'
    BY <1>1, <2>1 DEF Waited, Exists
  <2> QED
    BY <1>6, <2>1, <2>2
<1>8. CASE Copied(u)
  <2>1. Made(to[u][1], to[u][2], "file") /\ Tells(u, TRUE) /\ Goes(u, "ok")
    BY <1>8 DEF Copied
  <2>2. to[u][1] \in Folders /\ to[u][2] \in Names /\ "file" \in Kinds
    BY <1>0, <1>8 DEF Copied, ServerOK, Kinds
  <2>3. ASSUME quiet, Waited, Heard(u) PROVE Exists(label)'
    <3>1. to[u][1] = label /\ Exists(label)
      BY <2>3 DEF Waited, Heard, Expected, Asking
    <3>2. PICK f \in Folders : f = to[u][1]
      BY <2>2
    <3>3. PICK n \in Names : n = to[u][2]
      BY <2>2
    <3>4. Exists(f)'
      BY <1>0, <2>1, <2>2, <3>1, <3>2, <3>3, MadeFolder
    <3> QED
      BY <1>1, <3>1, <3>2, <3>4
  <2> QED
    BY <1>6, <2>1, <2>3
<1> QED
  BY <1>5, <1>7, <1>8 DEF Upload

LEMMA ReportWaited ==
  ASSUME RowsInv, WaitedInv, NEW u \in Uploads, UploadAnswered(u) \/ UploadFailed(u)
  PROVE  WaitedInv'
<1>0. CallsOK /\ u \in Calls
  BY UploadAssumption DEF RowsInv, CallInv
<1>1. CASE UploadFailed(u)
  BY <1>1 DEF UploadFailed, WaitedInv
<1>2. CASE UploadAnswered(u)
  <2>1. /\ Answered(u, "upload") /\ Posts(u, Lists(Asked(u).folder)) /\ box' = "message"
        /\ UNCHANGED <<drive, label, row, view, quiet, dialog, phase, to>>
    BY <1>2 DEF UploadAnswered, Shows, uploadVars, server
  <2>2. u \in InFlight /\ Asked(u) \in Request /\ Asked(u).op = "upload"
    BY <1>0, <2>1, CallOf
  <2>3. PICK f \in Folders : f = Asked(u).folder
    BY <2>2, RequestFields
  <2>4. Waited => f = label
    BY <2>2, <2>3 DEF Waited, Expected, Asking
  <2>5. calls[u].served
    BY <2>1 DEF Answered
  <2>6. Posts(u, Lists(f))
    BY <2>1, <2>3
  <2> QED
    BY <1>0, <2>1, <2>2, <2>4, <2>5, <2>6, RelistWaited DEF WaitedInv
<1> QED
  BY <1>1, <1>2

LEMMA WaitedNext == RowsInv /\ WaitedInv /\ [Next]_vars => WaitedInv'
<1> SUFFICES ASSUME RowsInv, WaitedInv, [Next]_vars PROVE WaitedInv'
  OBVIOUS
<1>1. ASSUME UNCHANGED <<pageVars, dialog, server>> PROVE WaitedInv'
  BY <1>1, KeptWaited DEF pageVars, page, server, Working
<1>2. CASE UNCHANGED vars
  BY <1>1, <1>2 DEF vars, uploadVars
<1>3. CASE dialog = None /\ ByUser(Calls \ Uploads) /\ UNCHANGED uploadVars
  BY <1>3, ClickWaited, LookWaited DEF ByUser
<1>4. CASE OverNetwork /\ UNCHANGED uploadVars
  BY <1>4, ServeWaited, AnswerWaited DEF OverNetwork
<1>5. CASE Dismiss /\ UNCHANGED uploadVars
  BY <1>5, LookWaited
<1>6. CASE OpenDialog \/ CloseDialog \/ InvalidForm
  BY <1>6, FormWaited
<1>7. ASSUME NEW u \in Uploads,
             \/ Upload(u) \/ UploadAnswered(u) \/ UploadFailed(u)
             \/ \E n \in Uploaded : Submit(u, n)
      PROVE  WaitedInv'
  BY <1>7, UploadWaited, ReportWaited, FormWaited
<1>8. ASSUME NEW u \in Uploads, NEW i \in Polls,
             Tick(u, i) \/ ServePoll(u, i) \/ PollShown(u, i) \/ PollInVain(u, i)
      PROVE  WaitedInv'
  BY <1>1, <1>8 DEF Tick, ServePoll, PollShown, PollInVain
<1> QED
  BY <1>2, <1>3, <1>4, <1>5, <1>6, <1>7, <1>8 DEF Next

(* A user who waits for every answer, and whom the server refuses nothing, *)
(* sees the folder as it is: what the handlers patch in the table is what  *)
(* the server did to the drive.                                            *)
THEOREM WaitingSees == Spec => []WaitingUserSeesDrive
<1>1. Init => WaitedInv
  <2> SUFFICES ASSUME Init PROVE Waited
    BY DEF WaitedInv
  <2>1. label = Root /\ view = "sample" /\ box = "none" /\ calls = [c \in Calls |-> None]
          /\ dialog = None /\ phase = [u \in Uploads |-> "none"]
    BY DEF Init, PageInit
  <2>2. InFlight = {} /\ Exists(label)
    BY <2>1 DEF InFlight, Exists
  <2> QED
    BY <2>1, <2>2 DEF Waited, Working
<1>2. WaitedInv => WaitingUserSeesDrive
  BY DEF WaitedInv, Waited, WaitingUserSeesDrive, Accurate, Seen
<1> QED
  BY <1>1, <1>2, WaitedNext, RowsAlways, PTL DEF Spec
=============================================================================
