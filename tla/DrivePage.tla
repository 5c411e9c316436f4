----------------------------- MODULE DrivePage -----------------------------
(***************************************************************************)
(* The drive's page: AjaxConn.js and FileOperation.js over download.html.  *)
(* One path label and one table are shared by the answers of all requests; *)
(* handlers read them when they run, not when the request was made.  The   *)
(* script runs one handler at a time, so a click and an answer are a step  *)
(* each; requests are served and answered in any order, and may be lost.   *)
(***************************************************************************)
EXTENDS Naturals, FiniteSets, Functions

CONSTANTS Root,        \* "/"
          Names,       \* bound: names of files and folders
          Fresh,       \* those among them a new folder can get
          Sample,      \* the name in the rows download.html comes with
          Rows,        \* bound: row objects of the document
          MaxHits,     \* bound: hits of a search
          Starts,      \* bound: what the root holds, how many requests and uploads the user makes
          Calls,       \* bound: requests of the page in flight
          None         \* no request, no row

ASSUME NameAssumption == Root \notin Names /\ Sample \notin Names /\ Fresh \subseteq Names
ASSUME RowsAssumption == IsFiniteSet(Rows)

Folders == {Root} \cup Names     \* bound: folders are opened one level deep
Kinds == {"none", "file", "dir"}

(* The cells of a row, an entry of an answer, and a request with what has  *)
(* become of it.                                                           *)
Cells == [name : Names \cup {Sample}, kind : Kinds \ {"none"}, from : Folders,
          checked : BOOLEAN, shown : BOOLEAN]
Hit == Folders \X Names \X (Kinds \ {"none"})
Request ==
  [op : {"list", "new"}, folder : Folders] \cup [op : {"search"}]
    \cup [op : {"upload"}, folder : Folders, name : Names]
    \cup [op : {"delete"}, folder : Folders, names : SUBSET (Names \cup {Sample}),
          twice : BOOLEAN, listed : BOOLEAN, right : BOOLEAN]
    \cup [op : {"rename"}, folder : Folders, old : Names, new : Names, row : Rows,
          listed : BOOLEAN, right : BOOLEAN]
Call == [request : Request, served : BOOLEAN, ok : BOOLEAN, hits : SUBSET Hit]

ASSUME StartsAssumption ==
  \A s \in Starts : s \in [root : [Names -> Kinds], requests : Nat, uploads : Nat]
ASSUME NoneAssumption == None \notin Rows \cup Folders \cup Call

VARIABLES drive,   \* drive[f][n]: what n is in folder f: "none", "file" or "dir"
          label,   \* the text of #path
          row,     \* row[r]: a row object, its cells, whether it is in the table
          view,    \* what the table was filled with: "sample", "listing" or "hits"
          box,     \* Ext.Msg: "none", "message", "prompt" or "bar"
          chosen,  \* the row the prompt for a new name is about
          calls,   \* calls[c]: a request and what has become of it
          astray,  \* the download opened last asked another folder than its row's
          left,    \* how many requests and uploads the user may still make
          quiet    \* the user has waited for every answer, and the server refused nothing

page == <<label, row, view, box, chosen, astray>>
pageVars == <<drive, page, calls, left, quiet>>

NoRow == [name |-> Sample, kind |-> "file", from |-> Root, checked |-> FALSE, shown |-> FALSE]
Shown == {r \in Rows : row[r].shown}
Checked == {r \in Shown : row[r].checked}
InFlight == {c \in DOMAIN calls : calls[c] # None}
Empty == [n \in Names |-> "none"]
Exists(f) == f \in {Root} \cup {n \in Names : drive[Root][n] = "dir"}
Entries(f) == {<<f, n, drive[f][n]>> : n \in {m \in Names : drive[f][m] # "none"}}

PageInit ==
  /\ \E s \in Starts :
       /\ drive = [f \in Folders |-> IF f = Root THEN s.root ELSE Empty]
       /\ left = [requests |-> s.requests, uploads |-> s.uploads]
  /\ label = Root /\ view = "sample" /\ box = "none" /\ chosen = None
  /\ row = [r \in Rows |-> [NoRow EXCEPT !.shown = r = CHOOSE s \in Rows : TRUE]]
  /\ calls = [c \in Calls |-> None]
  /\ astray = FALSE
  /\ quiet = TRUE

-----------------------------------------------------------------------------
(* Clicks.  A box of Ext.Msg covers the page until it is answered.         *)
Waits == quiet' = (quiet /\ InFlight = {})
Posts(c, request) ==
  calls' = [calls EXCEPT ![c] = [request |-> request, served |-> FALSE, ok |-> TRUE, hits |-> {}]]
Sends(c, request) ==
  calls[c] = None /\ left.requests > 0 /\ left' = [left EXCEPT !.requests = @ - 1] /\ Posts(c, request)
Lists(f) == [op |-> "list", folder |-> f]

AllList(c) ==
  /\ box = "none" /\ Sends(c, Lists(Root)) /\ Waits
  /\ UNCHANGED <<drive, page>>

(* A click on a name: a folder is listed under the label's path; a file,   *)
(* and every hit of a search, is downloaded in a window of its own.        *)
OpenFolder(c, r) ==
  /\ box = "none" /\ r \in Shown /\ view = "listing" /\ row[r].kind = "dir" /\ label = Root
  /\ Sends(c, Lists(row[r].name)) /\ Waits
  /\ UNCHANGED <<drive, page>>
Download(r) ==
  /\ box = "none" /\ r \in Shown /\ view # "sample"
  /\ astray' = (view = "listing" /\ row[r].from # label)
  /\ UNCHANGED <<left, drive, label, row, view, box, chosen, calls, quiet>>

NewFolder(c) ==
  /\ box = "none" /\ Sends(c, [op |-> "new", folder |-> label]) /\ Waits
  /\ UNCHANGED <<drive, page>>
Search(c) ==
  /\ box = "none" /\ Sends(c, [op |-> "search"]) /\ Waits
  /\ UNCHANGED <<drive, page>>

Check(r) ==
  /\ box = "none" /\ r \in Shown /\ Waits
  /\ row' = [row EXCEPT ![r].checked = ~@]
  /\ UNCHANGED <<left, drive, label, view, box, chosen, calls, astray>>
Judge(all) ==
  /\ box = "none" /\ Waits
  /\ row' = [r \in Rows |-> [row[r] EXCEPT !.checked = IF r \in Shown THEN all ELSE @]]
  /\ UNCHANGED <<left, drive, label, view, box, chosen, calls, astray>>

(* del(): the names in the checked rows, under the path the label shows.   *)
FromLabel(rs) == \A r \in rs : row[r].from = label
Del(c, rs) ==
  Sends(c, [op |-> "delete", folder |-> label, names |-> {row[r].name : r \in rs},
            twice |-> Cardinality({row[r].name : r \in rs}) < Cardinality(rs),
            listed |-> view = "listing", right |-> FromLabel(rs)])
DeleteChecked(c) ==
  /\ box = "none" /\ Del(c, Checked) /\ Waits
  /\ UNCHANGED <<drive, page>>
DeleteRow(c, r) ==
  /\ box = "none" /\ r \in Shown /\ view # "hits"
  /\ row' = [row EXCEPT ![r].checked = TRUE]
  /\ Del(c, Checked \cup {r}) /\ Waits
  /\ UNCHANGED <<drive, label, view, box, chosen, astray>>

(* selectChosenFactory: the name and the path are read when OK is clicked, *)
(* off a row that an answer may have taken out of the table meanwhile.     *)
Prompt(r) ==
  /\ box = "none" /\ r \in Shown /\ view = "listing"
  /\ box' = "prompt" /\ chosen' = r /\ Waits
  /\ UNCHANGED <<left, drive, label, row, view, calls, astray>>
Rename(c, new) ==
  /\ box = "prompt" /\ box' = "none" /\ chosen' = None /\ Waits
  /\ Sends(c, [op |-> "rename", folder |-> label, old |-> row[chosen].name, new |-> new,
               row |-> chosen, listed |-> chosen \in Shown, right |-> FromLabel({chosen})])
  /\ UNCHANGED <<drive, label, row, view, astray>>
Dismiss ==
  /\ box \in {"prompt", "message", "bar"} /\ box' = "none" /\ chosen' = None
  /\ UNCHANGED <<left, drive, label, row, view, calls, astray, quiet>>

-----------------------------------------------------------------------------
(* The server.  What it refuses it answers with "false" or "null", which   *)
(* the page takes for success: only a lost request counts as a failure.    *)
Replies(c, ok, hits) ==
  calls' = [calls EXCEPT ![c].served = TRUE, ![c].ok = ok, ![c].hits = hits]
Pending(c, op) == calls[c] # None /\ ~calls[c].served /\ calls[c].request.op = op
Asked(c) == calls[c].request
In(f, n) == drive[f][n] # "none"
Refuses(c) == Replies(c, FALSE, {}) /\ UNCHANGED drive

ServeList(c) ==
  /\ Pending(c, "list")
  /\ LET f == Asked(c).folder
     IN  \/ Exists(f) /\ Replies(c, TRUE, Entries(f)) /\ UNCHANGED drive
         \/ ~Exists(f) /\ In(Root, f) /\ Replies(c, TRUE, {<<f, f, "file">>}) /\ UNCHANGED drive
         \/ ~Exists(f) /\ ~In(Root, f) /\ Refuses(c)
  /\ UNCHANGED <<left, page, quiet>>
Found == UNION {{e \in Entries(f) : e[3] = "file"} : f \in Folders}
ServeSearch(c) ==
  /\ Pending(c, "search")
  /\ \E hits \in SUBSET Found : Cardinality(hits) <= MaxHits /\ Replies(c, TRUE, hits)
  /\ UNCHANGED <<left, drive, page, quiet>>

(* mkdirs makes the folders above as well, unless one of them is a file.   *)
Made(f, n, kind) ==
  LET in == [drive EXCEPT ![f][n] = kind]
  IN  drive' = IF f = Root THEN in ELSE [in EXCEPT ![Root][f] = "dir"]
ServeNew(c) ==
  /\ Pending(c, "new")
  /\ LET f == Asked(c).folder
     IN  IF f # Root /\ drive[Root][f] = "file" THEN Refuses(c)
         ELSE \E n \in Fresh : ~In(f, n) /\ Made(f, n, "dir") /\ Replies(c, TRUE, {})
  /\ UNCHANGED <<left, page, quiet>>

Moved(f, old, new) ==
  LET in == [drive EXCEPT ![f][new] = drive[f][old], ![f][old] = "none"]
  IN  drive' = IF f = Root THEN [in EXCEPT ![new] = drive[old], ![old] = Empty] ELSE in
ServeRename(c) ==
  /\ Pending(c, "rename")
  /\ LET q == Asked(c)
     IN  IF In(q.folder, q.old) /\ ~In(q.folder, q.new)
         THEN Moved(q.folder, q.old, q.new) /\ Replies(c, TRUE, {}) ELSE Refuses(c)
  /\ UNCHANGED <<left, page, quiet>>

(* FileDelete goes through the list up to the first name that is not there.*)
Deleted(f, ns) ==
  drive' = [g \in Folders |->
              IF g = f THEN [n \in Names |-> IF n \in ns THEN "none" ELSE drive[f][n]]
              ELSE IF f = Root /\ g \in ns THEN Empty ELSE drive[g]]
ServeDelete(c) ==
  /\ Pending(c, "delete")
  /\ LET q == Asked(c)
         there == {n \in q.names \ {Sample} : In(q.folder, n)}
     IN  IF there = q.names /\ ~q.twice THEN Deleted(q.folder, there) /\ Replies(c, TRUE, {})
         ELSE \E ns \in SUBSET there : Deleted(q.folder, ns) /\ Replies(c, FALSE, {})
  /\ UNCHANGED <<left, page, quiet>>

-----------------------------------------------------------------------------
(* Answers.                                                                *)
Answered(c, op) == calls[c] # None /\ calls[c].served /\ calls[c].request.op = op
Done(c) == calls' = [calls EXCEPT ![c] = None]
Shows == box' = "message" /\ chosen' = None
Believed(c) == quiet' = (quiet /\ calls[c].ok)

(* A row that a prompt or a request has in hand outlives the table.        *)
InHand == (IF chosen = None THEN {} ELSE {chosen})
            \cup {Asked(c).row : c \in {d \in InFlight : Asked(d).op = "rename"}}
Refilled(entries) ==
  Injection(entries, Rows \ InHand) # {} /\
  LET place == CHOOSE p \in Injection(entries, Rows \ InHand) : TRUE
  IN  row' = [r \in Rows |->
                 IF r \in InHand THEN [row[r] EXCEPT !.shown = FALSE]
                 ELSE IF r \notin Range(place) THEN NoRow
                 ELSE LET e == CHOOSE e \in entries : place[e] = r
                      IN  [name |-> e[2], kind |-> e[3], from |-> e[1],
                           checked |-> FALSE, shown |-> TRUE]]

(* Mutant: the path is not set.                                            *)
KeepsLabel(c) == label' = label
Relabels(c) == label' = Asked(c).folder
ListAnswered(c) ==
  /\ Answered(c, "list")
  /\ Relabels(c) /\ view' = "listing"
  /\ Refilled(calls[c].hits)
  /\ Done(c) /\ Believed(c)
  /\ UNCHANGED <<left, drive, box, chosen, astray>>
SearchAnswered(c) ==
  /\ Answered(c, "search")
  /\ view' = "hits" /\ Refilled(calls[c].hits)
  /\ Done(c) /\ Shows
  /\ UNCHANGED <<left, drive, label, astray, quiet>>
NewAnswered(c) ==
  /\ Answered(c, "new")
  /\ Posts(c, Lists(Asked(c).folder)) /\ Shows /\ Believed(c)
  /\ UNCHANGED <<left, drive, label, row, view, astray>>
RenameAnswered(c) ==
  /\ Answered(c, "rename")
  /\ row' = [row EXCEPT ![Asked(c).row].name = Asked(c).new]
  /\ Done(c) /\ Shows /\ Believed(c)
  /\ UNCHANGED <<left, drive, label, view, astray>>

(* delcheck(): the rows that are checked now, from the last to the first.  *)
(* Mutant: from the first on, where removing a row skips the next.         *)
EveryOther(rs) == IF Cardinality(rs) < 2 THEN rs ELSE {CHOOSE r \in rs : TRUE}
Removed(rs) == rs
DeleteAnswered(c) ==
  /\ Answered(c, "delete")
  /\ row' = [r \in Rows |-> IF r \in Removed(Checked) THEN [row[r] EXCEPT !.shown = FALSE]
                            ELSE row[r]]
  /\ Done(c) /\ Shows /\ Believed(c)
  /\ UNCHANGED <<left, drive, label, view, astray>>

(* A request or its answer is lost: every failure handler shows a message. *)
(* (A request that is lost is not served later.)                           *)
Lost(c) ==
  /\ calls[c] # None /\ Done(c) /\ Shows /\ quiet' = FALSE
  /\ UNCHANGED <<left, drive, label, row, view, astray>>

Serve(c) == \/ ServeList(c) \/ ServeSearch(c) \/ ServeNew(c)
            \/ ServeRename(c) \/ ServeDelete(c)
Answer(c) == \/ ListAnswered(c) \/ SearchAnswered(c) \/ NewAnswered(c)
             \/ RenameAnswered(c) \/ DeleteAnswered(c)
Click(c) == \/ AllList(c) \/ NewFolder(c) \/ Search(c) \/ DeleteChecked(c)
            \/ \E r \in Rows : OpenFolder(c, r) \/ DeleteRow(c, r)
            \/ \E new \in Names : Rename(c, new)
ByUser(C) == \/ \E c \in C : Click(c)
             \/ \E r \in Rows : Download(r) \/ Check(r) \/ Prompt(r)
             \/ \E all \in BOOLEAN : Judge(all)
OverNetwork == \E c \in Calls : Serve(c) \/ Answer(c) \/ Lost(c)

-----------------------------------------------------------------------------
(* Handlers of a listing's rows combine the name in a row with the path in *)
(* the label, which other handlers change: whatever the order of answers,  *)
(* the rows come from the folder the label names, and renames, deletions   *)
(* and downloads that start from a row in the table go to that folder.     *)
RowsUnderLabel ==
  /\ view = "listing" => FromLabel(Shown)
  /\ \A c \in InFlight :
       Asked(c).op \in {"rename", "delete"} /\ Asked(c).listed => Asked(c).right
  /\ ~astray

(* The handlers patch the table instead of asking again (a renamed cell,   *)
(* removed rows): a user who waits for every answer sees the folder as it  *)
(* is, as long as the server has refused nothing.                          *)
WaitingUserSeesDrive ==
  quiet /\ InFlight = {} /\ view = "listing" =>
    {<<label, row[r].name, row[r].kind>> : r \in Shown} = Entries(label)
=============================================================================
