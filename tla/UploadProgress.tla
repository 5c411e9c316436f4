--------------------------- MODULE UploadProgress ---------------------------
(***************************************************************************)
(* Uploads with their progress bar, over the drive's page.  The page       *)
(* submits the form and starts a task that asks for the progress every     *)
(* second; the server's listener keeps the progress in the session, one    *)
(* object for all uploads of the session, which FileUploadAction removes.  *)
(***************************************************************************)
EXTENDS DrivePage

CONSTANTS Uploads,   \* bound: uploads of the session; each has a call for its listing
          Polls,     \* bound: questions of one task in flight
          Uploaded,  \* bound: names of uploaded files
          Total      \* the size of an upload, in the updates of the listener

ASSUME UploadAssumption == /\ Uploads \subseteq Calls /\ Uploaded \subseteq Names
                           /\ Total \in Nat \ {0} /\ None \notin 0..Total

VARIABLES dialog,    \* the path the open upload dialog took, or None
          phase,     \* phase[u]: how far the server is with an upload
          to,        \* to[u]: its folder and name
          read,      \* read[u]: what has come of it
          session,   \* the attribute "state": what it says is read, or None
          task,      \* task[u]: "none", "on" or "stopped"
          poll,      \* poll[u][i]: a question for the progress
          bar,       \* whose bar Ext.Msg has shown last, and how far
          orderly,   \* an upload began only when all before had been reported a success
          threw      \* the listener has found no progress object

server == <<phase, to, read, session, threw>>
uploadVars == <<dialog, server, task, poll, bar, orderly>>
vars == <<pageVars, uploadVars>>

NoPoll == [state |-> "none", found |-> None]

Init ==
  /\ PageInit
  /\ dialog = None
  /\ phase = [u \in Uploads |-> "none"]
  /\ to = [u \in Uploads |-> <<Root, Sample>>]
  /\ read = [u \in Uploads |-> 0]
  /\ session = None /\ threw = FALSE
  /\ task = [u \in Uploads |-> "none"]
  /\ poll = [u \in Uploads |-> [i \in Polls |-> NoPoll]]
  /\ bar = [of |-> None, shows |-> 0]
  /\ orderly = TRUE

-----------------------------------------------------------------------------
(* uploadFileCall: the dialog keeps the path of the moment it was opened,  *)
(* and covers the page until it is closed.                                 *)
OpenDialog ==
  /\ box = "none" /\ dialog = None /\ Waits
  /\ left.uploads > 0
  /\ dialog' = label
  /\ UNCHANGED <<drive, page, calls, left, server, task, poll, bar, orderly>>
CloseDialog ==
  /\ box = "none" /\ dialog # None /\ dialog' = None
  /\ UNCHANGED <<pageVars, server, task, poll, bar, orderly>>
InvalidForm ==
  /\ box = "none" /\ dialog # None /\ Shows
  /\ UNCHANGED <<drive, label, row, view, calls, astray, left, quiet, uploadVars>>

Over(u) == /\ phase[u] \in {"none", "ok"} /\ calls[u] = None
           /\ \A i \in Polls : poll[u][i] = NoPoll
Submit(u, n) ==
  /\ box = "none" /\ dialog # None /\ phase[u] = "none"
  /\ phase' = [phase EXCEPT ![u] = "sent"]
  /\ left.uploads > 0 /\ left' = [left EXCEPT !.uploads = @ - 1]
  /\ to' = [to EXCEPT ![u] = <<dialog, n>>]
  /\ Posts(u, [op |-> "upload", folder |-> dialog, name |-> n])
  /\ box' = "bar" /\ bar' = [of |-> u, shows |-> 0]
  /\ task' = [task EXCEPT ![u] = "on"]
  /\ orderly' = (orderly /\ \A v \in Uploads : Over(v)) /\ Waits
  /\ UNCHANGED <<drive, label, row, view, chosen, astray, dialog, read, session, threw, poll>>

-----------------------------------------------------------------------------
(* The server: FileUploadMultiPartRequest, its listener, FileUploadAction. *)
(* A page that no longer waits for the answer gets none.                   *)
Goes(u, p) == phase' = [phase EXCEPT ![u] = p]
Tells(u, ok) == IF calls[u] = None THEN UNCHANGED calls ELSE Replies(u, ok, {})

Parse(u) ==
  /\ phase[u] = "sent" /\ Goes(u, "reading") /\ session' = 0
  /\ UNCHANGED <<pageVars, dialog, to, read, threw, task, poll, bar, orderly>>
(* update() looks the progress up in the session each time: without it the *)
(* request ends with a NullPointerException.                               *)
Update(u) ==
  /\ phase[u] = "reading" /\ read[u] < Total /\ session # None
  /\ read' = [read EXCEPT ![u] = @ + 1] /\ session' = read[u] + 1
  /\ UNCHANGED <<pageVars, dialog, phase, to, threw, task, poll, bar, orderly>>
UpdateThrows(u) ==
  /\ phase[u] = "reading" /\ read[u] < Total /\ session = None
  /\ threw' = TRUE /\ Goes(u, "failed") /\ Tells(u, FALSE)
  /\ UNCHANGED <<drive, page, left, quiet, dialog, to, read, session, task, poll, bar, orderly>>
(* The whole body is parsed before the action runs.                        *)
ReadAll(u) ==
  /\ phase[u] = "reading" /\ read[u] = Total /\ Goes(u, "copying")
  /\ UNCHANGED <<pageVars, dialog, to, read, session, threw, task, poll, bar, orderly>>

(* copyFile refuses a name that is taken; only an upload that succeeds     *)
(* removes the progress.  Mutant: none does.                               *)
Stays(s) == s
AfterSuccess(s) == None
Copied(u) ==
  /\ phase[u] = "copying" /\ Goes(u, "ok") /\ Tells(u, TRUE)
  /\ ~In(to[u][1], to[u][2])
  /\ to[u][1] \in {Root} \cup {n \in Names : drive[Root][n] # "file"}
  /\ Made(to[u][1], to[u][2], "file")
  /\ session' = AfterSuccess(session)
  /\ UNCHANGED <<page, left, quiet, dialog, to, read, threw, task, poll, bar, orderly>>
NotCopied(u) ==
  /\ phase[u] = "copying" /\ Goes(u, "failed") /\ Tells(u, FALSE)
  /\ UNCHANGED <<drive, page, left, quiet, dialog, to, read, session, threw, task, poll, bar, orderly>>

Upload(u) == \/ Parse(u) \/ Update(u) \/ UpdateThrows(u) \/ ReadAll(u)
             \/ Copied(u) \/ NotCopied(u)

-----------------------------------------------------------------------------
(* The task.  FileProgressBarAction answers with the session's progress,   *)
(* or with null, on which the handler throws.  A question that fails adds  *)
(* one to a counter that starts at 0 each time: nothing comes of it.       *)
Becomes(u, i, p) == poll' = [poll EXCEPT ![u][i] = p]
Tick(u, i) ==
  /\ task[u] = "on" /\ poll[u][i] = NoPoll
  /\ Becomes(u, i, [state |-> "sent", found |-> None])
  /\ UNCHANGED <<pageVars, dialog, server, task, bar, orderly>>
ServePoll(u, i) ==
  /\ poll[u][i].state = "sent" /\ Becomes(u, i, [state |-> "served", found |-> session])
  /\ UNCHANGED <<pageVars, dialog, server, task, bar, orderly>>
(* progressBar is Ext.Msg: whichever upload's bar it shows gets the rate.  *)
PollShown(u, i) ==
  /\ poll[u][i].state = "served" /\ poll[u][i].found # None
  /\ bar' = [bar EXCEPT !.shows = poll[u][i].found]
  /\ task' = IF poll[u][i].found = Total THEN [task EXCEPT ![u] = "stopped"] ELSE task
  /\ Becomes(u, i, NoPoll)
  /\ UNCHANGED <<pageVars, dialog, server, orderly>>
PollInVain(u, i) ==
  /\ poll[u][i].state = "sent" \/ poll[u][i] = [state |-> "served", found |-> None]
  /\ Becomes(u, i, NoPoll)
  /\ UNCHANGED <<pageVars, dialog, server, task, bar, orderly>>

(* The answer to the form: success hides the bar and lists the dialog's    *)
(* path, failure shows a message in the bar's place; neither stops the task.*)
(* Mutant: no handler for failure.                                         *)
UploadAnswered(u) ==
  /\ Answered(u, "upload") /\ calls[u].ok
  /\ Posts(u, Lists(Asked(u).folder)) /\ Shows
  /\ UNCHANGED <<drive, label, row, view, astray, left, quiet, uploadVars>>
FailsSilently(u) ==
  /\ Answered(u, "upload") /\ ~calls[u].ok /\ Done(u) /\ quiet' = FALSE
  /\ UNCHANGED <<drive, page, left, uploadVars>>
UploadFailed(u) ==
  /\ Answered(u, "upload") /\ ~calls[u].ok
  /\ Done(u) /\ Shows /\ quiet' = FALSE
  /\ UNCHANGED <<drive, label, row, view, astray, left, uploadVars>>

Next ==
  \/ dialog = None /\ ByUser(Calls \ Uploads) /\ UNCHANGED uploadVars
  \/ OverNetwork /\ UNCHANGED uploadVars
  \/ Dismiss /\ UNCHANGED uploadVars
  \/ OpenDialog \/ CloseDialog \/ InvalidForm
  \/ \E u \in Uploads : \/ Upload(u) \/ UploadAnswered(u) \/ UploadFailed(u)
                         \/ \E n \in Uploaded : Submit(u, n)
                         \/ \E i \in Polls : \/ Tick(u, i) \/ ServePoll(u, i)
                                            \/ PollShown(u, i) \/ PollInVain(u, i)

(* The server goes on with an upload it has got, and the browser runs a    *)
(* handler whose answer has come.  Nobody has to click.                    *)
Fairness == \A u \in Uploads : WF_vars(Upload(u)) /\ WF_vars(UploadAnswered(u) \/ UploadFailed(u))
Spec == Init /\ [][Next]_vars /\ Fairness

-----------------------------------------------------------------------------
(* One progress object serves all uploads of a session, and only success   *)
(* removes it.  When each upload is reported a success before the next     *)
(* begins, and none of its questions is on its way then, the bar never     *)
(* shows more than the server has read of its own upload, and the listener *)
(* always finds the object.                                                *)
ProgressIsOwn ==
  orderly => /\ ~threw
             /\ box = "bar" => bar.shows <= read[bar.of]

(* A form that was submitted is answered for: the page shows the result,   *)
(* whatever happens to the upload, its listener or the connection.         *)
Uploading(u) == calls[u] # None /\ Asked(u).op = "upload"
UploadIsReported == \A u \in Uploads : Uploading(u) ~> (~Uploading(u) /\ box = "message")
=============================================================================
