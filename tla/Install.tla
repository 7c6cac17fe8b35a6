------------------------------ MODULE Install ------------------------------
(***************************************************************************)
(* Putting our hooks into an agent's configuration file and taking them    *)
(* out again (mai-probe/src/install.rs; install-hooks and uninstall-hooks  *)
(* in main.rs), while the agent or the user changes the same file.         *)
(*                                                                         *)
(* The two agents' files are handled one after the other and do not affect *)
(* each other: one is modelled.  An install runs at every connection to    *)
(* the host, so several may run at once: one per entry of the host in the  *)
(* app, and one per installation of the app.                               *)
(*                                                                         *)
(* Of the document the hooks are kept, group by group, and, as a set, the  *)
(* changes others have made to the rest of it.  A hook is "ours" (the      *)
(* entry merge_hooks writes), "old" (one of ours in another form: command, *)
(* matcher) or somebody else's.  The file stands for the one at the end of *)
(* a symbolic link.  Backups are kept per process: their names differ      *)
(* unless two processes read the clock in one millisecond.                 *)
(***************************************************************************)
EXTENDS Naturals, SequencesExt

CONSTANTS
  Procs,        \* processes of mai-probe
  Events,       \* the agent's hook events
  Others,       \* events we do not ask for
  Theirs,       \* hooks of others
  Edits,        \* changes that others make, each once
  FirstFiles    \* what the file may be at the start

\* is_ours.
Ours == {"ours", "old"}
Hook == Ours \cup Theirs

\* hooked: the group has an array of hooks.
Group == [hooked : BOOLEAN, hooks : Seq(Hook)]
List == [kind : {"absent", "list", "bad"}, groups : Seq(Group)]

\* What serde_json makes of the text.
Doc ==
  [shape : {"other", "no hooks", "bad hooks", "hooks"},
   lists : [Events \cup Others -> List],
   rest  : SUBSET Edits]

\* "bad": not JSON; "partial": what a write that was cut short leaves.
File == [text : {"missing", "unreadable", "bad", "partial", "doc"}, doc : Doc]

ASSUME InstallAssumption ==
  /\ Ours \cap Theirs = {} /\ Events \cap Others = {}
  /\ FirstFiles \subseteq File

Absent == [kind |-> "absent", groups |-> <<>>]
Empty == [shape |-> "no hooks", lists |-> [e \in Events \cup Others |-> Absent], rest |-> {}]
Missing == [text |-> "missing", doc |-> Empty]
Of(doc) == [text |-> "doc", doc |-> doc]

VARIABLES
  file,      \* the configuration file
  at,        \* where a process is
  edit,      \* "install" or "uninstall"
  after,     \* the document it is to write
  bak,       \* the backup it made
  tmp,       \* its temporary file
  made,      \* edits made
  late,      \* those made while some process had its backup and not renamed yet
  first,     \* the file at the start
  last       \* the edit that was last put in place

installVars == <<file, at, edit, after, bak, tmp, made, late, first, last>>

Ends == {"Installed", "Removed", "Unchanged", "error", "crashed"}

\* Every part of the state has its type.
InstallTypeOK ==
  /\ file \in File /\ first \in FirstFiles
  /\ at \in [Procs -> {"idle", "read", "backup", "tmp", "rename"} \cup Ends]
  /\ edit \in [Procs -> {"install", "uninstall"}]
  /\ after \in [Procs -> Doc] /\ bak \in [Procs -> File] /\ tmp \in [Procs -> File]
  /\ made \subseteq Edits /\ late \subseteq made
  /\ last \in {"none", "install", "uninstall"}

-----------------------------------------------------------------------------
(* The edits.                                                              *)

\* The hooks of s that are in H, in order.
Keep(s, H) == FlattenSeq([i \in DOMAIN s |-> IF s[i] \in H THEN <<s[i]>> ELSE <<>>])

\* Mutant: a group that holds a hook of ours is dropped.
strip_ours_groups(groups) ==
  FlattenSeq([i \in DOMAIN groups |->
                IF Keep(groups[i].hooks, Ours) = <<>> THEN <<groups[i]>> ELSE <<>>])

\* Our hooks leave every group, and a group that is empty then leaves the list.
strip_ours(groups) ==
  LET Left(g) == [g EXCEPT !.hooks = Keep(@, Hook \ Ours)]
      Stays(g) == Left(g) = g \/ Left(g).hooks # <<>>
  IN FlattenSeq([i \in DOMAIN groups |->
                   IF Stays(groups[i]) THEN <<Left(groups[i])>> ELSE <<>>])

Entry == [hooked |-> TRUE, hooks |-> <<"ours">>]

\* hooks_table and the lists of the events: what is not as expected is an error.
Mergeable(doc) ==
  /\ doc.shape \in {"no hooks", "hooks"}
  /\ \A e \in Events : doc.lists[e].kind # "bad"

merge_hooks(doc) ==
  [shape |-> "hooks",
   lists |-> [e \in DOMAIN doc.lists |->
                IF e \in Events
                  THEN [kind |-> "list", groups |-> Append(strip_ours(doc.lists[e].groups), Entry)]
                  ELSE doc.lists[e]],
   rest |-> doc.rest]

Removable(doc) == doc.shape \in {"no hooks", "hooks"}

\* Lists that are empty then are dropped.
remove_hooks(doc) ==
  LET Stripped(l) == [l EXCEPT !.groups = strip_ours(@)]
      Kept(l) == IF l.kind = "list" /\ Stripped(l).groups = <<>> THEN Absent ELSE Stripped(l)
  IN [doc EXCEPT !.lists = [e \in DOMAIN @ |-> Kept(@[e])]]

-----------------------------------------------------------------------------
(* apply: read_doc, the edit, write_doc.                                   *)

Moves(p, a, b) == at[p] = a /\ at' = [at EXCEPT ![p] = b]

\* install-hooks, uninstall-hooks; check_probe_exe is for installing only.
Start(p, e) ==
  /\ Moves(p, "idle", "read") \/ (e = "install" /\ Moves(p, "idle", "error"))
  /\ edit' = [edit EXCEPT ![p] = e]
  /\ UNCHANGED <<file, after, bak, tmp, made, late, first, last>>

\* read_doc: a file that is not there is an empty document.
Readable == file.text \in {"missing", "doc"}

\* The document is read and edited.
Edit(p) ==
  LET able == IF edit[p] = "install" THEN Mergeable(file.doc) ELSE Removable(file.doc)
      new == IF edit[p] = "install" THEN merge_hooks(file.doc) ELSE remove_hooks(file.doc)
      gone == edit[p] = "uninstall" /\ file.text = "missing"
      q == CASE gone                             -> "Unchanged"
             [] ~gone /\ ~(Readable /\ able)     -> "error"
             [] OTHER -> IF new = file.doc THEN "Unchanged" ELSE "backup"
  IN /\ Moves(p, "read", q)
     /\ after' = IF q = "backup" THEN [after EXCEPT ![p] = new] ELSE after
     /\ UNCHANGED <<file, edit, bak, tmp, made, late, first, last>>

\* Mutant: no backup of a file in which our hooks are already.
BackupOnce(p) ==
  /\ Moves(p, "backup", "tmp")
  /\ bak' = IF last = "none" THEN [bak EXCEPT ![p] = file] ELSE bak
  /\ UNCHANGED <<file, edit, after, tmp, made, late, first, last>>

\* The file, as it is by now, is copied, if it is there.
Backup(p) ==
  /\ \/ Moves(p, "backup", "tmp") /\ bak' = [bak EXCEPT ![p] = file]
     \/ Moves(p, "backup", "error") /\ UNCHANGED bak
  /\ UNCHANGED <<file, edit, after, tmp, made, late, first, last>>

\* The new text is written beside it, with its permissions, or not wholly.
WriteTmp(p) ==
  /\ \/ Moves(p, "tmp", "rename") /\ tmp' = [tmp EXCEPT ![p] = Of(after[p])]
     \/ Moves(p, "tmp", "error") /\ tmp' = [tmp EXCEPT ![p] = [Of(after[p]) EXCEPT !.text = "partial"]]
  /\ UNCHANGED <<file, edit, after, bak, made, late, first, last>>

Rename(p) ==
  /\ \/ /\ Moves(p, "rename", IF edit[p] = "install" THEN "Installed" ELSE "Removed")
        /\ file' = tmp[p] /\ tmp' = [tmp EXCEPT ![p] = Missing]
        /\ last' = edit[p]
     \/ Moves(p, "rename", "error") /\ UNCHANGED <<file, tmp, last>>
  /\ UNCHANGED <<edit, after, bak, made, late, first>>

\* The process is killed; the connection over which it was started is lost.
Crash(p) ==
  /\ at[p] \in {"read", "backup", "tmp", "rename"}
  /\ Moves(p, at[p], "crashed")
  /\ \/ UNCHANGED tmp
     \/ at[p] = "tmp" /\ tmp' = [tmp EXCEPT ![p] = [Of(after[p]) EXCEPT !.text = "partial"]]
  /\ UNCHANGED <<file, edit, after, bak, made, late, first, last>>

\* The agent or the user changes the file, which takes them one step.
EditByOthers(e) ==
  /\ e \notin made /\ Readable
  /\ file' = Of([file.doc EXCEPT !.rest = @ \cup {e}])
  /\ made' = made \cup {e}
  /\ late' = IF \E p \in Procs : at[p] \in {"tmp", "rename"} THEN late \cup {e} ELSE late
  /\ UNCHANGED <<at, edit, after, bak, tmp, first, last>>

-----------------------------------------------------------------------------
InstallInit ==
  /\ file \in FirstFiles /\ first = file
  /\ at = [p \in Procs |-> "idle"] /\ edit = [p \in Procs |-> "install"]
  /\ after = [p \in Procs |-> Empty]
  /\ bak = [p \in Procs |-> Missing] /\ tmp = [p \in Procs |-> Missing]
  /\ made = {} /\ late = {} /\ last = "none"

InstallNext ==
  \/ \E e \in Edits : EditByOthers(e)
  \/ \E p \in Procs :
       \/ \E e \in {"install", "uninstall"} : Start(p, e)
       \/ Edit(p) \/ Backup(p) \/ WriteTmp(p) \/ Rename(p) \/ Crash(p)

InstallSpec == InstallInit /\ [][InstallNext]_installVars

-----------------------------------------------------------------------------
(* Properties.                                                             *)

\* What others changed while our processes read, edited and replaced the file
\* is still in it, or in a backup; only a change made after the backup and
\* before the rename is lost (write_doc).
EditsKept ==
  \A e \in made \ late : e \in file.doc.rest \/ \E p \in Procs : e \in bak[p].doc.rest

\* The hooks in a list, in order; those of others, and ours.
Hooks(l) == FlattenSeq([i \in DOMAIN l.groups |-> l.groups[i].hooks])

UserHooks(doc) == [e \in DOMAIN doc.lists |-> Keep(Hooks(doc.lists[e]), Hook \ Ours)]
OurHooks(doc, e) == Keep(Hooks(doc.lists[e]), Ours)

\* However installs and removals interleave, fail and crash, the file is a
\* whole document with everybody else's hooks in their order; after an
\* install ours is there once for each event, after a removal nowhere
\* (merge_hooks, remove_hooks, write_doc).
HooksRight ==
  /\ file.text = first.text \/ (first.text = "missing" /\ file.text = "doc")
  /\ UserHooks(file.doc) = UserHooks(first.doc)
  /\ last = "install" => \A e \in Events : OurHooks(file.doc, e) = <<"ours">>
  /\ last = "uninstall" => \A e \in Events \cup Others : OurHooks(file.doc, e) = <<>>
=============================================================================
