------------------------------ MODULE FileSave ------------------------------
(***************************************************************************)
(* Saving the state file (save_atomic in state.rs): a temporary file of a  *)
(* fixed name is written, synced and renamed over the state file, and the  *)
(* directory is synced.  save_state holds the state mutex while it saves,  *)
(* so its saves come one at a time; a subscription transaction saves its   *)
(* next state without the mutex.                                           *)
(*                                                                         *)
(* A file is a sequence of chunks, each the document it was written from.  *)
(* What is not synced yet may or may not survive a power loss: `disk` is   *)
(* the set of contents and of directories that it can leave.               *)
(***************************************************************************)
EXTENDS Naturals, Sequences

CONSTANT MaxSaves  \* saves in a behaviour

ASSUME MaxSavesAssumption == MaxSaves \in Nat

VARIABLES
    inode,    \* files: contents now, and contents the disk may hold
    dir,      \* directory now, and directories the disk may hold
    saves,    \* the save that each writer is at, or its last one
    begun,    \* saves so far
    durable,  \* history: the last save that ran alone and was reported durable
    clean     \* history: no two saves have overlapped since then

saveVars == <<inode, dir, saves, begun, durable, clean>>

Writers  == {"save_state", "transaction"}
Inodes   == 0..MaxSaves
NoFile   == MaxSaves + 1
Finished == {"idle", "durable", "committed", "failed"}

(* The document of the n-th save; every other one is longer. *)
Document(n) == [n |-> n, size |-> 1 + (n % 2)]
Contents(doc) == [i \in 1..doc.size |-> doc]
Whole(chunks) == chunks # <<>> /\ chunks = Contents(chunks[1])

SaveTypeOK ==
    /\ \A i \in Inodes : Len(inode[i].now) <= 2 /\ inode[i].now \in inode[i].disk
    /\ dir.now \in dir.disk
    /\ \A w \in Writers : saves[w].at \in Finished \cup {"opened", "written", "synced", "renamed"}
    /\ begun \in Inodes /\ durable \in Inodes /\ clean \in BOOLEAN

NoSave == [at |-> "idle", fd |-> 0, doc |-> Document(0), alone |-> TRUE]

Names(tmp, state) == [tmp |-> tmp, state |-> state]

(* There is a state file already, or none on the first run. *)
SaveInit ==
    /\ inode = [i \in Inodes |-> IF i = 0 THEN [now  |-> Contents(Document(0)),
                                                disk |-> {Contents(Document(0))}]
                                          ELSE [now |-> <<>>, disk |-> {<<>>}]]
    /\ \E names \in {Names(NoFile, 0), Names(NoFile, NoFile)} :
          dir = [now |-> names, disk |-> {names}]
    /\ saves = [w \in Writers |-> NoSave]
    /\ begun = 0 /\ durable = 0 /\ clean = TRUE

Busy(w) == saves[w].at \notin Finished

(* Contents and directory as they are now, on a disk that may have more of them. *)
Put(file, chunks)  == [now |-> chunks, disk |-> file.disk \cup {chunks}]
Link(names)        == [now |-> names, disk |-> dir.disk \cup {names}]

(* A save begins; if the other one is under way they overlap. *)
Begin(w, at, fd) ==
    LET alone == \A v \in Writers \ {w} : ~Busy(v)
    IN  /\ ~Busy(w) /\ begun < MaxSaves
        /\ begun' = begun + 1
        /\ saves' = [v \in Writers |->
               IF v = w THEN [at |-> at, fd |-> fd, doc |-> Document(begun + 1), alone |-> alone]
               ELSE [saves[v] EXCEPT !.alone = @ /\ ~Busy(v)]]
        /\ clean' = (clean /\ alone)
        /\ UNCHANGED durable

(* OpenOptions: the temporary file is created, or truncated if it is there. *)
OpenTmp(w) ==
    LET fd == IF dir.now.tmp = NoFile THEN begun + 1 ELSE dir.now.tmp
    IN  /\ Begin(w, "opened", fd)
        /\ inode' = [inode EXCEPT ![fd] = Put(@, <<>>)]
        /\ dir' = Link([dir.now EXCEPT !.tmp = fd])

(* No directory, or no file in it. *)
OpenTmpFails(w) == Begin(w, "failed", 0) /\ UNCHANGED <<inode, dir>>

To(w, from, at) == saves[w].at = from /\ saves' = [saves EXCEPT ![w].at = at]

(* What a writer's chunks leave of what another one has in the same file. *)
Over(chunks, doc, n) ==
    [i \in 1..(IF Len(chunks) > n THEN Len(chunks) ELSE n) |-> IF i <= n THEN doc ELSE chunks[i]]

WriteAll(w) ==
    /\ To(w, "opened", "written")
    /\ inode' = [inode EXCEPT ![saves[w].fd] = Put(@, Over(@.now, saves[w].doc, saves[w].doc.size))]
    /\ UNCHANGED <<dir, begun, durable, clean>>

(* set_permissions fails, or write_all after some of the chunks. *)
WriteFails(w) ==
    /\ To(w, "opened", "failed")
    /\ \E n \in 0..(saves[w].doc.size - 1) :
          inode' = [inode EXCEPT ![saves[w].fd] = Put(@, Over(@.now, saves[w].doc, n))]
    /\ UNCHANGED <<dir, begun, durable, clean>>

SyncAll(w) ==
    /\ To(w, "written", "synced")
    /\ inode' = [inode EXCEPT ![saves[w].fd].disk = {inode[saves[w].fd].now}]
    /\ UNCHANGED <<dir, begun, durable, clean>>

SyncAllFails(w) == To(w, "written", "failed") /\ UNCHANGED <<inode, dir, begun, durable, clean>>

(* rename takes the name, whatever file has it by now. *)
RenameTmp(w) ==
    /\ dir.now.tmp # NoFile
    /\ To(w, "synced", "renamed")
    /\ dir' = Link(Names(NoFile, dir.now.tmp))
    /\ UNCHANGED <<inode, begun, durable, clean>>

(* Among the reasons: the other writer has renamed it. *)
RenameFails(w) == To(w, "synced", "failed") /\ UNCHANGED <<inode, dir, begun, durable, clean>>

SyncParent(w) ==
    /\ To(w, "renamed", "durable")
    /\ dir' = [dir EXCEPT !.disk = {dir.now}]
    /\ IF saves[w].alone THEN durable' = saves[w].doc.n /\ clean' = TRUE
                         ELSE UNCHANGED <<durable, clean>>
    /\ UNCHANGED <<inode, begun>>

(* sync_parent whose error is the save's error. *)
SyncParentIsError(w) == To(w, "renamed", "failed") /\ UNCHANGED <<inode, dir, begun, durable, clean>>

(* CommittedNotDurable *)
SyncParentFails(w) == To(w, "renamed", "committed") /\ UNCHANGED <<inode, dir, begun, durable, clean>>

Gone == saves' = [w \in Writers |-> IF Busy(w) THEN NoSave ELSE saves[w]]

(* External: the daemon dies. *)
Killed == (\E w \in Writers : Busy(w)) /\ Gone /\ UNCHANGED <<inode, dir, begun, durable, clean>>

(* External: the host dies with it; files without a name are gone. *)
PowerLoss ==
    /\ Gone
    /\ \E names \in dir.disk :
          LET disk(i) == IF i \in {names.tmp, names.state} THEN inode[i].disk ELSE {<<>>}
          IN  /\ dir' = [now |-> names, disk |-> {names}]
              /\ \E left \in [Inodes -> UNION {disk(i) : i \in Inodes}] :
                    /\ \A i \in Inodes : left[i] \in disk(i)
                    /\ inode' = [i \in Inodes |-> [now |-> left[i], disk |-> {left[i]}]]
    /\ UNCHANGED <<begun, durable, clean>>

Save(w) ==
    \/ OpenTmp(w) \/ OpenTmpFails(w) \/ WriteAll(w) \/ WriteFails(w)
    \/ SyncAll(w) \/ SyncAllFails(w) \/ RenameTmp(w) \/ RenameFails(w)
    \/ SyncParent(w) \/ SyncParentFails(w)

SaveNext == (\E w \in Writers : Save(w)) \/ Killed \/ PowerLoss

-----------------------------------------------------------------------------
(* What load can find after the daemon died (contents now) or the host did. *)
Loadable  == IF dir.now.state = NoFile THEN {} ELSE {inode[dir.now.state].now}
Survivors == UNION {inode[names.state].disk : names \in {n \in dir.disk : n.state # NoFile}}

(***************************************************************************)
(* WholeUnlessOverlap.  As long as no two saves overlap, whatever stops a  *)
(* save wherever it is, an error, the end of the process or of the host,   *)
(* the state file is one whole document or is not there; and a save that   *)
(* ran alone and was durable repairs what an overlap has left              *)
(* (save_atomic).                                                          *)
(***************************************************************************)
WholeUnlessOverlap == clean => \A chunks \in Loadable \cup Survivors : Whole(chunks)

(***************************************************************************)
(* DurableSurvives.  After a save that was reported durable a power loss   *)
(* brings back that document or a later one, never an older one or no file *)
(* (SaveOutcome).                                                          *)
(***************************************************************************)
DurableSurvives ==
    (clean /\ durable # 0) =>
        /\ \A names \in dir.disk : names.state # NoFile
        /\ \A chunks \in Survivors : chunks # <<>> /\ chunks[1].n >= durable

(***************************************************************************)
(* FailedCommitsNothing.  No start can load the document of a save that    *)
(* returned an error and ran alone: a transaction that takes back its      *)
(* staged paths is not resumed (CommittedNotDurable, the comment on        *)
(* "disk/live split brain" in switch_subscription_locked).                 *)
(***************************************************************************)
FailedCommitsNothing ==
    \A w \in Writers : (saves[w].at = "failed" /\ saves[w].alone) =>
        \A chunks \in Loadable \cup Survivors : \A i \in DOMAIN chunks : chunks[i] # saves[w].doc

(***************************************************************************)
(* RestartFindsReported.  What a restart finds is what the saves reported: *)
(* a whole document, none older than the last durable one, and none that   *)
(* was refused (the three properties above).                               *)
(***************************************************************************)
RestartFindsReported == WholeUnlessOverlap /\ DurableSurvives /\ FailedCommitsNothing

(***************************************************************************)
(* SaveIsAtomic.  The state file is one whole document at any time, as     *)
(* "Atomic save" (state.rs) promises.  It does not hold: the two writers   *)
(* share the temporary file, and one renames what the other has truncated. *)
(***************************************************************************)
SaveIsAtomic == \A chunks \in Loadable : Whole(chunks)

-----------------------------------------------------------------------------
(* The inductive invariant behind RestartFindsReported.                     *)

Documents == {Document(n) : n \in 0..begun}
Named     == (0..begun) \cup {NoFile}

(* Inodes and names come from saves that have begun. *)
FilesInv ==
    /\ begun \in 0..MaxSaves /\ durable \in 0..begun /\ clean \in BOOLEAN
    /\ inode \in [Inodes -> [now : Seq(Documents), disk : SUBSET Seq(Documents)]]
    /\ \A i \in Inodes : inode[i].now \in inode[i].disk
    /\ dir \in [now : [tmp : Named, state : Named], disk : SUBSET [tmp : Named, state : Named]]
    /\ dir.now \in dir.disk
    /\ saves \in [Writers -> [at : Finished \cup {"opened", "written", "synced", "renamed"},
                              fd : Inodes, doc : Documents, alone : BOOLEAN]]

(* The temporary file is not the state file of any directory on disk. *)
TmpInv ==
    \A names \in dir.disk :
        /\ dir.now.tmp # NoFile => names.state # dir.now.tmp
        /\ names.tmp # NoFile => names.state # names.tmp

(* Two saves are of two documents, and each knows of the other. *)
OverlapInv ==
    /\ \A w \in Writers : saves[w].at # "idle" => saves[w].doc.n # 0
    /\ \A w \in Writers : Busy(w) => durable <= saves[w].doc.n /\ (clean => saves[w].alone)
    /\ \A v, w \in Writers : v # w =>
          /\ saves[v].at # "idle" => saves[v].doc.n # saves[w].doc.n
          /\ Busy(v) /\ Busy(w) => ~saves[w].alone
          /\ Busy(v) /\ saves[w].alone => saves[v].alone

(* A save that nobody disturbs finds its file as it left it. *)
AloneInv ==
    \A w \in Writers : saves[w].alone =>
        /\ saves[w].at \in {"opened", "written", "synced"} => dir.now.tmp = saves[w].fd
        /\ saves[w].at = "opened" => inode[saves[w].fd].now = <<>>
        /\ saves[w].at = "written" => inode[saves[w].fd].now = Contents(saves[w].doc)
        /\ saves[w].at \in {"synced", "renamed"} => inode[saves[w].fd].disk = {Contents(saves[w].doc)}
        /\ saves[w].at = "renamed" => dir.now.state = saves[w].fd

(* No directory on disk has a state file that may hold a part of doc. *)
NowhereSaved(doc) ==
    \A names \in dir.disk : names.state # NoFile =>
        \A chunks \in inode[names.state].disk : \A i \in DOMAIN chunks : chunks[i] # doc

(* What the state files on disk may hold. *)
StateInv ==
    /\ clean => \A names \in dir.disk : names.state # NoFile =>
          \A chunks \in inode[names.state].disk :
              Whole(chunks) /\ (durable # 0 => chunks[1].n >= durable)
    /\ clean /\ durable # 0 => \A names \in dir.disk : names.state # NoFile
    /\ \A w \in Writers : saves[w].alone /\ saves[w].at \in {"opened", "written", "synced", "failed"}
          => NowhereSaved(saves[w].doc)

SaveInv == FilesInv /\ TmpInv /\ OverlapInv /\ AloneInv /\ StateInv

=============================================================================
