-------------------------------- MODULE Avatars --------------------------------
(***************************************************************************)
(* Profile photos: POST and DELETE /account/avatar.  A photo is a file in  *)
(* static/uploads/avatars, named by users.avatar_filename; row and file    *)
(* cannot change together, so the code writes the new file first, commits  *)
(* the row, and removes the file the row named when the request loaded it. *)
(*                                                                         *)
(* upload_avatar is a coroutine: after its awaits, the rest of it runs on  *)
(* the event loop of its worker, one upload of a worker at a time.         *)
(* delete_avatar and the loading of the user run on threads.               *)
(***************************************************************************)
EXTENDS FiniteSets

CONSTANTS
    User,               \* account holders
    File,               \* file names uuid4 can give, each of them once
    NoFile,             \* avatar_filename is NULL
    Request,            \* requests that can be under way at once
    Worker, WorkerOf,   \* processes, and the one that serves a request
    Faults              \* which kinds of failure can happen

ASSUME AvatarsAssumption ==
    /\ NoFile \notin File
    /\ WorkerOf \in [Request -> Worker]
    /\ Faults \subseteq {"db", "disk", "crash"}

VARIABLES
    avatar,     \* the column users.avatar_filename
    disk,       \* the files in the avatar directory
    used,       \* the names uuid4 has given so far
    pc, loc     \* where each request is, and its local variables

VARIABLES       \* observations, which no action of the code reads
    leaked,     \* files that the request to remove them did not remove
    doubtful    \* files whose commit or refresh raised after taking effect

vars == <<avatar, disk, used, pc, loc, leaked, doubtful>>

Step == {"idle", "read", "commit", "refresh", "undo", "clean"}
Local == [kind : {"none", "upload", "delete"}, user : User \cup {NoFile},
          previous : File \cup {NoFile}, file : File \cup {NoFile}]
Idle == [kind |-> "none", user |-> NoFile, previous |-> NoFile,
         file |-> NoFile]

Init ==
    /\ avatar = [u \in User |-> NoFile] /\ disk = {} /\ used = {}
    /\ pc = [r \in Request |-> "idle"] /\ loc = [r \in Request |-> Idle]
    /\ leaked = {} /\ doubtful = {}

Goto(r, p, l) == pc' = [pc EXCEPT ![r] = p] /\ loc' = [loc EXCEPT ![r] = l]
Finish(r) == Goto(r, "idle", Idle)

-----------------------------------------------------------------------------
(* upload_avatar. *)

\* get_current_user loads the row; what it holds is used after two awaits.
StartUpload(r, u) ==
    /\ pc[r] = "idle"
    /\ Goto(r, "read", [Idle EXCEPT !.kind = "upload", !.user = u,
                                    !.previous = avatar[u]])
    /\ UNCHANGED <<avatar, disk, used, leaked, doubtful>>

\* The photo is too large, or of another type than it says: 413, 415.
Reject(r) ==
    /\ pc[r] = "read"
    /\ Finish(r)
    /\ UNCHANGED <<avatar, disk, used, leaked, doubtful>>

OnLoop(w) == {r \in Request : WorkerOf[r] = w /\ loc[r].kind = "upload"
                               /\ pc[r] \notin {"idle", "read"}}

\* From here on the coroutine does not give up the event loop.
Write(r, f) ==
    /\ pc[r] = "read" /\ OnLoop(WorkerOf[r]) = {} /\ f \notin used
    /\ used' = used \cup {f}
    /\ disk' = disk \cup {f}
    /\ Goto(r, "commit", [loc[r] EXCEPT !.file = f])
    /\ UNCHANGED <<avatar, leaked, doubtful>>

\* write_bytes raises, with or without a file left behind: 500.
WriteFails(r, f) ==
    /\ "disk" \in Faults
    /\ pc[r] = "read" /\ OnLoop(WorkerOf[r]) = {} /\ f \notin used
    /\ used' = used \cup {f}
    /\ \/ disk' = disk \cup {f} /\ leaked' = leaked \cup {f}
       \/ UNCHANGED <<disk, leaked>>
    /\ Finish(r)
    /\ UNCHANGED <<avatar, doubtful>>

\* UPDATE users SET avatar_filename = ... WHERE id = ..., committed.  The
\* file it takes the place of is r's to remove only if r had loaded it.
Overtaken(r) == {avatar[loc[r].user]} \ {NoFile, loc[r].previous}
SetAvatar(r) ==
    /\ avatar' = [avatar EXCEPT ![loc[r].user] = loc[r].file]
    /\ leaked' = leaked \cup Overtaken(r)

Commit(r) ==
    /\ pc[r] = "commit"
    /\ SetAvatar(r)
    /\ Goto(r, IF loc[r].kind = "upload" THEN "refresh" ELSE "clean", loc[r])
    /\ UNCHANGED <<disk, used, doubtful>>

\* commit() raises: without effect, or after it.  Then the file r had loaded
\* is no one's to remove.
Raise(r) == IF loc[r].kind = "upload" THEN Goto(r, "undo", loc[r])
            ELSE Finish(r)
CommitFails(r) ==
    /\ "db" \in Faults /\ pc[r] = "commit"
    /\ Raise(r)
    /\ \/ UNCHANGED <<avatar, leaked, doubtful>>
       \/ /\ avatar' = [avatar EXCEPT ![loc[r].user] = loc[r].file]
          /\ leaked' = leaked \cup ({avatar[loc[r].user]} \ {NoFile})
          /\ doubtful' = doubtful \cup ({loc[r].file} \ {NoFile})
    /\ UNCHANGED <<disk, used>>

\* refresh() reads the row again, for the response.
Refresh(r) ==
    /\ pc[r] = "refresh"
    /\ Goto(r, "clean", loc[r])
    /\ UNCHANGED <<avatar, disk, used, leaked, doubtful>>

\* refresh() raises, on a row that is committed: an error of the database, or
\* no connection of the pool within pool_timeout.
RefreshFails(r) ==
    /\ "db" \in Faults /\ pc[r] = "refresh"
    /\ Goto(r, "undo", loc[r])
    /\ leaked' = leaked \cup ({loc[r].previous} \ {NoFile})
    /\ doubtful' = doubtful \cup {loc[r].file}
    /\ UNCHANGED <<avatar, disk, used>>

\* _remove_avatar: nothing for no name, and an OSError is swallowed.
Remove(f) ==
    \/ disk' = disk \ {f} /\ UNCHANGED leaked
    \/ /\ "disk" \in Faults /\ f \in disk
       /\ leaked' = leaked \cup {f} /\ UNCHANGED disk

\* except Exception: roll back, remove the new file, raise.
Undo(r) ==
    /\ pc[r] = "undo"
    /\ Remove(loc[r].file)
    /\ Finish(r)
    /\ UNCHANGED <<avatar, used, doubtful>>

\* Mutants: the name is read after it was assigned; nothing is removed.
Assigned(r) == loc[r].file
Superseded(r) == loc[r].previous
Kept(r) ==
    /\ pc[r] = "clean"
    /\ Finish(r)
    /\ UNCHANGED <<avatar, disk, used, leaked, doubtful>>

Clean(r) ==
    /\ pc[r] = "clean"
    /\ Remove(Superseded(r))
    /\ Finish(r)
    /\ UNCHANGED <<avatar, used, doubtful>>

-----------------------------------------------------------------------------
(* delete_avatar: it shares Commit, CommitFails and Clean with the upload. *)

StartDelete(r, u) ==
    /\ pc[r] = "idle" /\ avatar[u] # NoFile
    /\ Goto(r, "commit", [Idle EXCEPT !.kind = "delete", !.user = u,
                                      !.previous = avatar[u]])
    /\ UNCHANGED <<avatar, disk, used, leaked, doubtful>>

-----------------------------------------------------------------------------
(* A worker dies and is started again, its requests wherever they are. *)

\* The files that r would have removed.
Owes(r) ==
    {f \in File :
        \/ pc[r] \in {"commit", "undo"} /\ f = loc[r].file
        \/ pc[r] \in {"refresh", "clean"} /\ f = loc[r].previous}
Crash(w) ==
    LET H == {r \in Request : WorkerOf[r] = w} IN
    /\ "crash" \in Faults
    /\ leaked' = leaked \cup UNION {Owes(r) : r \in H}
    /\ pc' = [r \in Request |-> IF r \in H THEN "idle" ELSE pc[r]]
    /\ loc' = [r \in Request |-> IF r \in H THEN Idle ELSE loc[r]]
    /\ UNCHANGED <<avatar, disk, used, doubtful>>

Serve(r) ==
    \/ \E u \in User : StartUpload(r, u) \/ StartDelete(r, u)
    \/ Reject(r)
    \/ \E f \in File : Write(r, f) \/ WriteFails(r, f)
    \/ Commit(r) \/ CommitFails(r) \/ Refresh(r) \/ RefreshFails(r)
    \/ Undo(r) \/ Clean(r)
Next == (\E r \in Request : Serve(r)) \/ (\E w \in Worker : Crash(w))
Spec == Init /\ [][Next]_vars

-----------------------------------------------------------------------------
(* Properties. *)

\* Every variable ranges over the values its code can give it.
TypeOK ==
    /\ avatar \in [User -> File \cup {NoFile}]
    /\ disk \subseteq File /\ used \subseteq File
    /\ pc \in [Request -> Step] /\ loc \in [Request -> Local]
    /\ leaked \subseteq File /\ doubtful \subseteq File

\* The photo a profile names can be served, however uploads and deletions of
\* the same account overtake each other and wherever a worker dies: only a
\* database error raised after the commit took effect makes the code remove
\* the file of a committed row.
PhotoIsThere ==
    \A u \in User : avatar[u] \in disk \cup {NoFile} \cup doubtful

\* A file on disk is the photo of a profile, or some request under way still
\* has to remove it or to commit it, or the request that had to remove it was
\* overtaken, failed or died: no path of the code forgets a file.
OrphansHaveCause ==
    disk \subseteq {avatar[u] : u \in User} \cup leaked
                   \cup UNION {Owes(r) : r \in Request}

\* An uploaded photo is served, as test_profile_photo_can_be_uploaded_and_removed
\* has it of one request at a time.
UploadedPhotoIsServed ==
    \A u \in User : avatar[u] \in disk \cup {NoFile}
=============================================================================
