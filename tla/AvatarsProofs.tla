----------------------------- MODULE AvatarsProofs -----------------------------
(***************************************************************************)
(* Theorems about Avatars, for any number of accounts, files, requests and *)
(* workers, and any combination of failures.                               *)
(***************************************************************************)
EXTENDS Avatars, TLAPS

\* What a request holds at each of its steps.
Shape(r) ==
    /\ pc[r] # "idle" => loc[r].user \in User
    /\ pc[r] \in {"idle", "read"} => loc[r].file = NoFile
    /\ pc[r] = "idle" => loc[r].previous = NoFile
    /\ pc[r] \in {"read", "refresh", "undo"} => loc[r].kind = "upload"
    /\ pc[r] \in {"commit", "refresh", "undo"} /\ loc[r].kind = "upload"
         => loc[r].file # NoFile
    /\ loc[r].kind # "upload" => loc[r].file = NoFile
Typed == TypeOK /\ \A r \in Request : Shape(r)

\* A name in a row or in a request has been given out by uuid4, to one request.
NamesAreUsed ==
    /\ \A u \in User : avatar[u] \in used \cup {NoFile}
    /\ \A r \in Request : /\ loc[r].previous \in used \cup {NoFile}
                          /\ loc[r].file \in used \cup {NoFile}
FilesDiffer ==
    \A r, q \in Request : r # q /\ loc[r].file = loc[q].file => loc[r].file = NoFile

\* A file about to be committed is on disk, and so far its request's alone.
PendingIsPrivate ==
    \A r \in Request : pc[r] = "commit" /\ loc[r].file # NoFile =>
        /\ loc[r].file \in disk
        /\ \A u \in User : avatar[u] # loc[r].file
        /\ \A q \in Request : loc[q].previous # loc[r].file

\* Different accounts never have the same photo, nor is the photo an account
\* had found by a request of another.
PhotosDiffer ==
    /\ \A u, v \in User : u # v /\ avatar[u] = avatar[v] => avatar[u] = NoFile
    /\ \A r \in Request, u \in User :
          u # loc[r].user /\ avatar[u] = loc[r].previous => avatar[u] = NoFile

\* What is about to be removed is no one's photo.
UndoneIsUnused ==
    \A r \in Request, u \in User :
        pc[r] = "undo" /\ avatar[u] = loc[r].file => avatar[u] \in doubtful
PreviousIsUnused ==
    \A r \in Request, u \in User :
        pc[r] \in {"refresh", "clean"} /\ avatar[u] = loc[r].previous
            => avatar[u] = NoFile

PhotoInv ==
    /\ NamesAreUsed /\ FilesDiffer /\ PendingIsPrivate /\ PhotosDiffer
    /\ UndoneIsUnused /\ PreviousIsUnused /\ PhotoIsThere

-----------------------------------------------------------------------------
(* Type correctness.                                                       *)

\* The initial states are typed.
LEMMA TypedInit == Init => Typed
BY DEF Init, Typed, TypeOK, Shape, Local, Idle, Step

\* What a request owes are files.
LEMMA OwesFiles == \A r \in Request : Owes(r) \subseteq File
BY DEF Owes

\* Steps keep the types.
LEMMA TypedStep == Typed /\ [Next]_vars => Typed'
<1> SUFFICES ASSUME Typed, [Next]_vars PROVE Typed'
  OBVIOUS
<1> USE DEF Typed, TypeOK, Shape, Step, Local
<1>1. ASSUME NEW r \in Request, NEW u \in User, StartUpload(r, u) PROVE Typed'
  BY <1>1 DEF StartUpload, Goto, Idle
<1>2. ASSUME NEW r \in Request, NEW u \in User, StartDelete(r, u) PROVE Typed'
  BY <1>2 DEF StartDelete, Goto, Idle
<1>3. ASSUME NEW r \in Request, Reject(r) PROVE Typed'
  BY <1>3 DEF Reject, Goto, Idle, Finish
<1>4. ASSUME NEW r \in Request, NEW f \in File, Write(r, f) PROVE Typed'
  BY <1>4, AvatarsAssumption DEF Write, Goto
<1>5. ASSUME NEW r \in Request, NEW f \in File, WriteFails(r, f) PROVE Typed'
  BY <1>5 DEF WriteFails, Goto, Idle, Finish
<1>6. ASSUME NEW r \in Request, Commit(r) PROVE Typed'
  BY <1>6 DEF Commit, Goto, SetAvatar, Overtaken
<1>7. ASSUME NEW r \in Request, CommitFails(r) PROVE Typed'
  BY <1>7 DEF CommitFails, Goto, Idle, Finish, Raise
<1>8. ASSUME NEW r \in Request, Refresh(r) PROVE Typed'
  BY <1>8 DEF Refresh, Goto
<1>9. ASSUME NEW r \in Request, RefreshFails(r) PROVE Typed'
  BY <1>9 DEF RefreshFails, Goto
<1>10. ASSUME NEW r \in Request, Undo(r) PROVE Typed'
  BY <1>10 DEF Undo, Goto, Idle, Finish, Remove
<1>11. ASSUME NEW r \in Request, Clean(r) PROVE Typed'
  BY <1>11 DEF Clean, Goto, Idle, Finish, Remove, Superseded
<1>12. ASSUME NEW w \in Worker, Crash(w) PROVE Typed'
  BY <1>12, OwesFiles DEF Crash, Idle
<1>13. CASE UNCHANGED vars
  BY <1>13 DEF vars
<1> QED
  BY <1>1, <1>2, <1>3, <1>4, <1>5, <1>6, <1>7, <1>8, <1>9, <1>10, <1>11, <1>12, <1>13 DEF Next, Serve

\* TypeOK holds in every reachable state: rows, files and locals stay in the
\* sets the code draws them from, and each step finds the locals it needs.
THEOREM TypeCorrect == Spec => []TypeOK
<1>1. Spec => []Typed
  BY TypedInit, TypedStep, PTL DEF Spec
<1>2. Typed => TypeOK
  BY DEF Typed
<1> QED
  BY <1>1, <1>2, PTL

-----------------------------------------------------------------------------
(* A photo named by a row is on disk.                                      *)

\* The invariant holds at first.
LEMMA PhotoInit == Init => PhotoInv
BY DEF Init, Idle, PhotoInv, NamesAreUsed, FilesDiffer, PendingIsPrivate,
       PhotosDiffer, UndoneIsUnused, PreviousIsUnused, PhotoIsThere

\* The steps that change no row and remove no file: a request ends or dies,
\* or it goes on with what it has.
LEMMA PhotoFrame ==
    ASSUME Typed, PhotoInv, avatar' = avatar,
           used \subseteq used', disk \subseteq disk', doubtful \subseteq doubtful',
           \A q \in Request :
              \/ pc'[q] = "idle" /\ loc'[q] = Idle
              \/ /\ loc'[q] = loc[q]
                 /\ \/ pc'[q] = pc[q]
                    \/ pc[q] = "refresh" /\ pc'[q] = "clean"
                    \/ pc'[q] = "undo" /\ loc[q].file \in doubtful'
    PROVE  PhotoInv'
<1>1. Idle.previous = NoFile /\ Idle.file = NoFile
  BY DEF Idle
<1> USE <1>1 DEF PhotoInv
<1>2. NamesAreUsed' /\ FilesDiffer'
  BY DEF NamesAreUsed, FilesDiffer
<1>3. PendingIsPrivate'
  BY DEF PendingIsPrivate
<1>4. PhotosDiffer'
  BY DEF PhotosDiffer
<1>5. UndoneIsUnused' /\ PreviousIsUnused'
  BY DEF UndoneIsUnused, PreviousIsUnused
<1>6. PhotoIsThere'
  BY DEF PhotoIsThere
<1> QED
  BY <1>2, <1>3, <1>4, <1>5, <1>6

\* A request begins: the photo it finds is still its account's alone.
LEMMA PhotoStart ==
    ASSUME Typed, PhotoInv, NEW r \in Request, NEW u \in User,
           StartUpload(r, u) \/ StartDelete(r, u)
    PROVE  PhotoInv'
<1>1. /\ avatar' = avatar /\ used' = used /\ disk' = disk /\ doubtful' = doubtful
      /\ \A q \in Request : q # r => pc'[q] = pc[q] /\ loc'[q] = loc[q]
      /\ pc'[r] \in {"read", "commit"}
      /\ loc'[r].user = u /\ loc'[r].previous = avatar[u] /\ loc'[r].file = NoFile
  BY DEF StartUpload, StartDelete, Goto, Idle, Typed, TypeOK
<1> USE <1>1 DEF PhotoInv
<1>2. NamesAreUsed' /\ FilesDiffer'
  BY DEF NamesAreUsed, FilesDiffer
<1>3. PendingIsPrivate'
  BY DEF PendingIsPrivate
<1>4. PhotosDiffer'
  BY DEF PhotosDiffer
<1>5. UndoneIsUnused' /\ PreviousIsUnused'
  BY DEF UndoneIsUnused, PreviousIsUnused
<1>6. PhotoIsThere'
  BY DEF PhotoIsThere
<1> QED
  BY <1>2, <1>3, <1>4, <1>5, <1>6

\* A file is written under a name that no row and no request has.
LEMMA PhotoWrite ==
    ASSUME Typed, PhotoInv, NEW r \in Request, NEW f \in File, Write(r, f)
    PROVE  PhotoInv'
<1>1. /\ f # NoFile /\ f \notin used
      /\ \A u \in User : avatar[u] # f
      /\ \A q \in Request : loc[q].previous # f /\ loc[q].file # f
  BY AvatarsAssumption DEF PhotoInv, NamesAreUsed, Write
<1>2. /\ avatar' = avatar /\ used' = used \cup {f} /\ disk' = disk \cup {f}
      /\ doubtful' = doubtful /\ pc' = [pc EXCEPT ![r] = "commit"]
      /\ \A q \in Request : /\ loc'[q].previous = loc[q].previous
                             /\ loc'[q].user = loc[q].user
                             /\ loc'[q].file = IF q = r THEN f ELSE loc[q].file
  BY DEF Write, Goto, Typed, TypeOK, Local
<1> USE <1>1, <1>2 DEF PhotoInv, Typed, TypeOK
<1>3. NamesAreUsed' /\ FilesDiffer'
  BY DEF NamesAreUsed, FilesDiffer
<1>4. PendingIsPrivate'
  BY DEF PendingIsPrivate
<1>5. PhotosDiffer' /\ UndoneIsUnused' /\ PreviousIsUnused' /\ PhotoIsThere'
  BY DEF PhotosDiffer, UndoneIsUnused, PreviousIsUnused, PhotoIsThere
<1> QED
  BY <1>3, <1>4, <1>5

\* The row comes to name the file of the request that commits, and of no other.
LEMMA PhotoAssigned ==
    ASSUME Typed, PhotoInv, NEW r \in Request, pc[r] = "commit", NEW p,
           avatar' = [avatar EXCEPT ![loc[r].user] = loc[r].file],
           pc' = [pc EXCEPT ![r] = p], p # "commit",
           \A q \in Request \ {r} : loc'[q] = loc[q],
           loc'[r] = loc[r] \/ (p = "idle" /\ loc'[r] = Idle),
           disk' = disk, used' = used, doubtful \subseteq doubtful',
           p = "undo" => loc[r].file \in doubtful'
    PROVE  PhotoInv'
<1> DEFINE f == loc[r].file
           a == loc[r].user
<1>1. /\ a \in User /\ f \in File \cup {NoFile}
      /\ \A u \in User : avatar'[u] = IF u = a THEN f ELSE avatar[u]
      /\ \A q \in Request : pc'[q] = IF q = r THEN p ELSE pc[q]
  BY DEF Typed, TypeOK, Shape, Local
<1>2. f # NoFile => /\ f \in disk /\ f \in used
                    /\ \A u \in User : avatar[u] # f
                    /\ \A q \in Request : loc[q].previous # f
  BY DEF PhotoInv, PendingIsPrivate, NamesAreUsed
<1>3. \A q \in Request : loc'[q] = loc[q] \/ (p = "idle" /\ q = r /\ loc'[q] = Idle)
  OBVIOUS
<1>4. \A q \in Request \ {r} : loc[q].file = f => f = NoFile
  BY DEF PhotoInv, FilesDiffer
<1>5. Idle.previous = NoFile /\ Idle.file = NoFile
  BY DEF Idle
<1> HIDE DEF f, a
<1>6. NamesAreUsed'
  BY <1>1, <1>2, <1>3, <1>5 DEF PhotoInv, NamesAreUsed
<1>7. FilesDiffer'
  BY <1>3, <1>5 DEF PhotoInv, FilesDiffer
<1>8. PendingIsPrivate'
  BY <1>1, <1>3, <1>4, <1>5 DEF PhotoInv, PendingIsPrivate
<1>9. PhotosDiffer'
  BY <1>1, <1>2, <1>3, <1>5 DEF PhotoInv, PhotosDiffer
<1>10. UndoneIsUnused'
  <2> SUFFICES ASSUME NEW q \in Request, NEW u \in User, pc'[q] = "undo",
                      avatar'[u] = loc'[q].file
               PROVE  avatar'[u] \in doubtful'
    BY DEF UndoneIsUnused
  <2>1. CASE q = r
    BY <2>1, <1>1, <1>3 DEF f
  <2>2. CASE q # r
    <3>1. loc'[q] = loc[q] /\ pc[q] = "undo" /\ loc[q].file # NoFile
      BY <2>2, <1>1 DEF Typed, Shape, TypeOK
    <3>2. avatar'[u] = avatar[u]
      BY <3>1, <2>2, <1>1, <1>4
    <3> QED
      BY <3>1, <3>2 DEF PhotoInv, UndoneIsUnused
  <2> QED
    BY <2>1, <2>2
<1>11. PreviousIsUnused'
  <2> SUFFICES ASSUME NEW q \in Request, NEW u \in User,
                      pc'[q] \in {"refresh", "clean"},
                      avatar'[u] = loc'[q].previous
               PROVE  avatar'[u] = NoFile
    BY DEF PreviousIsUnused
  <2>1. loc'[q].previous = loc[q].previous
    BY <1>1, <1>3
  <2>2. CASE u = a
    BY <2>1, <2>2, <1>1, <1>2
  <2>3. CASE u # a /\ q = r
    BY <2>1, <2>3, <1>1 DEF PhotoInv, PhotosDiffer, a
  <2>4. CASE u # a /\ q # r
    BY <2>1, <2>4, <1>1 DEF PhotoInv, PreviousIsUnused
  <2> QED
    BY <2>2, <2>3, <2>4
<1>12. PhotoIsThere'
  BY <1>1, <1>2 DEF PhotoInv, PhotoIsThere
<1> QED
  BY <1>6, <1>7, <1>8, <1>9, <1>10, <1>11, <1>12 DEF PhotoInv

\* A commit gives the row the file of its request, or none.
LEMMA PhotoCommit ==
    ASSUME Typed, PhotoInv, NEW r \in Request, Commit(r)
    PROVE  PhotoInv'
<1> DEFINE p == IF loc[r].kind = "upload" THEN "refresh" ELSE "clean"
<1>1. /\ pc[r] = "commit" /\ avatar' = [avatar EXCEPT ![loc[r].user] = loc[r].file]
      /\ pc' = [pc EXCEPT ![r] = p] /\ \A q \in Request : loc'[q] = loc[q]
      /\ disk' = disk /\ used' = used /\ doubtful' = doubtful
  BY DEF Commit, SetAvatar, Goto, Typed, TypeOK
<1>2. p # "commit" /\ p # "undo"
  OBVIOUS
<1> HIDE DEF p
<1> QED
  BY <1>1, <1>2, PhotoAssigned

\* A commit that raises has changed the row, or not.
LEMMA PhotoCommitFails ==
    ASSUME Typed, PhotoInv, NEW r \in Request, CommitFails(r)
    PROVE  PhotoInv'
<1> DEFINE p == IF loc[r].kind = "upload" THEN "undo" ELSE "idle"
<1>1. /\ pc[r] = "commit" /\ pc' = [pc EXCEPT ![r] = p]
      /\ \A q \in Request \ {r} : loc'[q] = loc[q]
      /\ loc'[r] = loc[r] \/ (p = "idle" /\ loc'[r] = Idle)
      /\ disk' = disk /\ used' = used
  BY DEF CommitFails, Raise, Goto, Finish, Typed, TypeOK
<1>2. p # "commit" /\ (p = "undo" => loc[r].file # NoFile)
  BY <1>1 DEF Typed, Shape
<1>3. CASE avatar' = avatar /\ doubtful' = doubtful
  <2>1. \A q \in Request : pc'[q] = IF q = r THEN p ELSE pc[q]
    BY <1>1 DEF Typed, TypeOK
  <2>2. Idle.previous = NoFile /\ Idle.file = NoFile
    BY DEF Idle
  <2>3. p \in {"undo", "idle"}
    OBVIOUS
  <2>4. \A u \in User : avatar[u] = loc[r].file => avatar[u] = NoFile
    BY <1>1 DEF PhotoInv, PendingIsPrivate
  <2> HIDE DEF p
  <2> USE <1>1, <1>2, <1>3, <2>1, <2>2, <2>3 DEF PhotoInv
  <2>5. NamesAreUsed' /\ FilesDiffer'
    BY DEF NamesAreUsed, FilesDiffer
  <2>6. PendingIsPrivate'
    BY DEF PendingIsPrivate
  <2>7. PhotosDiffer'
    BY DEF PhotosDiffer
  <2>8. UndoneIsUnused'
    BY <2>4 DEF UndoneIsUnused
  <2>9. PreviousIsUnused' /\ PhotoIsThere'
    BY DEF PreviousIsUnused, PhotoIsThere
  <2> QED
    BY <2>5, <2>6, <2>7, <2>8, <2>9
<1>4. CASE /\ avatar' = [avatar EXCEPT ![loc[r].user] = loc[r].file]
           /\ doubtful' = doubtful \cup ({loc[r].file} \ {NoFile})
  <2>1. doubtful \subseteq doubtful' /\ (p = "undo" => loc[r].file \in doubtful')
    BY <1>2, <1>4
  <2> HIDE DEF p
  <2> QED
    BY <1>1, <1>2, <1>4, <2>1, PhotoAssigned
<1> QED
  BY <1>3, <1>4 DEF CommitFails

\* An upload removes its own file when its commit or refresh has raised.
LEMMA PhotoUndo ==
    ASSUME Typed, PhotoInv, NEW r \in Request, Undo(r)
    PROVE  PhotoInv'
<1>1. /\ avatar' = avatar /\ used' = used /\ doubtful' = doubtful
      /\ disk' = disk \/ disk' = disk \ {loc[r].file}
      /\ pc[r] = "undo" /\ pc'[r] = "idle"
      /\ loc'[r].previous = NoFile /\ loc'[r].file = NoFile
      /\ \A q \in Request : q # r => pc'[q] = pc[q] /\ loc'[q] = loc[q]
  BY DEF Undo, Remove, Finish, Goto, Idle, Typed, TypeOK
<1> USE <1>1 DEF PhotoInv
<1>2. NamesAreUsed' /\ FilesDiffer'
  BY DEF NamesAreUsed, FilesDiffer
<1>3. PendingIsPrivate'
  BY DEF PendingIsPrivate, FilesDiffer
<1>4. PhotosDiffer'
  BY DEF PhotosDiffer
<1>5. UndoneIsUnused' /\ PreviousIsUnused'
  BY DEF UndoneIsUnused, PreviousIsUnused
<1>6. PhotoIsThere'
  BY DEF PhotoIsThere, UndoneIsUnused
<1> QED
  BY <1>2, <1>3, <1>4, <1>5, <1>6

\* The old file is removed once no row names it.
LEMMA PhotoClean ==
    ASSUME Typed, PhotoInv, NEW r \in Request, Clean(r)
    PROVE  PhotoInv'
<1>1. /\ avatar' = avatar /\ used' = used /\ doubtful' = doubtful
      /\ disk' = disk \/ disk' = disk \ {loc[r].previous}
      /\ pc[r] = "clean" /\ pc'[r] = "idle"
      /\ loc'[r].previous = NoFile /\ loc'[r].file = NoFile
      /\ \A q \in Request : q # r => pc'[q] = pc[q] /\ loc'[q] = loc[q]
  BY DEF Clean, Remove, Finish, Goto, Idle, Typed, TypeOK, Superseded
<1> USE <1>1 DEF PhotoInv
<1>2. NamesAreUsed' /\ FilesDiffer'
  BY DEF NamesAreUsed, FilesDiffer
<1>3. PendingIsPrivate'
  BY DEF PendingIsPrivate
<1>4. PhotosDiffer'
  BY DEF PhotosDiffer
<1>5. UndoneIsUnused' /\ PreviousIsUnused'
  BY DEF UndoneIsUnused, PreviousIsUnused
<1>6. PhotoIsThere'
  BY DEF PhotoIsThere, PreviousIsUnused
<1> QED
  BY <1>2, <1>3, <1>4, <1>5, <1>6

\* Every step keeps the invariant.
LEMMA PhotoStep == Typed /\ PhotoInv /\ [Next]_vars => PhotoInv'
<1> SUFFICES ASSUME Typed, PhotoInv, [Next]_vars PROVE PhotoInv'
  OBVIOUS
<1>1. ASSUME NEW r \in Request, Serve(r) PROVE PhotoInv'
  <2>1. ASSUME NEW u \in User, StartUpload(r, u) \/ StartDelete(r, u)
        PROVE  PhotoInv'
    BY <2>1, PhotoStart
  <2>2. ASSUME NEW f \in File, Write(r, f) PROVE PhotoInv'
    BY <2>2, PhotoWrite
  <2>3. CASE Reject(r) \/ (\E f \in File : WriteFails(r, f))
    BY <2>3, PhotoFrame DEF Reject, WriteFails, Finish, Goto, Typed, TypeOK
  <2>4. CASE Refresh(r)
    BY <2>4, PhotoFrame DEF Refresh, Goto, Typed, TypeOK
  <2>5. CASE RefreshFails(r)
    BY <2>5, PhotoFrame DEF RefreshFails, Goto, Typed, TypeOK
  <2>6. CASE Commit(r) \/ CommitFails(r) \/ Undo(r) \/ Clean(r)
    BY <2>6, PhotoCommit, PhotoCommitFails, PhotoUndo, PhotoClean
  <2> QED
    BY <1>1, <2>1, <2>2, <2>3, <2>4, <2>5, <2>6 DEF Serve
<1>2. ASSUME NEW w \in Worker, Crash(w) PROVE PhotoInv'
  BY <1>2, PhotoFrame DEF Crash, Typed, TypeOK
<1>3. CASE UNCHANGED vars
  BY <1>3, PhotoFrame DEF vars
<1> QED
  BY <1>1, <1>2, <1>3 DEF Next

\* PhotoIsThere holds in every reachable state: whatever uploads, deletions and
\* crashes interleave, the file a committed row names is on disk, unless the
\* database reported an error for a commit that had taken effect.
THEOREM PhotosAreThere == Spec => []PhotoIsThere
<1>1. Init => Typed /\ PhotoInv
  BY TypedInit, PhotoInit
<1>2. (Typed /\ PhotoInv) /\ [Next]_vars => (Typed /\ PhotoInv)'
  BY TypedStep, PhotoStep
<1>3. Typed /\ PhotoInv => PhotoIsThere
  BY DEF PhotoInv
<1> QED
  BY <1>1, <1>2, <1>3, PTL DEF Spec

-----------------------------------------------------------------------------
(* No file is forgotten.                                                   *)

\* Every step accounts for the file it leaves without a row.
LEMMA OrphansStep == Typed /\ OrphansHaveCause /\ [Next]_vars => OrphansHaveCause'
<1> SUFFICES ASSUME Typed, OrphansHaveCause, [Next]_vars, NEW f \in disk',
                    f \notin leaked', \A u \in User : avatar'[u] # f
             PROVE  \E q \in Request : f \in Owes(q)'
  BY DEF OrphansHaveCause
<1> DEFINE Owed(q) == \/ pc[q] \in {"commit", "undo"} /\ f = loc[q].file
                      \/ pc[q] \in {"refresh", "clean"} /\ f = loc[q].previous
           Known == f \in disk /\ f \notin leaked /\ \A u \in User : avatar[u] # f
<1>1. Typed' /\ f \in File
  BY TypedStep DEF Typed, TypeOK
<1>2. (\E q \in Request : Owed(q)') => \E q \in Request : f \in Owes(q)'
  <2> SUFFICES ASSUME NEW q \in Request, Owed(q)' PROVE f \in Owes(q)'
    OBVIOUS
  <2> QED
    BY <1>1 DEF Owes
<1>3. Known => \E q \in Request : Owed(q)
  BY <1>1 DEF OrphansHaveCause, Owes
<1>4. ASSUME NEW r \in Request, Serve(r) PROVE \E q \in Request : Owed(q)'
  <2>1. \A q \in Request \ {r} : Owed(q) => Owed(q)'
    <3>1. \A q \in Request \ {r} : pc'[q] = pc[q] /\ loc'[q] = loc[q]
      BY <1>4 DEF Serve, StartUpload, StartDelete, Reject, Write, WriteFails,
         Commit, CommitFails, Raise, Refresh, RefreshFails, Undo, Clean, Finish,
         Goto, Typed, TypeOK
    <3> QED
      BY <3>1
  <2>2. Owed(r)' \/ (Known /\ ~Owed(r))
    <3> USE <1>1, AvatarsAssumption DEF Typed, TypeOK, Shape, Local
    <3>1. CASE \E u \in User : StartUpload(r, u) \/ StartDelete(r, u)
      BY <3>1 DEF StartUpload, StartDelete, Goto
    <3>2. CASE Reject(r) \/ (\E g \in File : WriteFails(r, g))
      BY <3>2 DEF Reject, WriteFails, Finish, Goto
    <3>3. CASE \E g \in File : Write(r, g)
      BY <3>3 DEF Write, Goto
    <3>4. CASE Commit(r)
      BY <3>4 DEF Commit, SetAvatar, Overtaken, Goto
    <3>5. CASE CommitFails(r)
      BY <3>5 DEF CommitFails, Raise, Finish, Goto
    <3>6. CASE Refresh(r)
      BY <3>6 DEF Refresh, Goto
    <3>7. CASE RefreshFails(r)
      BY <3>7 DEF RefreshFails, Goto
    <3>8. CASE Undo(r)
      BY <3>8 DEF Undo, Remove, Finish, Goto
    <3>9. CASE Clean(r)
      BY <3>9 DEF Clean, Remove, Superseded, Finish, Goto
    <3> QED
      BY <1>4, <3>1, <3>2, <3>3, <3>4, <3>5, <3>6, <3>7, <3>8, <3>9 DEF Serve
  <2> QED
    <3> HIDE DEF Owed, Known
    <3> QED
      BY <1>3, <2>1, <2>2
<1>5. ASSUME NEW w \in Worker, Crash(w) PROVE \E q \in Request : Owed(q)'
  <2>1. Known /\ \A q \in Request : WorkerOf[q] = w => ~Owed(q)
    <3>1. \A q \in Request : WorkerOf[q] = w => f \notin Owes(q)
      BY <1>5 DEF Crash
    <3>2. \A q \in Request : Owed(q) => f \in Owes(q)
      BY <1>1 DEF Owes
    <3>3. Known
      BY <1>5 DEF Crash
    <3> HIDE DEF Owed, Known
    <3> QED
      BY <3>1, <3>2, <3>3
  <2>2. \A q \in Request : WorkerOf[q] # w => pc'[q] = pc[q] /\ loc'[q] = loc[q]
    BY <1>5 DEF Crash
  <2> QED
    BY <1>3, <2>1, <2>2
<1>6. CASE UNCHANGED vars
  <2>1. Known /\ pc' = pc /\ loc' = loc
    BY <1>6 DEF vars
  <2>2. \A q \in Request : Owed(q) => Owed(q)'
    BY <2>1
  <2> HIDE DEF Owed, Known
  <2> QED
    BY <1>2, <1>3, <2>1, <2>2
<1> QED
  BY <1>2, <1>4, <1>5, <1>6 DEF Next

\* OrphansHaveCause holds in every reachable state: only a race of two requests
\* of one account, a failure or a crash leaves a file that no one removes.
THEOREM NoFileIsForgotten == Spec => []OrphansHaveCause
<1>1. Init => Typed /\ OrphansHaveCause
  BY TypedInit DEF Init, OrphansHaveCause
<1>2. (Typed /\ OrphansHaveCause) /\ [Next]_vars => (Typed /\ OrphansHaveCause)'
  BY TypedStep, OrphansStep
<1> QED
  BY <1>1, <1>2, PTL DEF Spec

-----------------------------------------------------------------------------
(* Without faults of the database.                                         *)

\* An uploaded photo is served, whatever uploads and deletions of the account
\* overlap, wherever workers die and files cannot be written or removed: only
\* a database error can take it away.
THEOREM UploadedPhotosAreServed ==
    ASSUME "db" \notin Faults
    PROVE  Spec => []UploadedPhotoIsServed
<1>1. Init => doubtful = {}
  BY DEF Init
<1>2. doubtful = {} /\ [Next]_vars => (doubtful = {})'
  <2> SUFFICES ASSUME [Next]_vars PROVE doubtful' = doubtful
    OBVIOUS
  <2>1. ASSUME NEW r \in Request, Serve(r)
        PROVE  doubtful' = doubtful
    <3>1. ~CommitFails(r) /\ ~RefreshFails(r)
      BY DEF CommitFails, RefreshFails
    <3> QED
      BY <2>1, <3>1 DEF Serve, StartUpload, StartDelete, Reject, Write, WriteFails,
                        Commit, Refresh, Undo, Clean
  <2>2. ASSUME NEW w \in Worker, Crash(w)
        PROVE  doubtful' = doubtful
    BY <2>2 DEF Crash
  <2>3. CASE UNCHANGED vars
    BY <2>3 DEF vars
  <2> QED
    BY <2>1, <2>2, <2>3 DEF Next
<1>3. PhotoIsThere /\ doubtful = {} => UploadedPhotoIsServed
  BY DEF PhotoIsThere, UploadedPhotoIsServed
<1> QED
  BY <1>1, <1>2, <1>3, PhotosAreThere, PTL DEF Spec
=============================================================================
