----------------------------- MODULE StorageProofs -----------------------------
(***************************************************************************)
(* What holds of Storage for any number of files, users, requests and      *)
(* replicas: the types, that no listed file is purged, that a blob and its *)
(* row go together, and that replaced avatars are deleted.                 *)
(***************************************************************************)
EXTENDS Storage, FiniteSetTheorems, TLAPS

(* A step of one request keeps what all requests bring along well formed.  *)
LEMMA ProceedTypes ==
    ASSUME FileTypeOK, NEW h \in FileHandler, NEW label \in Step, NEW v \in Held,
           Fits(label, v), Proceed(h, label, v)
    PROVE  /\ step' \in [FileHandler -> Step] /\ held' \in [FileHandler -> Held]
           /\ \A g \in FileHandler : Fits(step'[g], held'[g])
<1>1. step' = [step EXCEPT ![h] = label] /\ held' = [held EXCEPT ![h] = v]
  BY DEF Proceed
<1>2. /\ step \in [FileHandler -> Step] /\ held \in [FileHandler -> Held]
      /\ \A g \in FileHandler : Fits(step[g], held[g])
  BY DEF FileTypeOK
<1>3. ASSUME NEW g \in FileHandler PROVE Fits(step'[g], held'[g])
  <2>1. CASE g = h
    BY <1>1, <1>2, <2>1, Zenon
  <2>2. CASE g # h
    BY <1>1, <1>2, <1>3, <2>2, Zenon
  <2> QED BY <2>1, <2>2
<1> QED BY <1>1, <1>2, <1>3, Zenon

LEMMA HeldTypes ==
    /\ Nothing \in Held
    /\ \A f \in File : [Nothing EXCEPT !.new = f] \in Held
    /\ \A f \in File : [Nothing EXCEPT !.target = f] \in Held
    /\ \A f \in File, u \in User : [Nothing EXCEPT !.new = f, !.user = u] \in Held
    /\ \A v \in Held, f \in File : [v EXCEPT !.target = f] \in Held
    /\ \A v \in Held, c \in BOOLEAN : [v EXCEPT !.crossed = c] \in Held
<1> USE DEF Nothing, Held
<1>1. Nothing \in Held
  BY Zenon
<1>2. \A f \in File : [Nothing EXCEPT !.new = f] \in Held
  BY Zenon
<1>3. \A f \in File : [Nothing EXCEPT !.target = f] \in Held
  BY Zenon
<1>4. \A f \in File, u \in User : [Nothing EXCEPT !.new = f, !.user = u] \in Held
  BY Zenon
<1>5. \A v \in Held, f \in File : [v EXCEPT !.target = f] \in Held
  BY Zenon
<1>6. \A v \in Held, c \in BOOLEAN : [v EXCEPT !.crossed = c] \in Held
  BY Zenon
<1> QED BY <1>1, <1>2, <1>3, <1>4, <1>5, <1>6

LEMMA HeldFits ==
    /\ Fits("idle", Nothing)
    /\ \A f \in File : Fits("create", [Nothing EXCEPT !.new = f])
    /\ \A f \in File : Fits("unlink", [Nothing EXCEPT !.target = f])
    /\ \A f \in File, u \in User : Fits("find_current", [Nothing EXCEPT !.new = f, !.user = u])
    /\ \A v \in Held, f \in File :
          Fits("find_current", v) => Fits("find_old", [v EXCEPT !.target = f])
<1>1. NoUser \notin User
  BY StorageAssumption
<1>2. Fits("idle", Nothing) /\ \A f \in File : Fits("create", [Nothing EXCEPT !.new = f])
  BY <1>1 DEF Nothing, Fits
<1>3. \A f \in File : Fits("unlink", [Nothing EXCEPT !.target = f])
  BY <1>1 DEF Nothing, Fits
<1>4. ASSUME NEW f \in File, NEW u \in User
      PROVE  Fits("find_current", [Nothing EXCEPT !.new = f, !.user = u])
  <2>1. /\ [Nothing EXCEPT !.new = f, !.user = u].new = f
        /\ [Nothing EXCEPT !.new = f, !.user = u].user = u
    BY Zenon DEF Nothing
  <2> QED BY <2>1, Zenon DEF Fits
<1>5. ASSUME NEW v \in Held, NEW f \in File, Fits("find_current", v)
      PROVE  Fits("find_old", [v EXCEPT !.target = f])
  BY <1>5 DEF Held, Fits
<1> QED BY <1>2, <1>3, <1>4, <1>5

LEMMA FileStepTypes == FileTypeOK /\ [FileNext]_fileVars => FileTypeOK'
<1> SUFFICES ASSUME FileTypeOK, [FileNext]_fileVars PROVE FileTypeOK'
  OBVIOUS
<1> DEFINE HandlersFit ==
             /\ step' \in [FileHandler -> Step] /\ held' \in [FileHandler -> Held]
             /\ \A g \in FileHandler : Fits(step'[g], held'[g])
<1> HIDE DEF HandlersFit
<1>1. ASSUME NEW h \in FileHandler PROVE held[h] \in Held /\ Fits(step[h], held[h])
  BY DEF FileTypeOK
<1>2. ASSUME NEW h \in FileHandler, Answer(h) PROVE HandlersFit
  BY <1>2, ProceedTypes, HeldTypes, HeldFits DEF Answer, Step, HandlersFit
<1>3. ASSUME NEW h \in FileHandler, NEW label \in Step, NEW v \in Held, Fits(label, v),
             Proceed(h, label, v)
      PROVE  HandlersFit
  BY <1>3, ProceedTypes DEF HandlersFit
<1>4. ASSUME NEW h \in FileHandler, Request(h) PROVE requests' \in 0 .. MaxFileRequests
  BY <1>4, StorageAssumption DEF Request, FileTypeOK
<1>5. ASSUME FileFault PROVE fileFaults' \in 0 .. MaxFileFaults
  BY <1>5, StorageAssumption DEF FileFault, FileTypeOK
<1>6. ASSUME NEW f \in File, DriverDeletes(f) \/ DriverSwallows(f)
      PROVE  blob' \in SUBSET File /\ stuck' \in SUBSET File /\ fileFaults' \in 0 .. MaxFileFaults
  <2>1. CASE DriverDeletes(f)
    BY <2>1 DEF DriverDeletes, FileTypeOK
  <2>2. CASE DriverSwallows(f)
    BY <2>2, <1>5 DEF DriverSwallows, FileTypeOK
  <2> QED BY <1>6, <2>1, <2>2
<1>7. ASSUME NEW h \in FileHandler, NEW f \in File, PutBlob(h, f) PROVE FileTypeOK'
  <2>1. HandlersFit
    BY <1>7, <1>3, HeldTypes, HeldFits DEF PutBlob, Step
  <2> QED BY <1>7, <1>4, <2>1 DEF PutBlob, FileTypeOK, HandlersFit, history
<1>8. ASSUME NEW h \in FileHandler, CreateRow(h) PROVE FileTypeOK'
  <2>1. HandlersFit
    BY <1>8, <1>2 DEF CreateRow
  <2> QED BY <1>8, <1>1, <2>1 DEF CreateRow, FileTypeOK, HandlersFit, history, RowState
<1>9. ASSUME NEW h \in FileHandler, NEW f \in File, GetFile(h, f) PROVE FileTypeOK'
  <2>1. HandlersFit
    BY <1>9, <1>3, HeldTypes, HeldFits DEF GetFile, Step
  <2> QED BY <1>9, <1>4, <2>1 DEF GetFile, FileTypeOK, HandlersFit, history, tables
<1>10. ASSUME NEW h \in FileHandler, FindOld(h) PROVE FileTypeOK'
  <2>1. HandlersFit
    BY <1>10, <1>1, <1>2, <1>3 DEF FindOld, Step, Fits
  <2> QED BY <1>10, <2>1 DEF FindOld, FileTypeOK, HandlersFit, history, tables
<1>11. ASSUME NEW h \in FileHandler, Unlink(h) PROVE FileTypeOK'
  <2>1. HandlersFit /\ held[h].target \in File
    BY <1>11, <1>1, <1>3 DEF Unlink, Step, Fits
  <2> QED BY <1>11, <1>6, <2>1 DEF Unlink, FileTypeOK, HandlersFit
<1>12. ASSUME NEW h \in FileHandler, SoftDelete(h) PROVE FileTypeOK'
  <2>1. held[h] \in Held /\ held[h].target \in File /\ Fits(step[h], held[h])
    BY <1>12, <1>1 DEF SoftDelete, Fits
  <2>2. held[h].user = NoUser \/ Fits("connect", held[h])
    BY <2>1 DEF Fits, Held
  <2>3. HandlersFit
    BY <1>12, <1>2, <1>3, <2>1, <2>2 DEF SoftDelete, Step
  <2>4. row' \in [File -> RowState]
    BY <1>12, <2>1 DEF SoftDelete, FileTypeOK, RowState
  <2> QED BY <1>12, <2>3, <2>4 DEF SoftDelete, FileTypeOK, HandlersFit, history
<1>13. ASSUME NEW h \in FileHandler, NEW u \in User, NEW f \in File, FindNewFile(h, u, f)
       PROVE  FileTypeOK'
  <2>1. HandlersFit
    BY <1>13, <1>3, HeldTypes, HeldFits DEF FindNewFile, Step
  <2> QED BY <1>13, <1>4, <2>1 DEF FindNewFile, FileTypeOK, HandlersFit, history, tables
<1>14. ASSUME NEW h \in FileHandler, FindCurrent(h) PROVE FileTypeOK'
  <2>1. held[h] \in Held /\ Fits("find_current", held[h]) /\ held[h].user \in User
    BY <1>14, <1>1 DEF FindCurrent, Fits
  <2>2. avatar[held[h].user] \in File \cup {NoFile}
    BY <2>1 DEF FileTypeOK
  <2>3. HandlersFit
    <3>1. CASE account[held[h].user] # "there"
      <4> DEFINE v == [held[h] EXCEPT !.crossed = TRUE]
      <4>1. Proceed(h, "connect", v)
        BY <1>14, <3>1, Zenon DEF FindCurrent
      <4>2. v \in Held
        BY <2>1, HeldTypes, Zenon
      <4>3. v.new = held[h].new /\ v.target = held[h].target /\ v.user = held[h].user
        BY <2>1, Zenon DEF Held
      <4> HIDE DEF v
      <4>4. Fits("connect", v)
        BY <2>1, <4>3 DEF Fits
      <4> QED BY <1>3, <4>1, <4>2, <4>4 DEF Step
    <3>2. CASE account[held[h].user] = "there" /\ avatar[held[h].user] = NoFile
      BY <1>14, <1>3, <2>1, <3>2 DEF FindCurrent, Step, Fits
    <3>3. CASE account[held[h].user] = "there" /\ avatar[held[h].user] # NoFile
      BY <1>14, <1>3, <2>1, <2>2, <3>3, HeldTypes, HeldFits DEF FindCurrent, Step
    <3> QED BY <3>1, <3>2, <3>3
  <2> QED BY <1>14, <2>3 DEF FindCurrent, FileTypeOK, HandlersFit, history, tables
<1>15. ASSUME NEW h \in FileHandler, Connect(h) PROVE FileTypeOK'
  <2>1. held[h] \in Held /\ held[h].user \in User /\ held[h].new \in File
    BY <1>15, <1>1 DEF Connect, Fits
  <2>2. avatar' \in [User -> File \cup {NoFile}] /\ worn' \in SUBSET File
    BY <1>15, <2>1 DEF Connect, FileTypeOK
  <2>3. stranded' \in SUBSET File
    <3>1. avatar[held[h].user] \in File \cup {NoFile}
      BY <2>1 DEF FileTypeOK
    <3> QED BY <1>15, <3>1 DEF Connect, FileTypeOK
  <2>4. step' = [step EXCEPT ![h] = "idle"] /\ step' \in [FileHandler -> Step]
    BY <1>15 DEF Connect, FileTypeOK, Step
  <2>5. ASSUME NEW g \in FileHandler
        PROVE  held'[g] \in Held /\ Fits(step'[g], held'[g])
    <3>1. held[g] \in Held /\ Fits(step[g], held[g])
      BY <1>1
    <3>2. CASE g = h
      <4>1. held'[g] = Nothing /\ step'[g] = "idle"
        BY <1>15, <2>4, <3>2 DEF Connect, FileTypeOK
      <4> QED BY <4>1, HeldTypes, HeldFits
    <3>3. CASE g # h
      <4>1. step'[g] = step[g]
        BY <2>4, <3>3 DEF FileTypeOK
      <4>2. held'[g] = held[g] \/ \E c \in BOOLEAN : held'[g] = [held[g] EXCEPT !.crossed = c]
        <5>1. held[g].crossed \in BOOLEAN
          BY <3>1, Zenon DEF Held
        <5>2. CASE InTable(held[h].new) /\ account[held[h].user] # "gone"
          <6> DEFINE c == held[g].crossed \/ (held[g].user = held[h].user /\ step[g] # "find_current")
          <6>1. c \in BOOLEAN
            BY <5>1, Zenon
          <6>2. held'[g] = [held[g] EXCEPT !.crossed = c]
            BY <1>15, <3>3, <5>2, Zenon DEF Connect
          <6> QED BY <6>1, <6>2, Zenon
        <5>3. CASE ~(InTable(held[h].new) /\ account[held[h].user] # "gone")
          BY <1>15, <3>3, <5>3 DEF Connect, FileTypeOK
        <5> QED BY <5>2, <5>3
      <4>3. held'[g] \in Held /\ held'[g].new = held[g].new /\ held'[g].target = held[g].target
            /\ held'[g].user = held[g].user
        <5>1. CASE held'[g] = held[g]
          BY <3>1, <5>1
        <5>2. ASSUME NEW c \in BOOLEAN, held'[g] = [held[g] EXCEPT !.crossed = c]
              PROVE  held'[g] \in Held /\ held'[g].new = held[g].new
                     /\ held'[g].target = held[g].target /\ held'[g].user = held[g].user
          <6>1. held'[g] \in Held
            BY <3>1, <5>2, HeldTypes, Zenon
          <6> QED BY <3>1, <5>2, <6>1, Zenon DEF Held
        <5> QED BY <4>2, <5>1, <5>2
      <4> QED BY <3>1, <4>1, <4>3, Zenon DEF Fits
    <3> QED BY <3>2, <3>3
  <2>6. DOMAIN held' = FileHandler /\ held' = [g \in FileHandler |-> held'[g]]
    BY <1>15 DEF Connect, FileTypeOK
  <2>7. HandlersFit
    BY <2>4, <2>5, <2>6, Zenon DEF HandlersFit
  <2> QED BY <1>15, <2>2, <2>3, <2>7 DEF Connect, FileTypeOK, HandlersFit
<1>16. ASSUME NEW h \in FileHandler, Throw(h) PROVE FileTypeOK'
  <2>1. HandlersFit
    BY <1>16, <1>2 DEF Throw
  <2>2. torn' \in SUBSET File /\ orphaned' \in SUBSET File
    BY <1>16, <1>1 DEF Throw, FileTypeOK, Fits
  <2> QED BY <1>16, <1>5, <2>1, <2>2 DEF Throw, FileTypeOK, HandlersFit, tables
<1>17. ASSUME NEW f \in File, WindowPasses(f) PROVE FileTypeOK'
  BY <1>17 DEF WindowPasses, FileTypeOK, history, RowState
<1> DEFINE Stages == {"idle", "scan", "unlink"} \cup File
<1>18. ASSUME NEW p \in Purger, CleanupBegins(p) PROVE FileTypeOK'
  BY <1>18 DEF CleanupBegins, FileTypeOK, history, tables
<1>19. ASSUME NEW p \in Purger, PurgeScan(p) PROVE FileTypeOK'
  <2>1. left' \in [Purger -> SUBSET File] /\ stage' \in [Purger -> Stages]
    BY <1>19 DEF PurgeScan, FileTypeOK
  <2> QED BY <1>19, <2>1 DEF PurgeScan, FileTypeOK, history, tables
<1>20. ASSUME NEW p \in Purger, NEW f \in File, PurgeUnlink(p, f) PROVE FileTypeOK'
  <2>1. stage' \in [Purger -> Stages]
    BY <1>20 DEF PurgeUnlink, FileTypeOK
  <2> QED BY <1>20, <1>6, <2>1 DEF PurgeUnlink, FileTypeOK
<1>21. ASSUME NEW p \in Purger, NEW f \in File, Visited(p, f)
       PROVE  left' \in [Purger -> SUBSET File] /\ stage' \in [Purger -> Stages]
  BY <1>21 DEF Visited, FileTypeOK
<1>22. ASSUME NEW p \in Purger, NEW f \in File, PurgeRemove(p, f) PROVE FileTypeOK'
  <2>1. row' \in [File -> RowState] /\ avatar' \in [User -> File \cup {NoFile}]
    BY <1>22 DEF PurgeRemove, FileTypeOK, RowState
  <2>2. Visited(p, f)
    BY <1>22 DEF PurgeRemove
  <2> QED BY <1>21, <1>22, <2>1, <2>2 DEF PurgeRemove, FileTypeOK, history
<1>23. ASSUME NEW p \in Purger, NEW f \in File, PurgeSkips(p, f) PROVE FileTypeOK'
  <2>1. Visited(p, f) /\ FileFault
    BY <1>23 DEF PurgeSkips
  <2> QED BY <1>5, <1>21, <1>23, <2>1 DEF PurgeSkips, FileTypeOK, history, tables
<1>24. ASSUME NEW p \in Purger, CleanupDies(p) PROVE FileTypeOK'
  BY <1>5, <1>24 DEF CleanupDies, FileTypeOK, history, tables
<1>25. ASSUME NEW u \in User, DeleteUser(u) \/ PurgeUser(u) PROVE FileTypeOK'
  <2>1. account' \in [User -> {"there", "deleted", "gone"}]
    BY <1>25 DEF DeleteUser, PurgeUser, FileTypeOK
  <2>2. avatar' \in [User -> File \cup {NoFile}] /\ stranded' \in SUBSET File
    BY <1>25 DEF DeleteUser, PurgeUser, FileTypeOK, history
  <2> QED BY <1>25, <2>1, <2>2 DEF DeleteUser, PurgeUser, FileTypeOK, history
<1>26. CASE UNCHANGED fileVars
  BY <1>26 DEF fileVars, FileTypeOK, history, tables
<1> QED
  BY <1>7, <1>8, <1>9, <1>10, <1>11, <1>12, <1>13, <1>14, <1>15, <1>16, <1>17, <1>18, <1>19,
     <1>20, <1>22, <1>23, <1>24, <1>25, <1>26
  DEF FileNext, FileContinue, Purge

LEMMA FileInitTypes == FileInit => FileTypeOK
<1> SUFFICES ASSUME FileInit PROVE FileTypeOK
  OBVIOUS
<1>1. requests \in 0 .. MaxFileRequests /\ fileFaults \in 0 .. MaxFileFaults
  BY StorageAssumption DEF FileInit
<1>2. /\ step \in [FileHandler -> Step] /\ held \in [FileHandler -> Held]
      /\ \A h \in FileHandler : Fits(step[h], held[h])
  BY HeldTypes, HeldFits DEF FileInit, Step
<1> QED BY <1>1, <1>2 DEF FileInit, FileTypeOK, RowState

(* The types of storage, for any number of files, requests and replicas.   *)
THEOREM FileTypeCorrect == FileSpec => []FileTypeOK
BY FileInitTypes, FileStepTypes, PTL DEF FileSpec

-----------------------------------------------------------------------------
(* Blobs and rows. *)

Gone == {"deleted", "due", "purged"}

(* An upload between blob and row has the file to itself. *)
Creating ==
    \A h \in FileHandler : step[h] = "create" => row[held[h].new] = "none" /\ held[h].new \in blob

CreatedOnce ==
    \A g, h \in FileHandler :
        step[g] = "create" /\ step[h] = "create" /\ held[g].new = held[h].new => g = h

(* Only a file that has a row, or had one, is deleted; *)
Deleting ==
    \A h \in FileHandler : step[h] \in {"unlink", "soft_delete"} => row[held[h].target] # "none"

(* and only one whose row is soft-deleted, or has been removed, is purged. *)
Purging ==
    \A p \in Purger, f \in File : f \in left[p] \/ stage[p] = f => row[f] \in Gone

Unlinked ==
    \A p \in Purger, f \in File : stage[p] = f => f \notin blob \/ f \in stuck \/ driver = "s3"

StoreInv ==
    /\ FileTypeOK
    /\ Creating /\ CreatedOnce /\ Deleting /\ Purging /\ Unlinked /\ BlobMatchesRow

(* A step of a request that touches neither table nor driver. *)
LEMMA QuietStep ==
    ASSUME StoreInv, FileTypeOK', NEW h \in FileHandler, NEW label, NEW v,
           step' = [step EXCEPT ![h] = label],
           held'[h] = v,
           \A g \in FileHandler \ {h} : held'[g].new = held[g].new /\ held'[g].target = held[g].target,
           label # "create",
           label \in {"unlink", "soft_delete"} => row[v.target] # "none",
           step[h] = "soft_delete" => held[h].target \in torn' \/ row[held[h].target] # "live",
           step[h] = "create" => held[h].new \in orphaned',
           torn \subseteq torn', orphaned \subseteq orphaned',
           UNCHANGED <<driver, row, blob, stage, left, stuck>>
    PROVE  StoreInv'
<1> USE DEF StoreInv
<1>1. \A g \in FileHandler : step'[g] = "create" => g # h /\ step[g] = "create"
  BY DEF FileTypeOK
<1>2. Creating' /\ CreatedOnce'
  BY <1>1 DEF Creating, CreatedOnce
<1>3. Deleting'
  <2> SUFFICES ASSUME NEW g \in FileHandler, step'[g] \in {"unlink", "soft_delete"}
               PROVE  row'[held'[g].target] # "none"
    BY DEF Deleting
  <2>1. CASE g = h
    BY <2>1 DEF FileTypeOK
  <2>2. CASE g # h
    BY <2>2 DEF FileTypeOK, Deleting
  <2> QED BY <2>1, <2>2
<1>4. Purging' /\ Unlinked'
  BY DEF Purging, Unlinked
<1>5. BlobMatchesRow'
  <2> SUFFICES ASSUME NEW f \in File
               PROVE  /\ row'[f] = "live" /\ f \notin blob' =>
                            f \in torn' \/ \E g \in FileHandler :
                                              step'[g] = "soft_delete" /\ held'[g].target = f
                      /\ f \in blob' /\ ~InTable(f)' =>
                            \/ f \in orphaned' \cup stuck' \/ driver' = "s3"
                            \/ \E g \in FileHandler : step'[g] = "create" /\ held'[g].new = f
    BY DEF BlobMatchesRow
  <2>1. ASSUME row[f] = "live", f \notin blob, f \notin torn'
        PROVE  \E g \in FileHandler : step'[g] = "soft_delete" /\ held'[g].target = f
    <3>1. PICK g \in FileHandler : step[g] = "soft_delete" /\ held[g].target = f
      BY <2>1 DEF BlobMatchesRow
    <3>2. g # h
      BY <2>1, <3>1
    <3> QED BY <3>1, <3>2 DEF FileTypeOK
  <2>2. ASSUME f \in blob, ~InTable(f), f \notin orphaned' \cup stuck', driver # "s3"
        PROVE  \E g \in FileHandler : step'[g] = "create" /\ held'[g].new = f
    <3>1. PICK g \in FileHandler : step[g] = "create" /\ held[g].new = f
      BY <2>2 DEF BlobMatchesRow
    <3>2. g # h
      BY <2>2, <3>1
    <3> QED BY <3>1, <3>2 DEF FileTypeOK
  <2> QED BY <2>1, <2>2 DEF InTable
<1> QED BY <1>2, <1>3, <1>4, <1>5

(* What the driver does to the blobs. *)
LEMMA DriverRemoves ==
    ASSUME FileTypeOK, NEW f \in File, DriverDeletes(f) \/ DriverSwallows(f)
    PROVE  /\ blob' \subseteq blob /\ stuck \subseteq stuck'
           /\ \A g \in blob : g # f => g \in blob'
           /\ f \notin blob' \/ f \in stuck' \/ driver = "s3"
BY DEF DriverDeletes, DriverSwallows, FileTypeOK

LEMMA StoreStep == StoreInv /\ [FileNext]_fileVars => StoreInv'
<1> SUFFICES ASSUME StoreInv, [FileNext]_fileVars PROVE StoreInv'
  OBVIOUS
<1>0. FileTypeOK /\ FileTypeOK'
  BY FileStepTypes DEF StoreInv
<1> USE DEF StoreInv
<1>1. ASSUME NEW h \in FileHandler, NEW f \in File, PutBlob(h, f) PROVE StoreInv'
  <2> DEFINE v == [Nothing EXCEPT !.new = f]
  <2>1. /\ v.new = f
        /\ step' = [step EXCEPT ![h] = "create"] /\ held' = [held EXCEPT ![h] = v]
        /\ row[f] = "none" /\ f \notin blob /\ blob' = blob \cup {f}
        /\ UNCHANGED <<driver, row, stage, left, history>>
    BY <1>1 DEF PutBlob, Proceed, Nothing
  <2> HIDE DEF v
  <2>2. Creating' /\ CreatedOnce'
    BY <1>0, <2>1 DEF Creating, CreatedOnce, FileTypeOK
  <2>3. Deleting' /\ Purging'
    BY <1>0, <2>1 DEF Deleting, Purging, FileTypeOK
  <2>4. Unlinked'
    BY <1>0, <2>1 DEF Unlinked, Purging, Gone, history
  <2>5. BlobMatchesRow'
    <3>1. step[h] = "idle"
      BY <1>1 DEF PutBlob, Request
    <3>2. \A g \in FileHandler :
             step[g] # "idle" => g # h /\ step'[g] = step[g] /\ held'[g] = held[g]
      BY <1>0, <2>1, <3>1 DEF FileTypeOK
    <3>3. step'[h] = "create" /\ held'[h].new = f
      BY <1>0, <2>1 DEF FileTypeOK
    <3> QED BY <2>1, <3>2, <3>3 DEF BlobMatchesRow, InTable, history
  <2> QED BY <1>0, <2>2, <2>3, <2>4, <2>5
<1>2. ASSUME NEW h \in FileHandler, CreateRow(h) PROVE StoreInv'
  <2> DEFINE f == held[h].new
  <2>1. /\ step[h] = "create" /\ f \in File /\ row[f] = "none" /\ f \in blob
        /\ row' = [row EXCEPT ![f] = "live"]
        /\ step' = [step EXCEPT ![h] = "idle"] /\ held' = [held EXCEPT ![h] = Nothing]
        /\ UNCHANGED <<driver, blob, stage, left, history>>
    BY <1>0, <1>2 DEF CreateRow, Answer, Proceed, FileTypeOK, Fits, Creating
  <2> HIDE DEF f
  <2>2. \A g \in FileHandler :
           g # h => step'[g] = step[g] /\ held'[g] = held[g] /\ (step[g] = "create" => held[g].new # f)
    BY <1>0, <2>1 DEF FileTypeOK, CreatedOnce, f
  <2>3. step'[h] = "idle"
    BY <1>0, <2>1 DEF FileTypeOK
  <2>4. \A e \in File : e # f => row'[e] = row[e]
    BY <1>0, <2>1 DEF FileTypeOK
  <2>5. row'[f] = "live"
    BY <1>0, <2>1 DEF FileTypeOK
  <2>6. Creating' /\ CreatedOnce' /\ Deleting'
    BY <1>0, <2>1, <2>2, <2>3, <2>4, <2>5 DEF Creating, CreatedOnce, Deleting, FileTypeOK, Fits
  <2>7. Purging' /\ Unlinked'
    BY <2>1, <2>4, <2>5 DEF Purging, Unlinked, Gone, history
  <2>8. BlobMatchesRow'
    BY <2>1, <2>2, <2>3, <2>4, <2>5 DEF BlobMatchesRow, InTable, history, f
  <2> QED BY <1>0, <2>6, <2>7, <2>8
<1>3. ASSUME NEW h \in FileHandler, NEW f \in File, GetFile(h, f) PROVE StoreInv'
  <2> DEFINE v == [Nothing EXCEPT !.target = f]
  <2>1. /\ v.target = f
        /\ step' = [step EXCEPT ![h] = "unlink"] /\ held' = [held EXCEPT ![h] = v]
        /\ row[f] # "none" /\ step[h] = "idle"
        /\ UNCHANGED <<driver, row, blob, stage, left, history>>
    BY <1>3 DEF GetFile, Proceed, Nothing, InTable, Request, tables
  <2> HIDE DEF v
  <2> QED BY <1>0, <2>1, QuietStep DEF FileTypeOK, history
<1>4. ASSUME NEW h \in FileHandler, FindOld(h) PROVE StoreInv'
  <2>1. /\ step[h] = "find_old"
        /\ UNCHANGED <<driver, row, blob, stage, left, history>>
    BY <1>4 DEF FindOld, tables
  <2>2. CASE InTable(held[h].target)
    <3>1. Proceed(h, "unlink", held[h]) /\ row[held[h].target] # "none"
      BY <1>4, <2>2 DEF FindOld, InTable
    <3> QED BY <1>0, <2>1, <3>1, QuietStep DEF FileTypeOK, history, Proceed
  <2>3. CASE ~InTable(held[h].target)
    <3>1. Proceed(h, "idle", Nothing)
      BY <1>4, <2>3 DEF FindOld, Answer
    <3> QED BY <1>0, <2>1, <3>1, QuietStep DEF FileTypeOK, history, Proceed
  <2> QED BY <2>2, <2>3
<1>5. ASSUME NEW h \in FileHandler, Unlink(h) PROVE StoreInv'
  <2> DEFINE f == held[h].target
  <2>1. /\ step[h] = "unlink" /\ f \in File /\ row[f] # "none"
        /\ DriverDeletes(f) \/ DriverSwallows(f)
        /\ step' = [step EXCEPT ![h] = "soft_delete"] /\ held' = [held EXCEPT ![h] = held[h]]
        /\ UNCHANGED <<driver, row, stage, left, torn, orphaned>>
    BY <1>0, <1>5 DEF Unlink, Proceed, FileTypeOK, Fits, Deleting
  <2>2. /\ blob' \subseteq blob /\ stuck \subseteq stuck'
        /\ \A g \in blob : g # f => g \in blob'
        /\ f \notin blob' \/ f \in stuck' \/ driver = "s3"
    BY <1>0, <2>1, DriverRemoves
  <2>3. /\ step'[h] = "soft_delete" /\ held' = held
        /\ \A g \in FileHandler : g # h => step'[g] = step[g]
    BY <1>0, <2>1 DEF FileTypeOK
  <2> HIDE DEF f
  <2>4. \A g \in FileHandler : step'[g] = "create" => g # h /\ step[g] = "create" /\ held[g].new # f
    BY <2>1, <2>3 DEF Creating
  <2>5. Creating' /\ CreatedOnce' /\ Deleting'
    BY <2>1, <2>2, <2>3, <2>4 DEF Creating, CreatedOnce, Deleting, f
  <2>6. Purging' /\ Unlinked'
    BY <2>1, <2>2 DEF Purging, Unlinked
  <2>7. BlobMatchesRow'
    <3>1. \A g \in FileHandler : step[g] \in {"create", "soft_delete"} => step'[g] = step[g]
      BY <2>1, <2>3
    <3> QED BY <2>1, <2>2, <2>3, <3>1 DEF BlobMatchesRow, InTable, f
  <2> QED BY <1>0, <2>5, <2>6, <2>7
<1>6. ASSUME NEW h \in FileHandler, SoftDelete(h) PROVE StoreInv'
  <2> DEFINE f == held[h].target
  <2>1. /\ step[h] = "soft_delete" /\ f \in File /\ row[f] # "none"
        /\ UNCHANGED <<driver, blob, stage, left, history>>
    BY <1>0, <1>6 DEF SoftDelete, FileTypeOK, Fits, Deleting
  <2>2. CASE InTable(f)
    <3>1. /\ row' = [row EXCEPT ![f] = "deleted"]
          /\ \E label \in {"idle", "connect"}, v \in {Nothing, held[h]} : Proceed(h, label, v)
      BY <1>6, <2>2 DEF SoftDelete, Answer
    <3>2. PICK label \in {"idle", "connect"}, v \in {Nothing, held[h]} : Proceed(h, label, v)
      BY <3>1
    <3>3. /\ step'[h] = label /\ step'[h] \notin {"create", "unlink", "soft_delete"}
          /\ \A g \in FileHandler : g # h => step'[g] = step[g] /\ held'[g] = held[g]
      BY <1>0, <3>2 DEF Proceed, FileTypeOK
    <3>4. row'[f] = "deleted" /\ \A e \in File : e # f => row'[e] = row[e]
      BY <1>0, <2>1, <3>1 DEF FileTypeOK
    <3> HIDE DEF f
    <3>5. Creating' /\ CreatedOnce'
      BY <1>0, <2>1, <3>3, <3>4 DEF Creating, CreatedOnce, FileTypeOK, Fits
    <3>6. Deleting'
      BY <1>0, <2>1, <3>3, <3>4 DEF Deleting, FileTypeOK, Fits
    <3>7. Purging' /\ Unlinked'
      BY <2>1, <3>4 DEF Purging, Unlinked, Gone, history
    <3>8. BlobMatchesRow'
      BY <2>1, <2>2, <3>3, <3>4 DEF BlobMatchesRow, InTable, history, f
    <3> QED BY <1>0, <3>5, <3>6, <3>7, <3>8
  <2>3. CASE ~InTable(f)
    <3>1. Proceed(h, "idle", Nothing) /\ UNCHANGED row /\ row[f] # "live"
      BY <1>6, <2>3 DEF SoftDelete, Answer, InTable
    <3> QED BY <1>0, <2>1, <3>1, QuietStep DEF FileTypeOK, history, Proceed
  <2> QED BY <2>2, <2>3
<1>7. ASSUME NEW h \in FileHandler, NEW u \in User, NEW f \in File, FindNewFile(h, u, f)
      PROVE  StoreInv'
  <2> DEFINE v == [Nothing EXCEPT !.new = f, !.user = u]
  <2> HIDE DEF v
  <2>1. /\ step' = [step EXCEPT ![h] = "find_current"] /\ held' = [held EXCEPT ![h] = v]
        /\ step[h] = "idle"
        /\ UNCHANGED <<driver, row, blob, stage, left, history>>
    BY <1>7 DEF FindNewFile, Proceed, Request, tables, v
  <2> QED BY <1>0, <2>1, QuietStep DEF FileTypeOK, history
<1>8. ASSUME NEW h \in FileHandler, FindCurrent(h) PROVE StoreInv'
  <2>0. PICK label \in {"connect", "find_old"} : \E v : Proceed(h, label, v)
    BY <1>8 DEF FindCurrent
  <2>1. PICK v : Proceed(h, label, v)
    BY <2>0
  <2>2. step[h] = "find_current" /\ UNCHANGED <<driver, row, blob, stage, left, history>>
    BY <1>8 DEF FindCurrent, tables
  <2> QED BY <1>0, <2>1, <2>2, QuietStep DEF FileTypeOK, history, Proceed
<1>9. ASSUME NEW h \in FileHandler, Connect(h) PROVE StoreInv'
  <2>1. /\ step[h] = "connect" /\ step' = [step EXCEPT ![h] = "idle"]
        /\ UNCHANGED <<driver, row, blob, stage, left, torn, stuck, orphaned>>
    BY <1>9 DEF Connect
  <2>2. ASSUME NEW g \in FileHandler \ {h}
        PROVE  held'[g].new = held[g].new /\ held'[g].target = held[g].target
    <3>1. held[g] \in Held
      BY <1>0 DEF FileTypeOK
    <3>2. CASE InTable(held[h].new) /\ account[held[h].user] # "gone"
      <4>1. \E c : held'[g] = [held[g] EXCEPT !.crossed = c]
        BY <1>9, <3>2, Zenon DEF Connect
      <4> QED BY <3>1, <4>1, Zenon DEF Held
    <3>3. CASE ~(InTable(held[h].new) /\ account[held[h].user] # "gone")
      BY <1>0, <1>9, <3>3 DEF Connect, FileTypeOK
    <3> QED BY <3>2, <3>3
  <2> QED BY <1>0, <2>1, <2>2, QuietStep
<1>10. ASSUME NEW h \in FileHandler, Throw(h) PROVE StoreInv'
  <2>1. /\ Proceed(h, "idle", Nothing)
        /\ UNCHANGED <<driver, row, blob, stage, left, stuck>>
        /\ torn' = IF step[h] = "soft_delete" THEN torn \cup {held[h].target} ELSE torn
        /\ orphaned' = IF step[h] = "create" THEN orphaned \cup {held[h].new} ELSE orphaned
    BY <1>10 DEF Throw, Answer, tables
  <2> QED BY <1>0, <2>1, QuietStep DEF FileTypeOK, Proceed
<1>11. ASSUME NEW f \in File, WindowPasses(f) PROVE StoreInv'
  <2>1. /\ row[f] = "deleted" /\ row'[f] = "due" /\ \A e \in File : e # f => row'[e] = row[e]
        /\ UNCHANGED <<driver, blob, step, held, stage, left, history>>
    BY <1>0, <1>11 DEF WindowPasses, FileTypeOK
  <2>2. Creating' /\ CreatedOnce' /\ Deleting'
    BY <1>0, <2>1 DEF Creating, CreatedOnce, Deleting, FileTypeOK, Fits
  <2>3. Purging' /\ Unlinked'
    BY <2>1 DEF Purging, Unlinked, Gone, history
  <2>4. BlobMatchesRow'
    BY <2>1 DEF BlobMatchesRow, InTable, history
  <2> QED BY <1>0, <2>2, <2>3, <2>4
<1>12. ASSUME NEW p \in Purger, CleanupBegins(p) \/ CleanupDies(p) \/ PurgeScan(p) PROVE StoreInv'
  <2>1. UNCHANGED <<driver, row, blob, step, held, history>>
    BY <1>12 DEF CleanupBegins, CleanupDies, PurgeScan, tables
  <2>2. ASSUME NEW q \in Purger, NEW f \in File
        PROVE  /\ stage'[q] = f => stage[q] = f
               /\ f \in left'[q] => f \in left[q] \/ row[f] = "due"
    <3>1. {"idle", "scan", "unlink"} \cap File = {}
      BY StorageAssumption
    <3>2. CASE CleanupBegins(p)
      BY <1>0, <3>1, <3>2 DEF CleanupBegins, FileTypeOK
    <3>3. CASE CleanupDies(p)
      BY <1>0, <3>1, <3>3 DEF CleanupDies, FileTypeOK
    <3>4. CASE PurgeScan(p)
      <4>1. left' = [left EXCEPT ![p] = {e \in File : row[e] = "due"}]
        BY <3>4 DEF PurgeScan
      <4>2. \E label \in {"idle", "unlink"} : stage' = [stage EXCEPT ![p] = label]
        BY <3>4 DEF PurgeScan
      <4> QED BY <1>0, <3>1, <4>1, <4>2 DEF FileTypeOK
    <3> QED BY <1>12, <3>2, <3>3, <3>4
  <2>3. Creating' /\ CreatedOnce' /\ Deleting' /\ BlobMatchesRow'
    BY <2>1 DEF Creating, CreatedOnce, Deleting, BlobMatchesRow, InTable, history
  <2>4. Purging' /\ Unlinked'
    BY <2>1, <2>2 DEF Purging, Unlinked, Gone, history
  <2> QED BY <1>0, <2>3, <2>4
<1>13. ASSUME NEW p \in Purger, NEW f \in File, PurgeUnlink(p, f) PROVE StoreInv'
  <2>1. /\ f \in left[p] /\ row[f] \in Gone
        /\ DriverDeletes(f) \/ DriverSwallows(f)
        /\ stage' = [stage EXCEPT ![p] = f]
        /\ UNCHANGED <<driver, row, step, held, left, torn, orphaned>>
    BY <1>13 DEF PurgeUnlink, Purging
  <2>2. /\ blob' \subseteq blob /\ stuck \subseteq stuck'
        /\ \A g \in blob : g # f => g \in blob'
        /\ f \notin blob' \/ f \in stuck' \/ driver = "s3"
    BY <1>0, <2>1, DriverRemoves
  <2>3. Creating' /\ CreatedOnce' /\ Deleting'
    BY <2>1, <2>2 DEF Creating, CreatedOnce, Deleting, Gone
  <2>4. Purging' /\ Unlinked'
    BY <1>0, <2>1, <2>2 DEF Purging, Unlinked, FileTypeOK
  <2>5. BlobMatchesRow'
    BY <2>1, <2>2 DEF BlobMatchesRow, InTable, Gone
  <2> QED BY <1>0, <2>3, <2>4, <2>5
<1>14. ASSUME NEW p \in Purger, NEW f \in File, Visited(p, f)
       PROVE  \A q \in Purger, e \in File :
                 (stage'[q] = e => stage[q] = e) /\ (e \in left'[q] => e \in left[q])
  <2>1. {"idle", "scan", "unlink"} \cap File = {}
    BY StorageAssumption
  <2>2. \E label \in {"idle", "unlink"} : stage' = [stage EXCEPT ![p] = label]
    BY <1>14 DEF Visited
  <2>3. left' = [left EXCEPT ![p] = left[p] \ {f}]
    BY <1>14 DEF Visited
  <2> QED BY <1>0, <2>1, <2>2, <2>3 DEF FileTypeOK
<1>15. ASSUME NEW p \in Purger, NEW f \in File, PurgeRemove(p, f) PROVE StoreInv'
  <2>1. /\ stage[p] = f /\ row[f] \in Gone /\ (f \notin blob \/ f \in stuck \/ driver = "s3")
        /\ UNCHANGED <<driver, blob, step, held, history>>
    BY <1>15 DEF PurgeRemove, Purging, Unlinked
  <2>2. row'[f] \in Gone /\ \A e \in File : e # f => row'[e] = row[e]
    BY <1>0, <1>15, <2>1 DEF PurgeRemove, FileTypeOK, Gone
  <2>3. Creating' /\ CreatedOnce' /\ Deleting'
    BY <1>0, <2>1, <2>2 DEF Creating, CreatedOnce, Deleting, Gone, FileTypeOK, Fits
  <2>4. Purging' /\ Unlinked'
    BY <1>14, <1>15, <2>1, <2>2 DEF Purging, Unlinked, PurgeRemove, history
  <2>5. BlobMatchesRow'
    BY <2>1, <2>2 DEF BlobMatchesRow, InTable, Gone, history
  <2> QED BY <1>0, <2>3, <2>4, <2>5
<1>16. ASSUME NEW p \in Purger, NEW f \in File, PurgeSkips(p, f) PROVE StoreInv'
  <2>1. Visited(p, f) /\ UNCHANGED <<driver, row, blob, step, held, history>>
    BY <1>16 DEF PurgeSkips, tables
  <2>2. Creating' /\ CreatedOnce' /\ Deleting' /\ BlobMatchesRow'
    BY <2>1 DEF Creating, CreatedOnce, Deleting, BlobMatchesRow, InTable, history
  <2>3. Purging' /\ Unlinked'
    BY <1>14, <2>1 DEF Purging, Unlinked, history
  <2> QED BY <1>0, <2>2, <2>3
<1>17. ASSUME NEW u \in User, DeleteUser(u) \/ PurgeUser(u) PROVE StoreInv'
  <2>1. UNCHANGED <<driver, row, blob, step, held, stage, left, torn, stuck, orphaned>>
    BY <1>17 DEF DeleteUser, PurgeUser, history
  <2> QED
    BY <1>0, <2>1
    DEF Creating, CreatedOnce, Deleting, Purging, Unlinked, BlobMatchesRow, InTable
<1>18. CASE UNCHANGED fileVars
  BY <1>0, <1>18
  DEF fileVars, tables, history, Creating, CreatedOnce, Deleting, Purging, Unlinked,
      BlobMatchesRow, InTable
<1> QED
  BY <1>1, <1>2, <1>3, <1>4, <1>5, <1>6, <1>7, <1>8, <1>9, <1>10, <1>11, <1>12, <1>13, <1>15,
     <1>16, <1>17, <1>18
  DEF FileNext, FileContinue, Purge

LEMMA StoreInit == FileInit => StoreInv
<1> SUFFICES ASSUME FileInit PROVE StoreInv
  OBVIOUS
<1>1. Purging /\ Unlinked
  BY StorageAssumption DEF FileInit, Purging, Unlinked
<1> QED
  BY <1>1, FileInitTypes
  DEF FileInit, StoreInv, Creating, CreatedOnce, Deleting, BlobMatchesRow

LEMMA StoreInvariant == FileSpec => []StoreInv
BY StoreInit, StoreStep, PTL DEF FileSpec

(* A listed file has its content and content has its row, for any number   *)
(* of files, requests and replicas, but for the exceptions the property    *)
(* names.                                                                  *)
THEOREM BlobsMatch == FileSpec => []BlobMatchesRow
<1>1. StoreInv => BlobMatchesRow
  BY DEF StoreInv
<1> QED BY <1>1, StoreInvariant, PTL

-----------------------------------------------------------------------------
(* Avatars. *)

WornExist ==
    /\ \A f \in worn : row[f] # "none"
    /\ \A u \in User : avatar[u] # NoFile => avatar[u] \in worn

Changing(h) ==
    step[h] \in {"find_old", "unlink", "soft_delete", "connect"} /\ held[h].user \in User

(* A request that nobody has crossed deletes the avatar the user still has *)
(* (unless another user took it), and connects when it is deleted.         *)
Uncrossed ==
    \A h \in FileHandler :
        Changing(h) /\ ~held[h].crossed /\ avatar[held[h].user] # NoFile =>
            /\ avatar[held[h].user] = held[h].target
            /\ step[h] = "connect" => row[held[h].target] # "live"

AvatarInv == StoreInv /\ WornExist /\ Uncrossed /\ ReplacedIsDeleted

(* A step that changes nobody's avatar. *)
LEMMA SameAvatars ==
    ASSUME AvatarInv, FileTypeOK', UNCHANGED <<avatar, worn, stranded>>,
           \A f \in File : row'[f] = "live" => row[f] = "live" \/ row[f] = "none",
           \A f \in File : row[f] # "none" => row'[f] # "none",
           \A h \in FileHandler : Changing(h)' =>
              \/ /\ Changing(h) /\ held'[h] = held[h]
                 /\ step'[h] = "connect" => step[h] = "connect" \/ row'[held[h].target] # "live"
              \/ /\ avatar[held'[h].user] \in {NoFile, held'[h].target}
                 /\ step'[h] = "connect" => avatar[held'[h].user] = NoFile
              \/ held'[h].crossed
    PROVE  WornExist' /\ Uncrossed' /\ ReplacedIsDeleted'
<1> USE DEF AvatarInv, StoreInv
<1>1. WornExist'
  BY DEF WornExist, FileTypeOK
<1>2. ReplacedIsDeleted'
  BY DEF ReplacedIsDeleted, WornExist, FileTypeOK
<1>3. Uncrossed'
  <2> SUFFICES ASSUME NEW h \in FileHandler, Changing(h)', ~held'[h].crossed,
                      avatar[held'[h].user] # NoFile
               PROVE  /\ avatar[held'[h].user] = held'[h].target
                      /\ step'[h] = "connect" => row'[held'[h].target] # "live"
    BY DEF Uncrossed
  <2>1. CASE /\ Changing(h) /\ held'[h] = held[h]
             /\ step'[h] = "connect" => step[h] = "connect" \/ row'[held[h].target] # "live"
    <3>1. /\ avatar[held[h].user] = held[h].target
          /\ step[h] = "connect" => row[held[h].target] # "live"
      BY <2>1 DEF Uncrossed
    <3>2. held[h].target \in worn
      BY <2>1, <3>1 DEF WornExist, Changing
    <3>3. held[h].target \in File /\ row[held[h].target] # "none"
      BY <3>2 DEF WornExist, FileTypeOK
    <3> QED BY <2>1, <3>1, <3>3
  <2>2. CASE /\ avatar[held'[h].user] \in {NoFile, held'[h].target}
             /\ step'[h] = "connect" => avatar[held'[h].user] = NoFile
    BY <2>2
  <2> QED BY <2>1, <2>2
<1> QED BY <1>1, <1>2, <1>3

LEMMA AvatarStep == AvatarInv /\ [FileNext]_fileVars => AvatarInv'
<1> SUFFICES ASSUME AvatarInv, [FileNext]_fileVars PROVE WornExist' /\ Uncrossed' /\ ReplacedIsDeleted'
  BY StoreStep DEF AvatarInv
<1>0. FileTypeOK /\ FileTypeOK'
  BY FileStepTypes DEF AvatarInv, StoreInv
<1>1. ASSUME NEW h \in FileHandler, NEW label, NEW v, Proceed(h, label, v),
             UNCHANGED <<row, avatar, worn, stranded>>,
             \/ label \notin {"find_old", "unlink", "soft_delete", "connect"}
             \/ v.user \notin User
             \/ Changing(h) /\ v = held[h] /\ label # "connect"
             \/ /\ avatar[v.user] \in {NoFile, v.target}
                /\ label = "connect" => avatar[v.user] = NoFile
             \/ v.crossed
      PROVE  WornExist' /\ Uncrossed' /\ ReplacedIsDeleted'
  <2>1. /\ step'[h] = label /\ held'[h] = v
        /\ \A g \in FileHandler : g # h => step'[g] = step[g] /\ held'[g] = held[g]
    BY <1>0, <1>1 DEF Proceed, FileTypeOK
  <2>2. ASSUME NEW g \in FileHandler, Changing(g)'
        PROVE  \/ /\ Changing(g) /\ held'[g] = held[g]
                  /\ step'[g] = "connect" => step[g] = "connect" \/ row'[held[g].target] # "live"
               \/ /\ avatar[held'[g].user] \in {NoFile, held'[g].target}
                  /\ step'[g] = "connect" => avatar[held'[g].user] = NoFile
               \/ held'[g].crossed
    BY <1>1, <2>1, <2>2 DEF Changing
  <2> QED BY <1>0, <1>1, <2>2, SameAvatars
<1>2. ASSUME UNCHANGED <<step, held, avatar, worn, stranded>>,
             \A f \in File : row'[f] = "live" => row[f] = "live",
             \A f \in File : row[f] # "none" => row'[f] # "none"
      PROVE  WornExist' /\ Uncrossed' /\ ReplacedIsDeleted'
  BY <1>0, <1>2, SameAvatars DEF Changing
<1>3. ASSUME NEW h \in FileHandler, NEW f \in File,
             PutBlob(h, f) \/ GetFile(h, f) \/ \E u \in User : FindNewFile(h, u, f)
      PROVE  WornExist' /\ Uncrossed' /\ ReplacedIsDeleted'
  <2>1. \E v : \/ Proceed(h, "create", v) \/ Proceed(h, "find_current", v)
               \/ Proceed(h, "unlink", [Nothing EXCEPT !.target = f])
    BY <1>3 DEF PutBlob, GetFile, FindNewFile
  <2>2. [Nothing EXCEPT !.target = f].user \notin User
    BY StorageAssumption DEF Nothing
  <2>3. UNCHANGED <<row, avatar, worn, stranded>>
    BY <1>3 DEF PutBlob, GetFile, FindNewFile, tables, history
  <2> QED BY <1>1, <2>1, <2>2, <2>3
<1>4. ASSUME NEW h \in FileHandler, CreateRow(h) PROVE WornExist' /\ Uncrossed' /\ ReplacedIsDeleted'
  <2>1. /\ step[h] = "create" /\ held[h].new \in File /\ row[held[h].new] = "none"
        /\ row' = [row EXCEPT ![held[h].new] = "live"]
        /\ step' = [step EXCEPT ![h] = "idle"] /\ held' = [held EXCEPT ![h] = Nothing]
        /\ UNCHANGED <<avatar, worn, stranded>>
    BY <1>0, <1>4
    DEF CreateRow, Answer, Proceed, FileTypeOK, Fits, AvatarInv, StoreInv, Creating, history
  <2>2. \A g \in FileHandler : Changing(g)' => g # h /\ held'[g] = held[g] /\ step'[g] = step[g]
    BY <1>0, <2>1 DEF Changing, FileTypeOK
  <2>3. \A f \in File : /\ row'[f] = "live" => row[f] = "live" \/ row[f] = "none"
                        /\ row[f] # "none" => row'[f] # "none"
    BY <1>0, <2>1 DEF FileTypeOK
  <2> QED BY <1>0, <2>1, <2>2, <2>3, SameAvatars DEF Changing
<1>5. ASSUME NEW h \in FileHandler, FindOld(h) \/ Unlink(h) \/ Throw(h)
      PROVE  WornExist' /\ Uncrossed' /\ ReplacedIsDeleted'
  <2>1. UNCHANGED <<row, avatar, worn, stranded>>
    BY <1>5 DEF FindOld, Unlink, Throw, tables, history
  <2>2. \/ Proceed(h, "idle", Nothing)
        \/ /\ step[h] \in {"find_old", "unlink"}
           /\ Proceed(h, "unlink", held[h]) \/ Proceed(h, "soft_delete", held[h])
    BY <1>5 DEF FindOld, Unlink, Throw, Answer
  <2> QED BY <1>1, <2>1, <2>2 DEF Changing
<1>6. ASSUME NEW h \in FileHandler, FindCurrent(h) PROVE WornExist' /\ Uncrossed' /\ ReplacedIsDeleted'
  <2>1. /\ UNCHANGED <<row, avatar, worn, stranded>>
        /\ held[h] \in Held /\ held[h].user \in User
    BY <1>0, <1>6 DEF FindCurrent, tables, history, FileTypeOK, Fits
  <2> DEFINE old == avatar[held[h].user]
  <2>2. CASE account[held[h].user] = "there" /\ old = NoFile
    <3>1. Proceed(h, "connect", held[h])
      BY <1>6, <2>2 DEF FindCurrent
    <3> QED BY <1>1, <2>1, <2>2, <3>1
  <2>3. CASE account[held[h].user] = "there" /\ old # NoFile
    <3> DEFINE v == [held[h] EXCEPT !.target = old]
    <3>1. Proceed(h, "find_old", v)
      BY <1>6, <2>3 DEF FindCurrent
    <3>2. v.user = held[h].user /\ v.target = old
      BY <2>1, Zenon DEF Held
    <3> HIDE DEF v
    <3>3. avatar[v.user] = v.target
      BY <3>2
    <3> QED BY <1>1, <2>1, <3>1, <3>3
  <2>4. CASE account[held[h].user] # "there"
    <3> DEFINE v == [held[h] EXCEPT !.crossed = TRUE]
    <3>1. Proceed(h, "connect", v)
      BY <1>6, <2>4, Zenon DEF FindCurrent
    <3>2. v.crossed
      BY <2>1, Zenon DEF Held
    <3> HIDE DEF v
    <3> QED BY <1>1, <2>1, <3>1, <3>2
  <2> QED BY <2>2, <2>3, <2>4
<1>7. ASSUME NEW h \in FileHandler, SoftDelete(h) PROVE WornExist' /\ Uncrossed' /\ ReplacedIsDeleted'
  <2>1. /\ step[h] = "soft_delete" /\ held[h] \in Held /\ held[h].target \in File
        /\ UNCHANGED <<avatar, worn, stranded>>
    BY <1>0, <1>7 DEF SoftDelete, history, FileTypeOK, Fits
  <2>2. CASE InTable(held[h].target)
    <3>1. row' = [row EXCEPT ![held[h].target] = "deleted"]
      BY <1>7, <2>2 DEF SoftDelete
    <3>2. Proceed(h, "idle", Nothing) \/ (held[h].user # NoUser /\ Proceed(h, "connect", held[h]))
      BY <1>7, <2>2 DEF SoftDelete, Answer
    <3>3. row'[held[h].target] = "deleted" /\ \A f \in File : f # held[h].target => row'[f] = row[f]
      BY <1>0, <2>1, <3>1 DEF FileTypeOK
    <3>4. \A g \in FileHandler : Changing(g)' =>
             /\ Changing(g) /\ held'[g] = held[g]
             /\ step'[g] = "connect" => step[g] = "connect" \/ row'[held[g].target] # "live"
      <4> SUFFICES ASSUME NEW g \in FileHandler, Changing(g)'
                   PROVE  /\ Changing(g) /\ held'[g] = held[g]
                          /\ step'[g] = "connect" => step[g] = "connect" \/ row'[held[g].target] # "live"
        OBVIOUS
      <4>1. CASE g = h
        BY <1>0, <2>1, <3>2, <3>3, <4>1 DEF Changing, Proceed, FileTypeOK
      <4>2. CASE g # h
        BY <1>0, <3>2, <4>2 DEF Changing, Proceed, FileTypeOK
      <4> QED BY <4>1, <4>2
    <3> QED BY <1>0, <2>1, <3>3, <3>4, SameAvatars
  <2>3. CASE ~InTable(held[h].target)
    <3>1. Proceed(h, "idle", Nothing) /\ UNCHANGED row
      BY <1>7, <2>3 DEF SoftDelete, Answer
    <3> QED BY <1>1, <2>1, <3>1
  <2> QED BY <2>2, <2>3
<1>8. ASSUME NEW f \in File, WindowPasses(f) PROVE WornExist' /\ Uncrossed' /\ ReplacedIsDeleted'
  BY <1>0, <1>2, <1>8 DEF WindowPasses, FileTypeOK, history
<1>9. ASSUME NEW p \in Purger,
             \/ CleanupBegins(p) \/ PurgeScan(p) \/ CleanupDies(p)
             \/ \E f \in File : PurgeUnlink(p, f) \/ PurgeSkips(p, f)
      PROVE  WornExist' /\ Uncrossed' /\ ReplacedIsDeleted'
  BY <1>2, <1>9 DEF CleanupBegins, PurgeScan, CleanupDies, PurgeUnlink, PurgeSkips, tables, history
<1>10. ASSUME NEW p \in Purger, NEW f \in File, PurgeRemove(p, f)
       PROVE  WornExist' /\ Uncrossed' /\ ReplacedIsDeleted'
  <2>1. UNCHANGED <<step, held, worn, stranded>>
    BY <1>10 DEF PurgeRemove, history
  <2>2. CASE InTable(f)
    <3>1. /\ row'[f] = "purged" /\ \A e \in File : e # f => row'[e] = row[e]
          /\ \A u \in User : avatar'[u] = IF avatar[u] = f THEN NoFile ELSE avatar[u]
      BY <1>0, <1>10, <2>2 DEF PurgeRemove, FileTypeOK
    <3>2. WornExist'
      BY <1>0, <2>1, <3>1 DEF WornExist, AvatarInv, FileTypeOK
    <3>3. Uncrossed'
      <4> SUFFICES ASSUME NEW h \in FileHandler, Changing(h), ~held[h].crossed,
                          avatar'[held[h].user] # NoFile
                   PROVE  /\ avatar'[held[h].user] = held[h].target
                          /\ step[h] = "connect" => row'[held[h].target] # "live"
        BY <2>1 DEF Uncrossed, Changing
      <4>1. avatar[held[h].user] # NoFile /\ avatar'[held[h].user] = avatar[held[h].user]
        BY <3>1 DEF Changing
      <4>2. avatar[held[h].user] \in File
        BY <1>0, <4>1 DEF FileTypeOK, Changing
      <4> QED BY <3>1, <4>1, <4>2 DEF Uncrossed, AvatarInv
    <3>4. ReplacedIsDeleted'
      BY <1>0, <2>1, <3>1 DEF ReplacedIsDeleted, AvatarInv, FileTypeOK
    <3> QED BY <3>2, <3>3, <3>4
  <2>3. CASE ~InTable(f)
    BY <1>2, <1>10, <2>1, <2>3 DEF PurgeRemove
  <2> QED BY <2>2, <2>3
<1>11. ASSUME NEW h \in FileHandler, Connect(h) PROVE WornExist' /\ Uncrossed' /\ ReplacedIsDeleted'
  <2> DEFINE f == held[h].new
             u == held[h].user
  <2>1. /\ step[h] = "connect" /\ f \in File /\ u \in User
        /\ step' = [step EXCEPT ![h] = "idle"] /\ UNCHANGED row
    BY <1>0, <1>11 DEF Connect, FileTypeOK, Fits
  <2>2. CASE InTable(f) /\ account[u] # "gone"
    <3>1. /\ worn' = worn \cup {f}
          /\ stranded' = IF held[h].crossed /\ avatar[u] # NoFile THEN stranded \cup {avatar[u]} ELSE stranded
      BY <1>11, <2>2, Zenon DEF Connect
    <3>2. \A v \in User : avatar'[v] = IF v = u THEN f ELSE IF avatar[v] = f THEN NoFile ELSE avatar[v]
      BY <1>11, <2>2 DEF Connect
    <3>3. \A g \in FileHandler : g # h /\ Changing(g)' =>
             /\ Changing(g) /\ step'[g] = step[g]
             /\ held'[g].user = held[g].user /\ held'[g].target = held[g].target
             /\ ~held'[g].crossed => ~held[g].crossed /\ held[g].user # u
      <4> SUFFICES ASSUME NEW g \in FileHandler, g # h, Changing(g)'
                   PROVE  /\ Changing(g) /\ step'[g] = step[g]
                          /\ held'[g].user = held[g].user /\ held'[g].target = held[g].target
                          /\ ~held'[g].crossed => ~held[g].crossed /\ held[g].user # u
        OBVIOUS
      <4>1. step'[g] = step[g] /\ held[g] \in Held
        BY <1>0, <2>1 DEF FileTypeOK
      <4> DEFINE c == held[g].crossed \/ (held[g].user = held[h].user /\ step[g] # "find_current")
      <4>2. held'[g] = [held[g] EXCEPT !.crossed = c]
        BY <1>11, <2>2, Zenon DEF Connect
      <4>3. /\ held'[g].user = held[g].user /\ held'[g].target = held[g].target
            /\ held'[g].crossed = c
        BY <4>1, <4>2, Zenon DEF Held
      <4>4. Changing(g)
        BY <4>1, <4>3 DEF Changing
      <4>5. step[g] # "find_current"
        BY <4>4 DEF Changing
      <4> QED BY <4>1, <4>3, <4>4, <4>5, Zenon
    <3>4. ~Changing(h)'
      BY <1>0, <2>1 DEF Changing, FileTypeOK
    <3>5. row[f] # "none"
      BY <2>2 DEF InTable
    <3> HIDE DEF f, u
    <3>6. WornExist'
      BY <2>1, <3>1, <3>2, <3>5 DEF WornExist, AvatarInv
    <3>7. Uncrossed'
      <4> SUFFICES ASSUME NEW g \in FileHandler, Changing(g)', ~held'[g].crossed,
                          avatar'[held'[g].user] # NoFile
                   PROVE  /\ avatar'[held'[g].user] = held'[g].target
                          /\ step'[g] = "connect" => row'[held'[g].target] # "live"
        BY DEF Uncrossed
      <4>1. g # h
        BY <3>4
      <4>2. /\ Changing(g) /\ step'[g] = step[g] /\ ~held[g].crossed /\ held[g].user # u
            /\ held'[g].user = held[g].user /\ held'[g].target = held[g].target
        BY <3>3, <4>1
      <4>3. held[g].user \in User
        BY <4>2 DEF Changing
      <4>4. avatar[held[g].user] # NoFile /\ avatar'[held[g].user] = avatar[held[g].user]
        BY <3>2, <4>2, <4>3
      <4> QED BY <2>1, <4>2, <4>4 DEF Uncrossed, AvatarInv
    <3>8. ReplacedIsDeleted'
      <4> SUFFICES ASSUME NEW e \in worn', row[e] = "live", e \notin stranded',
                          \A v \in User : avatar'[v] # e
                   PROVE  FALSE
        BY <2>1 DEF ReplacedIsDeleted
      <4>1. e # f /\ e \in worn
        BY <2>1, <3>1, <3>2
      <4>2. e \notin stranded
        BY <3>1
      <4>3. PICK w \in User : avatar[w] = e
        BY <4>1, <4>2 DEF ReplacedIsDeleted, AvatarInv
      <4>4. w = u
        BY <3>2, <4>1, <4>3
      <4>5. e # NoFile
        BY <1>0, <4>1, StorageAssumption DEF FileTypeOK
      <4>6. ~held[h].crossed
        BY <3>1, <4>3, <4>4, <4>5
      <4>7. Changing(h)
        BY <2>1 DEF Changing, u
      <4> QED BY <2>1, <4>3, <4>4, <4>5, <4>6, <4>7 DEF Uncrossed, AvatarInv, u
    <3> QED BY <3>6, <3>7, <3>8
  <2>3. CASE ~(InTable(f) /\ account[u] # "gone")
    <3>1. Proceed(h, "idle", Nothing) /\ UNCHANGED <<avatar, worn, stranded>>
      BY <1>11, <2>3 DEF Connect, Proceed
    <3> QED BY <1>1, <2>1, <3>1
  <2> QED BY <2>2, <2>3
<1>12. ASSUME NEW u \in User, DeleteUser(u) PROVE WornExist' /\ Uncrossed' /\ ReplacedIsDeleted'
  BY <1>2, <1>12 DEF DeleteUser, history
<1>13. ASSUME NEW u \in User, PurgeUser(u) PROVE WornExist' /\ Uncrossed' /\ ReplacedIsDeleted'
  <2>1. /\ \A v \in User : avatar'[v] = IF v = u THEN NoFile ELSE avatar[v]
        /\ stranded' = stranded \cup ({avatar[u]} \ {NoFile})
        /\ UNCHANGED <<row, step, held, worn>>
    BY <1>0, <1>13 DEF PurgeUser, FileTypeOK
  <2>2. WornExist'
    BY <2>1 DEF WornExist, AvatarInv
  <2>3. Uncrossed'
    BY <2>1 DEF Uncrossed, Changing, AvatarInv
  <2>4. ReplacedIsDeleted'
    <3> SUFFICES ASSUME NEW e \in worn, row[e] = "live", e \notin stranded',
                        \A v \in User : avatar'[v] # e
                 PROVE  FALSE
      BY <2>1 DEF ReplacedIsDeleted
    <3>1. PICK v \in User : avatar[v] = e
      BY <2>1 DEF ReplacedIsDeleted, AvatarInv
    <3>2. v = u /\ e # NoFile
      BY <1>0, <2>1, <3>1, StorageAssumption DEF FileTypeOK
    <3> QED BY <2>1, <3>1, <3>2
  <2> QED BY <2>2, <2>3, <2>4
<1>14. CASE UNCHANGED fileVars
  BY <1>2, <1>14 DEF fileVars, tables, history
<1> QED
  BY <1>3, <1>4, <1>5, <1>6, <1>7, <1>8, <1>9, <1>10, <1>11, <1>12, <1>13, <1>14
  DEF FileNext, FileContinue, Purge

(* updateUser deletes the avatar it replaces, in every order of the        *)
(* requests, unless another one has set the user's avatar since this one   *)
(* read it, or the user is soft-deleted and was not found.                 *)
THEOREM AvatarsAreDeleted == FileSpec => []ReplacedIsDeleted
<1>1. FileInit => AvatarInv
  BY StoreInit DEF FileInit, AvatarInv, WornExist, Uncrossed, Changing, ReplacedIsDeleted
<1>2. AvatarInv => ReplacedIsDeleted
  BY DEF AvatarInv
<1> QED BY <1>1, <1>2, AvatarStep, PTL DEF FileSpec
=============================================================================
