------------------------------ MODULE MCStorage ------------------------------
(***************************************************************************)
(* Storage for TLC.  Replacing avatars takes two users, purging files two  *)
(* replicas; together they make too many states.  With the focus "purges"  *)
(* only one of the users acts; with "avatars" the nightly job never runs,  *)
(* which the fairness of a run would forbid: DeletedIsPurged says nothing  *)
(* there.                                                                  *)
(***************************************************************************)
EXTENDS Storage

VARIABLE focus

TheUser == CHOOSE u \in User : TRUE

MCFileInit == FileInit /\ focus \in {"purges", "avatars"}

MCFileNext ==
    /\ FileNext
    /\ UNCHANGED focus
    /\ focus = "purges" =>
          /\ \A u \in User \ {TheUser} : account'[u] = "there"
          /\ \A h \in FileHandler : held'[h].user \in {TheUser, NoUser}
    /\ focus = "avatars" =>
          /\ \A p \in Purger : stage'[p] = "idle"
          /\ \A f \in File : row'[f] # "due"

MCFileSpec == MCFileInit /\ [][MCFileNext]_<<focus, fileVars>> /\ FileFairness
=============================================================================
