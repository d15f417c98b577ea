------------------------------ MODULE MCServices ------------------------------
(***************************************************************************)
(* Six components that share no state, each explored on its own: "focus"   *)
(* says which.  The two halves of the inbox are taken one at a time too:   *)
(* what they do to each other is the subject of the run on Inbox itself.   *)
(***************************************************************************)
EXTENDS Inbox, Newsletter, Passwords, OAuth, Requests, Visitors, TLC

VARIABLE focus

NotesAtRest == inHeld = [h \in InHandler |-> NoHeld] /\ \A n \in Note : note[n] = NoNote

SocketsAtRest == \A s \in Socket : check[s] = "none"

InboxMoves ==
    \/ NotesAtRest /\ SocketNext
    \/ SocketsAtRest /\ NoteNext
    \/ ServerRestarts

MCInit ==
    /\ focus \in {"inbox", "newsletter", "passwords", "oauth", "requests", "visitors"}
    /\ InboxInit /\ NewsInit /\ PassInit /\ OAuthInit /\ ReqInit /\ ViewInit
    /\ focus # "visitors" => window = 0 /\ midnight = 0

MCNext ==
    /\ UNCHANGED focus
    /\ \/ /\ focus = "inbox" /\ InboxMoves
          /\ UNCHANGED <<newsVars, passVars, oauthVars, reqVars, viewVars>>
       \/ /\ focus = "newsletter" /\ NewsNext
          /\ UNCHANGED <<inVars, passVars, oauthVars, reqVars, viewVars>>
       \/ /\ focus = "passwords" /\ PassNext
          /\ UNCHANGED <<inVars, newsVars, oauthVars, reqVars, viewVars>>
       \/ /\ focus = "oauth" /\ OAuthNext
          /\ UNCHANGED <<inVars, newsVars, passVars, reqVars, viewVars>>
       \/ /\ focus = "requests" /\ ReqNext
          /\ UNCHANGED <<inVars, newsVars, passVars, oauthVars, viewVars>>
       \/ /\ focus = "visitors" /\ ViewNext
          /\ UNCHANGED <<inVars, newsVars, passVars, oauthVars, reqVars>>

mcVars == <<focus, inVars, newsVars, passVars, oauthVars, reqVars, viewVars>>

MCSpec == MCInit /\ [][MCNext]_mcVars

(* The six modules' type invariants. *)
TypeOK ==
    /\ InboxTypeOK
    /\ NewsTypeOK
    /\ PassTypeOK
    /\ OAuthTypeOK
    /\ ReqTypeOK
    /\ ViewTypeOK

(* No property tells the members of these sets apart.  Sets of components  *)
(* that are never explored together may share their members, and then one  *)
(* permutation serves them all: in the configuration Person and View are   *)
(* InUser, and Path is InHandler.                                          *)
Symmetry == Permutations(InUser) \cup Permutations(InHandler) \cup Permutations(Counter)
=============================================================================
