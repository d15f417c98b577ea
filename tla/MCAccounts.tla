------------------------------ MODULE MCAccounts ------------------------------
(***************************************************************************)
(* Accounts for TLC.  Counting passwords and verifying addresses meet in   *)
(* few places, and together make too many states: "focus" says which of    *)
(* the two is explored in full.  With "guesses" nobody changes an address  *)
(* and no provider claims one; with "evidence" every password is right.    *)
(***************************************************************************)
EXTENDS Accounts

VARIABLE focus

MCInit == Init /\ focus \in {"guesses", "evidence"}

MCNext ==
    /\ Next
    /\ UNCHANGED focus
    /\ focus = "guesses" => acct'.addr = 0 /\ \A m \in grounds' : m[3] = "shown"
    /\ focus = "evidence" => \A h \in Handler : pc'[h] # "count"

MCSpec == MCInit /\ [][MCNext]_<<focus, vars>> /\ Fairness
=============================================================================
