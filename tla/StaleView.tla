------------------------------- MODULE StaleView -------------------------------
(***************************************************************************)
(* What a cache of a changing fact promises: whoever looks at the fact     *)
(* through it sees a value that was true at most Window ticks ago, or is   *)
(* told that the cache knows nothing.                                      *)
(***************************************************************************)
EXTENDS Naturals

CONSTANTS
    Place,      \* where the fact is looked at
    Window,     \* how old a view may be, in ticks
    Unknown     \* "no view"

VARIABLES
    value,      \* the fact
    since,      \* ticks since each value was true last; Window + 1 stands for more
    view        \* what each place would answer

vars == <<value, since, view>>

Recent(v) == since[v] <= Window

TypeOK ==
    /\ value \in BOOLEAN
    /\ since \in [BOOLEAN -> 0 .. Window + 1]
    /\ view \in [Place -> BOOLEAN \cup {Unknown}]

Init ==
    /\ value \in BOOLEAN
    /\ since = [v \in BOOLEAN |-> IF v = value THEN 0 ELSE Window + 1]
    /\ view = [p \in Place |-> Unknown]

(* The fact changes; nobody has to notice. *)
Change ==
    /\ value' = ~value
    /\ since' = [since EXCEPT ![value'] = 0]
    /\ UNCHANGED view

(* A tick: no view may outlast its window. *)
Elapse ==
    /\ since' = [v \in BOOLEAN |->
                   IF v = value THEN 0
                   ELSE IF since[v] > Window THEN since[v] ELSE since[v] + 1]
    /\ view' \in [Place -> BOOLEAN \cup {Unknown}]
    /\ \A p \in Place :
          \/ view'[p] = Unknown
          \/ view'[p] = view[p] /\ Recent(view[p])'
    /\ UNCHANGED value

(* Views are lost, or formed of what was true not long ago. *)
Look ==
    /\ view' \in [Place -> BOOLEAN \cup {Unknown}]
    /\ \A p \in Place :
          view'[p] \in {Unknown, view[p]} \cup {v \in BOOLEAN : Recent(v)}
    /\ UNCHANGED <<value, since>>

Next == Change \/ Elapse \/ Look

Spec == Init /\ [][Next]_vars

(* No view is older than the window. *)
NoOldView == \A p \in Place : view[p] # Unknown => Recent(view[p])
=============================================================================
