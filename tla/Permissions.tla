------------------------------ MODULE Permissions ------------------------------
(***************************************************************************)
(* One permission of one user, as the replicas of the program see it: a    *)
(* user has it through the role or by a direct grant, PermissionsService   *)
(* caches the answer for CACHE_TTL_MS in the memory of its own process,    *)
(* and UsersService removes it from that cache, and from no other one,     *)
(* after a change of the user's role or grants.                            *)
(*                                                                         *)
(* A check that misses the cache reads the tables in one await and stores  *)
(* what it read in a later one.  (A role that the decorator names is let   *)
(* in without a look at the permissions; such a check is no step here.)    *)
(***************************************************************************)
EXTENDS Naturals

CONSTANTS
    Replica,        \* running processes, each with a cache
    Role,           \* roles
    Handler,        \* requests in flight at the same time
    Ttl,            \* CACHE_TTL_MS, in ticks
    MaxRead,        \* bound on the ticks between the read and the store
    MaxChanges,     \* bound on the changes
    Empty           \* "nothing cached", "no replica"

ASSUME PermissionsAssumption ==
    /\ Ttl \in Nat \ {0}
    /\ MaxRead \in Nat
    /\ MaxChanges \in Nat
    /\ Empty \notin Replica
    /\ Empty \notin BOOLEAN
    /\ Replica \cap Handler = {}

VARIABLES
    granted,    \* roles that have the permission
    role,       \* the user's role
    direct,     \* the user has it directly
    removed,    \* the user is soft-deleted
    cache,      \* the entry of each replica
    pc,         \* the await each handler is about to perform
    local,      \* what it has read
    changes,    \* changes so far
    version,    \* history: changes of the user's own role and grants
    settled,    \* history: latest version invalidated, by replica
    since       \* history: ticks since each answer was true last

tables == <<granted, role, direct, removed>>
vars == <<tables, cache, pc, local, changes, version, settled, since>>

Window == Ttl + MaxRead

(* allowed is what the entry says, left the ticks until it expires.  Of    *)
(* the history: version is that of the user when it was read, lag the      *)
(* ticks from the read to the store, crossed whether the replica's cache   *)
(* was invalidated between the two.                                        *)
Entry == [allowed : BOOLEAN, left : 1 .. Ttl, version : 0 .. MaxChanges,
          lag : 0 .. MaxRead, crossed : BOOLEAN]

Local == [replica : Replica \cup {Empty}, allowed : BOOLEAN,
          version : 0 .. MaxChanges, lag : 0 .. MaxRead, crossed : BOOLEAN]

Blank == [replica |-> Empty, allowed |-> FALSE, version |-> 0, lag |-> 0,
          crossed |-> FALSE]

PC == {"idle", "load", "store", "invalidate"}

TypeOK ==
    /\ granted \in SUBSET Role
    /\ role \in Role
    /\ direct \in BOOLEAN
    /\ removed \in BOOLEAN
    /\ cache \in [Replica -> Entry \cup {Empty}]
    /\ pc \in [Handler -> PC]
    /\ local \in [Handler -> Local]
    /\ \A h \in Handler : pc[h] # "idle" => local[h].replica \in Replica
    /\ changes \in 0 .. MaxChanges
    /\ version \in 0 .. changes
    /\ settled \in [Replica -> 0 .. MaxChanges]
    /\ since \in [BOOLEAN -> 0 .. Window + 1]

(* What getEffectivePermissions finds in the tables: the role's permission *)
(* or the user's own.  The user must not be deleted; the role may be, as   *)
(* an include is not filtered.                                             *)
EffectiveIn(g, r, d, gone) == ~gone /\ (r \in g \/ d)

Effective == EffectiveIn(granted, role, direct, removed)

(* The seeded roles, with what an administrator has made of them since,    *)
(* and a user in one of them; nothing is cached.                           *)
Init ==
    /\ granted \in SUBSET Role
    /\ role \in Role
    /\ direct = FALSE
    /\ removed = FALSE
    /\ cache = [r \in Replica |-> Empty]
    /\ pc = [h \in Handler |-> "idle"]
    /\ local = [h \in Handler |-> Blank]
    /\ changes = 0
    /\ version = 0
    /\ settled = [r \in Replica |-> 0]
    /\ since = [v \in BOOLEAN |-> IF v = Effective THEN 0 ELSE Window + 1]

-----------------------------------------------------------------------------
Go(h, label) == pc' = [pc EXCEPT ![h] = label]

Hold(h, v) == local' = [local EXCEPT ![h] = v]

Return(h) == Go(h, "idle") /\ Hold(h, Blank)

-----------------------------------------------------------------------------
(* A check, in a request that arrived at replica r. *)

(* JwtStrategy has found the user, and the cache has no entry for him. *)
Miss(h, r) ==
    /\ pc[h] = "idle"
    /\ ~removed
    /\ cache[r] = Empty
    /\ Go(h, "load")
    /\ Hold(h, [Blank EXCEPT !.replica = r])
    /\ UNCHANGED <<tables, cache, changes, version, settled, since>>

(* findFirst with the role's permissions and the user's. *)
Load(h) ==
    /\ pc[h] = "load"
    /\ Go(h, "store")
    /\ Hold(h, [local[h] EXCEPT !.allowed = Effective, !.version = version])
    /\ UNCHANGED <<tables, cache, changes, version, settled, since>>

(* A mutant: seconds taken for another unit. *)
BugStore(h) ==
    /\ pc[h] = "store"
    /\ cache' = [cache EXCEPT ![local[h].replica] =
                   [allowed |-> local[h].allowed, left |-> 2 * Ttl,
                    version |-> local[h].version, lag |-> local[h].lag,
                    crossed |-> local[h].crossed]]
    /\ Return(h)
    /\ UNCHANGED <<tables, changes, version, settled, since>>

(* cache.set, whatever was invalidated meanwhile; then the answer. *)
Store(h) ==
    /\ pc[h] = "store"
    /\ cache' = [cache EXCEPT ![local[h].replica] =
                   [allowed |-> local[h].allowed, left |-> Ttl,
                    version |-> local[h].version, lag |-> local[h].lag,
                    crossed |-> local[h].crossed]]
    /\ Return(h)
    /\ UNCHANGED <<tables, changes, version, settled, since>>

-----------------------------------------------------------------------------
(* Changes. *)

(* The new tables; both answers are true at the time of the change. *)
Become(g, r, d, gone) ==
    /\ changes < MaxChanges
    /\ changes' = changes + 1
    /\ granted' = g
    /\ role' = r
    /\ direct' = d
    /\ removed' = gone
    /\ since' = [since EXCEPT ![EffectiveIn(g, r, d, gone)] = 0]

(* updateUser, assignRole, setPermissions: the row is updated, removed or  *)
(* not, and the cache of replica r is to be invalidated next.              *)
UserChange(h, r) ==
    /\ pc[h] = "idle"
    /\ \E q \in Role, d \in BOOLEAN : Become(granted, q, d, removed)
    /\ version' = version + 1
    /\ Go(h, "invalidate")
    /\ Hold(h, [Blank EXCEPT !.replica = r, !.version = version'])
    /\ UNCHANGED <<cache, settled>>

(* A mutant: only an entry that grants is removed. *)
BugInvalidate(h) ==
    /\ pc[h] = "invalidate"
    /\ cache' = [cache EXCEPT ![local[h].replica] =
                   IF @ # Empty /\ @.allowed THEN Empty ELSE @]
    /\ pc' = [pc EXCEPT ![h] = "idle"]
    /\ local' = [g \in Handler |->
                   IF g = h THEN Blank
                   ELSE [local[g] EXCEPT !.crossed =
                           @ \/ (pc[g] = "store" /\ local[g].replica = local[h].replica)]]
    /\ settled' = [settled EXCEPT ![local[h].replica] =
                     IF @ < local[h].version THEN local[h].version ELSE @]
    /\ UNCHANGED <<tables, changes, version, since>>

(* cache.del.  A check that has read and not stored yet is not aware.      *)
Invalidate(h) ==
    /\ pc[h] = "invalidate"
    /\ cache' = [cache EXCEPT ![local[h].replica] = Empty]
    /\ pc' = [pc EXCEPT ![h] = "idle"]
    /\ local' = [g \in Handler |->
                   IF g = h THEN Blank
                   ELSE [local[g] EXCEPT !.crossed =
                           @ \/ (pc[g] = "store" /\ local[g].replica = local[h].replica)]]
    /\ settled' = [settled EXCEPT ![local[h].replica] =
                     IF @ < local[h].version THEN local[h].version ELSE @]
    /\ UNCHANGED <<tables, changes, version, since>>

(* updateRole, with or without the permission: no cache hears of it.       *)
RoleChange ==
    /\ \E g \in SUBSET Role : Become(g, role, direct, removed)
    /\ UNCHANGED <<cache, pc, local, version, settled>>

(* deleteUser: no cache hears of it either. *)
DeleteUser ==
    /\ ~removed
    /\ Become(granted, role, direct, TRUE)
    /\ UNCHANGED <<cache, pc, local, version, settled>>

-----------------------------------------------------------------------------
(* Time, and failures. *)

(* A mutant: an entry outlives its last tick. *)
BugAge(e) == IF e = Empty THEN e ELSE [e EXCEPT !.left = @ - 1]

(* An entry whose time is over is not found any more. *)
Age(e) == IF e = Empty \/ e.left = 1 THEN Empty ELSE [e EXCEPT !.left = @ - 1]

Tick ==
    /\ \A h \in Handler : pc[h] = "store" => local[h].lag < MaxRead
    /\ cache' = [r \in Replica |-> Age(cache[r])]
    /\ since' = [v \in BOOLEAN |->
                   IF v = Effective THEN 0
                   ELSE IF since[v] > Window THEN since[v] ELSE since[v] + 1]
    /\ local' = [h \in Handler |->
                   IF pc[h] = "store" THEN [local[h] EXCEPT !.lag = @ + 1] ELSE local[h]]
    /\ UNCHANGED <<tables, pc, changes, version, settled>>

(* The read throws. *)
LoadThrows(h) ==
    /\ pc[h] = "load"
    /\ Return(h)
    /\ UNCHANGED <<tables, cache, changes, version, settled, since>>

(* The process dies, with its cache and its requests, and comes back. *)
Restart(r) ==
    /\ cache' = [cache EXCEPT ![r] = Empty]
    /\ pc' = [h \in Handler |-> IF local[h].replica = r THEN "idle" ELSE pc[h]]
    /\ local' = [h \in Handler |-> IF local[h].replica = r THEN Blank ELSE local[h]]
    /\ UNCHANGED <<tables, changes, version, settled, since>>

-----------------------------------------------------------------------------
Continue(h) == Load(h) \/ Store(h) \/ Invalidate(h)

Next ==
    \/ \E h \in Handler, r \in Replica : Miss(h, r) \/ UserChange(h, r)
    \/ \E h \in Handler : Continue(h) \/ LoadThrows(h)
    \/ \E r \in Replica : Restart(r)
    \/ RoleChange
    \/ DeleteUser
    \/ Tick

Spec == Init /\ [][Next]_vars

-----------------------------------------------------------------------------
(* What a check is answered: from the cache, or with what it has read.     *)
View == [p \in Replica \cup Handler |->
           IF p \in Handler
           THEN IF pc[p] = "store" THEN local[p].allowed ELSE Empty
           ELSE IF cache[p] # Empty THEN cache[p].allowed ELSE Empty]

Stale == INSTANCE StaleView
         WITH Place <- Replica \cup Handler, Window <- Window, Unknown <- Empty,
              value <- Effective, since <- since, view <- View

(* No answer is older than the time to live of an entry and the one read   *)
(* that filled it: on every replica, also on those that no invalidation    *)
(* reaches, and after a change that invalidates nothing.                   *)
NeverTooStale == Stale!Spec

(* An administrator who changes a user's role or grants finds the change   *)
(* in effect on his replica: what is cached there is no older than the     *)
(* last change that replica invalidated, unless a check had read before    *)
(* the invalidation and stored after it.                                   *)
OwnChangesAreSeen ==
    \A r \in Replica :
        cache[r] # Empty => (cache[r].version >= settled[r] \/ cache[r].crossed)
=============================================================================
