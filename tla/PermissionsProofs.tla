--------------------------- MODULE PermissionsProofs ---------------------------
(***************************************************************************)
(* Proofs about Permissions, for any number of replicas, roles and         *)
(* requests, any time to live and any of the bounds.                       *)
(***************************************************************************)
EXTENDS Permissions, TLAPS

-----------------------------------------------------------------------------
(* Type correctness. *)

LEMMA ExceptType ==
  ASSUME NEW D, NEW S, NEW f \in [D -> S], NEW x, NEW y \in S
  PROVE  [f EXCEPT ![x] = y] \in [D -> S]
OBVIOUS

LEMMA InitType == Init => TypeOK
<1> SUFFICES ASSUME Init PROVE TypeOK
  OBVIOUS
<1>1. Window + 1 \in Nat /\ 0 \in 0 .. Window + 1 /\ Window + 1 \in 0 .. Window + 1
  BY PermissionsAssumption DEF Window
<1>2. Blank \in Local
  BY PermissionsAssumption DEF Blank, Local
<1>3. since \in [BOOLEAN -> 0 .. Window + 1]
  BY <1>1 DEF Init
<1>4. /\ cache \in [Replica -> Entry \cup {Empty}]
      /\ settled \in [Replica -> 0 .. MaxChanges]
      /\ changes \in 0 .. MaxChanges /\ version \in 0 .. changes
  BY PermissionsAssumption DEF Init
<1>5. /\ pc \in [Handler -> PC] /\ local \in [Handler -> Local]
      /\ \A h \in Handler : pc[h] # "idle" => local[h].replica \in Replica
  BY <1>2 DEF Init, PC
<1>6. granted \in SUBSET Role /\ role \in Role /\ direct \in BOOLEAN /\ removed \in BOOLEAN
  BY DEF Init
<1> QED
  BY <1>3, <1>4, <1>5, <1>6 DEF TypeOK

(* A handler goes on, holding something well typed. *)
LEMMA GoType ==
  ASSUME TypeOK, NEW h \in Handler, NEW label \in PC, NEW v \in Local,
         label # "idle" => v.replica \in Replica,
         Go(h, label), Hold(h, v)
  PROVE  /\ pc' \in [Handler -> PC]
         /\ local' \in [Handler -> Local]
         /\ \A g \in Handler : pc'[g] # "idle" => local'[g].replica \in Replica
BY DEF TypeOK, Go, Hold

LEMMA BlankType == Blank \in Local
BY PermissionsAssumption DEF Blank, Local

LEMMA ReturnType ==
  ASSUME TypeOK, NEW h \in Handler, Return(h)
  PROVE  /\ pc' \in [Handler -> PC]
         /\ local' \in [Handler -> Local]
         /\ \A g \in Handler : pc'[g] # "idle" => local'[g].replica \in Replica
BY BlankType, GoType DEF Return, PC

(* The tables and the histories after a change. *)
LEMMA BecomeType ==
  ASSUME TypeOK, NEW g \in SUBSET Role, NEW r \in Role, NEW d \in BOOLEAN,
         NEW gone \in BOOLEAN, Become(g, r, d, gone)
  PROVE  /\ granted' \in SUBSET Role /\ role' \in Role
         /\ direct' \in BOOLEAN /\ removed' \in BOOLEAN
         /\ changes' \in 0 .. MaxChanges /\ changes' = changes + 1
         /\ since' \in [BOOLEAN -> 0 .. Window + 1]
<1>1. /\ changes \in 0 .. MaxChanges
      /\ since \in [BOOLEAN -> 0 .. Window + 1]
      /\ MaxChanges \in Nat
      /\ Window + 1 \in Nat
  BY PermissionsAssumption DEF TypeOK, Window
<1>2. changes' \in 0 .. MaxChanges
  BY <1>1 DEF Become
<1>3. since' \in [BOOLEAN -> 0 .. Window + 1]
  <2>1. since' = [since EXCEPT ![EffectiveIn(g, r, d, gone)] = 0]
    BY DEF Become
  <2>2. 0 \in 0 .. Window + 1
    BY <1>1
  <2> QED BY <1>1, <2>1, <2>2, ExceptType
<1> QED BY <1>2, <1>3 DEF Become

LEMMA AgeType ==
  ASSUME NEW e \in Entry \cup {Empty}
  PROVE  /\ Age(e) \in Entry \cup {Empty}
         /\ Age(e) # Empty =>
              /\ e \in Entry /\ e # Empty
              /\ Age(e).allowed = e.allowed /\ Age(e).left = e.left - 1
              /\ Age(e).version = e.version /\ Age(e).lag = e.lag
              /\ Age(e).crossed = e.crossed
<1>1. CASE e = Empty
  BY <1>1 DEF Age
<1>2. CASE e # Empty /\ e.left = 1
  BY <1>2 DEF Age
<1>3. CASE e # Empty /\ e.left # 1
  <2>1. e \in Entry /\ e.left - 1 \in 1 .. Ttl
    BY <1>3, PermissionsAssumption DEF Entry
  <2>2. Age(e) = [e EXCEPT !.left = @ - 1]
    BY <1>3 DEF Age
  <2> QED BY <1>3, <2>1, <2>2 DEF Entry
<1> QED BY <1>1, <1>2, <1>3

LEMMA NextType == TypeOK /\ [Next]_vars => TypeOK'
<1> SUFFICES ASSUME TypeOK, [Next]_vars PROVE TypeOK'
  OBVIOUS
<1> USE DEF tables
<1>0. PICK n \in Nat : n = Window + 1
  BY PermissionsAssumption DEF Window
<1>1. ASSUME NEW h \in Handler, NEW r \in Replica, Miss(h, r) PROVE TypeOK'
  <2>1. [Blank EXCEPT !.replica = r] \in Local /\ [Blank EXCEPT !.replica = r].replica = r
    BY BlankType DEF Blank, Local
  <2> QED BY <1>1, <2>1, GoType DEF Miss, PC, TypeOK
<1>2. ASSUME NEW h \in Handler, NEW r \in Replica, UserChange(h, r) PROVE TypeOK'
  <2>1. PICK q \in Role, d \in BOOLEAN : Become(granted, q, d, removed)
    BY <1>2 DEF UserChange
  <2>2. /\ granted' \in SUBSET Role /\ role' \in Role
        /\ direct' \in BOOLEAN /\ removed' \in BOOLEAN
        /\ changes' \in 0 .. MaxChanges /\ changes' = changes + 1
        /\ since' \in [BOOLEAN -> 0 .. Window + 1]
    BY <2>1, BecomeType DEF TypeOK
  <2>3. version' \in 0 .. changes' /\ version' \in 0 .. MaxChanges
    BY <1>2, <2>2, PermissionsAssumption DEF UserChange, TypeOK
  <2>4. /\ [Blank EXCEPT !.replica = r, !.version = version'] \in Local
        /\ [Blank EXCEPT !.replica = r, !.version = version'].replica = r
    BY <2>3, BlankType DEF Blank, Local
  <2>5. /\ pc' \in [Handler -> PC]
        /\ local' \in [Handler -> Local]
        /\ \A g \in Handler : pc'[g] # "idle" => local'[g].replica \in Replica
    BY <1>2, <2>4, GoType DEF UserChange, PC
  <2> QED BY <1>2, <2>2, <2>3, <2>5 DEF UserChange, TypeOK
<1>3. ASSUME NEW h \in Handler, Load(h) PROVE TypeOK'
  <2>1. Effective \in BOOLEAN
    BY DEF Effective, EffectiveIn, TypeOK
  <2>2. version \in 0 .. MaxChanges
    BY PermissionsAssumption DEF TypeOK
  <2>3. /\ [local[h] EXCEPT !.allowed = Effective, !.version = version] \in Local
        /\ [local[h] EXCEPT !.allowed = Effective, !.version = version].replica
              = local[h].replica
    BY <2>1, <2>2 DEF Local, TypeOK
  <2>4. local[h].replica \in Replica
    BY <1>3 DEF Load, TypeOK
  <2> QED BY <1>3, <2>3, <2>4, GoType DEF Load, PC, TypeOK
<1>4. ASSUME NEW h \in Handler, Store(h) PROVE TypeOK'
  <2>1. [allowed |-> local[h].allowed, left |-> Ttl, version |-> local[h].version,
         lag |-> local[h].lag, crossed |-> local[h].crossed] \in Entry
    BY PermissionsAssumption DEF TypeOK, Local, Entry
  <2>2. cache' \in [Replica -> Entry \cup {Empty}]
    BY <1>4, <2>1 DEF Store, TypeOK
  <2> QED BY <1>4, <2>2, ReturnType DEF Store, TypeOK
<1>5. ASSUME NEW h \in Handler, Invalidate(h) PROVE TypeOK'
  <2>1. cache' \in [Replica -> Entry \cup {Empty}]
    BY <1>5 DEF Invalidate, TypeOK
  <2>2. local' \in [Handler -> Local]
    <3>1. ASSUME NEW g \in Handler PROVE local'[g] \in Local
      <4>1. local[g] \in Local /\ local[g].crossed \in BOOLEAN
        BY DEF TypeOK, Local
      <4>2. [local[g] EXCEPT !.crossed =
               @ \/ (pc[g] = "store" /\ local[g].replica = local[h].replica)] \in Local
        BY <4>1 DEF Local
      <4> QED BY <1>5, <4>2, BlankType DEF Invalidate
    <3> QED BY <1>5, <3>1 DEF Invalidate
  <2>3. pc' \in [Handler -> PC]
    BY <1>5 DEF Invalidate, TypeOK, PC
  <2>4. ASSUME NEW g \in Handler, pc'[g] # "idle" PROVE local'[g].replica \in Replica
    <3>1. g # h /\ pc[g] # "idle" /\ local'[g].replica = local[g].replica
      BY <1>5, <2>4 DEF Invalidate, TypeOK, Local
    <3> QED BY <3>1 DEF TypeOK
  <2>5. settled' \in [Replica -> 0 .. MaxChanges]
    <3>1. local[h].version \in 0 .. MaxChanges
      BY DEF TypeOK, Local
    <3> QED BY <1>5, <3>1 DEF Invalidate, TypeOK
  <2> QED BY <1>5, <2>1, <2>2, <2>3, <2>4, <2>5 DEF Invalidate, TypeOK
<1>6. ASSUME NEW h \in Handler, LoadThrows(h) PROVE TypeOK'
  BY <1>6, ReturnType DEF LoadThrows, TypeOK
<1>7. ASSUME NEW r \in Replica, Restart(r) PROVE TypeOK'
  <2>1. cache' \in [Replica -> Entry \cup {Empty}]
    BY <1>7 DEF Restart, TypeOK
  <2>2. pc' \in [Handler -> PC] /\ local' \in [Handler -> Local]
    BY <1>7, BlankType DEF Restart, TypeOK, PC
  <2>3. \A g \in Handler : pc'[g] # "idle" => local'[g].replica \in Replica
    BY <1>7 DEF Restart, TypeOK
  <2> QED BY <1>7, <2>1, <2>2, <2>3 DEF Restart, TypeOK
<1>8. CASE RoleChange
  <2>1. PICK g \in SUBSET Role : Become(g, role, direct, removed)
    BY <1>8 DEF RoleChange
  <2>2. /\ granted' \in SUBSET Role /\ role' \in Role
        /\ direct' \in BOOLEAN /\ removed' \in BOOLEAN
        /\ changes' \in 0 .. MaxChanges /\ changes' = changes + 1
        /\ since' \in [BOOLEAN -> 0 .. Window + 1]
    BY <2>1, BecomeType DEF TypeOK
  <2>3. version \in 0 .. changes'
    BY <2>2 DEF TypeOK
  <2> QED BY <1>8, <2>2, <2>3 DEF RoleChange, TypeOK
<1>9. CASE DeleteUser
  <2>1. /\ granted' \in SUBSET Role /\ role' \in Role
        /\ direct' \in BOOLEAN /\ removed' \in BOOLEAN
        /\ changes' \in 0 .. MaxChanges /\ changes' = changes + 1
        /\ since' \in [BOOLEAN -> 0 .. Window + 1]
    BY <1>9, BecomeType DEF DeleteUser, TypeOK
  <2>2. version \in 0 .. changes'
    BY <2>1 DEF TypeOK
  <2> QED BY <1>9, <2>1, <2>2 DEF DeleteUser, TypeOK
<1>10. CASE Tick
  <2>1. cache' \in [Replica -> Entry \cup {Empty}]
    BY <1>10, AgeType DEF Tick, TypeOK
  <2>2. local' \in [Handler -> Local]
    <3>1. ASSUME NEW g \in Handler, pc[g] = "store"
          PROVE  [local[g] EXCEPT !.lag = @ + 1] \in Local
      <4>1. local[g] \in Local /\ local[g].lag < MaxRead
        BY <1>10, <3>1 DEF Tick, TypeOK
      <4>2. local[g].lag + 1 \in 0 .. MaxRead
        BY <4>1, PermissionsAssumption DEF Local
      <4> QED BY <4>1, <4>2 DEF Local
    <3> QED BY <1>10, <3>1 DEF Tick, TypeOK
  <2>3. \A g \in Handler : pc'[g] # "idle" => local'[g].replica \in Replica
    BY <1>10 DEF Tick, TypeOK, Local
  <2>4. since' \in [BOOLEAN -> 0 .. Window + 1]
    <3>1. Window \in Nat
      BY PermissionsAssumption DEF Window
    <3>2. ASSUME NEW v \in BOOLEAN
          PROVE  (IF v = Effective THEN 0
                  ELSE IF since[v] > Window THEN since[v] ELSE since[v] + 1)
                    \in 0 .. Window + 1
      <4>1. since[v] \in 0 .. Window + 1
        BY DEF TypeOK
      <4> QED BY <3>1, <4>1
    <3> QED BY <1>10, <3>2 DEF Tick
  <2> QED BY <1>10, <2>1, <2>2, <2>3, <2>4 DEF Tick, TypeOK
<1>11. CASE UNCHANGED vars
  BY <1>11 DEF vars, TypeOK
<1> QED
  BY <1>1, <1>2, <1>3, <1>4, <1>5, <1>6, <1>7, <1>8, <1>9, <1>10, <1>11
  DEF Next, Continue

(* Types: every reachable state of tables, caches and requests is well     *)
(* typed; no entry outlives its time to live, no request its read bound.   *)
THEOREM TypeCorrect == Spec => []TypeOK
BY InitType, NextType, PTL DEF Spec

-----------------------------------------------------------------------------
(* Freshness.  An entry is as old as the ticks it has been cached and the  *)
(* ticks its request took before, and what a request has read is as old as *)
(* the ticks since.                                                        *)

EntryIsFresh(r) ==
    cache[r] # Empty =>
        since[cache[r].allowed] <= (Ttl - cache[r].left) + cache[r].lag

ReadIsFresh(h) == pc[h] = "store" => since[local[h].allowed] <= local[h].lag

FreshInv ==
    /\ since[Effective] = 0
    /\ \A r \in Replica : EntryIsFresh(r)
    /\ \A h \in Handler : ReadIsFresh(h)

LEMMA EffectiveType == TypeOK => Effective \in BOOLEAN
BY DEF Effective, EffectiveIn, TypeOK

(* Types, in the form the steps below need them. *)
LEMMA Numbers ==
  ASSUME TypeOK
  PROVE  /\ Ttl \in Nat /\ MaxRead \in Nat /\ Window = Ttl + MaxRead
         /\ \A v \in BOOLEAN : since[v] \in Nat
         /\ \A r \in Replica : cache[r] # Empty =>
               /\ cache[r] \in Entry /\ cache[r].allowed \in BOOLEAN
               /\ cache[r].left \in Nat /\ cache[r].left > 0 /\ cache[r].left <= Ttl
               /\ cache[r].lag \in Nat /\ cache[r].lag <= MaxRead
         /\ \A h \in Handler :
               /\ local[h] \in Local /\ local[h].allowed \in BOOLEAN
               /\ local[h].lag \in Nat /\ local[h].lag <= MaxRead
<1>1. Window + 1 \in Nat /\ Ttl \in Nat /\ MaxRead \in Nat /\ Window = Ttl + MaxRead
  BY PermissionsAssumption DEF Window
<1>2. \A v \in BOOLEAN : since[v] \in Nat
  BY <1>1 DEF TypeOK
<1>3. ASSUME NEW r \in Replica, cache[r] # Empty
      PROVE  /\ cache[r] \in Entry /\ cache[r].allowed \in BOOLEAN
             /\ cache[r].left \in Nat /\ cache[r].left > 0 /\ cache[r].left <= Ttl
             /\ cache[r].lag \in Nat /\ cache[r].lag <= MaxRead
  BY <1>1, <1>3 DEF TypeOK, Entry
<1>4. ASSUME NEW h \in Handler
      PROVE  /\ local[h] \in Local /\ local[h].allowed \in BOOLEAN
             /\ local[h].lag \in Nat /\ local[h].lag <= MaxRead
  BY <1>1 DEF TypeOK, Local
<1> QED BY <1>1, <1>2, <1>3, <1>4

(* After a change both answers are at least as recent as before. *)
LEMMA BecomeFresh ==
  ASSUME TypeOK, FreshInv, NEW g, NEW r, NEW d, NEW gone, Become(g, r, d, gone)
  PROVE  /\ since'[Effective'] = 0
         /\ \A v \in BOOLEAN : since'[v] <= since[v]
<1>1. Effective' = EffectiveIn(g, r, d, gone)
  BY DEF Become, Effective, EffectiveIn
<1>2. Effective' \in BOOLEAN
  BY DEF Effective, EffectiveIn
<1>3. /\ since \in [BOOLEAN -> 0 .. Window + 1]
      /\ since' = [since EXCEPT ![Effective'] = 0]
  BY <1>1 DEF Become, TypeOK
<1> HIDE DEF Effective
<1>4. ASSUME NEW v \in BOOLEAN PROVE since'[v] <= since[v]
  <2>1. since[v] \in Nat
    BY Numbers
  <2>2. since'[v] = (IF v = Effective' THEN 0 ELSE since[v])
    BY <1>3
  <2> QED BY <2>1, <2>2
<1> QED BY <1>2, <1>3, <1>4

(* A step in which no time passes. *)
LEMMA FreshStep ==
  ASSUME TypeOK, TypeOK', FreshInv,
         since'[Effective'] = 0,
         \A v \in BOOLEAN : since'[v] <= since[v],
         \A r \in Replica : cache'[r] = cache[r] \/ EntryIsFresh(r)',
         \A h \in Handler :
            pc'[h] = "store" =>
               \/ pc[h] = "store" /\ local'[h].allowed = local[h].allowed
                                 /\ local'[h].lag = local[h].lag
               \/ ReadIsFresh(h)'
  PROVE  FreshInv'
<1>1. ASSUME NEW r \in Replica PROVE EntryIsFresh(r)'
  <2>1. CASE EntryIsFresh(r)'
    BY <2>1
  <2>2. CASE cache'[r] = cache[r] /\ cache[r] # Empty
    <3>1. since[cache[r].allowed] <= (Ttl - cache[r].left) + cache[r].lag
      BY <2>2 DEF FreshInv, EntryIsFresh
    <3>2. /\ since[cache[r].allowed] \in Nat /\ since'[cache[r].allowed] \in Nat
          /\ since'[cache[r].allowed] <= since[cache[r].allowed]
          /\ Ttl \in Nat /\ cache[r].left \in Nat /\ cache[r].lag \in Nat
      <4>1. cache[r].allowed \in BOOLEAN
        BY <2>2, Numbers
      <4>2. \A v \in BOOLEAN : since'[v] \in Nat
        BY PermissionsAssumption DEF TypeOK, Window
      <4> QED BY <2>2, <4>1, <4>2, Numbers
    <3>3. since'[cache[r].allowed] <= (Ttl - cache[r].left) + cache[r].lag
      BY <3>1, <3>2
    <3> QED BY <2>2, <3>3 DEF EntryIsFresh
  <2>3. CASE cache'[r] = cache[r] /\ cache[r] = Empty
    BY <2>3 DEF EntryIsFresh
  <2> QED BY <2>1, <2>2, <2>3
<1>2. ASSUME NEW h \in Handler PROVE ReadIsFresh(h)'
  <2>1. CASE pc'[h] = "store" /\ pc[h] = "store" /\ local'[h].allowed = local[h].allowed
             /\ local'[h].lag = local[h].lag
    <3>1. since[local[h].allowed] <= local[h].lag
      BY <2>1 DEF FreshInv, ReadIsFresh
    <3>2. /\ since[local[h].allowed] \in Nat /\ since'[local[h].allowed] \in Nat
          /\ since'[local[h].allowed] <= since[local[h].allowed]
          /\ local[h].lag \in Nat
      <4>1. local[h].allowed \in BOOLEAN
        BY Numbers
      <4>2. \A v \in BOOLEAN : since'[v] \in Nat
        BY PermissionsAssumption DEF TypeOK, Window
      <4> QED BY <4>1, <4>2, Numbers
    <3>3. since'[local[h].allowed] <= local[h].lag
      BY <3>1, <3>2
    <3> QED BY <2>1, <3>3 DEF ReadIsFresh
  <2>2. CASE pc'[h] # "store"
    BY <2>2 DEF ReadIsFresh
  <2> QED BY <2>1, <2>2
<1> QED BY <1>1, <1>2 DEF FreshInv

LEMMA NextFresh == TypeOK /\ FreshInv /\ [Next]_vars => FreshInv'
<1> SUFFICES ASSUME TypeOK, FreshInv, [Next]_vars PROVE FreshInv'
  OBVIOUS
<1> USE DEF tables
<1>1. TypeOK'
  BY NextType
<1>2. UNCHANGED <<tables, since>> =>
        since'[Effective'] = 0 /\ \A v \in BOOLEAN : since'[v] <= since[v]
  <2>1. UNCHANGED <<tables, since>> => Effective' = Effective
    BY DEF Effective, EffectiveIn
  <2> HIDE DEF Effective
  <2> QED BY <2>1, Numbers DEF FreshInv
<1>3. ASSUME NEW h \in Handler, NEW r \in Replica, Miss(h, r) PROVE FreshInv'
  <2>1. \A g \in Handler : pc'[g] = "store" =>
           pc[g] = "store" /\ local'[g] = local[g]
    BY <1>3 DEF Miss, Go, Hold, TypeOK
  <2> QED BY <1>1, <1>2, <1>3, <2>1, FreshStep DEF Miss
<1>4. ASSUME NEW h \in Handler, NEW r \in Replica, UserChange(h, r) PROVE FreshInv'
  <2>1. PICK q, d : Become(granted, q, d, removed)
    BY <1>4 DEF UserChange
  <2>2. since'[Effective'] = 0 /\ \A v \in BOOLEAN : since'[v] <= since[v]
    BY <2>1, BecomeFresh
  <2>3. \A g \in Handler : pc'[g] = "store" =>
           pc[g] = "store" /\ local'[g] = local[g]
    BY <1>4 DEF UserChange, Go, Hold, TypeOK
  <2> QED BY <1>1, <1>4, <2>2, <2>3, FreshStep DEF UserChange
<1>5. ASSUME NEW h \in Handler, Load(h) PROVE FreshInv'
  <2>1. /\ local'[h].allowed = Effective /\ local'[h].lag = local[h].lag
        /\ \A g \in Handler : g # h => pc'[g] = pc[g] /\ local'[g] = local[g]
    BY <1>5 DEF Load, Go, Hold, TypeOK, Local
  <2>2. ReadIsFresh(h)'
    <3>1. since' = since /\ since[Effective] = 0
      BY <1>5 DEF Load, FreshInv
    <3> HIDE DEF Effective
    <3> QED BY <2>1, <3>1, Numbers DEF ReadIsFresh
  <2> QED BY <1>1, <1>2, <1>5, <2>1, <2>2, FreshStep DEF Load
<1>6. ASSUME NEW h \in Handler, Store(h) PROVE FreshInv'
  <2>1. PICK r \in Replica : r = local[h].replica /\ pc[h] = "store"
    BY <1>6 DEF Store, TypeOK
  <2>2. /\ cache'[r].allowed = local[h].allowed /\ cache'[r].left = Ttl
        /\ cache'[r].lag = local[h].lag
        /\ \A q \in Replica : q # r => cache'[q] = cache[q]
    BY <1>6, <2>1 DEF Store, TypeOK
  <2>3. EntryIsFresh(r)'
    <3>1. since[local[h].allowed] <= local[h].lag /\ since' = since
      BY <1>6, <2>1 DEF FreshInv, ReadIsFresh, Store
    <3> QED BY <2>2, <3>1, Numbers DEF EntryIsFresh
  <2>4. \A g \in Handler : pc'[g] = "store" =>
           pc[g] = "store" /\ local'[g] = local[g]
    BY <1>6 DEF Store, Return, Go, Hold, TypeOK
  <2>5. \A q \in Replica : cache'[q] = cache[q] \/ EntryIsFresh(q)'
    BY <2>2, <2>3
  <2> QED BY <1>1, <1>2, <1>6, <2>4, <2>5, FreshStep DEF Store
<1>7. ASSUME NEW h \in Handler, Invalidate(h) PROVE FreshInv'
  <2>1. \A g \in Handler : pc'[g] = "store" =>
           pc[g] = "store" /\ local'[g].allowed = local[g].allowed
                           /\ local'[g].lag = local[g].lag
    BY <1>7 DEF Invalidate, TypeOK, Local
  <2>2. \A q \in Replica : cache'[q] = cache[q] \/ cache'[q] = Empty
    BY <1>7 DEF Invalidate, TypeOK
  <2>3. \A q \in Replica : cache'[q] = cache[q] \/ EntryIsFresh(q)'
    BY <2>2 DEF EntryIsFresh
  <2> QED BY <1>1, <1>2, <1>7, <2>1, <2>3, FreshStep DEF Invalidate
<1>8. ASSUME NEW h \in Handler, LoadThrows(h) PROVE FreshInv'
  <2>1. \A g \in Handler : pc'[g] = "store" =>
           pc[g] = "store" /\ local'[g] = local[g]
    BY <1>8 DEF LoadThrows, Return, Go, Hold, TypeOK
  <2> QED BY <1>1, <1>2, <1>8, <2>1, FreshStep DEF LoadThrows
<1>9. ASSUME NEW r \in Replica, Restart(r) PROVE FreshInv'
  <2>1. \A g \in Handler : pc'[g] = "store" =>
           pc[g] = "store" /\ local'[g] = local[g]
    BY <1>9 DEF Restart, TypeOK
  <2>2. \A q \in Replica : cache'[q] = cache[q] \/ cache'[q] = Empty
    BY <1>9 DEF Restart, TypeOK
  <2>3. \A q \in Replica : cache'[q] = cache[q] \/ EntryIsFresh(q)'
    BY <2>2 DEF EntryIsFresh
  <2> QED BY <1>1, <1>2, <1>9, <2>1, <2>3, FreshStep DEF Restart
<1>10. CASE RoleChange \/ DeleteUser
  <2>1. PICK g, gone : Become(g, role, direct, gone)
    BY <1>10 DEF RoleChange, DeleteUser
  <2>2. since'[Effective'] = 0 /\ \A v \in BOOLEAN : since'[v] <= since[v]
    BY <2>1, BecomeFresh
  <2>3. UNCHANGED <<cache, pc, local>>
    BY <1>10 DEF RoleChange, DeleteUser
  <2> QED BY <1>1, <2>2, <2>3, FreshStep
<1>11. CASE Tick
  <2>0. Effective' = Effective /\ Effective \in BOOLEAN
    BY <1>11, EffectiveType DEF Tick, Effective, EffectiveIn
  <2> HIDE DEF Effective
  <2>1. \A v \in BOOLEAN : since'[v] \in Nat /\ since'[v] <= since[v] + 1
    <3>1. ASSUME NEW v \in BOOLEAN PROVE since'[v] \in Nat /\ since'[v] <= since[v] + 1
      <4>1. since[v] \in Nat
        BY Numbers
      <4>2. since'[v] = (IF v = Effective THEN 0
                         ELSE IF since[v] > Window THEN since[v] ELSE since[v] + 1)
        BY <1>11 DEF Tick
      <4> QED BY <4>1, <4>2
    <3> QED BY <3>1
  <2>2. since'[Effective'] = 0
    BY <1>11, <2>0 DEF Tick
  <2>3. ASSUME NEW r \in Replica PROVE EntryIsFresh(r)'
    <3>1. SUFFICES ASSUME cache'[r] # Empty
          PROVE  since'[cache'[r].allowed] <= (Ttl - cache'[r].left) + cache'[r].lag
      BY DEF EntryIsFresh
    <3>2. /\ cache[r] # Empty /\ cache'[r].allowed = cache[r].allowed
          /\ cache'[r].left = cache[r].left - 1 /\ cache'[r].lag = cache[r].lag
      BY <1>11, <3>1, AgeType DEF Tick, TypeOK
    <3>3. since[cache[r].allowed] <= (Ttl - cache[r].left) + cache[r].lag
      BY <3>2 DEF FreshInv, EntryIsFresh
    <3>4. since'[cache[r].allowed] \in Nat /\ since[cache[r].allowed] \in Nat
          /\ since'[cache[r].allowed] <= since[cache[r].allowed] + 1
          /\ Ttl \in Nat /\ cache[r].left \in Nat /\ cache[r].lag \in Nat
      BY <2>1, <3>2, Numbers
    <3>5. since'[cache[r].allowed] <= (Ttl - (cache[r].left - 1)) + cache[r].lag
      BY <3>3, <3>4
    <3> QED BY <3>2, <3>5
  <2>4. ASSUME NEW h \in Handler PROVE ReadIsFresh(h)'
    <3>1. SUFFICES ASSUME pc'[h] = "store"
          PROVE  since'[local'[h].allowed] <= local'[h].lag
      BY DEF ReadIsFresh
    <3>2. /\ pc[h] = "store" /\ local'[h].allowed = local[h].allowed
          /\ local'[h].lag = local[h].lag + 1
      BY <1>11, <3>1 DEF Tick, TypeOK, Local
    <3>3. since[local[h].allowed] <= local[h].lag
      BY <3>2 DEF FreshInv, ReadIsFresh
    <3>4. since'[local[h].allowed] \in Nat /\ since[local[h].allowed] \in Nat
          /\ since'[local[h].allowed] <= since[local[h].allowed] + 1
          /\ local[h].lag \in Nat
      BY <2>1, Numbers
    <3>5. since'[local[h].allowed] <= local[h].lag + 1
      BY <3>3, <3>4
    <3> QED BY <3>2, <3>5
  <2> QED BY <2>2, <2>3, <2>4 DEF FreshInv
<1>12. CASE UNCHANGED vars
  BY <1>1, <1>2, <1>12, FreshStep DEF vars
<1> QED
  BY <1>3, <1>4, <1>5, <1>6, <1>7, <1>8, <1>9, <1>10, <1>11, <1>12
  DEF Next, Continue

LEMMA FreshHolds == Spec => [](TypeOK /\ FreshInv)
<1>1. Init => FreshInv
  <2> SUFFICES ASSUME Init PROVE FreshInv
    OBVIOUS
  <2>1. Effective \in BOOLEAN
    BY InitType, EffectiveType
  <2>2. /\ since = [v \in BOOLEAN |-> IF v = Effective THEN 0 ELSE Window + 1]
        /\ cache = [r \in Replica |-> Empty] /\ pc = [h \in Handler |-> "idle"]
    BY DEF Init
  <2> HIDE DEF Effective
  <2> QED BY <2>1, <2>2 DEF FreshInv, EntryIsFresh, ReadIsFresh
<1> QED BY <1>1, InitType, NextType, NextFresh, PTL DEF Spec

-----------------------------------------------------------------------------
(* The cache implements StaleView. *)

(* Every view is Empty or a Boolean, and not older than the window. *)
RecentViews ==
    /\ View \in [Replica \cup Handler -> BOOLEAN \cup {Empty}]
    /\ \A p \in Replica \cup Handler : View[p] # Empty => Stale!Recent(View[p])

LEMMA ViewIsRecent == TypeOK /\ FreshInv => RecentViews
<1> SUFFICES ASSUME TypeOK, FreshInv PROVE RecentViews
  OBVIOUS
<1>1. ASSUME NEW p \in Replica \cup Handler, View[p] # Empty
      PROVE  View[p] \in BOOLEAN /\ Stale!Recent(View[p])
  <2>1. CASE p \in Handler
    <3>1. pc[p] = "store" /\ View[p] = local[p].allowed
      BY <1>1, <2>1 DEF View
    <3>2. since[local[p].allowed] <= local[p].lag
      BY <2>1, <3>1 DEF FreshInv, ReadIsFresh
    <3> QED BY <2>1, <3>1, <3>2, Numbers DEF Stale!Recent
  <2>2. CASE p \notin Handler
    <3>1. p \in Replica /\ cache[p] # Empty /\ View[p] = cache[p].allowed
      BY <1>1, <2>2 DEF View
    <3>2. since[cache[p].allowed] <= (Ttl - cache[p].left) + cache[p].lag
      BY <3>1 DEF FreshInv, EntryIsFresh
    <3>3. /\ cache[p].allowed \in BOOLEAN /\ since[cache[p].allowed] \in Nat
          /\ Ttl \in Nat /\ MaxRead \in Nat /\ Window = Ttl + MaxRead
          /\ cache[p].left \in Nat /\ cache[p].left > 0
          /\ cache[p].lag \in Nat /\ cache[p].lag <= MaxRead
      BY <3>1, Numbers
    <3>4. since[cache[p].allowed] <= Window
      BY <3>2, <3>3
    <3> QED BY <3>1, <3>3, <3>4 DEF Stale!Recent
  <2> QED BY <2>1, <2>2
<1> QED BY <1>1 DEF View, RecentViews

LEMMA ViewStaysRecent ==
  ASSUME TypeOK', FreshInv'
  PROVE  RecentViews'
<1>1. TypeOK' /\ FreshInv' => RecentViews'
  BY ViewIsRecent, PTL
<1> QED BY <1>1

(* A step in which neither the tables nor time move. *)
LEMMA LookStep ==
  ASSUME TypeOK, FreshInv, TypeOK', FreshInv', UNCHANGED <<tables, since>>
  PROVE  Stale!Look
<1>1. Effective' = Effective
  BY DEF Effective, EffectiveIn, tables
<1>2. /\ View' \in [Replica \cup Handler -> BOOLEAN \cup {Empty}]
      /\ \A p \in Replica \cup Handler : View'[p] # Empty => Stale!Recent(View[p])'
  BY ViewStaysRecent DEF RecentViews
<1>3. \A p \in Replica \cup Handler :
         View'[p] # Empty => (View'[p] \in BOOLEAN /\ Stale!Recent(View'[p]))
  BY <1>2 DEF Stale!Recent
<1> HIDE DEF Effective, View
<1> QED BY <1>1, <1>2, <1>3 DEF Stale!Look

(* A change that leaves the caches and what requests have read alone. *)
LEMMA ChangeStep ==
  ASSUME TypeOK, FreshInv, View' = View,
         NEW g, NEW r, NEW d, NEW gone, Become(g, r, d, gone)
  PROVE  [Stale!Next]_(Stale!vars)
<1>1. Effective' = EffectiveIn(g, r, d, gone)
  BY DEF Become, Effective, EffectiveIn
<1>2. Effective \in BOOLEAN /\ Effective' \in BOOLEAN
  BY EffectiveType DEF Effective, EffectiveIn
<1>3. since' = [since EXCEPT ![Effective'] = 0] /\ since[Effective] = 0
  BY <1>1 DEF Become, FreshInv
<1>4. since \in [BOOLEAN -> 0 .. Window + 1]
  BY DEF TypeOK
<1> HIDE DEF Effective, View
<1>5. CASE Effective' = Effective
  <2>1. since' = since
    BY <1>2, <1>3, <1>4, <1>5
  <2> QED BY <1>5, <2>1 DEF Stale!vars
<1>6. CASE Effective' # Effective
  <2>1. Effective' = ~Effective
    BY <1>2, <1>6
  <2> QED BY <1>3, <2>1 DEF Stale!Next, Stale!Change
<1> QED BY <1>5, <1>6

LEMMA TickStep ==
  ASSUME TypeOK, FreshInv, TypeOK', FreshInv', Tick
  PROVE  Stale!Elapse
<1>1. Effective' = Effective
  BY DEF Tick, Effective, EffectiveIn, tables
<1>2. ASSUME NEW p \in Replica \cup Handler
      PROVE  View'[p] = Empty \/ (View'[p] = View[p] /\ Stale!Recent(View[p])')
  <2>1. CASE View'[p] # Empty
    <3>1. View'[p] = View[p]
      <4>1. CASE p \in Handler
        BY <2>1, <4>1 DEF Tick, View, TypeOK, Local
      <4>2. CASE p \notin Handler
        <5>1. p \in Replica /\ cache'[p] # Empty /\ View'[p] = cache'[p].allowed
          BY <2>1, <4>2 DEF View
        <5>2. cache[p] # Empty /\ cache'[p].allowed = cache[p].allowed
          BY <5>1, AgeType DEF Tick, TypeOK
        <5> QED BY <4>2, <5>1, <5>2 DEF View
      <4> QED BY <4>1, <4>2
    <3>2. \A q \in Replica \cup Handler : View'[q] # Empty => Stale!Recent(View[q])'
      BY ViewStaysRecent DEF RecentViews
    <3> HIDE DEF View
    <3> QED BY <2>1, <3>1, <3>2
  <2>2. CASE View'[p] = Empty
    BY <2>2
  <2> HIDE DEF View
  <2> QED BY <2>1, <2>2
<1>3. View' \in [Replica \cup Handler -> BOOLEAN \cup {Empty}]
  BY ViewStaysRecent DEF RecentViews
<1>4. since' = [v \in BOOLEAN |->
                  IF v = Effective THEN 0
                  ELSE IF since[v] > Window THEN since[v] ELSE since[v] + 1]
  BY DEF Tick
<1> HIDE DEF Effective, View
<1> QED BY <1>1, <1>2, <1>3, <1>4 DEF Stale!Elapse

LEMMA RefinementStep ==
  ASSUME TypeOK, FreshInv, TypeOK', FreshInv', [Next]_vars
  PROVE  [Stale!Next]_(Stale!vars)
<1>1. ASSUME NEW h \in Handler, NEW r \in Replica, UserChange(h, r)
      PROVE  [Stale!Next]_(Stale!vars)
  <2>1. PICK q, d : Become(granted, q, d, removed)
    BY <1>1 DEF UserChange
  <2>2. View' = View
    <3>1. cache' = cache
      BY <1>1 DEF UserChange
    <3>2. \A g \in Handler :
             \/ pc'[g] = pc[g] /\ local'[g] = local[g]
             \/ pc'[g] # "store" /\ pc[g] # "store"
      BY <1>1 DEF UserChange, Go, Hold, TypeOK
    <3> QED BY <3>1, <3>2 DEF View
  <2> QED BY <2>1, <2>2, ChangeStep
<1>2. CASE RoleChange \/ DeleteUser
  <2>1. PICK g, gone : Become(g, role, direct, gone)
    BY <1>2 DEF RoleChange, DeleteUser
  <2>2. View' = View
    BY <1>2 DEF RoleChange, DeleteUser, View
  <2> QED BY <2>1, <2>2, ChangeStep
<1>3. CASE Tick
  BY <1>3, TickStep DEF Stale!Next
<1>4. CASE UNCHANGED <<tables, since>>
  BY <1>4, LookStep DEF Stale!Next
<1>5. CASE UNCHANGED vars
  BY <1>4, <1>5 DEF vars
<1>6. ASSUME NEW h \in Handler, NEW r \in Replica, Miss(h, r)
      PROVE  [Stale!Next]_(Stale!vars)
  BY <1>4, <1>6 DEF Miss
<1>7. ASSUME NEW h \in Handler, Continue(h) \/ LoadThrows(h)
      PROVE  [Stale!Next]_(Stale!vars)
  BY <1>4, <1>7 DEF Continue, Load, Store, Invalidate, LoadThrows
<1>8. ASSUME NEW r \in Replica, Restart(r)
      PROVE  [Stale!Next]_(Stale!vars)
  BY <1>4, <1>8 DEF Restart
<1> QED
  BY <1>1, <1>2, <1>3, <1>5, <1>6, <1>7, <1>8 DEF Next

(* Bounded staleness: the caches of all replicas, with the checks that are *)
(* filling them, implement StaleView with a window of the time to live and *)
(* the read bound, for any number of replicas and requests.                *)
THEOREM CacheIsBoundedStale == Spec => NeverTooStale
<1>1. Init => Stale!Init
  <2> SUFFICES ASSUME Init PROVE Stale!Init
    OBVIOUS
  <2>1. Effective \in BOOLEAN
    BY InitType, EffectiveType
  <2>2. View = [p \in Replica \cup Handler |-> Empty]
    BY DEF Init, View
  <2>3. since = [v \in BOOLEAN |-> IF v = Effective THEN 0 ELSE Window + 1]
    BY DEF Init
  <2> HIDE DEF Effective, View
  <2> QED BY <2>1, <2>2, <2>3 DEF Stale!Init
<1> QED
  BY <1>1, FreshHolds, RefinementStep, PTL DEF Spec, Stale!Spec, NeverTooStale

-----------------------------------------------------------------------------
(* Changes made on one's own replica. *)

(* A replica has invalidated no version that is not there yet, and what a  *)
(* request has read is current, or it knows of the crossing.               *)
OwnInv ==
    /\ \A r \in Replica : settled[r] <= version
    /\ \A h \in Handler : pc[h] = "invalidate" => local[h].version <= version
    /\ \A h \in Handler : pc[h] = "store" =>
          (local[h].version >= settled[local[h].replica] \/ local[h].crossed)
    /\ OwnChangesAreSeen

LEMMA NextOwn == TypeOK /\ OwnInv /\ [Next]_vars => OwnInv'
<1> SUFFICES ASSUME TypeOK, OwnInv, [Next]_vars PROVE OwnInv'
  OBVIOUS
<1> USE DEF OwnInv, OwnChangesAreSeen
<1>0. /\ cache \in [Replica -> Entry \cup {Empty}]
      /\ pc \in [Handler -> PC] /\ local \in [Handler -> Local]
      /\ version \in Nat /\ settled \in [Replica -> Nat]
      /\ \A h \in Handler : local[h].version \in Nat
      /\ \A h \in Handler : pc[h] # "idle" => local[h].replica \in Replica
  BY PermissionsAssumption DEF TypeOK, Local
<1>1. ASSUME NEW h \in Handler, NEW r \in Replica, Miss(h, r) PROVE OwnInv'
  BY <1>0, <1>1 DEF Miss, Go, Hold
<1>2. ASSUME NEW h \in Handler, NEW r \in Replica, UserChange(h, r) PROVE OwnInv'
  <2>1. /\ version' = version + 1 /\ UNCHANGED <<cache, settled>>
        /\ pc'[h] = "invalidate" /\ local'[h].version = version'
        /\ \A g \in Handler : g # h => pc'[g] = pc[g] /\ local'[g] = local[g]
    BY <1>0, <1>2 DEF UserChange, Go, Hold, Blank
  <2> QED BY <1>0, <2>1
<1>3. ASSUME NEW h \in Handler, Load(h) PROVE OwnInv'
  <2>1. /\ pc[h] = "load" /\ pc'[h] = "store" /\ local'[h].version = version
        /\ local'[h].replica = local[h].replica
        /\ \A g \in Handler : g # h => pc'[g] = pc[g] /\ local'[g] = local[g]
        /\ UNCHANGED <<cache, settled, version>>
    BY <1>0, <1>3 DEF Load, Go, Hold, Local
  <2> QED BY <1>0, <2>1
<1>4. ASSUME NEW h \in Handler, Store(h) PROVE OwnInv'
  <2>1. PICK r \in Replica : r = local[h].replica /\ pc[h] = "store"
    BY <1>0, <1>4 DEF Store
  <2>2. /\ cache'[r].version = local[h].version /\ cache'[r].crossed = local[h].crossed
        /\ \A q \in Replica : q # r => cache'[q] = cache[q]
        /\ pc'[h] = "idle"
        /\ \A g \in Handler : g # h => pc'[g] = pc[g] /\ local'[g] = local[g]
        /\ UNCHANGED <<settled, version>>
    BY <1>0, <1>4, <2>1 DEF Store, Return, Go, Hold
  <2> QED BY <1>0, <2>1, <2>2
<1>5. ASSUME NEW h \in Handler, Invalidate(h) PROVE OwnInv'
  <2>1. PICK r \in Replica : r = local[h].replica /\ pc[h] = "invalidate"
    BY <1>0, <1>5 DEF Invalidate
  <2>2. /\ cache'[r] = Empty /\ pc'[h] = "idle" /\ version' = version
        /\ \A q \in Replica : q # r => cache'[q] = cache[q] /\ settled'[q] = settled[q]
        /\ settled'[r] = IF settled[r] < local[h].version
                         THEN local[h].version ELSE settled[r]
    BY <1>0, <1>5, <2>1 DEF Invalidate
  <2>3. ASSUME NEW g \in Handler, g # h
        PROVE  /\ pc'[g] = pc[g] /\ local'[g].version = local[g].version
               /\ local'[g].replica = local[g].replica
               /\ pc[g] = "store" =>
                     /\ local[g].replica = r => local'[g].crossed
                     /\ local[g].crossed => local'[g].crossed
    <3>1. local'[g] = [local[g] EXCEPT !.crossed =
                         @ \/ (pc[g] = "store" /\ local[g].replica = local[h].replica)]
      BY <1>5, <2>3 DEF Invalidate
    <3>2. pc'[g] = pc[g]
      BY <1>0, <1>5, <2>3 DEF Invalidate
    <3>3. /\ local'[g].version = local[g].version
          /\ local'[g].replica = local[g].replica
          /\ local'[g].crossed =
                (local[g].crossed \/ (pc[g] = "store" /\ local[g].replica = local[h].replica))
      <4>1. local[g] \in Local
        BY DEF TypeOK
      <4> QED BY <3>1, <4>1 DEF Local
    <3> QED BY <2>1, <3>2, <3>3
  <2>4. \A q \in Replica : settled'[q] <= version'
    BY <1>0, <2>1, <2>2
  <2>5. ASSUME NEW g \in Handler, pc'[g] = "invalidate"
        PROVE  local'[g].version <= version'
    BY <2>2, <2>3, <2>5
  <2>6. ASSUME NEW g \in Handler, pc'[g] = "store"
        PROVE  local'[g].version >= settled'[local'[g].replica] \/ local'[g].crossed
    <3>1. g # h /\ pc[g] = "store"
      BY <2>2, <2>3, <2>6
    <3>2. CASE local[g].replica = r
      BY <2>3, <3>1, <3>2
    <3>3. CASE local[g].replica # r
      BY <1>0, <2>2, <2>3, <3>1, <3>3
    <3> QED BY <3>2, <3>3
  <2>7. OwnChangesAreSeen'
    BY <2>2
  <2> QED BY <2>4, <2>5, <2>6, <2>7
<1>6. ASSUME NEW h \in Handler, LoadThrows(h) PROVE OwnInv'
  BY <1>0, <1>6 DEF LoadThrows, Return, Go, Hold
<1>7. ASSUME NEW r \in Replica, Restart(r) PROVE OwnInv'
  <2>1. /\ \A q \in Replica : cache'[q] = cache[q] \/ cache'[q] = Empty
        /\ \A g \in Handler :
              pc'[g] = "idle" \/ (pc'[g] = pc[g] /\ local'[g] = local[g])
        /\ UNCHANGED <<settled, version>>
    BY <1>0, <1>7 DEF Restart
  <2> QED BY <1>0, <2>1
<1>8. CASE RoleChange \/ DeleteUser
  BY <1>0, <1>8 DEF RoleChange, DeleteUser
<1>9. CASE Tick
  <2>1. ASSUME NEW g \in Handler
        PROVE  /\ local'[g].version = local[g].version
               /\ local'[g].replica = local[g].replica
               /\ local'[g].crossed = local[g].crossed
    BY <1>0, <1>9 DEF Tick, Local
  <2>2. ASSUME NEW r \in Replica, cache'[r] # Empty
        PROVE  /\ cache[r] # Empty /\ cache'[r].version = cache[r].version
               /\ cache'[r].crossed = cache[r].crossed
    BY <1>0, <1>9, <2>2, AgeType DEF Tick
  <2>3. UNCHANGED <<pc, settled, version>>
    BY <1>9 DEF Tick
  <2> QED BY <1>0, <2>1, <2>2, <2>3
<1>10. CASE UNCHANGED vars
  BY <1>0, <1>10 DEF vars
<1> QED
  BY <1>1, <1>2, <1>3, <1>4, <1>5, <1>6, <1>7, <1>8, <1>9, <1>10 DEF Next, Continue

(* OwnChangesAreSeen: on the replica that made a change of a user's role   *)
(* or grants, only a check that was under way can bring the old answer     *)
(* back, however many replicas and requests there are.                     *)
THEOREM OwnChangeIsSeen == Spec => []OwnChangesAreSeen
<1>1. Init => OwnInv
  BY DEF Init, OwnInv, OwnChangesAreSeen
<1>2. OwnInv => OwnChangesAreSeen
  BY DEF OwnInv
<1> QED BY <1>1, <1>2, NextOwn, TypeCorrect, PTL DEF Spec
=============================================================================
