----------------------------- MODULE ServicesProofs -----------------------------
(***************************************************************************)
(* Newsletter: the types, and that the last confirmation is true, for any  *)
(* number of requests and of faults.  Visitors: the types, that a view is  *)
(* counted before it is pruned, and that the counts are right, for any     *)
(* number of views, paths, days and replicas.  And the types of the six    *)
(* components that are explored side by side (MCServices).                 *)
(***************************************************************************)
EXTENDS MCServices, InboxProofs, SigninProofs, FiniteSetTheorems, TLAPS

NewsLabel == {"idle", "write", "name", "queue"}

LEMMA NewsStepTypes == NewsTypeOK /\ [NewsNext]_newsVars => NewsTypeOK'
<1> SUFFICES ASSUME NewsTypeOK, [NewsNext]_newsVars PROVE NewsTypeOK'
  OBVIOUS
<1>1. ASSUME NEW h \in NewsHandler, AskSubscribe(h) \/ AskUnsubscribe(h) PROVE NewsTypeOK'
  BY <1>1 DEF AskSubscribe, AskUnsubscribe, NewsGo, NewsTypeOK
<1>2. ASSUME NEW h \in NewsHandler, WriteSubscriber(h) PROVE NewsTypeOK'
  <2>1. wants[h] \in {"active", "inactive"} /\ subscriber \in SubscriberState
    BY DEF NewsTypeOK
  <2>2. /\ subscriber' \in SubscriberState
        /\ reader' = "purged" => subscriber' = "none"
    BY <1>2, <2>1 DEF WriteSubscriber, NewsTypeOK, Written, SubscriberState
  <2>3. newsStep' \in [NewsHandler -> NewsLabel]
    BY <1>2 DEF WriteSubscriber, NewsGo, NewsTypeOK, NewsLabel
  <2>4. outrun' \in [NewsHandler -> BOOLEAN]
    <3>1. outrun' = outrun \/ outrun' = [g \in NewsHandler |-> g # h]
      BY <1>2 DEF WriteSubscriber
    <3> QED BY <3>1, Zenon DEF NewsTypeOK
  <2> QED BY <1>2, <2>2, <2>3, <2>4 DEF WriteSubscriber, NewsTypeOK, NewsLabel
<1>3. ASSUME NEW h \in NewsHandler, ReadName(h) PROVE NewsTypeOK'
  BY <1>3 DEF ReadName, NewsGo, NewsTypeOK
<1>4. ASSUME NEW h \in NewsHandler, QueueConfirmation(h) PROVE NewsTypeOK'
  BY <1>4 DEF QueueConfirmation, NewsGo, NewsTypeOK, SubscriberState
<1>5. ASSUME NEW h \in NewsHandler, NewsFails(h) PROVE NewsTypeOK'
  <2>1. untold' \in BOOLEAN
    BY <1>5, Zenon DEF NewsFails, NewsTypeOK
  <2>2. newsFaults' \in 0 .. MaxNewsFaults
    BY <1>5, NewsletterAssumption DEF NewsFails, NewsTypeOK
  <2> QED BY <1>5, <2>1, <2>2 DEF NewsFails, NewsGo, NewsTypeOK
<1>6. ASSUME ReaderGoes PROVE NewsTypeOK'
  BY <1>6 DEF ReaderGoes, NewsTypeOK, SubscriberState
<1>7. CASE UNCHANGED newsVars
  BY <1>7 DEF newsVars, NewsTypeOK
<1> QED BY <1>1, <1>2, <1>3, <1>4, <1>5, <1>6, <1>7 DEF NewsNext

LEMMA NewsInitTypes == NewsInit => NewsTypeOK
<1> SUFFICES ASSUME NewsInit PROVE NewsTypeOK
  OBVIOUS
<1>1. newsFaults \in 0 .. MaxNewsFaults
  BY NewsletterAssumption DEF NewsInit
<1>2. outrun \in [NewsHandler -> BOOLEAN] /\ untold \in BOOLEAN
  BY Zenon DEF NewsInit
<1> QED BY <1>1, <1>2 DEF NewsInit, NewsTypeOK, SubscriberState

(* The types of the newsletter, for any number of requests.                *)
THEOREM NewsTypeCorrect == NewsSpec => []NewsTypeOK
BY NewsInitTypes, NewsStepTypes, PTL DEF NewsSpec

-----------------------------------------------------------------------------
(* The request that wrote last, if it has yet to confirm what it wrote.    *)
IsLast(h) == newsStep[h] \in {"name", "queue"} /\ ~outrun[h]

(* What is inductive: the last writer brings along what the row says, and  *)
(* there is one where the confirmation is not true.                        *)
LastWriterKnows == reader # "purged" => \A h \in NewsHandler : IsLast(h) => wants[h] = subscriber

LastWriterTells ==
    reader # "purged" /\ ~untold => confirmed = subscriber \/ \E h \in NewsHandler : IsLast(h)

NewsInv == NewsTypeOK /\ LastWriterKnows /\ LastWriterTells

LEMMA NewsStepInv == NewsInv /\ [NewsNext]_newsVars => LastWriterKnows' /\ LastWriterTells'
<1> SUFFICES ASSUME NewsInv, [NewsNext]_newsVars PROVE LastWriterKnows' /\ LastWriterTells'
  OBVIOUS
<1> USE DEF NewsInv
<1>1. ASSUME NEW h \in NewsHandler, AskSubscribe(h) \/ AskUnsubscribe(h)
      PROVE  LastWriterKnows' /\ LastWriterTells'
  <2>1. /\ newsStep[h] = "idle" /\ newsStep' = [newsStep EXCEPT ![h] = "write"]
        /\ \A g \in NewsHandler \ {h} : wants'[g] = wants[g]
        /\ UNCHANGED <<reader, subscriber, confirmed, outrun, untold>>
    BY <1>1 DEF AskSubscribe, AskUnsubscribe, NewsGo, NewsTypeOK
  <2>2. \A g \in NewsHandler : IsLast(g)' <=> IsLast(g)
    BY <2>1 DEF IsLast, NewsTypeOK
  <2>3. \A g \in NewsHandler : IsLast(g) => g # h
    BY <2>1 DEF IsLast
  <2> QED BY <2>1, <2>2, <2>3 DEF LastWriterKnows, LastWriterTells
<1>2. ASSUME NEW h \in NewsHandler, WriteSubscriber(h)
      PROVE  LastWriterKnows' /\ LastWriterTells'
  <2>1. /\ newsStep[h] = "write" /\ newsStep \in [NewsHandler -> NewsLabel]
        /\ UNCHANGED <<reader, confirmed, wants, untold>>
    BY <1>2 DEF WriteSubscriber, NewsTypeOK, NewsLabel
  <2>2. CASE (wants[h] = "active" /\ reader # "purged") \/ subscriber # "none"
    <3>1. /\ subscriber' = wants[h]
          /\ outrun' = [g \in NewsHandler |-> g # h]
          /\ newsStep' = [newsStep EXCEPT ![h] = "name"]
      BY <1>2, <2>2 DEF WriteSubscriber, Written, NewsGo
    <3>2. \A g \in NewsHandler : IsLast(g)' => g = h
      BY <3>1 DEF IsLast
    <3>3. IsLast(h)'
      BY <2>1, <3>1 DEF IsLast
    <3> QED BY <2>1, <3>1, <3>2, <3>3 DEF LastWriterKnows, LastWriterTells
  <2>3. CASE ~((wants[h] = "active" /\ reader # "purged") \/ subscriber # "none")
    <3>1. UNCHANGED <<subscriber, outrun>> /\ newsStep' = [newsStep EXCEPT ![h] = "idle"]
      BY <1>2, <2>3 DEF WriteSubscriber, NewsGo
    <3>2. \A g \in NewsHandler : IsLast(g)' <=> IsLast(g)
      BY <2>1, <3>1 DEF IsLast
    <3> QED BY <2>1, <3>1, <3>2 DEF LastWriterKnows, LastWriterTells
  <2> QED BY <2>2, <2>3
<1>3. ASSUME NEW h \in NewsHandler, ReadName(h) PROVE LastWriterKnows' /\ LastWriterTells'
  <2>1. \A g \in NewsHandler : IsLast(g)' <=> IsLast(g)
    BY <1>3 DEF ReadName, NewsGo, IsLast, NewsTypeOK
  <2> QED BY <1>3, <2>1 DEF ReadName, LastWriterKnows, LastWriterTells
<1>4. ASSUME NEW h \in NewsHandler, QueueConfirmation(h) PROVE LastWriterKnows' /\ LastWriterTells'
  <2>1. /\ newsStep[h] = "queue" /\ newsStep' = [newsStep EXCEPT ![h] = "idle"]
        /\ confirmed' = wants[h] /\ untold' = outrun[h]
        /\ UNCHANGED <<reader, subscriber, wants, outrun>>
    BY <1>4 DEF QueueConfirmation, NewsGo
  <2>2. \A g \in NewsHandler : IsLast(g)' => IsLast(g)
    BY <2>1 DEF IsLast, NewsTypeOK
  <2>3. LastWriterKnows'
    BY <2>1, <2>2 DEF LastWriterKnows
  <2>4. ~untold' => IsLast(h)
    BY <2>1 DEF IsLast
  <2> QED BY <2>1, <2>3, <2>4 DEF LastWriterKnows, LastWriterTells
<1>5. ASSUME NEW h \in NewsHandler, NewsFails(h) PROVE LastWriterKnows' /\ LastWriterTells'
  <2>1. /\ newsStep[h] # "idle" /\ newsStep' = [newsStep EXCEPT ![h] = "idle"]
        /\ UNCHANGED <<reader, subscriber, confirmed, wants, outrun>>
    BY <1>5 DEF NewsFails, NewsGo
  <2>2. newsStep \in [NewsHandler -> NewsLabel]
    BY DEF NewsTypeOK, NewsLabel
  <2>3. untold' = (untold \/ (newsStep[h] # "write" /\ ~outrun[h]))
    BY <1>5 DEF NewsFails
  <2>4. ~untold' => ~untold /\ ~IsLast(h)
    BY <2>3 DEF IsLast
  <2>5. \A g \in NewsHandler : IsLast(g)' <=> IsLast(g) /\ g # h
    BY <2>1, <2>2 DEF IsLast
  <2> QED BY <2>1, <2>4, <2>5 DEF LastWriterKnows, LastWriterTells
<1>6. ASSUME ReaderGoes PROVE LastWriterKnows' /\ LastWriterTells'
  BY <1>6 DEF ReaderGoes, LastWriterKnows, LastWriterTells, IsLast
<1>7. CASE UNCHANGED newsVars
  BY <1>7 DEF newsVars, LastWriterKnows, LastWriterTells, IsLast
<1> QED BY <1>1, <1>2, <1>3, <1>4, <1>5, <1>6, <1>7 DEF NewsNext

(* The last confirmation that was queued says what the row says, unless    *)
(* the last change was not confirmed, or not after the one before it.      *)
THEOREM NewsConfirmed == NewsSpec => []ConfirmationIsTrue
<1>1. NewsInit => NewsInv
  BY NewsInitTypes DEF NewsInit, NewsInv, LastWriterKnows, LastWriterTells, IsLast
<1>2. NewsInv /\ [NewsNext]_newsVars => NewsInv'
  BY NewsStepTypes, NewsStepInv DEF NewsInv
<1>3. NewsInv => ConfirmationIsTrue
  BY DEF NewsInv, LastWriterTells, IsLast, ConfirmationIsTrue
<1> QED BY <1>1, <1>2, <1>3, PTL DEF NewsSpec

-----------------------------------------------------------------------------
(* Visitors.  Sets of views, and how many there are. *)

USE DEF config

LEMMA SomeViews ==
    ASSUME NEW vs \in SUBSET View
    PROVE  /\ IsFiniteSet(vs)
           /\ Cardinality(vs) \in 0 .. Cardinality(View)
           /\ IsFiniteSet(Visitors(vs))
           /\ Cardinality(Visitors(vs)) \in 0 .. Cardinality(View)
<1>1. IsFiniteSet(View)
  BY VisitorsAssumption
<1>2. IsFiniteSet(vs) /\ Cardinality(vs) <= Cardinality(View)
  BY <1>1, FS_Subset
<1>3. Cardinality(View) \in Nat /\ Cardinality(vs) \in Nat
  BY <1>1, <1>2, FS_CardinalityType
<1> DEFINE f == [v \in vs |-> view[v].visitor]
<1>4. f \in Surjection(vs, Visitors(vs))
  BY DEF Surjection, Visitors
<1>5. IsFiniteSet(Visitors(vs)) /\ Cardinality(Visitors(vs)) <= Cardinality(vs)
  BY <1>2, <1>4, FS_Surjection
<1>6. Cardinality(Visitors(vs)) \in Nat
  BY <1>5, FS_CardinalityType
<1> QED
  BY <1>2, <1>3, <1>5, <1>6

LEMMA MoreViews ==
    ASSUME NEW ws \in SUBSET View, NEW vs \in SUBSET ws
    PROVE  /\ Cardinality(vs) <= Cardinality(ws)
           /\ Cardinality(Visitors(vs)) <= Cardinality(Visitors(ws))
<1>1. IsFiniteSet(ws) /\ IsFiniteSet(Visitors(ws))
  BY SomeViews
<1>2. Visitors(vs) \in SUBSET Visitors(ws)
  BY DEF Visitors
<1> QED
  BY <1>1, <1>2, FS_Subset

LEMMA CountTypes ==
    ASSUME NEW n \in 0 .. Cardinality(View)
    PROVE  /\ Zero \in Count
           /\ [Zero EXCEPT !.views = n] \in Count
           /\ [Zero EXCEPT !.views = n].views = n
           /\ [Zero EXCEPT !.views = n].unique = 0
           /\ \A s \in Count : /\ [s EXCEPT !.unique = n] \in Count
                               /\ [s EXCEPT !.unique = n].unique = n
                               /\ [s EXCEPT !.unique = n].views = s.views
<1>1. 0 \in 0 .. Cardinality(View)
  <2>1. Cardinality(View) \in Nat
    BY VisitorsAssumption, FS_CardinalityType
  <2> QED
    BY <2>1
<1> QED
  BY <1>1 DEF Zero, Count

LEMMA RestTypes ==
    ASSUME ViewTypeOK, NEW c \in Counter, NEW label \in {"unique", "upsert"},
           NEW paths \in SUBSET Path, day > 0, Rest(c, label, paths)
    PROVE  /\ job' \in [Counter -> {"idle", "count", "unique", "upsert"}]
           /\ todo' \in [Counter -> SUBSET Path]
           /\ counted' \in SUBSET (0 .. MaxDay)
           /\ job'[c] = IF paths = {} THEN "idle" ELSE label
           /\ todo'[c] = paths
           /\ \A b \in Counter \ {c} : job'[b] = job[b] /\ todo'[b] = todo[b]
<1>1. /\ job \in [Counter -> {"idle", "count", "unique", "upsert"}]
      /\ todo \in [Counter -> SUBSET Path]
      /\ counted \in SUBSET (0 .. MaxDay)
      /\ day \in 0 .. MaxDay
  BY DEF ViewTypeOK
<1>2. MaxDay \in Nat
  BY VisitorsAssumption
<1>3. Yesterday \in 0 .. MaxDay
  BY <1>1, <1>2 DEF Yesterday
<1> QED
  BY <1>1, <1>3 DEF Rest

LEMMA ViewStart == ViewInit => ViewTypeOK
<1> SUFFICES ASSUME ViewInit PROVE ViewTypeOK
  OBVIOUS
<1>1. Cardinality(View) \in Nat
  BY VisitorsAssumption, FS_CardinalityType
<1>2. Zero \in Count
  BY <1>1 DEF Zero, Count
<1>3. /\ window \in Windows /\ midnight \in 0 .. Hours - 1 /\ day \in 0 .. MaxDay /\ hour \in 0 .. Hours - 1
      /\ ran \in [Counter -> 0 .. MaxDay]
  BY VisitorsAssumption DEF ViewInit
<1>4. /\ view \in [View -> ViewRow \cup {NoView}]
      /\ place \in [View -> {"none", "insert", "stored", "pruned"}]
      /\ \A v \in View : place[v] # "none" => view[v] \in ViewRow
  BY DEF ViewInit
<1>5. /\ stat \in [0 .. MaxDay -> [Path -> Count \cup {NoStat}]]
      /\ todo \in [Counter -> SUBSET Path]
      /\ seen \in [Counter -> [Path -> Count]]
  BY <1>2 DEF ViewInit
<1>6. /\ job \in [Counter -> {"idle", "count", "unique", "upsert"}]
      /\ \A c \in Counter : job[c] # "idle" => hour = midnight /\ day > 0
  BY DEF ViewInit
<1>7. late \in SUBSET View /\ counted \in SUBSET (0 .. MaxDay) /\ missed \in SUBSET (0 .. MaxDay)
  BY DEF ViewInit
<1> QED
  BY <1>3, <1>4, <1>5, <1>6, <1>7 DEF ViewTypeOK

LEMMA ViewTypes == ViewTypeOK /\ [ViewNext]_viewVars => ViewTypeOK'
<1> SUFFICES ASSUME ViewTypeOK, [ViewNext]_viewVars PROVE ViewTypeOK'
  OBVIOUS
<1>0. /\ window \in Windows
      /\ midnight \in 0 .. Hours - 1
      /\ day \in 0 .. MaxDay
      /\ hour \in 0 .. Hours - 1
      /\ view \in [View -> ViewRow \cup {NoView}]
      /\ place \in [View -> {"none", "insert", "stored", "pruned"}]
      /\ \A v \in View : place[v] # "none" => view[v] \in ViewRow
      /\ stat \in [0 .. MaxDay -> [Path -> Count \cup {NoStat}]]
      /\ job \in [Counter -> {"idle", "count", "unique", "upsert"}]
      /\ todo \in [Counter -> SUBSET Path]
      /\ seen \in [Counter -> [Path -> Count]]
      /\ ran \in [Counter -> 0 .. MaxDay]
      /\ \A c \in Counter : job[c] # "idle" => hour = midnight /\ day > 0
      /\ late \in SUBSET View
      /\ counted \in SUBSET (0 .. MaxDay)
      /\ missed \in SUBSET (0 .. MaxDay)
  BY DEF ViewTypeOK
<1>1. Hours \in Nat \ {0} /\ MaxDay \in Nat
  BY VisitorsAssumption
<1>2. ASSUME NEW v \in View, NEW p \in Path, NEW s \in Visitor, Track(v, p, s)
      PROVE  ViewTypeOK'
  <2>1. [path |-> p, visitor |-> s, day |-> day, hour |-> hour] \in ViewRow
    BY <1>0 DEF ViewRow
  <2>2. /\ view' \in [View -> ViewRow \cup {NoView}]
        /\ place' \in [View -> {"none", "insert", "stored", "pruned"}]
        /\ \A w \in View : place'[w] # "none" => view'[w] \in ViewRow
    BY <1>0, <1>2, <2>1 DEF Track
  <2> QED
    BY <1>0, <1>2, <2>2 DEF Track, ViewTypeOK
<1>3. ASSUME NEW v \in View, Insert(v)
      PROVE  ViewTypeOK'
  <2>1. /\ place' \in [View -> {"none", "insert", "stored", "pruned"}]
        /\ \A w \in View : place'[w] # "none" => view[w] \in ViewRow
        /\ late' \in SUBSET View
    BY <1>0, <1>3 DEF Insert
  <2> QED
    BY <1>0, <1>3, <2>1 DEF Insert, ViewTypeOK
<1>4. ASSUME NEW c \in Counter, JobBegins(c)
      PROVE  ViewTypeOK'
  <2>1. day > 0 /\ hour = midnight
    BY <1>0, <1>4 DEF JobBegins
  <2>2. /\ job' \in [Counter -> {"idle", "count", "unique", "upsert"}]
        /\ ran' \in [Counter -> 0 .. MaxDay]
    BY <1>0, <1>4 DEF JobBegins
  <2> QED
    BY <1>0, <1>4, <2>1, <2>2 DEF JobBegins, ViewTypeOK
<1>5. ASSUME NEW c \in Counter, CountViews(c)
      PROVE  ViewTypeOK'
  <2>1. day > 0 /\ hour = midnight
    BY <1>0, <1>5 DEF CountViews
  <2>2. /\ job' \in [Counter -> {"idle", "count", "unique", "upsert"}]
        /\ todo' \in [Counter -> SUBSET Path]
        /\ counted' \in SUBSET (0 .. MaxDay)
    BY <1>5, <2>1, RestTypes DEF CountViews
  <2>3. \A p \in Path : [Zero EXCEPT !.views = Cardinality(OfDay(Yesterday, p))] \in Count
    BY SomeViews, CountTypes DEF OfDay
  <2>4. seen' \in [Counter -> [Path -> Count]]
    BY <1>0, <1>5, <2>3 DEF CountViews
  <2> QED
    BY <1>0, <1>5, <2>1, <2>2, <2>4 DEF CountViews, ViewTypeOK
<1>6. ASSUME NEW c \in Counter, NEW p \in Path, CountUnique(c, p)
      PROVE  ViewTypeOK'
  <2>1. day > 0 /\ hour = midnight
    BY <1>0, <1>6 DEF CountUnique
  <2>2. PICK paths \in SUBSET Path, label \in {"unique", "upsert"} : Rest(c, label, paths)
    <3>1. todo[c] \ {p} \in SUBSET Path /\ {q \in Path : seen[c][q].views > 0} \in SUBSET Path
      BY <1>0
    <3> QED
      BY <1>6, <3>1 DEF CountUnique
  <2>3. /\ job' \in [Counter -> {"idle", "count", "unique", "upsert"}]
        /\ todo' \in [Counter -> SUBSET Path]
        /\ counted' \in SUBSET (0 .. MaxDay)
    BY <2>1, <2>2, RestTypes
  <2> DEFINE n == Cardinality({view[v].visitor : v \in OfDay(Yesterday, p)})
  <2>4. n \in 0 .. Cardinality(View)
    BY SomeViews DEF OfDay, Visitors
  <2>5. [seen[c][p] EXCEPT !.unique = n] \in Count
    <3> HIDE DEF n
    <3>1. seen[c][p] \in Count
      BY <1>0
    <3> QED
      BY <2>4, <3>1, CountTypes, Zenon
  <2>6. seen' = [seen EXCEPT ![c] = [seen[c] EXCEPT ![p] = [seen[c][p] EXCEPT !.unique = n]]]
    BY <1>0, <1>6 DEF CountUnique
  <2>7. seen' \in [Counter -> [Path -> Count]]
    <3> HIDE DEF n
    <3> QED
      BY <1>0, <2>5, <2>6
  <2> QED
    BY <1>0, <1>6, <2>1, <2>3, <2>7 DEF CountUnique, ViewTypeOK
<1>7. ASSUME NEW c \in Counter, NEW p \in Path, Upsert(c, p)
      PROVE  ViewTypeOK'
  <2>1. day > 0 /\ hour = midnight
    BY <1>0, <1>7 DEF Upsert
  <2>2. /\ job' \in [Counter -> {"idle", "count", "unique", "upsert"}]
        /\ todo' \in [Counter -> SUBSET Path]
        /\ counted' \in SUBSET (0 .. MaxDay)
    <3>1. todo[c] \ {p} \in SUBSET Path
      BY <1>0
    <3> QED
      BY <1>7, <2>1, <3>1, RestTypes DEF Upsert
  <2>3. stat' \in [0 .. MaxDay -> [Path -> Count \cup {NoStat}]]
    <3>1. seen[c][p] \in Count /\ Yesterday \in 0 .. MaxDay
      BY <1>0, <1>1, <2>1 DEF Yesterday
    <3>2. stat' = [stat EXCEPT ![Yesterday] = [stat[Yesterday] EXCEPT ![p] = seen[c][p]]]
      BY <1>7 DEF Upsert
    <3>3. [stat[Yesterday] EXCEPT ![p] = seen[c][p]] \in [Path -> Count \cup {NoStat}]
      BY <1>0, <3>1
    <3> QED
      BY <1>0, <3>1, <3>2, <3>3
  <2> QED
    BY <1>0, <1>7, <2>1, <2>2, <2>3 DEF Upsert, ViewTypeOK
<1>8. ASSUME NEW c \in Counter, JobDies(c)
      PROVE  ViewTypeOK'
  <2>1. /\ job' \in [Counter -> {"idle", "count", "unique", "upsert"}]
        /\ todo' \in [Counter -> SUBSET Path]
        /\ \A b \in Counter : job'[b] # "idle" => job[b] # "idle"
    BY <1>0, <1>8 DEF JobDies
  <2> QED
    BY <1>0, <1>8, <2>1 DEF JobDies, ViewTypeOK
<1>9. CASE Tick
  <2>1. day' \in 0 .. MaxDay /\ hour' \in 0 .. Hours - 1
    BY <1>0, <1>1, <1>9 DEF Tick
  <2>2. missed' \in SUBSET (0 .. MaxDay)
    BY <1>0, <1>1, <1>9 DEF Tick, Yesterday
  <2> QED
    BY <1>0, <1>9, <2>1, <2>2 DEF Tick, ViewTypeOK
<1>10. CASE Prune
  <2>1. /\ place' \in [View -> {"none", "insert", "stored", "pruned"}]
        /\ \A v \in View : place'[v] # "none" => place[v] # "none"
    BY <1>0, <1>10 DEF Prune
  <2> QED
    BY <1>0, <1>10, <2>1 DEF Prune, ViewTypeOK
<1>11. CASE UNCHANGED viewVars
  BY <1>0, <1>11 DEF viewVars, ViewTypeOK
<1> QED
  BY <1>2, <1>3, <1>4, <1>5, <1>6, <1>7, <1>8, <1>9, <1>10, <1>11 DEF ViewNext

(* The types of the page views and of their statistics. *)
THEOREM ViewTypesHold == ViewSpec => []ViewTypeOK
  BY ViewStart, ViewTypes, PTL DEF ViewSpec

-----------------------------------------------------------------------------
(* The life of a page view, whatever the step.  A day is looked after at   *)
(* the server's midnight of the next UTC day, and when that hour is over   *)
(* the day was counted or is known to be missed.  Only then, if the window *)
(* is safe, are its views old enough at the hour of the cleanup.           *)

(* The hour in which the views of d are counted is over. *)
Passed(d) == d + 1 < day \/ (d + 1 = day /\ hour > midnight)

ViewMoves(v) ==
    /\ place[v] # "none" => place'[v] # "none" /\ view'[v] = view[v]
    /\ place[v] = "none" /\ place'[v] # "none" => place'[v] = "insert" /\ view'[v].day = day
    /\ place[v] = "insert" /\ place'[v] # "insert" =>
          place'[v] = "stored" /\ (v \in late' \/ view[v].day >= day)
    /\ place[v] \in {"stored", "pruned"} =>
          place'[v] \in {place[v], "pruned"} /\ (v \in late' <=> v \in late)
    /\ place[v] = "stored" /\ place'[v] = "pruned" /\ WindowIsSafe => Passed(view[v].day)

(* What a cleanup finds older than a safe window. *)
LEMMA OldIsPassed ==
    ASSUME ViewTypeOK, WindowIsSafe, window > 0, hour = Cleanup,
           NEW v \in View, place[v] # "none", Older(v)
    PROVE  Passed(view[v].day)
<1>0. /\ window \in Nat /\ midnight \in 0 .. Hours - 1 /\ day \in Nat
      /\ hour \in 0 .. Hours - 1
      /\ view[v].day \in Nat /\ view[v].hour \in 0 .. Hours - 1
  BY VisitorsAssumption DEF ViewTypeOK, ViewRow
<1>1. Hours \in Nat \ {0} /\ Gap \in 1 .. Hours - 1 /\ window > midnight + Gap
  BY <1>0, VisitorsAssumption DEF WindowIsSafe
<1>2. /\ midnight + Gap < Hours => hour = midnight + Gap
      /\ ~(midnight + Gap < Hours) => hour = midnight + Gap - Hours
  BY <1>0, <1>1 DEF Cleanup
<1>3. CASE day = view[v].day + 1
  <2>1. Age(v) = Hours + hour - view[v].hour
    <3>1. (day - view[v].day) * Hours = Hours
      BY <1>0, <1>1, <1>3
    <3> QED BY <3>1 DEF Age
  <2> QED BY <1>0, <1>1, <1>2, <1>3, <2>1 DEF Older, Passed
<1>4. CASE day = view[v].day
  <2>1. Age(v) = hour - view[v].hour
    <3>1. (day - view[v].day) * Hours = 0
      BY <1>0, <1>1, <1>4
    <3> QED BY <1>0, <3>1 DEF Age
  <2> QED BY <1>0, <1>1, <1>2, <2>1 DEF Older
<1>5. CASE day < view[v].day
  <2>0. view[v].day - day - 1 \in Nat
    BY <1>0, <1>5
  <2>1. PICK n \in Nat : n = view[v].day - day - 1
    BY <2>0
  <2>2. (day - view[v].day) * Hours = (-1) * Hours - n * Hours
    BY <1>0, <1>1, <2>1
  <2>3. n * Hours \in Nat
    BY <1>1
  <2> QED BY <1>0, <1>1, <2>2, <2>3 DEF Older, Age
<1> QED BY <1>0, <1>3, <1>4, <1>5 DEF Passed

LEMMA EveryViewMoves ==
    ASSUME ViewTypeOK, [ViewNext]_viewVars
    PROVE  /\ \A v \in View : ViewMoves(v)
           /\ day' >= day
           /\ counted \subseteq counted'
           /\ UNCHANGED config
           /\ \A d \in 0 .. MaxDay : Passed(d) => Passed(d)'
<1>0. /\ midnight \in 0 .. Hours - 1 /\ hour \in 0 .. Hours - 1
      /\ day \in 0 .. MaxDay
      /\ view \in [View -> ViewRow \cup {NoView}]
      /\ place \in [View -> {"none", "insert", "stored", "pruned"}]
      /\ \A v \in View : place[v] # "none" => view[v] \in ViewRow
      /\ late \in SUBSET View
  BY DEF ViewTypeOK
<1>1. MaxDay \in Nat /\ Hours \in Nat \ {0}
  BY VisitorsAssumption
<1>2. \A v \in View : place[v] # "none" => view[v].day \in 0 .. MaxDay
  BY <1>0 DEF ViewRow
<1>3. ASSUME UNCHANGED <<view, place, late>> PROVE \A v \in View : ViewMoves(v)
  BY <1>0, <1>3 DEF ViewMoves
<1>4. ASSUME NEW v \in View, NEW p \in Path, NEW s \in Visitor, Track(v, p, s)
      PROVE  \A w \in View : ViewMoves(w)
  <2>1. /\ place[v] = "none" /\ place'[v] = "insert" /\ view'[v].day = day
        /\ \A w \in View \ {v} : place'[w] = place[w] /\ view'[w] = view[w]
        /\ late' = late
    BY <1>0, <1>4 DEF Track
  <2> QED
    BY <1>0, <2>1 DEF ViewMoves
<1>5. ASSUME NEW v \in View, Insert(v)
      PROVE  \A w \in View : ViewMoves(w)
  <2>1. /\ place[v] = "insert" /\ place'[v] = "stored" /\ view' = view
        /\ \A w \in View \ {v} : place'[w] = place[w] /\ (w \in late' <=> w \in late)
        /\ v \in late' \/ ~(view[v].day < day)
    BY <1>0, <1>5 DEF Insert
  <2>2. view[v].day \in 0 .. MaxDay
    BY <1>2, <2>1
  <2> QED
    BY <1>0, <1>1, <2>1, <2>2 DEF ViewMoves
<1>6. ASSUME Prune
      PROVE  \A v \in View : ViewMoves(v)
  <2>1. PICK gone \in SUBSET {v \in View : place[v] = "stored" /\ Older(v)} :
            place' = [v \in View |-> IF v \in gone THEN "pruned" ELSE place[v]]
    BY <1>6 DEF Prune
  <2>2. ASSUME NEW v \in View, place[v] = "stored", place'[v] = "pruned", WindowIsSafe
        PROVE  Passed(view[v].day)
    <3>1. Older(v) /\ window > 0 /\ hour = Cleanup
      BY <1>6, <2>1, <2>2 DEF Prune
    <3> QED
      BY <2>2, <3>1, OldIsPassed
  <2>3. UNCHANGED <<view, late>>
    BY <1>6 DEF Prune
  <2> QED
    <3>1. \A v \in View : \/ place'[v] = place[v]
                          \/ place[v] = "stored" /\ place'[v] = "pruned"
      BY <2>1
    <3>2. ASSUME NEW v \in View PROVE ViewMoves(v)
      <4>1. CASE place'[v] = place[v]
        BY <1>0, <2>3, <4>1 DEF ViewMoves
      <4>2. CASE place[v] = "stored" /\ place'[v] = "pruned"
        <5>1. WindowIsSafe => Passed(view[v].day)
          BY <2>2, <4>2
        <5>2. view'[v] = view[v] /\ late' = late
          BY <2>3
        <5> QED
          BY <4>2, <5>1, <5>2 DEF ViewMoves
      <4> QED
        BY <3>1, <4>1, <4>2
    <3> QED
      BY <3>2
<1>7. \A v \in View : ViewMoves(v)
  BY <1>3, <1>4, <1>5, <1>6
  DEF ViewNext, JobBegins, CountViews, JobDies, CountUnique, Upsert, Tick, viewVars
<1>8. day' >= day
  <2>1. CASE Tick
    BY <1>0, <2>1 DEF Tick
  <2>2. CASE ~Tick
    <3>1. day' = day
      BY <2>2 DEF ViewNext, Track, Insert, JobBegins, CountViews, JobDies, CountUnique, Upsert,
                  Prune, viewVars
    <3> QED
      BY <1>0, <3>1
  <2> QED
    BY <2>1, <2>2
<1>9. counted \subseteq counted'
  BY DEF ViewNext, Track, Insert, JobBegins, CountViews, JobDies, CountUnique, Upsert, Rest, Tick,
         Prune, viewVars
<1>10. UNCHANGED config
  BY DEF ViewNext, Track, Insert, JobBegins, CountViews, JobDies, CountUnique, Upsert, Tick,
         Prune, viewVars
<1>11. ASSUME NEW d \in 0 .. MaxDay, Passed(d) PROVE Passed(d)'
  <2>1. CASE Tick
    <3>1. /\ hour' = IF hour = Hours - 1 THEN 0 ELSE hour + 1
          /\ day' = IF hour = Hours - 1 THEN day + 1 ELSE day
      BY <2>1 DEF Tick
    <3> QED
      BY <1>0, <1>1, <1>10, <1>11, <3>1 DEF Passed
  <2>2. CASE ~Tick
    <3>1. UNCHANGED <<day, hour>>
      BY <2>2 DEF ViewNext, Track, Insert, JobBegins, CountViews, JobDies, CountUnique, Upsert,
                  Prune, viewVars
    <3> QED
      BY <1>10, <1>11, <3>1 DEF Passed
  <2> QED
    BY <2>1, <2>2
<1> QED
  BY <1>7, <1>8, <1>9, <1>10, <1>11

-----------------------------------------------------------------------------
(* The clock and the views. *)

ClockInv ==
    /\ \A d \in 0 .. MaxDay : Passed(d) => d \in counted \cup missed
    /\ \A v \in View : place[v] # "none" => view[v].day <= day
    /\ WindowIsSafe => \A v \in View : place[v] = "pruned" => Passed(view[v].day)

LEMMA ClockNext == ViewTypeOK /\ ClockInv /\ [ViewNext]_viewVars => ClockInv'
<1> SUFFICES ASSUME ViewTypeOK, ClockInv, [ViewNext]_viewVars PROVE ClockInv'
  OBVIOUS
<1>0. /\ midnight \in 0 .. Hours - 1
      /\ day \in 0 .. MaxDay
      /\ hour \in 0 .. Hours - 1
      /\ place \in [View -> {"none", "insert", "stored", "pruned"}]
      /\ \A v \in View : place[v] # "none" => view[v] \in ViewRow
  BY DEF ViewTypeOK
<1>1. Hours \in Nat \ {0} /\ MaxDay \in Nat
  BY VisitorsAssumption
<1>2. \A v \in View : place[v] # "none" => view[v].day \in 0 .. MaxDay
  BY <1>0 DEF ViewRow
<1>3. day' \in 0 .. MaxDay
  BY ViewTypes DEF ViewTypeOK
<1>4. /\ \A v \in View : ViewMoves(v)
      /\ day' >= day
      /\ counted \subseteq counted'
      /\ \A d \in 0 .. MaxDay : Passed(d) => Passed(d)'
  BY EveryViewMoves
<1>5. ASSUME NEW v \in View, place'[v] # "none" PROVE view'[v].day <= day'
  BY <1>0, <1>2, <1>3, <1>4, <1>5 DEF ViewMoves, ClockInv
<1>6. ASSUME WindowIsSafe', NEW v \in View, place'[v] = "pruned" PROVE Passed(view[v].day)'
  <2>1. place[v] \in {"stored", "pruned"} /\ view'[v] = view[v]
    BY <1>0, <1>4, <1>6 DEF ViewMoves
  <2>2. WindowIsSafe
    BY <1>6, EveryViewMoves DEF WindowIsSafe
  <2>3. Passed(view[v].day)
    BY <1>4, <1>6, <2>1, <2>2 DEF ViewMoves, ClockInv
  <2>4. view[v].day \in 0 .. MaxDay
    BY <1>2, <2>1
  <2>5. \A d \in 0 .. MaxDay : Passed(d) => Passed(d)'
    BY <1>4
  <2>6. view'[v].day = view[v].day
    BY <2>1
  <2> QED
    BY <2>3, <2>4, <2>5, <2>6 DEF Passed
<1>7. ASSUME NEW d \in 0 .. MaxDay, Passed(d)' PROVE d \in counted' \cup missed'
  <2>1. CASE Tick
    <3>1. /\ hour' = IF hour = Hours - 1 THEN 0 ELSE hour + 1
          /\ day' = IF hour = Hours - 1 THEN day + 1 ELSE day
          /\ missed' = IF hour = midnight /\ day > 0 /\ day - 1 \notin counted
                       THEN missed \cup {day - 1} ELSE missed
          /\ UNCHANGED <<midnight, counted>>
      BY <2>1 DEF Tick, Yesterday
    <3>2. CASE Passed(d)
      BY <1>7, <3>1, <3>2 DEF ClockInv
    <3>3. CASE ~Passed(d)
      <4>1. d + 1 = day /\ hour = midnight
        BY <1>0, <1>1, <1>7, <3>1, <3>3 DEF Passed
      <4> QED
        BY <1>0, <3>1, <4>1
    <3> QED
      BY <3>2, <3>3
  <2>2. CASE ~Tick
    <3>1. UNCHANGED <<midnight, day, hour, missed>>
      BY <2>2 DEF ViewNext, Track, Insert, JobBegins, CountViews, JobDies, CountUnique, Upsert,
                  Prune, viewVars
    <3> QED
      BY <1>4, <1>7, <3>1 DEF Passed, ClockInv
  <2> QED
    BY <2>1, <2>2
<1> QED
  BY <1>5, <1>6, <1>7 DEF ClockInv

LEMMA ClockHolds == ViewSpec => [](ViewTypeOK /\ ClockInv)
<1>1. ViewInit => ClockInv
  BY VisitorsAssumption DEF ViewInit, ClockInv, Passed
<1> QED
  BY <1>1, ClockNext, ViewTypesHold, PTL DEF ViewSpec

(* However the hours of the server's midnight and of the cleanup lie, the  *)
(* retention does not remove a view before the job of its day was due, for *)
(* any window of more than the hours from the UTC midnight to the cleanup: *)
(* for all of two days or more.                                            *)
THEOREM ViewsAreCountedFirst == ViewSpec => []PrunedWasCounted
<1>1. ASSUME ViewTypeOK, ClockInv, WindowIsSafe, NEW v \in View, place[v] = "pruned"
      PROVE  view[v].day \in counted \cup missed
  <2>1. view[v].day \in 0 .. MaxDay /\ Passed(view[v].day)
    BY <1>1 DEF ViewTypeOK, ViewRow, ClockInv
  <2> QED
    BY <1>1, <2>1 DEF ClockInv
<1>2. ViewTypeOK /\ ClockInv => PrunedWasCounted
  BY <1>1 DEF PrunedWasCounted
<1> QED
  BY <1>2, ClockHolds, PTL

-----------------------------------------------------------------------------
(* The statistics.  The views of a day that is over are settled: what was  *)
(* tracked and what was there in time no longer change.  So whatever a job *)
(* reads of them, however long it takes and whoever else writes the rows,  *)
(* lies between the two.                                                   *)

ViewsRight(s, d, p) ==
    /\ WindowIsSafe => Cardinality(InTime(d, p)) <= s.views
    /\ s.views <= Cardinality(Tracked(d, p))

UniqueRight(s, d, p) ==
    /\ WindowIsSafe => Cardinality(Visitors(InTime(d, p))) <= s.unique
    /\ s.unique <= Cardinality(Visitors(Tracked(d, p)))

(* The row of a day and a path, and whether there must be one. *)
RowRight(d, p) ==
    stat[d][p] # NoStat =>
        d < day /\ ViewsRight(stat[d][p], d, p) /\ UniqueRight(stat[d][p], d, p)

Covered(d, p) == stat[d][p] # NoStat \/ (WindowIsSafe => InTime(d, p) = {})

(* What a job has read of d so far, and has written. *)
JobRight(c, d) ==
    /\ job[c] \in {"unique", "upsert"} =>
          \A p \in Path : /\ ViewsRight(seen[c][p], d, p)
                          /\ p \in todo[c] => seen[c][p].views > 0
    /\ job[c] = "unique" => \A p \in Path \ todo[c] : UniqueRight(seen[c][p], d, p)
    /\ job[c] = "upsert" => \A p \in Path : /\ UniqueRight(seen[c][p], d, p)
                                            /\ p \in todo[c] \/ Covered(d, p)

StatInv ==
    /\ \A d \in counted : d < day /\ \A p \in Path : Covered(d, p)
    /\ \A d \in 0 .. MaxDay, p \in Path : RowRight(d, p)
    /\ \A c \in Counter, d \in 0 .. MaxDay : d + 1 = day => JobRight(c, d)

LEMMA DayIsOver ==
    ASSUME ViewTypeOK, ClockInv, [ViewNext]_viewVars,
           NEW d \in 0 .. MaxDay, d < day, NEW p \in Path
    PROVE  /\ InTime(d, p)' = InTime(d, p)
           /\ Tracked(d, p)' = Tracked(d, p)
           /\ Visitors(InTime(d, p))' = Visitors(InTime(d, p))
           /\ Visitors(Tracked(d, p))' = Visitors(Tracked(d, p))
           /\ WindowIsSafe' <=> WindowIsSafe
<1>0. /\ day \in 0 .. MaxDay
      /\ place \in [View -> {"none", "insert", "stored", "pruned"}]
      /\ \A v \in View : place[v] # "none" => view[v] \in ViewRow
      /\ place' \in [View -> {"none", "insert", "stored", "pruned"}]
  BY ViewTypes DEF ViewTypeOK
<1>1. \A v \in View : place[v] # "none" => view[v].day \in 0 .. MaxDay
  BY <1>0 DEF ViewRow
<1>2. \A v \in View : ViewMoves(v)
  BY EveryViewMoves
<1>3. ASSUME NEW v \in View
      PROVE  /\ v \in Tracked(d, p)' <=> v \in Tracked(d, p)
             /\ v \in Tracked(d, p) => view'[v] = view[v]
             /\ v \in InTime(d, p)' <=> v \in InTime(d, p)
  <2>1. CASE place[v] = "none"
    <3>1. place'[v] = "none" \/ view'[v].day # d
      BY <1>0, <1>2, <2>1 DEF ViewMoves
    <3> QED
      BY <2>1, <3>1 DEF Tracked, InTime
  <2>2. CASE place[v] = "insert"
    <3>1. view'[v] = view[v] /\ place'[v] # "none"
      BY <1>2, <2>2 DEF ViewMoves
    <3>2. v \in Tracked(d, p) => view[v].day = d
      BY DEF Tracked
    <3>3. place'[v] # "insert" => v \in late' \/ view[v].day # d
      BY <1>0, <1>1, <1>2, <2>2 DEF ViewMoves
    <3> QED
      BY <2>2, <3>1, <3>2, <3>3 DEF Tracked, InTime
  <2>3. CASE place[v] \in {"stored", "pruned"}
    <3>1. /\ view'[v] = view[v] /\ place'[v] \in {"stored", "pruned"}
          /\ v \in late' <=> v \in late
      BY <1>2, <2>3 DEF ViewMoves
    <3> QED
      BY <2>3, <3>1 DEF Tracked, InTime
  <2> QED
    BY <1>0, <2>1, <2>2, <2>3
<1>4. InTime(d, p)' = InTime(d, p) /\ Tracked(d, p)' = Tracked(d, p)
  <2>1. /\ Tracked(d, p) \subseteq View /\ Tracked(d, p)' \subseteq View
        /\ InTime(d, p) \subseteq View /\ InTime(d, p)' \subseteq View
    BY DEF Tracked, InTime
  <2> QED
    BY <1>3, <2>1
<1>5. InTime(d, p) \subseteq Tracked(d, p) /\ Tracked(d, p) \subseteq View
  BY DEF InTime, Tracked
<1>6. WindowIsSafe' <=> WindowIsSafe
  BY EveryViewMoves DEF WindowIsSafe
<1> QED
  BY <1>3, <1>4, <1>5, <1>6 DEF Visitors

(* What is in the table of yesterday, and how many. *)
LEMMA Between ==
    ASSUME ViewTypeOK, ClockInv, hour = midnight,
           NEW d \in 0 .. MaxDay, d + 1 = day, NEW p \in Path
    PROVE  /\ WindowIsSafe =>
                 /\ InTime(d, p) \subseteq OfDay(d, p)
                 /\ Cardinality(InTime(d, p)) <= Cardinality(OfDay(d, p))
                 /\ Cardinality(Visitors(InTime(d, p))) <= Cardinality(Visitors(OfDay(d, p)))
           /\ Cardinality(OfDay(d, p)) <= Cardinality(Tracked(d, p))
           /\ Cardinality(Visitors(OfDay(d, p))) <= Cardinality(Visitors(Tracked(d, p)))
<1>1. ASSUME WindowIsSafe PROVE InTime(d, p) \subseteq OfDay(d, p)
  <2>1. ASSUME NEW v \in InTime(d, p) PROVE v \in OfDay(d, p)
    <3>1. /\ v \in View /\ place[v] \in {"stored", "pruned"}
          /\ view[v].path = p /\ view[v].day = d
      BY DEF InTime, Tracked, ViewTypeOK
    <3>2. ~Passed(d)
      BY VisitorsAssumption DEF Passed, ViewTypeOK
    <3>3. place[v] # "pruned"
      BY <1>1, <3>1, <3>2 DEF ClockInv
    <3> QED
      BY <3>1, <3>3 DEF OfDay
  <2> QED
    BY <2>1
<1>2. OfDay(d, p) \subseteq Tracked(d, p) /\ Tracked(d, p) \subseteq View
  BY DEF OfDay, Tracked
<1> QED
  BY <1>1, <1>2, MoreViews

(* A path without a view has none in time. *)
LEMMA NoViews ==
    ASSUME NEW vs \in SUBSET View
    PROVE  /\ Cardinality(vs) <= 0 <=> vs = {}
           /\ Cardinality(Visitors({})) = 0
           /\ Cardinality(vs) \in Nat /\ Cardinality(Visitors(vs)) \in Nat
<1>1. IsFiniteSet(vs) /\ Cardinality(vs) \in Nat /\ Cardinality(Visitors(vs)) \in Nat
  BY SomeViews, VisitorsAssumption, FS_CardinalityType
<1>2. Cardinality(vs) = 0 <=> vs = {}
  BY <1>1, FS_EmptySet
<1>3. Visitors({}) = {}
  BY DEF Visitors
<1> QED
  BY <1>1, <1>2, <1>3, FS_EmptySet

(* What stays right when nobody touches it, though views still move. *)
LEMMA CoveredStays ==
    ASSUME ViewTypeOK, ClockInv, [ViewNext]_viewVars,
           NEW d \in 0 .. MaxDay, d < day, NEW p \in Path,
           Covered(d, p), stat[d][p] # NoStat => stat'[d][p] # NoStat
    PROVE  Covered(d, p)'
  BY DayIsOver DEF Covered

LEMMA RowStays ==
    ASSUME ViewTypeOK, ClockInv, [ViewNext]_viewVars,
           NEW d \in 0 .. MaxDay, NEW p \in Path,
           RowRight(d, p), stat'[d][p] = stat[d][p]
    PROVE  RowRight(d, p)'
<1>1. day' >= day /\ day \in 0 .. MaxDay /\ day' \in 0 .. MaxDay
  BY EveryViewMoves, ViewTypes DEF ViewTypeOK
<1>2. CASE stat[d][p] = NoStat
  BY <1>2 DEF RowRight
<1>3. CASE stat[d][p] # NoStat
  <2>1. d < day /\ d < day'
    BY <1>1, <1>3 DEF RowRight
  <2> QED
    BY <1>3, <2>1, DayIsOver DEF RowRight, ViewsRight, UniqueRight
<1> QED
  BY <1>2, <1>3

LEMMA JobStays ==
    ASSUME ViewTypeOK, ClockInv, [ViewNext]_viewVars,
           NEW d \in 0 .. MaxDay, d + 1 = day, NEW c \in Counter,
           JobRight(c, d),
           job'[c] = job[c], todo'[c] = todo[c], seen'[c] = seen[c],
           \A p \in Path : stat[d][p] # NoStat => stat'[d][p] # NoStat
    PROVE  JobRight(c, d)'
<1>1. d < day
  BY DEF ViewTypeOK
<1>2. ASSUME NEW p \in Path
      PROVE  /\ ViewsRight(seen[c][p], d, p) => ViewsRight(seen[c][p], d, p)'
             /\ UniqueRight(seen[c][p], d, p) => UniqueRight(seen[c][p], d, p)'
             /\ Covered(d, p) => Covered(d, p)'
  <2>1. seen'[c][p] = seen[c][p]
    OBVIOUS
  <2> QED
    BY <1>1, <2>1, DayIsOver, CoveredStays DEF ViewsRight, UniqueRight
<1> QED
  BY <1>2 DEF JobRight

(* The step of one job, which touches the day before this one only. *)
LEMMA JobStep ==
    ASSUME ViewTypeOK, ClockInv, StatInv, [ViewNext]_viewVars,
           NEW c \in Counter, NEW d \in 0 .. MaxDay, d + 1 = day, day' = day,
           \A b \in Counter \ {c} :
              job'[b] = job[b] /\ todo'[b] = todo[b] /\ seen'[b] = seen[b],
           \A e \in 0 .. MaxDay, p \in Path :
              /\ stat[e][p] # NoStat => stat'[e][p] # NoStat
              /\ stat'[e][p] = stat[e][p] \/ (e = d /\ RowRight(d, p)'),
           JobRight(c, d)',
           counted' = counted \/ (counted' = counted \cup {d} /\ \A p \in Path : Covered(d, p)')
    PROVE  StatInv'
<1>0. day \in 0 .. MaxDay /\ counted \in SUBSET (0 .. MaxDay)
  BY DEF ViewTypeOK
<1>1. ASSUME NEW e \in counted'
      PROVE  e < day' /\ \A p \in Path : Covered(e, p)'
  <2>1. CASE e \in counted
    BY <1>0, <2>1, CoveredStays DEF StatInv
  <2>2. CASE e \notin counted
    BY <1>0, <1>1, <2>2
  <2> QED
    BY <2>1, <2>2
<1>2. \A e \in 0 .. MaxDay, p \in Path : RowRight(e, p)'
  BY RowStays DEF StatInv
<1>3. ASSUME NEW b \in Counter, NEW e \in 0 .. MaxDay, e + 1 = day'
      PROVE  JobRight(b, e)'
  <2>1. e = d
    BY <1>0, <1>3
  <2>2. CASE b = c
    BY <2>1, <2>2
  <2>3. CASE b # c
    BY <2>1, <2>3, JobStays DEF StatInv
  <2> QED
    BY <2>2, <2>3
<1> QED
  BY <1>1, <1>2, <1>3 DEF StatInv

LEMMA CountViewsRight ==
    ASSUME ViewTypeOK, ClockInv, StatInv, [ViewNext]_viewVars,
           NEW c \in Counter, CountViews(c)
    PROVE  StatInv'
<1>0. /\ day \in 0 .. MaxDay /\ day > 0 /\ hour = midnight
      /\ seen \in [Counter -> [Path -> Count]]
  BY DEF ViewTypeOK, CountViews
<1>1. PICK d \in 0 .. MaxDay : d = Yesterday /\ d + 1 = day /\ d < day
  BY <1>0, VisitorsAssumption DEF Yesterday
<1> DEFINE paths == {p \in Path : OfDay(d, p) # {}}
<1>2. /\ day' = day /\ stat' = stat
      /\ job'[c] = IF paths = {} THEN "idle" ELSE "unique"
      /\ todo'[c] = paths
      /\ \A b \in Counter \ {c} : job'[b] = job[b] /\ todo'[b] = todo[b] /\ seen'[b] = seen[b]
      /\ counted' = IF paths = {} THEN counted \cup {d} ELSE counted
  <2>1. Rest(c, "unique", paths) /\ paths \in SUBSET Path
    BY <1>1 DEF CountViews
  <2>2. /\ day' = day /\ stat' = stat
        /\ \A b \in Counter \ {c} : seen'[b] = seen[b]
    BY <1>0 DEF CountViews
  <2> HIDE DEF paths
  <2>3. /\ job'[c] = IF paths = {} THEN "idle" ELSE "unique"
        /\ todo'[c] = paths
        /\ \A b \in Counter \ {c} : job'[b] = job[b] /\ todo'[b] = todo[b]
    BY <1>0, <2>1, RestTypes
  <2>4. counted' = IF paths = {} THEN counted \cup {d} ELSE counted
    BY <1>1, <2>1 DEF Rest
  <2> QED
    BY <2>2, <2>3, <2>4
<1>3. ASSUME NEW p \in Path
      PROVE  /\ seen'[c][p].views = Cardinality(OfDay(d, p))
             /\ seen'[c][p].unique = 0
  <2>1. seen'[c][p] = [Zero EXCEPT !.views = Cardinality(OfDay(d, p))]
    BY <1>0, <1>1 DEF CountViews
  <2>2. Cardinality(OfDay(d, p)) \in 0 .. Cardinality(View)
    BY SomeViews DEF OfDay
  <2> QED
    BY <2>1, <2>2, CountTypes
<1>4. ASSUME NEW p \in Path
      PROVE  /\ ViewsRight(seen[c][p], d, p)'
             /\ p \in paths => seen'[c][p].views > 0
             /\ p \notin paths => UniqueRight(seen[c][p], d, p)' /\ Covered(d, p)'
  <2>1. /\ InTime(d, p)' = InTime(d, p) /\ Tracked(d, p)' = Tracked(d, p)
        /\ Visitors(InTime(d, p))' = Visitors(InTime(d, p))
        /\ Visitors(Tracked(d, p))' = Visitors(Tracked(d, p))
        /\ WindowIsSafe' <=> WindowIsSafe
    BY <1>1, DayIsOver
  <2>2. /\ WindowIsSafe => /\ InTime(d, p) \subseteq OfDay(d, p)
                           /\ Cardinality(InTime(d, p)) <= Cardinality(OfDay(d, p))
        /\ Cardinality(OfDay(d, p)) <= Cardinality(Tracked(d, p))
    BY <1>0, <1>1, Between
  <2>3. /\ OfDay(d, p) \in SUBSET View /\ Tracked(d, p) \in SUBSET View
    BY DEF OfDay, Tracked
  <2>4. ViewsRight(seen[c][p], d, p)'
    BY <1>3, <2>1, <2>2 DEF ViewsRight
  <2>5. p \in paths => Cardinality(OfDay(d, p)) > 0
    BY <2>3, NoViews
  <2>6. ASSUME p \notin paths
        PROVE  UniqueRight(seen[c][p], d, p)' /\ Covered(d, p)'
    <3>1. WindowIsSafe => InTime(d, p) = {}
      BY <2>2, <2>6
    <3>2. /\ WindowIsSafe => Cardinality(Visitors(InTime(d, p))) = 0
          /\ Cardinality(Visitors(Tracked(d, p))) \in Nat
      BY <2>3, <3>1, NoViews
    <3> QED
      BY <1>3, <2>1, <3>1, <3>2 DEF UniqueRight, Covered
  <2> QED
    BY <1>3, <2>4, <2>5, <2>6
<1> HIDE DEF paths
<1>5. JobRight(c, d)'
  BY <1>2, <1>4 DEF JobRight
<1>6. counted' = counted \/ (counted' = counted \cup {d} /\ \A p \in Path : Covered(d, p)')
  BY <1>2, <1>4
<1> QED
  BY <1>1, <1>2, <1>5, <1>6, JobStep

LEMMA CountUniqueRight ==
    ASSUME ViewTypeOK, ClockInv, StatInv, [ViewNext]_viewVars,
           NEW c \in Counter, NEW p \in Path, CountUnique(c, p)
    PROVE  StatInv'
<1>0. /\ day \in 0 .. MaxDay /\ day > 0
      /\ seen \in [Counter -> [Path -> Count]]
      /\ todo \in [Counter -> SUBSET Path]
      /\ job[c] = "unique" /\ p \in todo[c] /\ hour = midnight
  BY DEF ViewTypeOK, CountUnique
<1>1. PICK d \in 0 .. MaxDay : d = Yesterday /\ d + 1 = day /\ d < day
  BY <1>0, VisitorsAssumption DEF Yesterday
<1>2. \A q \in Path : /\ ViewsRight(seen[c][q], d, q)
                      /\ q \in todo[c] => seen[c][q].views > 0
                      /\ q \notin todo[c] => UniqueRight(seen[c][q], d, q)
  BY <1>0, <1>1 DEF StatInv, JobRight
<1> DEFINE n == Cardinality(Visitors(OfDay(d, p)))
<1>3. /\ \A q \in Path : /\ seen'[c][q].views = seen[c][q].views
                         /\ q # p => seen'[c][q].unique = seen[c][q].unique
      /\ seen'[c][p].unique = n
      /\ \A b \in Counter \ {c} : seen'[b] = seen[b]
  <2>1. seen' = [seen EXCEPT ![c] = [seen[c] EXCEPT ![p] = [seen[c][p] EXCEPT !.unique = n]]]
    BY <1>0, <1>1 DEF CountUnique, Visitors
  <2>2. n \in 0 .. Cardinality(View)
    BY SomeViews DEF OfDay
  <2> HIDE DEF n
  <2>3. seen[c][p] \in Count
    BY <1>0
  <2>4. /\ [seen[c][p] EXCEPT !.unique = n].unique = n
        /\ [seen[c][p] EXCEPT !.unique = n].views = seen[c][p].views
    BY <2>2, <2>3, CountTypes, Zenon
  <2>5. /\ \A q \in Path \ {p} : seen'[c][q] = seen[c][q]
        /\ seen'[c][p] = [seen[c][p] EXCEPT !.unique = n]
        /\ \A b \in Counter \ {c} : seen'[b] = seen[b]
    BY <1>0, <2>1, Zenon
  <2> QED
    BY <2>4, <2>5
<1>4. ASSUME NEW q \in Path
      PROVE  /\ ViewsRight(seen[c][q], d, q)'
             /\ q \notin todo[c] \/ q = p => UniqueRight(seen[c][q], d, q)'
             /\ seen[c][q].views > 0 \/ Covered(d, q)'
  <2>1. /\ InTime(d, q)' = InTime(d, q) /\ Tracked(d, q)' = Tracked(d, q)
        /\ Visitors(InTime(d, q))' = Visitors(InTime(d, q))
        /\ Visitors(Tracked(d, q))' = Visitors(Tracked(d, q))
        /\ WindowIsSafe' <=> WindowIsSafe
    BY <1>1, DayIsOver
  <2>2. ViewsRight(seen[c][q], d, q)'
    BY <1>2, <1>3, <2>1 DEF ViewsRight
  <2>3. CASE q = p
    <3>1. /\ WindowIsSafe => Cardinality(Visitors(InTime(d, p))) <= n
          /\ n <= Cardinality(Visitors(Tracked(d, p)))
      BY <1>0, <1>1, Between
    <3>2. UniqueRight(seen[c][q], d, q)'
      BY <1>3, <2>1, <2>3, <3>1 DEF UniqueRight
    <3> QED
      BY <1>0, <1>2, <2>2, <2>3, <3>2
  <2>4. CASE q # p
    <3>1. q \notin todo[c] => UniqueRight(seen[c][q], d, q)'
      BY <1>2, <1>3, <2>1, <2>4 DEF UniqueRight
    <3>2. seen[c][q].views > 0 \/ Covered(d, q)'
      <4>1. seen[c][q].views \in Nat
        <5>1. seen[c][q] \in Count
          BY <1>0
        <5>2. Cardinality(View) \in Nat
          BY VisitorsAssumption, FS_CardinalityType
        <5> QED
          BY <5>1, <5>2 DEF Count
      <4>2. InTime(d, q) \in SUBSET View
        BY DEF InTime, Tracked
      <4>3. ~(seen[c][q].views > 0) /\ WindowIsSafe => Cardinality(InTime(d, q)) <= 0
        BY <1>2, <4>1, <4>2, NoViews DEF ViewsRight
      <4>4. ~(seen[c][q].views > 0) /\ WindowIsSafe => InTime(d, q) = {}
        BY <4>2, <4>3, NoViews
      <4> QED
        BY <2>1, <4>4 DEF Covered
    <3> QED
      BY <2>2, <2>4, <3>1, <3>2
  <2> QED
    BY <2>3, <2>4
<1> HIDE DEF n
<1>5. day' = day /\ stat' = stat
  BY DEF CountUnique
<1>6. CASE todo[c] = {p}
  <2> DEFINE paths == {q \in Path : seen[c][q].views > 0}
  <2>1. p \in paths
    BY <1>0, <1>2
  <2>2. /\ job'[c] = "upsert" /\ todo'[c] = paths
        /\ \A b \in Counter \ {c} : job'[b] = job[b] /\ todo'[b] = todo[b]
        /\ counted' = counted
    BY <1>0, <1>6, <2>1, RestTypes DEF CountUnique, Rest
  <2>3. JobRight(c, d)'
    <3>1. \A q \in Path : /\ ViewsRight(seen[c][q], d, q)' /\ UniqueRight(seen[c][q], d, q)'
                          /\ q \in paths => seen'[c][q].views > 0
                          /\ q \in paths \/ Covered(d, q)'
      BY <1>3, <1>4, <1>6
    <3> HIDE DEF paths
    <3> QED
      BY <2>2, <3>1 DEF JobRight
  <2> QED
    BY <1>1, <1>3, <1>5, <2>2, <2>3, JobStep
<1>7. CASE todo[c] # {p}
  <2> DEFINE paths == todo[c] \ {p}
  <2>1. paths # {} /\ paths \in SUBSET Path
    BY <1>0, <1>7
  <2>2. /\ job'[c] = "unique" /\ todo'[c] = paths
        /\ \A b \in Counter \ {c} : job'[b] = job[b] /\ todo'[b] = todo[b]
        /\ counted' = counted
    BY <1>0, <1>7, <2>1, RestTypes DEF CountUnique, Rest
  <2>3. JobRight(c, d)'
    <3>1. \A q \in Path : /\ ViewsRight(seen[c][q], d, q)'
                          /\ q \in paths => seen'[c][q].views > 0
                          /\ q \notin paths => UniqueRight(seen[c][q], d, q)'
      BY <1>2, <1>3, <1>4
    <3> HIDE DEF paths
    <3> QED
      BY <2>2, <3>1 DEF JobRight
  <2> QED
    BY <1>1, <1>3, <1>5, <2>2, <2>3, JobStep
<1> QED
  BY <1>6, <1>7

LEMMA UpsertRight ==
    ASSUME ViewTypeOK, ClockInv, StatInv, [ViewNext]_viewVars,
           NEW c \in Counter, NEW p \in Path, Upsert(c, p)
    PROVE  StatInv'
<1>0. /\ day \in 0 .. MaxDay /\ day > 0
      /\ seen \in [Counter -> [Path -> Count]]
      /\ todo \in [Counter -> SUBSET Path]
      /\ stat \in [0 .. MaxDay -> [Path -> Count \cup {NoStat}]]
      /\ job[c] = "upsert" /\ p \in todo[c]
  BY DEF ViewTypeOK, Upsert
<1>1. PICK d \in 0 .. MaxDay : d = Yesterday /\ d + 1 = day /\ d < day
  BY <1>0, VisitorsAssumption DEF Yesterday
<1>2. \A q \in Path : /\ ViewsRight(seen[c][q], d, q) /\ UniqueRight(seen[c][q], d, q)
                      /\ q \in todo[c] => seen[c][q].views > 0
                      /\ q \in todo[c] \/ Covered(d, q)
  BY <1>0, <1>1 DEF StatInv, JobRight
<1>3. seen[c][p] # NoStat
  <2>1. seen[c][p] \in Count /\ Cardinality(View) \in Nat
    BY <1>0, VisitorsAssumption, FS_CardinalityType
  <2> QED
    BY <2>1, VisitorsAssumption DEF Count
<1>4. /\ stat'[d][p] = seen[c][p]
      /\ \A e \in 0 .. MaxDay, q \in Path : e # d \/ q # p => stat'[e][q] = stat[e][q]
      /\ day' = day /\ seen' = seen
  BY <1>0, <1>1 DEF Upsert
<1> DEFINE paths == todo[c] \ {p}
<1>5. /\ job'[c] = IF paths = {} THEN "idle" ELSE "upsert"
      /\ todo'[c] = paths
      /\ \A b \in Counter \ {c} : job'[b] = job[b] /\ todo'[b] = todo[b]
      /\ counted' = IF paths = {} THEN counted \cup {d} ELSE counted
  <2>1. Rest(c, "upsert", paths) /\ paths \in SUBSET Path
    BY <1>0 DEF Upsert
  <2> HIDE DEF paths
  <2>2. /\ job'[c] = IF paths = {} THEN "idle" ELSE "upsert"
        /\ todo'[c] = paths
        /\ \A b \in Counter \ {c} : job'[b] = job[b] /\ todo'[b] = todo[b]
    BY <1>0, <2>1, RestTypes
  <2>3. counted' = IF paths = {} THEN counted \cup {d} ELSE counted
    BY <1>1, <2>1 DEF Rest
  <2> QED
    BY <2>2, <2>3
<1>6. ASSUME NEW q \in Path
      PROVE  /\ ViewsRight(seen[c][q], d, q)' /\ UniqueRight(seen[c][q], d, q)'
             /\ q \in paths => seen'[c][q].views > 0
             /\ q \in paths \/ Covered(d, q)'
             /\ q = p => RowRight(d, q)'
  <2>1. /\ InTime(d, q)' = InTime(d, q) /\ Tracked(d, q)' = Tracked(d, q)
        /\ Visitors(InTime(d, q))' = Visitors(InTime(d, q))
        /\ Visitors(Tracked(d, q))' = Visitors(Tracked(d, q))
        /\ WindowIsSafe' <=> WindowIsSafe
    BY <1>1, DayIsOver
  <2>2. ViewsRight(seen[c][q], d, q)' /\ UniqueRight(seen[c][q], d, q)'
    BY <1>2, <1>4, <2>1 DEF ViewsRight, UniqueRight
  <2>3. q \in paths \/ Covered(d, q)'
    BY <1>2, <1>3, <1>4, <2>1 DEF Covered
  <2>4. q = p => RowRight(d, q)'
    BY <1>1, <1>4, <2>2 DEF RowRight, ViewsRight, UniqueRight
  <2> QED
    BY <1>2, <1>4, <2>2, <2>3, <2>4
<1> HIDE DEF paths
<1>7. JobRight(c, d)'
  BY <1>5, <1>6 DEF JobRight
<1>8. counted' = counted \/ (counted' = counted \cup {d} /\ \A q \in Path : Covered(d, q)')
  BY <1>5, <1>6
<1>9. \A e \in 0 .. MaxDay, q \in Path :
        /\ stat[e][q] # NoStat => stat'[e][q] # NoStat
        /\ stat'[e][q] = stat[e][q] \/ (e = d /\ RowRight(d, q)')
  BY <1>3, <1>4, <1>6
<1> QED
  BY <1>1, <1>4, <1>5, <1>7, <1>8, <1>9, JobStep

LEMMA StatNext == ViewTypeOK /\ ClockInv /\ StatInv /\ [ViewNext]_viewVars => StatInv'
<1> SUFFICES ASSUME ViewTypeOK, ClockInv, StatInv, [ViewNext]_viewVars PROVE StatInv'
  OBVIOUS
<1>0. /\ day \in 0 .. MaxDay /\ counted \in SUBSET (0 .. MaxDay)
      /\ job \in [Counter -> {"idle", "count", "unique", "upsert"}]
      /\ todo \in [Counter -> SUBSET Path]
      /\ day' \in 0 .. MaxDay /\ day' >= day
  BY ViewTypes, EveryViewMoves DEF ViewTypeOK
<1>1. ASSUME UNCHANGED <<stat, counted, seen>>, day' = day \/ \A c \in Counter : job'[c] = "idle",
             \A c \in Counter : \/ job'[c] = job[c] /\ todo'[c] = todo[c]
                                \/ job'[c] \in {"idle", "count"}
      PROVE  StatInv'
  <2>1. \A d \in counted' : d < day' /\ \A p \in Path : Covered(d, p)'
    BY <1>0, <1>1, CoveredStays DEF StatInv
  <2>2. \A d \in 0 .. MaxDay, p \in Path : RowRight(d, p)'
    BY <1>1, RowStays DEF StatInv
  <2>3. ASSUME NEW c \in Counter, NEW d \in 0 .. MaxDay, d + 1 = day'
        PROVE  JobRight(c, d)'
    <3>1. CASE job'[c] \in {"idle", "count"}
      BY <3>1 DEF JobRight
    <3>2. CASE job'[c] \notin {"idle", "count"}
      BY <1>1, <2>3, <3>2, JobStays DEF StatInv
    <3> QED
      BY <3>1, <3>2
  <2> QED
    BY <2>1, <2>2, <2>3 DEF StatInv
<1>2. CASE Tick
  BY <1>1, <1>2 DEF Tick
<1>3. ASSUME NEW v \in View, Insert(v) \/ \E p \in Path, s \in Visitor : Track(v, p, s)
      PROVE  StatInv'
  BY <1>1, <1>3 DEF Insert, Track
<1>4. ASSUME NEW c \in Counter, JobBegins(c) \/ JobDies(c)
      PROVE  StatInv'
  <2>1. \A b \in Counter : \/ job'[b] = job[b] /\ todo'[b] = todo[b]
                           \/ job'[b] \in {"idle", "count"}
    BY <1>0, <1>4 DEF JobBegins, JobDies
  <2> QED
    BY <1>1, <1>4, <2>1 DEF JobBegins, JobDies
<1>5. CASE Prune \/ UNCHANGED viewVars
  BY <1>1, <1>5 DEF Prune, viewVars
<1> QED
  BY <1>2, <1>3, <1>4, <1>5, CountViewsRight, CountUniqueRight, UpsertRight DEF ViewNext

(* The statistics of a day that a job has been through count none of its   *)
(* views twice and, if the window is safe, all of them, for any number of  *)
(* replicas at work side by side, any of which may die, and however late   *)
(* the views come in.                                                      *)
THEOREM StatisticsAreRight == ViewSpec => []StatsAreComplete
<1>1. ViewInit => StatInv
  BY DEF ViewInit, StatInv, RowRight, JobRight
<1>2. ASSUME ViewTypeOK, StatInv PROVE StatsAreComplete
  <2> SUFFICES ASSUME NEW d \in counted, NEW p \in Path
               PROVE  LET s == IF stat[d][p] = NoStat THEN Zero ELSE stat[d][p] IN
                      /\ WindowIsSafe => Cardinality(InTime(d, p)) <= s.views
                      /\ s.views <= Cardinality(Tracked(d, p))
                      /\ WindowIsSafe => Cardinality(Visitors(InTime(d, p))) <= s.unique
                      /\ s.unique <= Cardinality(Visitors(Tracked(d, p)))
    BY DEF StatsAreComplete
  <2>1. d \in 0 .. MaxDay /\ RowRight(d, p) /\ Covered(d, p)
    BY <1>2 DEF ViewTypeOK, StatInv
  <2>2. CASE stat[d][p] = NoStat
    <3>1. (WindowIsSafe => InTime(d, p) = {}) /\ Tracked(d, p) \in SUBSET View
      BY <2>1, <2>2 DEF Covered, Tracked
    <3>2. /\ WindowIsSafe => Cardinality(InTime(d, p)) = 0
          /\ WindowIsSafe => Cardinality(Visitors(InTime(d, p))) = 0
          /\ Cardinality(Tracked(d, p)) \in Nat
          /\ Cardinality(Visitors(Tracked(d, p))) \in Nat
      BY <3>1, NoViews, FS_EmptySet
    <3>3. Zero.views = 0 /\ Zero.unique = 0
      BY DEF Zero
    <3> QED
      BY <2>2, <3>2, <3>3
  <2>3. CASE stat[d][p] # NoStat
    BY <2>1, <2>3 DEF RowRight, ViewsRight, UniqueRight
  <2> QED
    BY <2>2, <2>3
<1>3. ViewTypeOK /\ StatInv => StatsAreComplete
  BY <1>2
<1> QED
  BY <1>1, <1>3, StatNext, ClockHolds, PTL DEF ViewSpec

-----------------------------------------------------------------------------
(* The six components side by side, as they are explored together: each    *)
(* keeps its types, whatever order the steps of the others come in.        *)
THEOREM ServicesTypes == MCSpec => []TypeOK
<1> DEFINE Types ==
             /\ InboxTypes
             /\ NewsTypeOK
             /\ PassTypeOK
             /\ OAuthTypeOK
             /\ ReqTypeOK
             /\ ViewTypeOK
<1>1. MCInit => Types
  BY InboxInitTypes, NewsInitTypes, PassInitTypes, OAuthInitTypes, ReqStart, ViewStart
  DEF MCInit
<1>2. InboxMoves => InboxNext
  BY DEF InboxMoves, InboxNext
<1>3. Types /\ [MCNext]_mcVars => Types'
  BY <1>2, InboxStepTypes, NewsStepTypes, PassStepTypes, OAuthStepTypes, ReqTypes, ViewTypes
  DEF MCNext, mcVars
<1>4. Types => TypeOK
  BY DEF InboxTypes, SocketTypeOK, NoteTypeOK, InboxTypeOK, InLabel, Suits, TypeOK
<1> QED
  BY <1>1, <1>3, <1>4, PTL DEF MCSpec
=============================================================================
