-------------------------------- MODULE Visitors --------------------------------
(***************************************************************************)
(* Page views: tracked by the visitors' browsers, counted once a day by    *)
(* VisitorStatsCron and pruned after RETENTION_PAGE_VIEWS_DAYS by the      *)
(* nightly RetentionService.                                               *)
(*                                                                         *)
(* The clock is UTC and has Hours ticks a day.  The window is in ticks, as *)
(* a fraction of a day is accepted; 0 keeps everything.  The jobs follow   *)
(* the server's time zone, whose midnight is at the UTC hour "midnight"    *)
(* (no daylight saving), while the days that are counted are UTC days.     *)
(***************************************************************************)
EXTENDS Integers, FiniteSets

CONSTANTS
    View,           \* page views
    Path, Visitor,  \* paths, and sessions of visitors
    Counter,        \* replicas that run the daily job
    Hours,          \* ticks of a day
    Gap,            \* ticks from midnight to the nightly cleanup
    Windows,        \* values RETENTION_PAGE_VIEWS_DAYS may have, in ticks
    MaxDay,         \* bound on the days
    NoStat,         \* "no row"
    NoView          \* "not tracked"

ASSUME VisitorsAssumption ==
    /\ Hours \in Nat \ {0}
    /\ Gap \in 1 .. Hours - 1
    /\ Windows \subseteq Nat
    /\ MaxDay \in Nat
    /\ IsFiniteSet(View)
    /\ NoStat \notin [views : Nat, unique : Nat]

VARIABLES
    window,         \* RETENTION_PAGE_VIEWS_DAYS
    midnight,       \* the UTC hour of the server's midnight
    day, hour,      \* UTC
    view,           \* path, visitor and createdAt of a view
    place,          \* where a view is
    stat,           \* the visitor_stats table
    job,            \* the await each counting job is about to perform
    todo,           \* paths it has not been through
    seen,           \* what it has read
    ran,            \* the day on which each replica's job began last
    late,           \* history: views inserted on a later day than createdAt
    counted,        \* history: days that a job has been through
    missed          \* history: days whose midnight passed without

config == <<window, midnight>>

viewVars == <<config, day, hour, view, place, stat, job, todo, seen, ran, late, counted, missed>>

ViewRow == [path : Path, visitor : Visitor, day : 0 .. MaxDay, hour : 0 .. Hours - 1]

Count == [views : 0 .. Cardinality(View), unique : 0 .. Cardinality(View)]

ViewTypeOK ==
    /\ window \in Windows
    /\ midnight \in 0 .. Hours - 1
    /\ day \in 0 .. MaxDay
    /\ hour \in 0 .. Hours - 1
    /\ view \in [View -> ViewRow \cup {NoView}]
    /\ place \in [View -> {"none", "insert", "stored", "pruned"}]
    /\ \A v \in View : place[v] # "none" => view[v] \in ViewRow
    /\ stat \in [0 .. MaxDay -> [Path -> Count \cup {NoStat}]]
    /\ job \in [Counter -> {"idle", "count", "unique", "upsert"}]
    /\ todo \in [Counter -> SUBSET Path]
    /\ seen \in [Counter -> [Path -> Count]]
    /\ ran \in [Counter -> 0 .. MaxDay]
    /\ \A c \in Counter : job[c] # "idle" => hour = midnight /\ day > 0
    /\ late \in SUBSET View
    /\ counted \in SUBSET (0 .. MaxDay)
    /\ missed \in SUBSET (0 .. MaxDay)

Zero == [views |-> 0, unique |-> 0]

ViewInit ==
    /\ window \in Windows
    /\ midnight \in 0 .. Hours - 1
    /\ day = 0 /\ hour = 0
    /\ view = [v \in View |-> NoView]
    /\ place = [v \in View |-> "none"]
    /\ stat = [d \in 0 .. MaxDay |-> [p \in Path |-> NoStat]]
    /\ job = [c \in Counter |-> "idle"]
    /\ todo = [c \in Counter |-> {}]
    /\ seen = [c \in Counter |-> [p \in Path |-> Zero]]
    /\ ran = [c \in Counter |-> 0]
    /\ late = {} /\ counted = {} /\ missed = {}

-----------------------------------------------------------------------------
(* trackPageView: createdAt is the time of the call, and the row is there  *)
(* a little later.                                                         *)
Track(v, p, s) ==
    /\ place[v] = "none"
    /\ place' = [place EXCEPT ![v] = "insert"]
    /\ view' = [view EXCEPT ![v] = [path |-> p, visitor |-> s, day |-> day, hour |-> hour]]
    /\ UNCHANGED <<config, day, hour, stat, job, todo, seen, ran, late, counted, missed>>

Insert(v) ==
    /\ place[v] = "insert"
    /\ place' = [place EXCEPT ![v] = "stored"]
    /\ late' = IF view[v].day < day THEN late \cup {v} ELSE late
    /\ UNCHANGED <<config, day, hour, view, stat, job, todo, seen, ran, counted, missed>>

-----------------------------------------------------------------------------
(* The daily job. *)

(* aggregateYesterday: the UTC day before the current one. *)
Yesterday == day - 1

(* What the two queries select: a path, and a day from 00:00 to 23:59. *)
OfDay(d, p) ==
    {v \in View : place[v] = "stored" /\ view[v].path = p /\ view[v].day = d}

JobBegins(c) ==
    /\ hour = midnight /\ day > ran[c]
    /\ job[c] = "idle"
    /\ job' = [job EXCEPT ![c] = "count"]
    /\ ran' = [ran EXCEPT ![c] = day]
    /\ UNCHANGED <<config, day, hour, view, place, stat, todo, seen, late, counted, missed>>

(* The job is over, or has these paths left. *)
Rest(c, label, paths) ==
    /\ job' = [job EXCEPT ![c] = IF paths = {} THEN "idle" ELSE label]
    /\ todo' = [todo EXCEPT ![c] = paths]
    /\ counted' = IF paths = {} THEN counted \cup {Yesterday} ELSE counted

(* groupBy path: a path without views has no group.                        *)
CountViews(c) ==
    /\ job[c] = "count"
    /\ Rest(c, "unique", {p \in Path : OfDay(Yesterday, p) # {}})
    /\ seen' = [seen EXCEPT ![c] =
                  [p \in Path |-> [Zero EXCEPT !.views = Cardinality(OfDay(Yesterday, p))]]]
    /\ UNCHANGED <<config, day, hour, view, place, stat, ran, late, missed>>

(* groupBy sessionId of one path: the queries run side by side, and the    *)
(* upserts begin when all have answered.                                   *)
CountUnique(c, p) ==
    /\ job[c] = "unique"
    /\ p \in todo[c]
    /\ seen' = [seen EXCEPT ![c][p].unique =
                  Cardinality({view[v].visitor : v \in OfDay(Yesterday, p)})]
    /\ IF todo[c] = {p}
       THEN Rest(c, "upsert", {q \in Path : seen[c][q].views > 0})
       ELSE Rest(c, "unique", todo[c] \ {p})
    /\ UNCHANGED <<config, day, hour, view, place, stat, ran, late, missed>>

(* A mutant: an existing row is added to.                                  *)
BugUpsert(c, p) ==
    /\ job[c] = "upsert"
    /\ p \in todo[c]
    /\ stat' = [stat EXCEPT ![Yesterday][p] =
                  IF @ = NoStat THEN seen[c][p]
                  ELSE [@ EXCEPT !.views = @ + seen[c][p].views]]
    /\ Rest(c, "upsert", todo[c] \ {p})
    /\ UNCHANGED <<config, day, hour, view, place, seen, ran, late, missed>>

(* The row of the day and the path is made, or overwritten.                *)
Upsert(c, p) ==
    /\ job[c] = "upsert"
    /\ p \in todo[c]
    /\ stat' = [stat EXCEPT ![Yesterday][p] = seen[c][p]]
    /\ Rest(c, "upsert", todo[c] \ {p})
    /\ UNCHANGED <<config, day, hour, view, place, seen, ran, late, missed>>

(* A query throws, or the process dies; the day is not tried again.        *)
JobDies(c) ==
    /\ job[c] # "idle"
    /\ job' = [job EXCEPT ![c] = "idle"]
    /\ todo' = [todo EXCEPT ![c] = {}]
    /\ UNCHANGED <<config, day, hour, view, place, stat, seen, ran, late, counted, missed>>

-----------------------------------------------------------------------------
(* The clock.  The job and an insert take less than a tick. *)
Tick ==
    /\ \A c \in Counter : job[c] = "idle"
    /\ \A v \in View : place[v] = "insert" => view[v].day = day /\ view[v].hour = hour
    /\ hour = Hours - 1 => day < MaxDay
    /\ hour' = IF hour = Hours - 1 THEN 0 ELSE hour + 1
    /\ day' = IF hour = Hours - 1 THEN day + 1 ELSE day
    /\ missed' = IF hour = midnight /\ day > 0 /\ Yesterday \notin counted
                 THEN missed \cup {Yesterday} ELSE missed
    /\ UNCHANGED <<config, view, place, stat, job, todo, seen, ran, late, counted>>

Cleanup == IF midnight + Gap < Hours THEN midnight + Gap ELSE midnight + Gap - Hours

Age(v) == (day - view[v].day) * Hours + hour - view[v].hour

(* A mutant: the window counts the current day, so it is a day too short.  *)
BugOlder(v) == window <= Age(v) + Hours

(* createdAt is before the cutoff, which is in the middle of a tick.       *)
Older(v) == window <= Age(v)

(* prunePageViews, unless an earlier purge of that night has thrown.       *)
Prune ==
    /\ window > 0
    /\ hour = Cleanup
    /\ \E gone \in SUBSET {v \in View : place[v] = "stored" /\ Older(v)} :
          /\ gone # {}
          /\ \A v \in View :
                place[v] = "stored" /\ Older(v) /\ v \notin gone => Age(v) = window
          /\ place' = [v \in View |-> IF v \in gone THEN "pruned" ELSE place[v]]
    /\ UNCHANGED <<config, day, hour, view, stat, job, todo, seen, ran, late, counted, missed>>

-----------------------------------------------------------------------------
ViewNext ==
    \/ \E v \in View : Insert(v) \/ \E p \in Path, s \in Visitor : Track(v, p, s)
    \/ \E c \in Counter :
          \/ JobBegins(c) \/ CountViews(c) \/ JobDies(c)
          \/ \E p \in Path : CountUnique(c, p) \/ Upsert(c, p)
    \/ Tick
    \/ Prune

ViewSpec == ViewInit /\ [][ViewNext]_viewVars

-----------------------------------------------------------------------------
(* Every view that was tracked on a day and a path, and those of them that *)
(* were in the table when the day was over.                                *)
Tracked(d, p) == {v \in View : place[v] # "none" /\ view[v].path = p /\ view[v].day = d}

InTime(d, p) == {v \in Tracked(d, p) : place[v] # "insert" /\ v \notin late}

Visitors(vs) == {view[v].visitor : v \in vs}

(* The first cleanup that finds a view older than the window comes after   *)
(* the job of its day.  Two days are enough for every midnight, and one is *)
(* where the cleanup is on the UTC day of the job.                         *)
WindowIsSafe == window = 0 \/ window > midnight + Gap

(* The daily statistics count each view of the UTC day once, wherever the  *)
(* server's midnight is, with any number of replicas counting at the same  *)
(* time, some of them dying half way, and while raw views are pruned after *)
(* a safe window (a view that was pruned too early may be missing).  A     *)
(* view that was inserted after its day was over may be counted or not.    *)
StatsAreComplete ==
    \A d \in counted, p \in Path :
        LET s == IF stat[d][p] = NoStat THEN Zero ELSE stat[d][p] IN
        /\ WindowIsSafe => Cardinality(InTime(d, p)) <= s.views
        /\ s.views <= Cardinality(Tracked(d, p))
        /\ WindowIsSafe => Cardinality(Visitors(InTime(d, p))) <= s.unique
        /\ s.unique <= Cardinality(Visitors(Tracked(d, p)))

(* The comment on RetentionService says of the raw views that VisitorStat  *)
(* "already aggregates them", so they may go.  With every safe window, and *)
(* every midnight, no view is pruned before the job of its day was due.    *)
PrunedWasCounted ==
    WindowIsSafe =>
        \A v \in View : place[v] = "pruned" => view[v].day \in counted \cup missed
=============================================================================
