----------------------------- MODULE MCServices -----------------------------
(* Services whose requests meet in database rows, as small instances for    *)
(* TLC, of which one moves in a behaviour while the others stay as they are *)
(* (focus):                                                                 *)
(*   "locked"   the instance of ProfilePool that the cfg describes;         *)
(*   "racing"   ProfilePool again, with expiring leases, recovery and the   *)
(*              operations that write lease columns;                        *)
(*   "products" PriceAlerts without a threshold, two tasks on one product;  *)
(*   "crons"    Scheduling with a job config and a product cron;            *)
(*   "blog"     Blog with two posts and two editors;                        *)
(*   "home"     SmartHome with three streams and one edit.                  *)
(* The names of requests, profiles and tasks serve several instances.  They *)
(* are interchangeable: no action or property names one of them.            *)
EXTENDS ProfilePool, TLC

CONSTANTS
  RacingProfile, RacingTask, RacingMaintainer, RacingOps,
  Price, Threshold, Concurrency, MaxTime,             \* PriceAlerts
  PlatformCron, Expr, Zone, DefaultZone, MaxChanges,  \* Scheduling
  MaxDays, MaxRequests,                               \* Blog: its MaxTime and MaxEdits
  MaxEdits,                                           \* SmartHome
  None, Unset

VARIABLES
  focus,
  row2, uses2, ended2, robbed2, request2, login2, selected2, seen2,
  product, webhook, history, alert, task, crawl, before, crossed, now,
  columns, used, job, change, changes, excused,
  post, tags, editor, clock, edits, forced,
  config, stream, key, gone, subscribers, lock, connection, running, cancelled, abandoned

racingVars == <<row2, uses2, ended2, robbed2, request2, login2, selected2, seen2>>
productVars == <<product, webhook, history, alert, task, crawl, before, crossed, now>>
cronVars == <<columns, used, job, change, changes, excused>>
blogVars == <<post, tags, editor, clock, edits, forced>>
homeVars == <<config, stream, key, gone, subscribers, lock, connection, running, cancelled, abandoned>>

Racing == INSTANCE ProfilePool
  WITH Profile <- RacingProfile, Task <- RacingTask, Maintainer <- RacingMaintainer,
       Ops <- RacingOps, Outlasting <- TRUE, Crashes <- TRUE,
       row <- row2, uses <- uses2, ended <- ended2, robbed <- robbed2,
       request <- request2, login <- login2, selected <- selected2, seen <- seen2

Products == INSTANCE PriceAlerts
  WITH Task <- Request, Product <- Profile, Alert <- Profile

Crons == INSTANCE Scheduling
  WITH JobConfig <- Profile, row <- columns, request <- change

Posts == INSTANCE Blog
  WITH Post <- RacingProfile, Editor <- Request, Title <- Profile, Tag <- Profile,
       MaxTime <- MaxDays, MaxEdits <- MaxRequests, now <- clock

Home == INSTANCE SmartHome
  WITH Stream <- Task, task <- connection

MCInit ==
  /\ focus \in {"locked", "racing", "products", "crons", "blog", "home"}
  /\ Init /\ Racing!Init /\ Products!Init /\ Crons!Init /\ Posts!Init /\ Home!Init
  /\ focus # "products" => now = 0 /\ ~webhook /\ \A p \in Profile : product[p] = "absent"
  /\ focus # "crons" => \A e \in DOMAIN columns : columns[e] = Crons!Gone
  /\ focus # "blog" => \A p \in DOMAIN post : ~Posts!Exists(p)
  /\ focus # "home" => config = None

\* The profile pool always has a next step; the other services may rest.
MCNext ==
  /\ UNCHANGED focus
  /\ \/ /\ focus = "locked" /\ Next
        /\ UNCHANGED <<racingVars, productVars, cronVars, blogVars, homeVars>>
     \/ /\ focus = "racing" /\ Racing!Next
        /\ UNCHANGED <<vars, productVars, cronVars, blogVars, homeVars>>
     \/ /\ focus = "products" /\ Products!Next
        /\ UNCHANGED <<vars, racingVars, cronVars, blogVars, homeVars>>
     \/ /\ focus = "crons" /\ Crons!Next
        /\ UNCHANGED <<vars, racingVars, productVars, blogVars, homeVars>>
     \/ /\ focus = "blog" /\ Posts!Next
        /\ UNCHANGED <<vars, racingVars, productVars, cronVars, homeVars>>
     \/ /\ focus = "home" /\ Home!Next
        /\ UNCHANGED <<vars, racingVars, productVars, cronVars, blogVars>>
     \/ /\ focus \in {"products", "crons", "blog", "home"}
        /\ UNCHANGED <<vars, racingVars, productVars, cronVars, blogVars, homeVars>>

MCSpec == MCInit /\ [][MCNext]_<<focus, vars, racingVars, productVars, cronVars, blogVars, homeVars>>

Symmetry == Permutations(RacingProfile) \cup Permutations(RacingTask) \cup Permutations(Request)

\* The properties of the instances, which the modules explain.
LeaseNamesOwnerWhenRacing == Racing!LeaseNamesOwner
CrawlHoldsLeaseWhenRacing == Racing!CrawlHoldsLease
ComparedWithPrevious == Products!ComparedWithPrevious
SchedulesInSync == Crons!SchedulesInSync
NotBeforeItsTime == Posts!NotBeforeItsTime
StreamsAreServed == Home!StreamsAreServed
=============================================================================
