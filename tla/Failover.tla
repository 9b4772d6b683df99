------------------------------ MODULE Failover ------------------------------
(***************************************************************************)
(* The failover provider (src/providers/failover.cpp): each underlying has *)
(* a route to the primary or the backup feed.  The feeds' threads and a    *)
(* monitor take one mutex for each event or tick; the backup is started by *)
(* whichever of them first needs it, outside the mutex, and may fail to.   *)
(***************************************************************************)
EXTENDS Integers, FiniteSets

CONSTANTS Underlyings, Contracts,
          ContractsOf(_),  \* an underlying's contracts
          BackupPrices,    \* the contracts the backup has prices for
          After,           \* options_.after, in ticks of the clock
          Quiet,           \* quiet_after(primary)
          MaxClock         \* bound: the clock

VARIABLES
  clock,
  routes,     \* routes_
  caches,     \* caches_: the <<feed, contract>> pairs with a quote
  published,  \* published_: contracts defined downstream
  book,       \* downstream: the feed of each contract's quote, "cleared" or "none"
  want,       \* want_backup_
  backup,     \* the backup: "idle", "running", "failed" or "stopped"
  starting,   \* who is inside start_backup, with backup_started_ set
  stopping,   \* how far stop() is
  vouched     \* history: the active feed has vouched for its chain since the switch

failoverVars == <<clock, routes, caches, published, book, want, backup, starting, stopping, vouched>>

Healthy(s) == s = "live"
Failing(s) == s = "error"
States == {"live", "stale", "error"}
Min(a, b) == IF a < b THEN a ELSE b

(* How an unavailable backup is worded (held) is left out. *)
NewRoute == [active |-> "primary", bad |-> -1, success |-> -1, healthy |-> -1, backup |-> "connecting",
             switched |-> 0, unpriced |-> {}]

(* prove: a fresh run starts after a failure or a long silence. *)
Prove(r) == [r EXCEPT !.healthy = IF @ = -1 \/ r.bad # -1 \/ clock - r.success > Quiet THEN clock ELSE @,
                      !.success = clock, !.bad = -1]

(* A step under the mutex works on the route, the book, the definitions sent and want_backup_. *)
Ctx(route, lines, sent, wanted, sure, cached) ==
  [route |-> route, book |-> lines, sent |-> sent, want |-> wanted, vouched |-> sure, caches |-> cached]
Steered(u, route) == Ctx(route, book, published, want, vouched[u], caches)
Now(u) == Steered(u, routes[u])

Priced(x, u, feed) == {c \in ContractsOf(u) : <<feed, c>> \in x.caches}
Moved(r, feed) == [r EXCEPT !.active = feed, !.switched = clock, !.healthy = IF feed = "backup" THEN -1 ELSE @]

\* Mutation: what the new feed does not price is not remembered.
SwitchedForgets(x, u, feed) ==
  Ctx([Moved(x.route, feed) EXCEPT !.unpriced = {}],
      [c \in Contracts |-> IF c \in Priced(x, u, feed) THEN feed ELSE x.book[c]],
      x.sent \cup Priced(x, u, feed), x.want \/ feed = "backup", FALSE, x.caches)

(* switch_to: the new feed's last values follow; what it never priced stays in
   the book until it vouches for its chain. *)
Switched(x, u, feed) ==
  Ctx([Moved(x.route, feed) EXCEPT !.unpriced = (ContractsOf(u) \cap x.sent) \ Priced(x, u, feed)],
      [c \in Contracts |-> IF c \in Priced(x, u, feed) THEN feed ELSE x.book[c]],
      x.sent \cup Priced(x, u, feed), x.want \/ feed = "backup", FALSE, x.caches)

(* evaluate: over to a backup that is not failing after `after` of failure or
   silence, and back after a fresh run as long. *)
BadSince(r) ==
  IF r.bad # -1 THEN r.bad
  ELSE LET since == IF r.success >= 0 THEN r.success ELSE 0 IN
       IF clock - since > Quiet THEN since + Quiet ELSE -1

Due(r) == BadSince(r) # -1 /\ clock - BadSince(r) >= After
Recovered(r) ==
  /\ r.bad = -1 /\ r.healthy >= 0 /\ r.success > r.switched
  /\ clock - r.success <= Quiet /\ clock - r.healthy >= After
Evaluated(x, u) ==
  CASE x.route.active = "primary" /\ Due(x.route) /\ ~Failing(x.route.backup) -> Switched(x, u, "backup")
    [] x.route.active = "backup" /\ Recovered(x.route) -> Switched(x, u, "primary")
    [] OTHER -> x

(* vouch: quotes the active feed has never priced are cleared. *)
Gone(x) == {c \in x.route.unpriced : <<x.route.active, c>> \notin x.caches}
Vouched(x) ==
  Ctx([x.route EXCEPT !.unpriced = {}], [c \in Contracts |-> IF c \in Gone(x) THEN "cleared" ELSE x.book[c]],
      x.sent, x.want, TRUE, x.caches)

(* What a step under the mutex leaves, and who starts the backup when it is first wanted. *)
Started == backup # "idle" \/ starting # {}
Commit(x, u, thread) ==
  /\ routes' = [routes EXCEPT ![u] = x.route] /\ book' = x.book /\ published' = x.sent
  /\ want' = x.want /\ vouched' = [vouched EXCEPT ![u] = x.vouched] /\ caches' = x.caches
  /\ starting' = IF x.want /\ ~Started THEN {thread} ELSE starting

Speaks(feed) == /\ stopping = "no" /\ feed \notin starting
                /\ IF feed = "primary" THEN TRUE ELSE backup = "running"

(* receive of a quote; a streaming primary proves itself with data. *)
Received(feed, u, c) ==
  LET route == IF feed = "primary" THEN Prove(routes[u]) ELSE routes[u]
      x == Ctx(route, book, published, want, vouched[u], caches \cup {<<feed, c>>})
  IN IF feed = "primary" /\ route.active = "backup" THEN Evaluated(x, u) ELSE x
Shown(x, feed, c) ==
  IF x.route.active # feed THEN x
  ELSE Ctx(x.route, [x.book EXCEPT ![c] = feed], x.sent \cup {c}, x.want, x.vouched, x.caches)
Quote == \E feed \in {"primary", "backup"}, u \in Underlyings : \E c \in ContractsOf(u) :
  /\ Speaks(feed) /\ (feed = "backup" => c \in BackupPrices)
  /\ Commit(Shown(Received(feed, u, c), feed, c), u, feed) /\ UNCHANGED <<clock, backup, stopping>>

(* receive of a complete snapshot; the primary's proves it when its market time advanced. *)
Snapshot == \E feed \in {"primary", "backup"}, u \in Underlyings, advanced \in BOOLEAN :
  /\ Speaks(feed)
  /\ LET x == IF feed = "primary" /\ advanced THEN Evaluated(Steered(u, Prove(routes[u])), u) ELSE Now(u)
     IN Commit(IF x.route.active = feed THEN Vouched(x) ELSE x, u, feed)
  /\ UNCHANGED <<clock, backup, stopping>>

(* status: the feed's word on an underlying. *)
Said(r, feed, state) ==
  IF feed = "backup" THEN [r EXCEPT !.backup = state]
  ELSE IF Healthy(state) THEN Prove(r)
  ELSE IF Failing(state) THEN [r EXCEPT !.bad = IF @ = -1 THEN clock ELSE @, !.healthy = -1] ELSE r
Status == \E feed \in {"primary", "backup"}, u \in Underlyings, state \in States :
  /\ Speaks(feed)
  /\ LET said == Steered(u, Said(routes[u], feed, state))
         x == IF Healthy(state) /\ said.route.active = feed THEN Vouched(said) ELSE said
     IN Commit(Evaluated(x, u), u, feed)
  /\ UNCHANGED <<clock, backup, stopping>>

(* tick, on the monitor's thread. *)
Tick == \E u \in Underlyings :
  /\ stopping = "no" /\ "monitor" \notin starting
  /\ Commit(Evaluated(Now(u), u), u, "monitor") /\ UNCHANGED <<clock, backup, stopping>>

(* start_backup, outside the mutex: it may return at once when stop() began,
   or have looked before it did ... *)
StartBackup == \E t \in starting :
  /\ starting' = {} /\ (backup' = "running" \/ (stopping # "no" /\ UNCHANGED backup))
  /\ UNCHANGED <<clock, routes, caches, published, book, want, stopping, vouched>>
(* ... and a failure hands every underlying back, for good. *)
HandBack(u) ==
  LET x == Steered(u, [routes[u] EXCEPT !.backup = "error"])
  IN IF x.route.active = "backup" THEN Switched(x, u, "primary") ELSE x
StartFails == \E t \in starting :
  /\ starting' = {} /\ backup' = "failed"
  /\ routes' = [u \in Underlyings |-> HandBack(u).route]
  /\ book' = [c \in Contracts |-> IF \E u \in Underlyings : c \in ContractsOf(u)
                THEN HandBack(CHOOSE u \in Underlyings : c \in ContractsOf(u)).book[c] ELSE book[c]]
  /\ published' = UNION {HandBack(u).sent : u \in Underlyings}
  /\ vouched' = [u \in Underlyings |-> HandBack(u).vouched]
  /\ UNCHANGED <<clock, caches, want, stopping>>

(* stop(): the monitor is joined, then the primary, whose thread may be starting
   the backup, then the backup is stopped and the routes are reported stopped. *)
Stop ==
  /\ CASE stopping = "no" -> stopping' = "monitor" /\ UNCHANGED backup
       [] stopping = "monitor" /\ "monitor" \notin starting -> stopping' = "primary" /\ UNCHANGED backup
       [] stopping = "primary" /\ "primary" \notin starting ->
            stopping' = "stopped" /\ backup' = IF backup = "running" THEN "stopped" ELSE backup
       [] OTHER -> FALSE
  /\ UNCHANGED <<clock, routes, caches, published, book, want, starting, vouched>>

Clock == clock < MaxClock /\ clock' = clock + 1
         /\ UNCHANGED <<routes, caches, published, book, want, backup, starting, stopping, vouched>>

Init ==
  /\ clock = 0 /\ routes = [u \in Underlyings |-> NewRoute] /\ caches = {} /\ published = {}
  /\ book = [c \in Contracts |-> "none"] /\ want = FALSE /\ backup = "idle" /\ starting = {}
  /\ stopping = "no" /\ vouched = [u \in Underlyings |-> FALSE]
Next == Quote \/ Snapshot \/ Status \/ Tick \/ StartBackup \/ StartFails \/ Stop \/ Clock

----------------------------------------------------------------------------
(* Once the active feed has vouched for an underlying's chain, no quote of the
   other feed is left in the book for it; no underlying waits on a backup that
   could not start; and once stop has returned the backup is not running and
   nobody is about to start it. *)
RoutesAccountedFor ==
  /\ \A u \in Underlyings : vouched[u] =>
       \A c \in ContractsOf(u) : book[c] \in {routes[u].active, "cleared", "none"}
  /\ backup = "failed" => \A u \in Underlyings : routes[u].active = "primary"
  /\ stopping = "stopped" => backup # "running" /\ starting = {}
=============================================================================
