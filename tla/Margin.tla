-------------------------------- MODULE Margin --------------------------------
(***************************************************************************)
(* Strategy margin (src/src/trading/margin.cpp, margin_exact.inc): what an *)
(* account must hold for its options and shares of one underlying, as the  *)
(* cheapest way to allocate every contract to a naked short, a pair or an  *)
(* expiry pool.                                                            *)
(*                                                                         *)
(* Three ways to that figure are modelled, and a definition to hold them   *)
(* against: the integer program whose optimum the solver certifies, the    *)
(* min-cost flow that replaces it for books of naked shorts, and the       *)
(* fallback when the solver gives up, which starts from several pairings   *)
(* and improves them by local moves.  The simplex steps and certificates   *)
(* inside the solver are not modelled: it answers the program's optimum or *)
(* gives up.  Money is in tenths of the price of one share times the lot,  *)
(* the unit of a pool's reserve; buy-back values are whole per contract.   *)
(***************************************************************************)
EXTENDS Integers, FiniteSetsExt, SequencesExt

CONSTANTS
  Series,     \* option contracts [kind, strike, expiry, value], value being the buy-back value of one
  Spot,       \* the underlying's price
  Types,      \* account types explored
  MaxSize,    \* bound: contracts of a series, or lots, held
  MaxHeld     \* bound: contracts and lots held together

VARIABLES
  account,    \* "margin", "ira" or "cash"
  holdings,   \* signed contracts held of each series
  lots,       \* signed lots of shares held
  groups,     \* the fallback's parts, which it improves; empty before it starts
  fixed       \* its parts with shares, which it leaves alone

vars == <<account, holdings, lots, groups, fixed>>

Magnitude(n) == IF n < 0 THEN -n ELSE n
Total(f(_), S) == MapThenSumSet(f, S)
Least(a, b) == IF a < b THEN a ELSE b
Most(a, b) == IF a < b THEN b ELSE a

-----------------------------------------------------------------------------
(* Units: what pairing and pooling hold apart *)

\* The naked requirement of one contract.
Need(s) ==
  LET otm == Most(0, IF s.kind = "call" THEN s.strike - Spot ELSE Spot - s.strike)
  IN  Most(2 * Spot - 10 * otm, IF s.kind = "call" THEN Spot ELSE s.strike)
\* What one contract, or one lot, of a short holds unpaired.
NakedOne(s) ==
  IF s.kind = "put" /\ account # "margin" THEN 10 * s.strike ELSE s.value + Need(s)
OptionUnit(s, q) ==
  [kind |-> s.kind, strike |-> s.strike, expiry |-> s.expiry, short |-> q < 0,
   value |-> s.value, naked |-> IF q < 0 THEN NakedOne(s) ELSE 0]
ShareUnit(kind, short) ==
  [kind |-> kind, strike |-> 0, expiry |-> 0, short |-> short, value |-> 10 * Spot,
   naked |-> IF short THEN 15 * Spot ELSE 0]
\* Short lots are a short a call protects and, in a margin account, a cover for a put.
LotUnits(q) ==
  IF q > 0 THEN {ShareUnit("lots", FALSE)}
  ELSE {ShareUnit("debt", short) : short \in IF q = 0 THEN {} ELSE IF account = "margin" THEN BOOLEAN ELSE {TRUE}}
\* A book: its units and how many of each, with q lots of shares.
Book(held, q) ==
  LET options == {s \in Series : held[s] # 0}
      series(u) == CHOOSE s \in options : OptionUnit(s, held[s]) = u
  IN  [u \in {OptionUnit(s, held[s]) : s \in options} \union LotUnits(q) |->
         Magnitude(IF u.kind \in {"lots", "debt"} THEN q ELSE held[series(u)])]

Option(u) == u.kind \in {"put", "call"}
ShortPut(u) == u.short /\ u.kind = "put"
\* A pair <<x, y>> has a short put or a long call (or long lots) first.
Straddled(p) == p[1].short /\ p[2].short
ShortOf(p) == IF p[1].short THEN p[1] ELSE p[2]
CoverOf(p) == IF p[1].short THEN p[2] ELSE p[1]
\* What one short holds with its cover.
Covered(s, c) ==
  CASE c.kind = "lots" -> 0
    [] c.kind = "debt" -> s.value
    [] OTHER -> 10 * Most(0, IF s.kind = "put" THEN s.strike - c.strike ELSE c.strike - s.strike)
Straddle(put, call) ==
  IF put.naked # call.naked
  THEN IF put.naked > call.naked THEN put.naked + call.value ELSE call.naked + put.value
  ELSE put.naked + Most(put.value, call.value)
PairCost(p) ==
  IF Straddled(p) THEN Straddle(p[1], p[2]) ELSE Least(Covered(ShortOf(p), CoverOf(p)), ShortOf(p).naked)
Covers(c, s) == ~Option(c) \/ ~Option(s) \/ c.expiry >= s.expiry
Vertical(p) == ~Straddled(p) /\ Option(p[1]) /\ Option(p[2])

Intrinsic(u, spot) == 10 * Most(0, IF u.kind = "call" THEN spot - u.strike ELSE u.strike - spot)
Payoff(u, spot) == IF u.short THEN -Intrinsic(u, spot) ELSE Intrinsic(u, spot)
\* The worst loss at expiry of legs, each a [unit, n], among the given prices.
WorstLoss(legs, spots) ==
  Max({0} \union {-Total(LAMBDA h : Payoff(h.unit, spot) * h.n, legs) : spot \in spots})
StrikesOf(legs) == {0} \union {h.unit.strike : h \in legs}
CallSlope(legs) == Total(LAMBDA h : IF h.unit.kind # "call" THEN 0 ELSE IF h.unit.short THEN -h.n ELSE h.n, legs)

-----------------------------------------------------------------------------
(* Pairing by a min-cost flow *)

XUnits(book) == {u \in DOMAIN book : ShortPut(u) \/ (~u.short /\ u.kind \in {"call", "lots"})}
YUnits(book) == DOMAIN book \ XUnits(book)
Saving(p) == p[1].naked + p[2].naked - PairCost(p)
Pairable(p, spreads, straddles) ==
  /\ IF Straddled(p) THEN straddles /\ p[2].kind = "call"
     ELSE /\ ShortPut(p[1]) \/ p[2].short
          /\ Covers(CoverOf(p), ShortOf(p))
          /\ spreads \/ ~Vertical(p)
  /\ Saving(p) > 0

\* What of a unit no pair takes.
Left(book, flow, u) == book[u] - Total(LAMBDA p : IF u \in {p[1], p[2]} THEN flow[p] ELSE 0, DOMAIN flow)
\* Mutation: a pair once taken is never given back.
RelaxedForward(book, flow, reach) ==
  LET ways(n) ==
        {[path |-> <<<<p, 1>>>>, cost |-> -Saving(p)] :
           p \in {q \in DOMAIN flow : q[2] = n /\ q[1] \in DOMAIN reach /\ flow[q] < Least(book[q[1]], book[q[2]])}}
      best(n) == IF n \in DOMAIN reach THEN reach[n] ELSE CHOOSE w \in ways(n) : \A v \in ways(n) : w.cost <= v.cost
  IN  [n \in DOMAIN reach \union {m \in DOMAIN book : ways(m) # {}} |-> best(n)]
\* One round of relaxing every arc: a pair forwards while it has room, backwards while it carries.
Relaxed(book, flow, reach) ==
  LET arcs(n) ==
        {[path |-> Append(reach[p[1]].path, <<p, 1>>), cost |-> reach[p[1]].cost - Saving(p)] :
           p \in {q \in DOMAIN flow : q[2] = n /\ q[1] \in DOMAIN reach /\ flow[q] < Least(book[q[1]], book[q[2]])}}
        \union
        {[path |-> Append(reach[p[2]].path, <<p, -1>>), cost |-> reach[p[2]].cost + Saving(p)] :
           p \in {q \in DOMAIN flow : q[1] = n /\ q[2] \in DOMAIN reach /\ flow[q] > 0}}
      best(n) ==
        LET ways == arcs(n) \union (IF n \in DOMAIN reach THEN {reach[n]} ELSE {})
            cost == Min({w.cost : w \in ways})
        IN  IF n \in DOMAIN reach /\ reach[n].cost = cost THEN reach[n] ELSE CHOOSE w \in ways : w.cost = cost
  IN  [n \in DOMAIN reach \union {m \in DOMAIN book : arcs(m) # {}} |-> best(n)]
RECURSIVE Relaxation(_, _, _)
Relaxation(book, flow, reach) ==
  LET next == Relaxed(book, flow, reach)
  IN  IF next = reach THEN reach ELSE Relaxation(book, flow, next)
\* The flows one augmentation makes: along a cheapest path that still saves something.
Augmentations(book, flow, reach) ==
  LET ends == {y \in YUnits(book) \intersect DOMAIN reach : Left(book, flow, y) > 0}
      cheapest == {y \in ends : reach[y].cost < 0 /\ \A z \in ends : reach[y].cost <= reach[z].cost}
      room(arc) == IF arc[2] > 0 THEN Least(book[arc[1][1]], book[arc[1][2]]) - flow[arc[1]] ELSE flow[arc[1]]
      along(path, p, push) == IF <<p, 1>> \in path THEN push ELSE IF <<p, -1>> \in path THEN -push ELSE 0
      pushed(path, push) == [p \in DOMAIN flow |-> flow[p] + along(path, p, push)]
      spare(y, from) == {Left(book, flow, from), Left(book, flow, y)}
      pushes(y, path) == {pushed(Range(path), push) :
                            push \in {Min(spare(y, path[1][1][1]) \union {room(arc) : arc \in Range(path)})}}
  IN  UNION {pushes(y, reach[y].path) : y \in cheapest}
RECURSIVE Augmented(_, _)
Augmented(book, flow) ==
  LET open == {x \in XUnits(book) : Left(book, flow, x) > 0}
      sources == {[u \in open |-> [path |-> <<>>, cost |-> 0]]}
      more == UNION {Augmentations(book, flow, reach) : reach \in {Relaxation(book, flow, s) : s \in sources}}
  IN  IF more = {} THEN flow ELSE Augmented(book, CHOOSE next \in more : TRUE)
PairUnits(book, spreads, straddles) ==
  LET none == [p \in {q \in XUnits(book) \X YUnits(book) : Pairable(q, spreads, straddles)} |-> 0]
  IN  CHOOSE best \in {Augmented(book, flow) : flow \in {none}} : TRUE

-----------------------------------------------------------------------------
(* What pairings hold, part by part *)

Part(legs, cost) == [legs |-> {h \in legs : h.n > 0}, cost |-> cost]
PairPart(p, n) == Part({[unit |-> p[1], n |-> n], [unit |-> p[2], n |-> n]}, PairCost(p) * n)
Cost(parts) == Total(LAMBDA q : q.cost, parts)
Unpaired(book, flow) == {[unit |-> u, n |-> Left(book, flow, u)] : u \in {v \in DOMAIN book : Left(book, flow, v) > 0}}
Single(h) == Part({h}, h.unit.naked * h.n)
Expiries(legs) == {h.unit.expiry : h \in legs}

\* n more of a unit among legs, or fewer.
Changed(legs, u, n) ==
  LET had == Total(LAMBDA h : IF h.unit = u THEN h.n ELSE 0, legs)
  IN  {h \in legs : h.unit # u} \union (IF had + n = 0 THEN {} ELSE {[unit |-> u, n |-> had + n]})
Joined(legs, more) == FoldSet(LAMBDA h, g : Changed(g, h.unit, h.n), legs, more)
Pool(legs) == Part(legs, WorstLoss(legs, StrikesOf(legs)))
Together(parts) == FoldSet(LAMBDA q, legs : Joined(legs, q.legs), {}, parts)
\* Parts, or the one pool of their legs when it holds less.
Cheaper(pool, parts) == IF pool.cost < Cost(parts) THEN {pool} ELSE parts
PooledOrApart(parts) == UNION {Cheaper(pool, parts) : pool \in {Pool(legs) : legs \in {Together(parts)}}}

\* The pairs of a flow, those whose shorts expire together at most their worst loss with
\* that expiry's unpaired longs, and every short of `rest' naked.
Across(flow, rest) ==
  LET pairs == {p \in DOMAIN flow : flow[p] > 0}
      at(t) == [pairs |-> {p \in pairs : Vertical(p) /\ ShortOf(p).expiry = t},
                longs |-> {h \in rest : Option(h.unit) /\ ~h.unit.short /\ h.unit.expiry = t}]
      apart(e) == {PairPart(p, flow[p]) : p \in e.pairs} \union {Single(h) : h \in e.longs}
  IN  {PairPart(p, flow[p]) : p \in {q \in pairs : ~Vertical(q)}}
      \union UNION {PooledOrApart(parts) : parts \in {apart(e) : e \in {at(s.expiry) : s \in Series}}}
      \union {Single(h) : h \in {g \in rest : g.unit.short}}
AcrossAll(book, spreads, straddles) ==
  UNION {Across(flow, Unpaired(book, flow)) : flow \in {PairUnits(book, spreads, straddles)}}
Legs(book) == {[unit |-> u, n |-> book[u]] : u \in DOMAIN book}
BookOf(legs) == [u \in {h.unit : h \in legs} |-> (CHOOSE h \in legs : h.unit = u).n]
\* Each expiry on its own: its verticals and naked shorts, or its worst loss if that is
\* bounded and less; shares cover nothing.
Separate(legs) ==
  LET options == {h \in legs : Option(h.unit)}
      expiring == {{h \in options : h.unit.expiry = t} : t \in Expiries(options)}
      parts(book, flow) == {PairPart(p, flow[p]) : p \in {q \in DOMAIN flow : flow[q] > 0}}
                           \union {Single(h) : h \in Unpaired(book, flow)}
      paired(book) == {parts(book, flow) : flow \in {PairUnits(book, TRUE, FALSE)}}
      held(group, apart) == IF CallSlope(group) >= 0 THEN Cheaper(Pool(group), apart) ELSE apart
  IN  UNION UNION {{held(g, apart) : apart \in UNION {paired(book) : book \in {BookOf(g)}}} : g \in expiring}
      \union {Single(h) : h \in {g \in legs : g.unit.short /\ ~Option(g.unit)}}
\* Shares take the pairs that save most on their own, then each expiry the rest.
SharesFirst(book) ==
  LET left(flow) == [shares |-> {h \in Unpaired(book, flow) : ~Option(h.unit)},
                     options |-> {h \in Unpaired(book, flow) : Option(h.unit)}]
  IN  UNION UNION {{Across(flow, rest.shares) \union Separate(rest.options) : rest \in {left(flow)}} :
                   flow \in {PairUnits(book, FALSE, FALSE)}}

-----------------------------------------------------------------------------
(* The integer program *)

\* Pairs the program has a variable for; option verticals are pools of two.
Pairs(book) ==
  LET legal(p) ==
        IF Straddled(p) THEN account = "margin" /\ p[2].kind = "call"
        ELSE CASE ShortPut(p[1]) -> p[2].kind = "debt"
               [] p[2].short /\ p[2].kind = "call" -> p[1].kind = "lots"
               [] p[2].short /\ p[2].kind = "debt" -> p[1].kind = "call"
               [] OTHER -> FALSE
  IN  {p \in XUnits(book) \X YUnits(book) : legal(p) /\ Saving(p) > 0}
Matchings(book) ==
  {m \in [Pairs(book) -> 0..MaxSize] : \A u \in DOMAIN book : Left(book, m, u) >= 0}
\* A pool for every expiry of a short option.
Pools(book) ==
  IF account = "cash" THEN {} ELSE {u.expiry : u \in {v \in DOMAIN book : Option(v) /\ v.short}}
\* The ways to place n of a unit in pools: a short in its own expiry's, a long in any of its expiry or earlier.
Placings(u, n, pools) ==
  LET open == {t \in pools : IF u.short THEN u.expiry = t ELSE u.expiry >= t}
      into(f) == {[unit |-> u, pool |-> t, n |-> f[t]] : t \in {r \in open : f[r] > 0}}
  IN  {into(f) : f \in {g \in [open -> 0..n] : Total(LAMBDA t : g[t], open) <= n}}
RECURSIVE Placed(_, _)
Placed(legs, pools) ==
  IF legs = {} THEN {{}}
  ELSE LET h == CHOOSE g \in legs : TRUE
       IN  {a \union b : a \in Placings(h.unit, h.n, pools), b \in Placed(legs \ {h}, pools)}
\* Prices at which a pool's worst loss is sought: a short strike cannot be the worst.
Spots(book, t) == {0} \union {u.strike : u \in {v \in DOMAIN book : Option(v) /\ ~v.short /\ v.expiry >= t}}
Feasible(placing) == \A t \in {h.pool : h \in placing} : CallSlope({h \in placing : h.pool = t}) >= 0
Allocated(book, matching, placing) ==
  LET pooled(u) == Total(LAMBDA h : IF h.unit = u THEN h.n ELSE 0, placing)
  IN  Total(LAMBDA p : matching[p] * PairCost(p), DOMAIN matching)
      + Total(LAMBDA u : u.naked * (Left(book, matching, u) - pooled(u)), DOMAIN book)
      + Total(LAMBDA t : WorstLoss({h \in placing : h.pool = t}, Spots(book, t)), {h.pool : h \in placing})
Exact(book) ==
  Min(UNION {{Allocated(book, m, a) :
                a \in {b \in Placed({h \in Unpaired(book, m) : Option(h.unit)}, Pools(book)) : Feasible(b)}} :
             m \in Matchings(book)})
\* Naked shorts alone in a margin account pair only as straddles: the flow is exact.
ShortsOnly(book) ==
  /\ account = "margin"
  /\ \A u \in DOMAIN book : u.short /\ Option(u) /\ (u.kind = "put" => u.naked <= 10 * u.strike)
Requirement(book) == IF ShortsOnly(book) THEN Cost(AcrossAll(book, TRUE, TRUE)) ELSE Exact(book)

-----------------------------------------------------------------------------
(* What the rules say: the least over every legal partition of the contracts *)

Tokens(book) == UNION {{[unit |-> u, i |-> i] : i \in 1..book[u]} : u \in DOMAIN book}
GroupCosts(group) ==
  LET units == {g.unit : g \in group}
      legs == {[unit |-> u, n |-> Cardinality({g \in group : g.unit = u})] : u \in units}
      shorts == {u \in units : u.short}
      alone == {g.unit.naked : g \in IF Cardinality(group) = 1 THEN group ELSE {}}
      straddles == {Straddle(p, c) : p \in {u \in shorts : u.kind = "put"}, c \in {u \in shorts : u.kind = "call"}}
      covers == {CASE s.kind = "call" /\ c.kind = "lots" -> 0
                   [] s.kind = "put" /\ c.kind = "debt" -> s.value
                   [] s.kind = "debt" /\ c.kind = "call" -> 10 * c.strike
                   [] OTHER -> -1 : s \in shorts, c \in units \ shorts}
      pool == /\ account # "cash" /\ \A u \in units : Option(u)
              /\ \E t \in {s.expiry : s \in shorts} :
                   \A u \in units : IF u.short THEN u.expiry = t ELSE u.expiry >= t
              /\ CallSlope(legs) >= 0
  IN  alone
      \union (IF Cardinality(group) = 2
              THEN (IF account = "margin" THEN straddles ELSE {}) \union (covers \ {-1}) ELSE {})
      \union (IF pool THEN {WorstLoss(legs, StrikesOf(legs))} ELSE {})
RECURSIVE LeastOf(_)
LeastOf(tokens) ==
  IF tokens = {} THEN 0
  ELSE LET first == CHOOSE g \in tokens : TRUE
       IN  Min(UNION {{c + LeastOf(tokens \ ({first} \union rest)) : c \in GroupCosts({first} \union rest)} :
                      rest \in SUBSET (tokens \ {first})})
LeastRequirement(book) == LeastOf(Tokens(book))

-----------------------------------------------------------------------------
(* The fallback: parts improved by local moves, each a legal allocation *)

\* The pair two holdings can make: a straddle, or a vertical whose long lasts.
PairOf(h, k) ==
  LET s == IF h.unit.short THEN h.unit ELSE k.unit
      c == IF h.unit.short THEN k.unit ELSE h.unit
  IN  IF ~s.short THEN {}
      ELSE IF c.short THEN IF account = "margin" /\ s.kind # c.kind THEN {IF s.kind = "put" THEN <<s, c>> ELSE <<c, s>>} ELSE {}
      ELSE IF s.kind = c.kind /\ c.expiry >= s.expiry THEN {IF s.kind = "put" THEN <<s, c>> ELSE <<c, s>>} ELSE {}
ShortsCost(legs) == Total(LAMBDA h : h.unit.naked * h.n, legs)
\* Of two holdings their pair; of three, the pair that saves most beside one that stays.
BestPair(legs) ==
  LET made == UNION {{[pair |-> p, n |-> Least(h.n, k.n)] : p \in PairOf(h, k)} :
                     h \in legs, k \in legs}
      saved(m) == m.n * Saving(m.pair)
      real == {m \in made : m.pair[1] # m.pair[2]}
  IN  IF Cardinality(legs) \notin {2, 3} \/ real = {} THEN {}
      ELSE {CHOOSE m \in real : \A k \in real : saved(m) >= saved(k)}
PairedIn(m, u) == IF u \in {m.pair[1], m.pair[2]} THEN m.n ELSE 0
\* Mutation: a pool counts longs that expire before its shorts.
ScoreAnyLong(legs) ==
  LET shorts == {h \in legs : h.unit.short}
      loss == WorstLoss(legs, StrikesOf(legs))
  IN  IF Cardinality(Expiries(shorts)) = 1 /\ CallSlope(legs) >= 0 /\ loss < ShortsCost(legs)
      THEN [legs |-> legs, cost |-> loss, kind |-> "worst_loss"]
      ELSE [legs |-> legs, cost |-> ShortsCost(legs), kind |-> "naked"]
Score(legs) ==
  LET naked == ShortsCost(legs)
      shorts == {h \in legs : h.unit.short}
      paired == {m.n * PairCost(m.pair) + Total(LAMBDA h : h.unit.naked * (h.n - PairedIn(m, h.unit)), shorts) : m \in BestPair(legs)}
      best == Min({naked} \union paired)
      pool == /\ \E t \in Expiries(shorts) :
                   \A h \in legs : IF h.unit.short THEN h.unit.expiry = t ELSE h.unit.expiry >= t
              /\ CallSlope(legs) >= 0
      loss == WorstLoss(legs, StrikesOf(legs))
  IN  IF pool /\ loss < best THEN [legs |-> legs, cost |-> loss, kind |-> "worst_loss"]
      ELSE [legs |-> legs, cost |-> best, kind |-> IF best \in paired THEN "paired" ELSE "naked"]
\* Equal-cost merges keep no naked short from a later pool, nor a long that expires too soon.
Stages(legs) ==
  \E m \in BestPair(legs) :
    /\ \A h \in legs : h.unit.short => h.n = PairedIn(m, h.unit)
    /\ \A h, k \in legs : (h.unit.short /\ ~k.unit.short) => k.unit.expiry >= h.unit.expiry
\* Whether groups a and b may become the scored left and right.
Accepts(a, b, left, right, merge) ==
  LET before == groups[a].cost + groups[b].cost
      after == left.cost + right.cost
  IN  \/ after < before
      \/ after = before /\ merge /\ CASE left.kind = "naked" -> FALSE
                                       [] left.kind = "worst_loss" -> TRUE
                                       [] OTHER -> Stages(left.legs)
\* What is left of a group.
Without(legs, gone) == FoldSet(LAMBDA h, g : Changed(g, h.unit, -h.n), legs, gone)
\* What leaves a group and what comes back: a tranche, an exchange, or two holdings together.
Moves(legs, other) ==
  LET tranche(h, n) == [unit |-> h.unit, n |-> n]
      transfers(h) == {<<{tranche(h, n)}, {}>> : n \in {h.n, 1}}
      exchanges(h, k) == {<<{tranche(h, n)}, {tranche(k, n)}>> : n \in {Least(h.n, k.n), 1}}
      bundles(h, k) == {<<{tranche(h, n), tranche(k, n)}, {}>> : n \in {Least(h.n, k.n), 1}}
                       \union (IF Cardinality(legs) > 2 THEN {<<{h, k}, {}>>} ELSE {})
  IN  UNION ({transfers(h) : h \in legs}
             \union {exchanges(q[1], q[2]) : q \in {r \in legs \X other : r[1].unit # r[2].unit}}
             \union {bundles(q[1], q[2]) : q \in {r \in legs \X legs : r[1].unit # r[2].unit}})

(* Starts of the fallback: the pairings, each a legal allocation of the whole book. *)
Starts(book) ==
  LET straddles == account = "margin" /\ {"put", "call"} \subseteq {u.kind : u \in {v \in DOMAIN book : v.short}}
      ways == {<<account # "cash", FALSE>>} \union (IF straddles THEN {<<TRUE, TRUE>>} ELSE {})
  IN  {AcrossAll(book, way[1], way[2]) : way \in ways}
      \union (IF account = "cash" THEN {} ELSE {Separate(legs) : legs \in {Legs(book)}})
      \union (IF account = "cash" \/ lots = 0 THEN {} ELSE {SharesFirst(book)})

-----------------------------------------------------------------------------
(* What an account may not hold: the shorts that nothing covers *)

\* The latest-expiring shorts take the earliest long that still covers them.
RECURSIVE NakedShorts(_, _)
NakedShorts(shorts, longs) ==
  IF DOMAIN shorts = {} THEN 0
  ELSE LET t == Max(DOMAIN shorts)
           before(l) == Total(LAMBDA k : longs[k], {k \in DOMAIN longs : t <= k /\ k < l})
           takes(l) == IF l < t THEN 0 ELSE Most(0, Least(longs[l], shorts[t] - before(l)))
       IN  shorts[t] - Total(takes, DOMAIN longs)
           + NakedShorts(Restrict(shorts, DOMAIN shorts \ {t}), [l \in DOMAIN longs |-> longs[l] - takes(l)])
Calls(book, short) == {u \in DOMAIN book : u.kind = "call" /\ u.short = short}
ByExpiry(book, units) == [t \in {u.expiry : u \in units} |-> Total(LAMBDA u : IF u.expiry = t THEN book[u] ELSE 0, units)]
DisallowedShorts(book) ==
  LET naked == IF account = "ira" THEN NakedShorts(ByExpiry(book, Calls(book, TRUE)), ByExpiry(book, Calls(book, FALSE)))
               ELSE Total(LAMBDA u : book[u], Calls(book, TRUE))
  IN  IF account = "margin" THEN 0 ELSE Most(0, naked - Most(0, lots)) + Most(0, -lots)
-----------------------------------------------------------------------------
(* Actions *)

Init ==
  /\ account \in Types
  /\ holdings = [s \in Series |-> 0] /\ lots = 0
  /\ groups = <<>> /\ fixed = {}
Held == Total(LAMBDA s : Magnitude(holdings[s]), Series) + Magnitude(lots)
Within(n) == Magnitude(n) <= MaxSize
\* A contract or a lot is bought, sold or delivered; a delivery may leave what an order may not.
Trade(s, n) ==
  /\ groups = <<>> /\ Held < MaxHeld /\ Within(holdings[s] + n)
  /\ holdings' = [holdings EXCEPT ![s] = @ + n]
  /\ UNCHANGED <<account, lots, groups, fixed>>
TradeShares(n) ==
  /\ groups = <<>> /\ Held < MaxHeld /\ Within(lots + n)
  /\ lots' = lots + n
  /\ UNCHANGED <<account, holdings, groups, fixed>>
\* The solver gives up and the fallback takes one of its starts.
Start ==
  /\ groups = <<>> /\ account # "cash"
  /\ Cardinality({s \in Series : holdings[s] # 0}) > 2
  /\ \E starts \in {Starts(Book(holdings, lots))} :
       /\ \A start \in starts : Cost(start) > 0
       /\ \E start \in starts :
            LET free == {q \in start : \A h \in q.legs : Option(h.unit)}
            IN  groups' = SetToSeq(free) /\ fixed' = start \ free
  /\ UNCHANGED <<account, holdings, lots>>
\* Two groups become two others; one left empty is gone.
Becomes(a, b, left, right) ==
  LET next == [groups EXCEPT ![a] = Part(left.legs, left.cost), ![b] = Part(right.legs, right.cost)]
  IN  groups' = SelectSeq(next, LAMBDA q : q.legs # {})
Merges ==
  LET merged(a, b) == Score(Joined(groups[a].legs, groups[b].legs))
  IN  {m \in {<<a, b, merged(a, b)>> : a, b \in 1..Len(groups)} :
         m[1] < m[2] /\ Accepts(m[1], m[2], m[3], Score({}), TRUE)}
Merge ==
  /\ \E m \in Merges : Becomes(m[1], m[2], m[3], Score({}))
  /\ UNCHANGED <<account, holdings, lots, fixed>>
Move ==
  /\ Merges = {}
  /\ \E a, b \in 1..Len(groups) :
       /\ a # b /\ groups[a].cost + groups[b].cost > 0
       /\ \E m \in Moves(groups[a].legs, groups[b].legs) :
            \E left \in {Score(Joined(Without(groups[a].legs, m[1]), m[2]))},
               right \in {Score(Joined(Without(groups[b].legs, m[2]), m[1]))} :
              Accepts(a, b, left, right, FALSE) /\ Becomes(a, b, left, right)
  /\ UNCHANGED <<account, holdings, lots, fixed>>
Next ==
  \/ \E s \in Series, n \in {-1, 1} : Trade(s, n)
  \/ \E n \in {-1, 1} : TradeShares(n)
  \/ Start \/ Merge \/ Move
Spec == Init /\ [][Next]_vars

-----------------------------------------------------------------------------
(* The pairing's flow saves as much as any pairing within the book could (margin.cpp:164):
   found path by path, and never worse for the order in which pairs were taken. *)
FlowIsBest(book) ==
  \A spreads, straddles \in BOOLEAN :
    LET saved(m) == Total(LAMBDA p : m[p] * Saving(p), DOMAIN m)
    IN  \A flow \in {PairUnits(book, spreads, straddles)} : \A m \in [DOMAIN flow -> 0..MaxSize] :
          (\A u \in DOMAIN book : Left(book, m, u) >= 0) => saved(m) <= saved(flow)
(* What an account may not hold is counted with the longs and shares covering all they can. *)
CountIsLeast(book) ==
  LET pairs == {p \in Calls(book, TRUE) \X Calls(book, FALSE) : account = "ira" /\ Covers(p[2], p[1])}
      covered == Max({Total(LAMBDA p : m[p], pairs) :
                      m \in {n \in [pairs -> 0..MaxSize] : \A u \in DOMAIN book : Left(book, n, u) >= 0}})
      shorts == Total(LAMBDA u : book[u], Calls(book, TRUE))
  IN  account # "margin" => DisallowedShorts(book) = Most(0, shorts - covered - Most(0, lots)) + Most(0, -lots)
(* The requirement published as exact is the least over all legal allocations of whole
   contracts (docs/margin-allocation.md:26), the flow it and the fallback pair by is the best
   pairing, and the count of what an account may not hold is the least too: a long that
   covers a later short or a price left out of a pool would hold too little, a pairing found
   too early too much. *)
RequirementIsLeast ==
  groups = <<>> =>
    \A book \in {Book(holdings, lots)} :
      Requirement(book) = LeastRequirement(book) /\ FlowIsBest(book) /\ CountIsLeast(book)
(* When the solver gives up, what the fallback holds is never less than the rules allow and
   never loses a contract, from whichever start and after whatever moves its budget cuts short
   (margin.cpp:404). *)
FallbackIsLegal ==
  \A book \in {Book(holdings, lots)} :
    LET parts == SetToSeq(fixed) \o groups
        kept(u) == Total(LAMBDA i : Total(LAMBDA h : IF h.unit = u THEN h.n ELSE 0, parts[i].legs), 1..Len(parts))
    IN  IF groups = <<>>
        THEN \A start \in Starts(book) : Cost(start) >= LeastRequirement(book)
        ELSE /\ Total(LAMBDA i : parts[i].cost, 1..Len(parts)) >= LeastRequirement(book)
             /\ \A u \in DOMAIN book : Option(u) => kept(u) = book[u]
=============================================================================
