---------------------------- MODULE OrdersProofs ----------------------------
(***************************************************************************)
(* The orders of a session, for any requests the program accepts, any      *)
(* prices and sizes, and any number of orders: pairs fill once, no         *)
(* trigger is passed over, and, where no order walks, what is chained is   *)
(* placed exactly once.                                                    *)
(*                                                                         *)
(* A transaction is a composition of functions on the state, several of    *)
(* them passes over the list of orders, which grows while they run.  The   *)
(* proof follows it from the inside out, with one or a few lemmas for each *)
(* function of Orders.  A lemma says what its function does to a state in  *)
(* the words of two relations: Rests, where nothing fills, and Works, what *)
(* a fill and all that follows it may do.  Both keep the state well formed *)
(* (Sound) and move every order onward only (Onward); both are transitive, *)
(* so that a pass keeps them when its step does.                           *)
(*                                                                         *)
(* Pairs.  Orders that are partners name each other (Linked), so that the  *)
(* one that fills ends the other before anything else is visited.  What    *)
(* this needs of the exits is that they never ask for more than the        *)
(* position (Fits), which following the position restores after each fill. *)
(*                                                                         *)
(* Triggers.  A pass visits the orders in turn, and those added on the way *)
(* come last.  What was visited stays unreached: nothing arms an order     *)
(* again but a stop exit that used up the displayed size, and sizes only   *)
(* shrink (Visited).                                                       *)
(*                                                                         *)
(* Chains.  The hard part is that a later step must not fill an order that *)
(* the pass which places chained orders has left behind.  After a command  *)
(* every order but an exit is calm: it ended, or its side of the book is   *)
(* empty or too dear, or its trigger is out of reach; and a calm order     *)
(* stays so while the price does (AdvanceAt).  A limit that walks is not   *)
(* calm, and where one walks the program does lose a chained order.        *)
(*                                                                         *)
(* A pass is a function of the orders visited, by recursion.  Its facts    *)
(* follow from the least visit at which they would fail (LeastNumber).     *)
(***************************************************************************)
EXTENDS Orders, TLAPS, FiniteSetTheorems, WellFoundedInduction

-----------------------------------------------------------------------------
(* The invariants *)

\* The types: what an order and the session's state may be.
Reasons == {"NONE", "KILL_SWITCH", "DAILY_LOSS", "MANUAL", "POSITION_CLOSED", "OCO_FILLED", "RISK_CHANGED",
            "IOC_REMAINDER", "USER_CANCEL", "INVALID_ORDER", "STOP_REQUIRED"}
OrderRecords ==
  [req : RequestRecords, filled : Nat, status : Statuses, reason : Reasons, role : Roles,
   parent : Nat, oco : Nat, stop : Nat, target : Nat, reduceOnly : BOOLEAN, chained : Nat, from : Nat]
StateRecords ==
  [orders : Seq(OrderRecords), held : Int, cash : Int, price : Int, bid : Nat, ask : Nat,
   kill : Reasons, walked : BOOLEAN, atQuote : BOOLEAN, quoted : Nat]

\* An order on its own: an open one has something left, an armed one a trigger; an
\* exit chains and walks nothing; an entry's exits are those its bracket asks for.
Proper(o) ==
  /\ IsOpen(o) => o.filled < o.req.qty
  /\ o.status = "Armed" => o.req.trigger # None
  /\ o.role # "Normal" => /\ o.req.then = None /\ o.req.walk = None
                          /\ o.req.ioc => o.req.limit = 0
                          /\ o.req.bracket = None \/ o.req.exitsOnly
  /\ o.role = "Normal" /\ o.req.bracket # None /\ ~o.req.exitsOnly =>
       /\ o.stop # NoOrder => o.req.bracket[1].stop # None
       /\ o.target # NoOrder => o.req.bracket[1].target # None
       /\ o.req.bracket[1].stop # None /\ o.req.bracket[1].target # None => (o.stop = NoOrder <=> o.target = NoOrder)

Ids(s) == 1..Len(s.orders)
\* An order among the others: partners name each other and are of one kind; an
\* entry's exits and an exit's entry exist.
Linked(s, id) ==
  LET o == s.orders[id]
  IN  /\ o.oco # NoOrder => /\ o.oco \in Ids(s) /\ o.oco # id /\ s.orders[o.oco].oco = id
                         /\ (o.role = "Normal" <=> s.orders[o.oco].role = "Normal")
      /\ o.parent # NoOrder => o.parent \in Ids(s)
      /\ o.role = "Normal" =>
           /\ o.stop # NoOrder => o.stop \in Ids(s) /\ s.orders[o.stop].role # "Normal"
           /\ o.target # NoOrder => o.target \in Ids(s) /\ s.orders[o.target].role # "Normal"
\* What may only close never asks for more than the position.
Fits(s, id) ==
  LET o == s.orders[id] IN IsOpen(o) /\ KeptWithin(o) => Remaining(o) <= ExitCapacity(s, o.req.side)

Shaped(s) == s \in StateRecords /\ \A id \in Ids(s) : Proper(s.orders[id]) /\ Linked(s, id)
Sound(s) == Shaped(s) /\ \A id \in Ids(s) : Fits(s, id)

\* The parts of the properties of Orders, one order at a time.
PairHolds(s, id) ==
  LET o == s.orders[id]
  IN  o.role = "Normal" /\ o.oco # NoOrder /\ o.filled > 0 => s.orders[o.oco].filled = 0 /\ ~IsOpen(s.orders[o.oco])
Paired(s) == \A id \in Ids(s) : PairHolds(s, id)

Unreached(s, id) ==
  LET o == s.orders[id]
  IN  o.status = "Armed" /\ Reached(s, o) => o.role # "Normal" /\ o.req.ioc /\ Depth(s, o.req.side) = 0
AllUnreached(s) == \A id \in Ids(s) : Unreached(s, id)

\* An order that matching has nothing left to do for; and one, not an exit, that
\* neither matching nor its trigger moves until the next quote.
Swept(s, id) ==
  LET o == s.orders[id]
  IN  ~IsOpen(o) \/ (o.status # "Armed" /\ (Depth(s, o.req.side) = 0 \/ ~Marketable(s, o)))
Settled(s, id) == Swept(s, id) \/ s.orders[id].status = "Armed"
Calm(s, id) ==
  LET o == s.orders[id]
  IN  o.role = "Normal" /\ (Swept(s, id) \/ (o.status = "Armed" /\ ~Reached(s, o)))
AllCalm(s) == \A id \in Ids(s) : s.orders[id].role = "Normal" => Calm(s, id)

\* Who placed whom is recorded on both sides, and only once.
ChainSound(s) == \A id \in Ids(s) :
  LET o == s.orders[id]
  IN  /\ o.chained # NoOrder => /\ o.status = "Filled" /\ o.req.then # None /\ o.chained \in Ids(s)
                             /\ s.orders[o.chained].from = id /\ o.chained > id
      /\ o.from # NoOrder => o.from \in Ids(s) /\ s.orders[o.from].chained = id
Placed(s, id) ==
  s.orders[id].status = "Filled" /\ s.orders[id].req.then # None => s.orders[id].chained # NoOrder

\* The inductive invariant of every account.
OrdersInv == config \in Accounts /\ Sound(book) /\ Paired(book) /\ AllUnreached(book)
\* And what accounts without walking orders keep besides: no order but an exit may
\* move until the next quote, and every chain is placed.
ChainsInv == /\ \A r \in OrderRequests : r.walk = None
        /\ ~book.walked /\ AllCalm(book) /\ ChainSound(book) /\ \A id \in Ids(book) : Placed(book, id)

-----------------------------------------------------------------------------
(* Relations between states *)
SameBook(s, t) ==
  t.held = s.held /\ t.price = s.price /\ t.bid = s.bid /\ t.ask = s.ask
  /\ t.walked = s.walked /\ t.atQuote = s.atQuote /\ t.quoted = s.quoted
SameTerms(q, r) ==
  /\ r.side = q.side /\ r.limit = q.limit /\ r.ioc = q.ioc /\ r.trigger = q.trigger
  /\ r.bracket = q.bracket /\ r.exitsOnly = q.exitsOnly /\ r.then = q.then /\ r.walk = q.walk
SameLinks(o, p) ==
  /\ p.oco = o.oco /\ p.parent = o.parent /\ p.stop = o.stop /\ p.target = o.target
  /\ p.chained = o.chained /\ p.from = o.from
OneChanged(s, t, id, o) ==
  /\ t \in StateRecords /\ SameBook(s, t) /\ Len(t.orders) = Len(s.orders) /\ t.orders[id] = o
  /\ \A other \in Ids(s) : other # id => t.orders[other] = s.orders[other]
OneAdded(s, t, o) ==
  /\ t \in StateRecords /\ SameBook(s, t) /\ Len(t.orders) = Len(s.orders) + 1
  /\ t.orders[Len(s.orders) + 1] = o
  /\ \A other \in Ids(s) : t.orders[other] = s.orders[other]

\* How an order moves on within one price: its terms stay, an ended one stays as it
\* is, none is armed anew, and a calm one stays calm and fills no more.
Advance(o, p) ==
  /\ SameTerms(o.req, p.req) /\ p.role = o.role /\ p.reduceOnly = o.reduceOnly
  /\ ~IsOpen(o) => p.status = o.status /\ p.filled = o.filled
  /\ p.status = "Armed" => o.status = "Armed"
  /\ o.role = "Normal" => p.oco = o.oco
AdvanceAt(s, t, id) ==
  /\ Advance(s.orders[id], t.orders[id])
  /\ Calm(s, id) => /\ t.orders[id].filled = s.orders[id].filled /\ Calm(t, id)
                    /\ t.orders[id].status = "Filled" => s.orders[id].status = "Filled"
Onward(s, t) ==
  /\ t.price = s.price /\ t.walked = s.walked /\ t.atQuote = s.atQuote /\ t.quoted = s.quoted
  /\ t.bid <= s.bid /\ t.ask <= s.ask /\ Len(s.orders) <= Len(t.orders)
  /\ \A id \in Ids(s) : AdvanceAt(s, t, id)
NotChained(o) == o.chained = NoOrder /\ o.from = NoOrder
\* Orders added on the way are exits, and chain nothing.
Fresh(s, t) ==
  /\ \A id \in Ids(s) : t.orders[id].chained = s.orders[id].chained /\ t.orders[id].from = s.orders[id].from
  /\ \A id \in Ids(t) : id > Len(s.orders) => t.orders[id].role # "Normal" /\ NotChained(t.orders[id])
Plain(s) == \A id \in Ids(s) : IsOpen(s.orders[id]) => s.orders[id].req.bracket = None \/ s.orders[id].req.exitsOnly
\* Without brackets on open orders, nothing is added; and no armed order starts.
Steady(s, t) ==
  /\ Plain(s) => Len(t.orders) = Len(s.orders)
  /\ \A id \in Ids(s) : s.orders[id].status = "Armed" => t.orders[id].status = "Armed" \/ ~IsOpen(t.orders[id])
Still(s, t) == \A id \in Ids(s) :
  /\ t.orders[id].filled = s.orders[id].filled
  /\ s.orders[id].status = "Armed" => t.orders[id].status = "Armed" \/ ~IsOpen(t.orders[id])
\* What a step that fills nothing does, and what any step of matching does.
Rests(s, t) == Shaped(t) /\ Onward(s, t) /\ Fresh(s, t) /\ Still(s, t)
Works(s, t) == Sound(t) /\ Onward(s, t) /\ Fresh(s, t) /\ (Paired(s) => Paired(t))

\* A step that ends an order or changes how much it asks for.
Tidy(o, p) ==
  /\ SameTerms(o.req, p.req) /\ SameLinks(o, p) /\ p.role = o.role /\ p.reduceOnly = o.reduceOnly
  /\ p.filled = o.filled /\ (p.status = o.status \/ (IsOpen(o) /\ p.status = "Cancelled"))
  /\ IsOpen(p) => p.filled < p.req.qty
AllTidy(s, t) ==
  /\ t \in StateRecords /\ SameBook(s, t) /\ Len(t.orders) = Len(s.orders)
  /\ \A id \in Ids(s) : Tidy(s.orders[id], t.orders[id])

LEMMA StateFields ==
  ASSUME NEW s \in StateRecords
  PROVE  /\ Len(s.orders) \in Nat /\ DOMAIN s.orders = Ids(s) /\ s.orders \in Seq(OrderRecords)
         /\ \A id \in Ids(s) : s.orders[id] \in OrderRecords
         /\ s.held \in Int /\ s.price \in Int /\ s.bid \in Nat /\ s.ask \in Nat
         /\ s.orders \in [Ids(s) -> OrderRecords]
  BY DEF StateRecords, Ids

LEMMA OrderFields ==
  ASSUME NEW o \in OrderRecords
  PROVE  /\ o.req \in RequestRecords /\ o.filled \in Nat /\ o.status \in Statuses /\ o.role \in Roles
         /\ o.parent \in Nat /\ o.oco \in Nat /\ o.stop \in Nat /\ o.target \in Nat
         /\ o.reduceOnly \in BOOLEAN /\ o.chained \in Nat /\ o.from \in Nat /\ o.reason \in Reasons
         /\ o.req.qty \in Nat /\ o.req.limit \in Nat /\ o.req.side \in Sides /\ o.req.ioc \in BOOLEAN
         /\ o.req.exitsOnly \in BOOLEAN /\ o.req.trigger \in Triggers /\ o.req.bracket \in Brackets
         /\ o.req.then \in Nexts /\ o.req.walk \in Walks /\ o.req.oco \in Nexts
  BY DEF OrderRecords, RequestRecords

LEMMA WithOrderState ==
  ASSUME NEW s \in StateRecords, NEW id \in Ids(s), NEW o \in OrderRecords
  PROVE  OneChanged(s, WithOrder(s, id, o), id, o)
<1> DEFINE q == [s.orders EXCEPT ![id] = o]
<1>1. /\ q \in Seq(OrderRecords) /\ Len(q) = Len(s.orders) /\ q[id] = o
      /\ \A other \in Ids(s) : other # id => q[other] = s.orders[other]
  BY StateFields DEF Ids
<1> HIDE DEF q
<1>2. [s EXCEPT !.orders = q] \in StateRecords /\ SameBook(s, [s EXCEPT !.orders = q])
      /\ [s EXCEPT !.orders = q].orders = q
  BY <1>1 DEF StateRecords, SameBook
<1>3. WithOrder(s, id, o) = [s EXCEPT !.orders = q]
  BY DEF WithOrder, q
<1> QED BY <1>1, <1>2, <1>3 DEF OneChanged

LEMMA AddOrderState ==
  ASSUME NEW s \in StateRecords, NEW o \in OrderRecords
  PROVE  OneAdded(s, AddOrder(s, o), o)
<1> DEFINE q == Append(s.orders, o)
<1>1. /\ q \in Seq(OrderRecords) /\ Len(q) = Len(s.orders) + 1 /\ q[Len(s.orders) + 1] = o
      /\ \A other \in Ids(s) : q[other] = s.orders[other]
  BY StateFields DEF Ids
<1> HIDE DEF q
<1>2. [s EXCEPT !.orders = q] \in StateRecords /\ SameBook(s, [s EXCEPT !.orders = q])
      /\ [s EXCEPT !.orders = q].orders = q
  BY <1>1 DEF StateRecords, SameBook
<1>3. AddOrder(s, o) = [s EXCEPT !.orders = q]
  BY DEF AddOrder, q
<1> QED BY <1>1, <1>2, <1>3 DEF OneAdded

LEMMA EmptyFirst == ASSUME NEW S, NEW q \in Seq(S) PROVE <<>> \o q = q
  OBVIOUS

\* Every order at once.
LEMMA AllOrdersState ==
  ASSUME NEW s \in StateRecords, NEW f \in [Ids(s) -> OrderRecords]
  PROVE  LET t == [s EXCEPT !.orders = <<>> \o f]
         IN  /\ t \in StateRecords /\ SameBook(s, t) /\ Len(t.orders) = Len(s.orders)
             /\ t.orders = f
<1>1. f \in Seq(OrderRecords) /\ Len(f) = Len(s.orders)
  BY StateFields DEF Ids
<1>2. <<>> \o f = f
  BY <1>1, EmptyFirst
<1> DEFINE q == <<>> \o f
<1>3. q = f
  BY <1>2
<1> HIDE DEF q
<1>4. [s EXCEPT !.orders = q] \in StateRecords /\ SameBook(s, [s EXCEPT !.orders = q])
      /\ [s EXCEPT !.orders = q].orders = q
  BY <1>1, <1>3 DEF StateRecords, SameBook
<1> QED BY <1>1, <1>3, <1>4 DEF q

-----------------------------------------------------------------------------
(* States, orders and their relations *)

\* An order that only ended or changed its quantity.
LEMMA TidyOrder ==
  ASSUME NEW o \in OrderRecords, NEW p \in OrderRecords, Proper(o), Tidy(o, p)
  PROVE  Proper(p) /\ Advance(o, p)
  BY OrderFields DEF Proper, Tidy, SameTerms, SameLinks, Advance, IsOpen, Statuses

LEMMA OpenRemaining ==
  ASSUME NEW o \in OrderRecords, Proper(o), IsOpen(o)
  PROVE  Remaining(o) > 0 /\ Remaining(o) \in Nat /\ o.filled < o.req.qty
<1>1. o.filled \in Nat /\ o.req.qty \in Nat
  BY OrderFields
<1>2. o.filled < o.req.qty
  BY DEF Proper
<1> QED BY <1>1, <1>2 DEF Remaining

LEMMA TidySelf == ASSUME NEW o, Proper(o) PROVE Tidy(o, o)
<1>1. SameTerms(o.req, o.req) /\ SameLinks(o, o)
  BY DEF SameTerms, SameLinks
<1>2. IsOpen(o) => o.filled < o.req.qty
  BY DEF Proper
<1> QED BY <1>1, <1>2, Zenon DEF Tidy

LEMMA SweptOnward ==
  ASSUME NEW s \in StateRecords, NEW t \in StateRecords, Onward(s, t), NEW id \in Ids(s), Swept(s, id)
  PROVE  Swept(t, id)
<1> DEFINE o == s.orders[id]  p == t.orders[id]
<1>1. Advance(o, p) /\ t.price = s.price /\ t.bid <= s.bid /\ t.ask <= s.ask
  BY DEF Onward, AdvanceAt
<1>2. s.bid \in Nat /\ s.ask \in Nat /\ t.bid \in Nat /\ t.ask \in Nat
  BY StateFields
<1>3. Depth(s, o.req.side) = 0 => Depth(t, p.req.side) = 0
  BY <1>1, <1>2 DEF Depth, Advance, SameTerms
<1>4. Marketable(t, p) => Marketable(s, o)
  BY <1>1 DEF Marketable, Advance, SameTerms
<1>5. IsOpen(p) => IsOpen(o)
  BY <1>1 DEF Advance, IsOpen
<1>6. p.status = "Armed" => o.status = "Armed"
  BY <1>1 DEF Advance
<1> QED BY <1>1, <1>3, <1>4, <1>5, <1>6 DEF Swept

LEMMA UnreachedOnward ==
  ASSUME NEW s \in StateRecords, NEW t \in StateRecords, Onward(s, t), NEW id \in Ids(s), Unreached(s, id)
  PROVE  Unreached(t, id)
<1> DEFINE o == s.orders[id]  p == t.orders[id]
<1>1. Advance(o, p) /\ t.price = s.price /\ t.bid <= s.bid /\ t.ask <= s.ask
  BY DEF Onward, AdvanceAt
<1>2. s.bid \in Nat /\ s.ask \in Nat /\ t.bid \in Nat /\ t.ask \in Nat
  BY StateFields
<1>3. Depth(s, o.req.side) = 0 => Depth(t, p.req.side) = 0
  BY <1>1, <1>2 DEF Depth, Advance, SameTerms
<1>4. Reached(t, p) => Reached(s, o)
  BY <1>1 DEF Reached, Advance, SameTerms
<1>5. p.role = o.role /\ p.req.ioc = o.req.ioc /\ (p.status = "Armed" => o.status = "Armed")
  BY <1>1 DEF Advance, SameTerms
<1> QED BY <1>3, <1>4, <1>5 DEF Unreached

LEMMA AdvanceTrans ==
  ASSUME NEW o, NEW p, NEW q, Advance(o, p), Advance(p, q)
  PROVE  Advance(o, q)
  BY DEF Advance, SameTerms, IsOpen

LEMMA OnwardTrans ==
  ASSUME NEW s \in StateRecords, NEW t \in StateRecords, NEW u \in StateRecords, Onward(s, t), Onward(t, u)
  PROVE  Onward(s, u)
<1>1. Len(s.orders) \in Nat /\ Len(t.orders) \in Nat /\ Len(u.orders) \in Nat
      /\ s.bid \in Nat /\ s.ask \in Nat /\ t.bid \in Nat /\ t.ask \in Nat /\ u.bid \in Nat /\ u.ask \in Nat
  BY StateFields
<1>2. \A id \in Ids(s) : id \in Ids(t)
  BY <1>1 DEF Ids, Onward
<1>3. ASSUME NEW id \in Ids(s) PROVE AdvanceAt(s, u, id)
  <2>1. AdvanceAt(s, t, id) /\ AdvanceAt(t, u, id)
    BY <1>2, <1>3 DEF Onward
  <2>2. Advance(s.orders[id], u.orders[id])
    BY <2>1, AdvanceTrans DEF AdvanceAt
  <2> QED BY <2>1, <2>2 DEF AdvanceAt
<1>4. /\ u.price = s.price /\ u.walked = s.walked /\ u.atQuote = s.atQuote /\ u.quoted = s.quoted
      /\ u.bid <= s.bid /\ u.ask <= s.ask /\ Len(s.orders) <= Len(u.orders)
  BY <1>1 DEF Onward
<1> QED BY <1>3, <1>4 DEF Onward

LEMMA OnwardSelf ==
  ASSUME NEW s \in StateRecords
  PROVE  Onward(s, s)
<1>1. Len(s.orders) \in Nat /\ s.bid \in Nat /\ s.ask \in Nat
  BY StateFields
<1> QED BY <1>1 DEF Onward, AdvanceAt, Advance, SameTerms

LEMMA FreshTrans ==
  ASSUME NEW s \in StateRecords, NEW t \in StateRecords, NEW u \in StateRecords,
         Onward(s, t), Onward(t, u), Fresh(s, t), Fresh(t, u)
  PROVE  Fresh(s, u)
<1>1. Len(s.orders) \in Nat /\ Len(t.orders) \in Nat /\ Len(u.orders) \in Nat
      /\ Len(s.orders) <= Len(t.orders) /\ Len(t.orders) <= Len(u.orders)
  BY StateFields DEF Onward
<1>2. ASSUME NEW id \in Ids(u), id > Len(s.orders)
      PROVE  u.orders[id].role # "Normal" /\ NotChained(u.orders[id])
  <2>1. CASE id \in Ids(t)
    <3>1. t.orders[id].role # "Normal" /\ NotChained(t.orders[id])
      BY <1>2, <2>1 DEF Fresh
    <3>2. u.orders[id].role = t.orders[id].role
      BY <2>1 DEF Onward, AdvanceAt, Advance
    <3>3. u.orders[id].chained = t.orders[id].chained /\ u.orders[id].from = t.orders[id].from
      BY <2>1 DEF Fresh
    <3> QED BY <3>1, <3>2, <3>3 DEF NotChained
  <2>2. CASE id \notin Ids(t)
    <3>1. id > Len(t.orders)
      BY <1>1, <1>2, <2>2 DEF Ids
    <3> QED BY <1>2, <3>1 DEF Fresh
  <2> QED BY <2>1, <2>2
<1>3. ASSUME NEW id \in Ids(s)
      PROVE  u.orders[id].chained = s.orders[id].chained /\ u.orders[id].from = s.orders[id].from
  <2>1. id \in Ids(t)
    BY <1>1, <1>3 DEF Ids
  <2> QED BY <1>3, <2>1 DEF Fresh
<1> QED BY <1>2, <1>3 DEF Fresh

LEMMA ShapedState == ASSUME NEW s, Shaped(s) PROVE s \in StateRecords
  BY DEF Shaped

LEMMA SoundState == ASSUME NEW s, Sound(s) PROVE s \in StateRecords /\ Shaped(s)
  BY DEF Shaped, Sound

LEMMA RestsTrans ==
  ASSUME NEW s, NEW t, NEW u, Shaped(s), Rests(s, t), Rests(t, u)
  PROVE  Rests(s, u)
<1>1. s \in StateRecords /\ t \in StateRecords /\ u \in StateRecords
  BY DEF Shaped, Rests
<1>2. Onward(s, u) /\ Fresh(s, u)
  BY <1>1, OnwardTrans, FreshTrans DEF Rests
<1>3. \A id \in Ids(s) : id \in Ids(t)
  BY <1>1, StateFields DEF Ids, Rests, Onward
<1>4. Still(s, u)
  BY <1>3 DEF Rests, Still, Onward, AdvanceAt, Advance, IsOpen
<1> QED BY <1>2, <1>4 DEF Rests

LEMMA RestsSelf ==
  ASSUME NEW s, Shaped(s)
  PROVE  Rests(s, s)
<1>1. s \in StateRecords
  BY DEF Shaped
<1>2. Fresh(s, s)
  BY <1>1, StateFields DEF Fresh, Ids
<1> QED BY <1>1, <1>2, OnwardSelf DEF Rests, Still

\* What does not fill keeps the pairs.
LEMMA RestsPaired ==
  ASSUME NEW s, NEW t, Shaped(s), Rests(s, t), Paired(s)
  PROVE  Paired(t)
<1>1. s \in StateRecords /\ t \in StateRecords
  BY DEF Shaped, Rests
<1>2. ASSUME NEW id \in Ids(t) PROVE PairHolds(t, id)
  <2> SUFFICES ASSUME t.orders[id].role = "Normal", t.orders[id].oco # NoOrder, t.orders[id].filled > 0
               PROVE  t.orders[t.orders[id].oco].filled = 0 /\ ~IsOpen(t.orders[t.orders[id].oco])
    BY DEF PairHolds
  <2>1. id \in Ids(s)
    BY <1>1, StateFields DEF Ids, Rests, Fresh
  <2>2. AdvanceAt(s, t, id)
    BY <2>1 DEF Rests, Onward
  <2>3. s.orders[id].role = "Normal" /\ s.orders[id].oco = t.orders[id].oco /\ s.orders[id].filled > 0
    BY <2>1, <2>2 DEF AdvanceAt, Advance, Rests, Still
  <2> DEFINE other == t.orders[id].oco
  <2>4. s.orders[other].filled = 0 /\ ~IsOpen(s.orders[other])
    BY <2>1, <2>3 DEF Paired, PairHolds
  <2>5. other \in Ids(s)
    BY <2>1, <2>3 DEF Shaped, Linked
  <2>6. AdvanceAt(s, t, other)
    BY <2>5 DEF Rests, Onward
  <2> QED BY <2>4, <2>6 DEF AdvanceAt, Advance, IsOpen
<1> QED BY <1>2 DEF Paired

LEMMA WorksTrans ==
  ASSUME NEW s, NEW t, NEW u, Sound(s), Works(s, t), Works(t, u)
  PROVE  Works(s, u)
<1>1. s \in StateRecords /\ t \in StateRecords /\ u \in StateRecords
  BY DEF Sound, Shaped, Works
<1> QED BY <1>1, OnwardTrans, FreshTrans DEF Works

LEMMA WorksSelf == ASSUME NEW s, Sound(s) PROVE Works(s, s)
  BY RestsSelf DEF Works, Rests, Sound

LEMMA SteadyTrans ==
  ASSUME NEW s \in StateRecords, NEW t \in StateRecords, NEW u \in StateRecords,
         Onward(s, t), Onward(t, u), Steady(s, t), Steady(t, u)
  PROVE  Steady(s, u)
<1>1. Len(s.orders) \in Nat /\ Len(t.orders) \in Nat /\ Len(s.orders) <= Len(t.orders)
  BY StateFields DEF Onward
<1>2. \A id \in Ids(s) : id \in Ids(t) /\ AdvanceAt(s, t, id)
  BY <1>1 DEF Ids, Onward
<1>3. ASSUME Plain(s) PROVE Len(u.orders) = Len(s.orders)
  <2>1. Len(t.orders) = Len(s.orders) /\ Ids(t) = Ids(s)
    BY <1>3 DEF Steady, Ids
  <2>2. Plain(t)
    BY <1>2, <1>3, <2>1 DEF Plain, AdvanceAt, Advance, SameTerms, IsOpen
  <2> QED BY <2>1, <2>2 DEF Steady
<1>4. ASSUME NEW id \in Ids(s), s.orders[id].status = "Armed"
      PROVE  u.orders[id].status = "Armed" \/ ~IsOpen(u.orders[id])
  <2>1. t.orders[id].status = "Armed" \/ ~IsOpen(t.orders[id])
    BY <1>4 DEF Steady
  <2>2. id \in Ids(t) /\ AdvanceAt(t, u, id)
    BY <1>2 DEF Onward
  <2> QED BY <2>1, <2>2 DEF Steady, AdvanceAt, Advance, IsOpen
<1> QED BY <1>3, <1>4 DEF Steady

LEMMA SteadySelf == ASSUME NEW s PROVE Steady(s, s)
  BY DEF Steady

-----------------------------------------------------------------------------
(* Steps that end orders or change what they ask for *)

LEMMA Relinked ==
  ASSUME NEW s, Shaped(s), NEW t \in StateRecords, Len(t.orders) = Len(s.orders),
         \A id \in Ids(s) : /\ SameLinks(s.orders[id], t.orders[id]) /\ t.orders[id].role = s.orders[id].role
                            /\ Proper(t.orders[id])
  PROVE  Shaped(t)
<1>1. Ids(t) = Ids(s)
  BY DEF Ids
<1>2. ASSUME NEW id \in Ids(s) PROVE Linked(t, id)
  <2> DEFINE o == s.orders[id]  p == t.orders[id]
  <2>1. Linked(s, id) /\ SameLinks(o, p) /\ p.role = o.role
    BY DEF Shaped
  <2>2. p.oco # NoOrder => /\ p.oco \in Ids(t) /\ p.oco # id /\ t.orders[p.oco].oco = id
                        /\ (p.role = "Normal" <=> t.orders[p.oco].role = "Normal")
    <3> SUFFICES ASSUME p.oco # NoOrder
                 PROVE  /\ p.oco \in Ids(t) /\ p.oco # id /\ t.orders[p.oco].oco = id
                        /\ (p.role = "Normal" <=> t.orders[p.oco].role = "Normal")
      OBVIOUS
    <3>1. o.oco = p.oco /\ o.oco \in Ids(s)
      BY <2>1 DEF Linked, SameLinks
    <3>2. SameLinks(s.orders[o.oco], t.orders[o.oco]) /\ t.orders[o.oco].role = s.orders[o.oco].role
      BY <3>1
    <3> QED BY <1>1, <2>1, <3>1, <3>2 DEF Linked, SameLinks
  <2>3. p.parent # NoOrder => p.parent \in Ids(t)
    BY <1>1, <2>1 DEF Linked, SameLinks
  <2>4. p.role = "Normal" /\ p.stop # NoOrder => p.stop \in Ids(t) /\ t.orders[p.stop].role # "Normal"
    BY <1>1, <2>1 DEF Linked, SameLinks
  <2>5. p.role = "Normal" /\ p.target # NoOrder => p.target \in Ids(t) /\ t.orders[p.target].role # "Normal"
    BY <1>1, <2>1 DEF Linked, SameLinks
  <2> QED BY <2>2, <2>3, <2>4, <2>5 DEF Linked
<1> QED BY <1>1, <1>2 DEF Shaped

LEMMA TidyRests ==
  ASSUME NEW s, Shaped(s), NEW t, AllTidy(s, t)
  PROVE  Rests(s, t)
<1>1. s \in StateRecords /\ t \in StateRecords /\ Len(t.orders) = Len(s.orders) /\ SameBook(s, t)
  BY DEF Shaped, AllTidy
<1>2. Ids(t) = Ids(s) /\ Len(s.orders) \in Nat /\ s.bid \in Nat /\ s.ask \in Nat
  BY <1>1, StateFields DEF Ids
<1>3. ASSUME NEW id \in Ids(s)
      PROVE  /\ Proper(t.orders[id]) /\ AdvanceAt(s, t, id) /\ Tidy(s.orders[id], t.orders[id])
  <2> DEFINE o == s.orders[id]  p == t.orders[id]
  <2>1. o \in OrderRecords /\ p \in OrderRecords /\ Tidy(o, p) /\ Proper(o)
    BY <1>1, <1>2, StateFields DEF AllTidy, Shaped
  <2>2. Proper(p) /\ Advance(o, p)
    BY <2>1, TidyOrder
  <2>3. ASSUME Calm(s, id) PROVE p.filled = o.filled /\ Calm(t, id) /\ (p.status = "Filled" => o.status = "Filled")
    <3>1. p.filled = o.filled /\ (p.status = "Filled" => o.status = "Filled") /\ SameTerms(o.req, p.req)
          /\ p.role = o.role
      BY <2>1 DEF Tidy
    <3>2. Depth(t, p.req.side) = Depth(s, o.req.side) /\ (Marketable(t, p) <=> Marketable(s, o))
          /\ (Reached(t, p) <=> Reached(s, o))
      BY <1>1, <3>1 DEF SameBook, SameTerms, Depth, Marketable, Reached
    <3>3. p.status = o.status \/ ~IsOpen(p)
      BY <2>1 DEF Tidy, IsOpen
    <3>4. Calm(t, id)
      <4>1. CASE ~IsOpen(p)
        BY <2>3, <3>1, <4>1 DEF Calm, Swept
      <4>2. CASE p.status = o.status
        BY <2>3, <3>1, <3>2, <4>2 DEF Calm, Swept, IsOpen
      <4> QED BY <3>3, <4>1, <4>2
    <3> QED BY <3>1, <3>4
  <2> QED BY <2>1, <2>2, <2>3 DEF AdvanceAt
<1>4. Shaped(t)
  BY <1>1, <1>3, Relinked DEF Tidy
<1>5. Onward(s, t)
  BY <1>1, <1>2, <1>3 DEF Onward, SameBook
<1>6. Fresh(s, t)
  BY <1>2, <1>3, <1>1 DEF Fresh, Tidy, SameLinks, Ids
<1>7. Still(s, t)
  BY <1>3 DEF Still, Tidy, IsOpen
<1> QED BY <1>4, <1>5, <1>6, <1>7 DEF Rests

LEMMA TidyFits ==
  ASSUME NEW s, Sound(s), NEW t, AllTidy(s, t), \A id \in Ids(s) : t.orders[id].req.qty <= s.orders[id].req.qty
  PROVE  Works(s, t) /\ Rests(s, t)
<1>1. s \in StateRecords /\ t \in StateRecords /\ Len(t.orders) = Len(s.orders) /\ SameBook(s, t) /\ Shaped(s)
  BY DEF Shaped, AllTidy, Sound
<1>2. Rests(s, t)
  BY <1>1, TidyRests
<1>3. ASSUME NEW id \in Ids(t) PROVE Fits(t, id)
  <2> DEFINE o == s.orders[id]  p == t.orders[id]
  <2>1. id \in Ids(s) /\ Fits(s, id) /\ Tidy(o, p) /\ p.req.qty <= o.req.qty
    BY <1>1, <1>3 DEF Ids, AllTidy, Sound
  <2>2. o \in OrderRecords /\ p \in OrderRecords
    BY <1>1, <1>3, <2>1, StateFields
  <2>3. /\ o.filled \in Nat /\ p.filled \in Nat /\ o.req.qty \in Nat /\ p.req.qty \in Nat
    BY <2>2, OrderFields
  <2>4. Remaining(p) <= Remaining(o)
    BY <2>1, <2>3 DEF Remaining, Tidy
  <2>5. ExitCapacity(t, p.req.side) = ExitCapacity(s, o.req.side)
    BY <1>1, <2>1 DEF ExitCapacity, SameBook, Tidy, SameTerms
  <2>6. ExitCapacity(s, o.req.side) \in Int /\ Remaining(p) \in Int /\ Remaining(o) \in Int
    BY <1>1, <2>3, StateFields DEF ExitCapacity, Greater, Remaining
  <2>7. IsOpen(p) => IsOpen(o)
    BY <2>1 DEF Tidy, IsOpen
  <2>8. KeptWithin(p) <=> KeptWithin(o)
    BY <2>1 DEF Tidy, KeptWithin
  <2>9. ASSUME IsOpen(p), KeptWithin(p) PROVE Remaining(p) <= ExitCapacity(t, p.req.side)
    <3>1. Remaining(o) <= ExitCapacity(s, o.req.side)
      BY <2>1, <2>7, <2>8, <2>9 DEF Fits
    <3> HIDE DEF o, p
    <3> QED BY <2>4, <2>5, <2>6, <3>1
  <2> QED BY <2>9 DEF Fits
<1>4. Sound(t)
  BY <1>2, <1>3 DEF Sound, Rests
<1> QED BY <1>1, <1>2, <1>4, RestsPaired DEF Works, Rests

\* One order, tidied.
LEMMA TidyOne ==
  ASSUME NEW s, Shaped(s), NEW id \in Ids(s), NEW p \in OrderRecords, Tidy(s.orders[id], p)
  PROVE  LET t == WithOrder(s, id, p)
         IN  Rests(s, t) /\ AllTidy(s, t) /\ OneChanged(s, t, id, p)
<1>1. OneChanged(s, WithOrder(s, id, p), id, p)
  BY WithOrderState DEF Shaped
<1> DEFINE t == WithOrder(s, id, p)
<1>2. \A other \in Ids(s) : Proper(s.orders[other]) /\ s.orders[other] \in OrderRecords
  BY StateFields DEF Shaped
<1>3. ASSUME NEW other \in Ids(s) PROVE Tidy(s.orders[other], t.orders[other])
  <2>1. CASE other = id
    BY <1>1, <2>1 DEF OneChanged
  <2>2. CASE other # id
    BY <1>1, <1>2, <2>2, TidySelf DEF OneChanged
  <2> QED BY <2>1, <2>2
<1>4. AllTidy(s, t)
  BY <1>1, <1>3 DEF AllTidy, OneChanged
<1> QED BY <1>1, <1>4, TidyRests

LEMMA TidyOneFits ==
  ASSUME NEW s, Sound(s), NEW id \in Ids(s), NEW p \in OrderRecords, Tidy(s.orders[id], p),
         p.req.qty <= s.orders[id].req.qty
  PROVE  LET t == WithOrder(s, id, p)
         IN  Works(s, t) /\ Rests(s, t) /\ OneChanged(s, t, id, p)
<1> DEFINE t == WithOrder(s, id, p)
<1>1. AllTidy(s, t) /\ OneChanged(s, t, id, p)
  BY TidyOne, SoundState
<1>2. ASSUME NEW other \in Ids(s) PROVE t.orders[other].req.qty <= s.orders[other].req.qty
  <2>1. s.orders[other].req.qty \in Nat
    BY SoundState, StateFields, OrderFields
  <2> QED BY <1>1, <2>1 DEF OneChanged
<1> HIDE DEF t
<1>3. Works(s, t) /\ Rests(s, t)
  BY <1>1, <1>2, TidyFits
<1> QED BY <1>1, <1>3 DEF t

LEMMA EndedOrder ==
  ASSUME NEW o \in OrderRecords, Proper(o), NEW why \in Reasons
  PROVE  /\ Ended(o, why) \in OrderRecords /\ Tidy(o, Ended(o, why)) /\ ~IsOpen(Ended(o, why))
         /\ Ended(o, why).req.qty <= o.req.qty /\ Ended(o, why).req = o.req
<1>1. o.req.qty \in Nat
  BY OrderFields
<1>2. CASE IsOpen(o)
  <2> DEFINE e == [o EXCEPT !.status = "Cancelled", !.reason = why]
  <2>1. e \in OrderRecords /\ e.status = "Cancelled" /\ e.req = o.req /\ SameLinks(o, e) /\ e.role = o.role
        /\ e.reduceOnly = o.reduceOnly /\ e.filled = o.filled
    BY DEF OrderRecords, Statuses, SameLinks
  <2>2. Ended(o, why) = e
    BY <1>2 DEF Ended
  <2> HIDE DEF e
  <2> QED BY <1>1, <1>2, <2>1, <2>2 DEF Tidy, SameTerms, IsOpen
<1>3. CASE ~IsOpen(o)
  BY <1>1, <1>3, TidySelf DEF Ended
<1> QED BY <1>2, <1>3

LEMMA EndOrderRests ==
  ASSUME NEW s, Shaped(s), NEW id \in Ids(s), NEW why \in Reasons
  PROVE  LET t == EndOrder(s, id, why)
         IN  Rests(s, t) /\ OneChanged(s, t, id, t.orders[id]) /\ ~IsOpen(t.orders[id]) /\ AllTidy(s, t)
<1> DEFINE o == s.orders[id]  p == Ended(o, why)
<1>1. o \in OrderRecords /\ Proper(o)
  BY StateFields DEF Shaped
<1>2. p \in OrderRecords /\ Tidy(o, p) /\ ~IsOpen(p)
  BY <1>1, EndedOrder
<1>3. EndOrder(s, id, why) = WithOrder(s, id, p)
  BY DEF EndOrder
<1> HIDE DEF p
<1>4. LET t == WithOrder(s, id, p) IN Rests(s, t) /\ AllTidy(s, t) /\ OneChanged(s, t, id, p)
  BY <1>2, TidyOne
<1> QED BY <1>2, <1>3, <1>4 DEF OneChanged

LEMMA EndOrderWorks ==
  ASSUME NEW s, Sound(s), NEW id \in Ids(s), NEW why \in Reasons
  PROVE  LET t == EndOrder(s, id, why)
         IN  Works(s, t) /\ Rests(s, t) /\ OneChanged(s, t, id, t.orders[id]) /\ ~IsOpen(t.orders[id])
<1> DEFINE o == s.orders[id]  p == Ended(o, why)
<1>1. o \in OrderRecords /\ Proper(o)
  BY StateFields DEF Shaped, Sound
<1>2. p \in OrderRecords /\ Tidy(o, p) /\ ~IsOpen(p) /\ p.req.qty <= o.req.qty
  BY <1>1, EndedOrder
<1>3. EndOrder(s, id, why) = WithOrder(s, id, p)
  BY DEF EndOrder
<1> HIDE DEF p
<1>4. LET t == WithOrder(s, id, p) IN Works(s, t) /\ Rests(s, t) /\ OneChanged(s, t, id, p)
  BY <1>2, TidyOneFits
<1> QED BY <1>2, <1>3, <1>4 DEF OneChanged


LEMMA EndOrdersWork ==
  ASSUME NEW s, Sound(s), NEW ids, NEW why \in Reasons
  PROVE  LET t == EndOrders(s, ids, why)
         IN  Works(s, t) /\ Rests(s, t) /\ Len(t.orders) = Len(s.orders)
             /\ \A id \in Ids(s) : t.orders[id] = IF id \in ids THEN Ended(s.orders[id], why) ELSE s.orders[id]
<1>0. s \in StateRecords
  BY SoundState
<1> DEFINE f == [id \in Ids(s) |-> IF id \in ids THEN Ended(s.orders[id], why) ELSE s.orders[id]]
           t == [s EXCEPT !.orders = <<>> \o f]
<1>1. EndOrders(s, ids, why) = t
  <2>1. DOMAIN s.orders = Ids(s)
    BY <1>0, StateFields
  <2> QED BY <2>1 DEF EndOrders, WithOrders
<1>2. ASSUME NEW id \in Ids(s)
      PROVE  f[id] \in OrderRecords /\ Tidy(s.orders[id], f[id]) /\ f[id].req.qty <= s.orders[id].req.qty
  <2>1. s.orders[id] \in OrderRecords /\ Proper(s.orders[id])
    BY <1>0, StateFields DEF Sound, Shaped
  <2>2. s.orders[id].req.qty \in Nat
    BY <2>1, OrderFields
  <2>3. CASE id \in ids
    BY <2>1, <2>3, EndedOrder
  <2>4. CASE id \notin ids
    BY <2>1, <2>2, <2>4, TidySelf
  <2> QED BY <2>3, <2>4
<1>3. f \in [Ids(s) -> OrderRecords]
  BY <1>2
<1> HIDE DEF f
<1>4. t \in StateRecords /\ SameBook(s, t) /\ Len(t.orders) = Len(s.orders) /\ t.orders = f
  BY <1>0, <1>3, AllOrdersState
<1> HIDE DEF t
<1>5. AllTidy(s, t)
  BY <1>2, <1>4 DEF AllTidy
<1>6. Works(s, t) /\ Rests(s, t)
  BY <1>2, <1>4, <1>5, TidyFits
<1> QED BY <1>1, <1>4, <1>6 DEF f

-----------------------------------------------------------------------------
(* The exits follow the position *)

LEMMA WithQtyOrder ==
  ASSUME NEW o \in OrderRecords, NEW qty \in Nat, qty > o.filled
  PROVE  LET p == WithQty(o, qty)
         IN  p \in OrderRecords /\ Tidy(o, p) /\ p.req.qty = qty
<1> DEFINE r == [o.req EXCEPT !.qty = qty]
           p == [o EXCEPT !.req = r]
<1>1. r \in RequestRecords /\ SameTerms(o.req, r) /\ r.qty = qty
  <2>1. o.req \in RequestRecords
    BY OrderFields
  <2> QED BY <2>1 DEF RequestRecords, SameTerms
<1> HIDE DEF r
<1>2. p \in OrderRecords /\ p.req = r /\ SameLinks(o, p) /\ p.role = o.role /\ p.reduceOnly = o.reduceOnly
      /\ p.filled = o.filled /\ p.status = o.status
  BY <1>1 DEF OrderRecords, SameLinks
<1>3. WithQty(o, qty) = p
  BY DEF WithQty, r
<1> HIDE DEF p
<1>4. o.filled < p.req.qty
  BY <1>1, <1>2, OrderFields
<1>5. Tidy(o, p)
  BY <1>1, <1>2, <1>4, Zenon DEF Tidy
<1> QED BY <1>1, <1>2, <1>3, <1>5

LEMMA ShrunkOrder ==
  ASSUME NEW o \in OrderRecords, Proper(o), NEW capacity \in Nat, capacity > 0
  PROVE  LET p == Shrunk(o, capacity)
         IN  /\ p \in OrderRecords /\ Tidy(o, p) /\ p.req.qty <= o.req.qty /\ Remaining(p) <= capacity
<1>1. o.req.qty \in Nat /\ o.filled \in Nat
  BY OrderFields
<1>2. CASE Remaining(o) <= capacity
  BY <1>1, <1>2, TidySelf DEF Shrunk
<1>3. CASE ~(Remaining(o) <= capacity)
  <2> DEFINE p == WithQty(o, o.filled + capacity)
  <2>1. p \in OrderRecords /\ Tidy(o, p) /\ p.req.qty = o.filled + capacity
    BY <1>1, WithQtyOrder
  <2>2. Shrunk(o, capacity) = p
    BY <1>3 DEF Shrunk
  <2> HIDE DEF p
  <2>3. p.filled = o.filled
    BY <2>1 DEF Tidy
  <2>4. p.req.qty <= o.req.qty
    BY <1>1, <1>3, <2>1 DEF Remaining
  <2>5. Remaining(p) <= capacity
    BY <1>1, <2>1, <2>3 DEF Remaining
  <2> QED BY <2>1, <2>2, <2>4, <2>5
<1> QED BY <1>2, <1>3

LEMMA Capacity ==
  ASSUME NEW s \in StateRecords, NEW side
  PROVE  ExitCapacity(s, side) \in Nat
  BY StateFields DEF ExitCapacity, Greater

LEMMA SyncExitsRests ==
  ASSUME NEW s, Shaped(s)
  PROVE  LET t == SyncExits(s)
         IN  Rests(s, t) /\ Sound(t) /\ Len(t.orders) = Len(s.orders)
<1>0. s \in StateRecords
  BY DEF Shaped
<1> DEFINE C(o) == ExitCapacity(s, o.req.side)
           New(o) == IF ~IsOpen(o) \/ ~KeptWithin(o) THEN o
                     ELSE IF C(o) = 0 THEN Ended(o, "POSITION_CLOSED")
                     ELSE Shrunk(o, C(o))
           f == [id \in Ids(s) |-> New(s.orders[id])]
           t == [s EXCEPT !.orders = <<>> \o f]
<1>1. SyncExits(s) = t
  <2>1. DOMAIN s.orders = Ids(s)
    BY <1>0, StateFields
  <2> QED BY <2>1 DEF SyncExits, WithOrders
<1>2. ASSUME NEW id \in Ids(s)
      PROVE  /\ f[id] \in OrderRecords /\ Tidy(s.orders[id], f[id])
             /\ IsOpen(f[id]) /\ KeptWithin(f[id]) => Remaining(f[id]) <= C(s.orders[id])
  <2> DEFINE o == s.orders[id]
  <2>1. o \in OrderRecords /\ Proper(o)
    BY <1>0, StateFields DEF Shaped
  <2>2. C(o) \in Nat
    BY <1>0, Capacity
  <2>3. f[id] = New(o)
    OBVIOUS
  <2>4. CASE ~IsOpen(o) \/ ~KeptWithin(o)
    BY <2>1, <2>3, <2>4, TidySelf
  <2>5. CASE IsOpen(o) /\ KeptWithin(o) /\ C(o) = 0
    <3>0. "POSITION_CLOSED" \in Reasons
      BY DEF Reasons
    <3>1. Ended(o, "POSITION_CLOSED") \in OrderRecords /\ Tidy(o, Ended(o, "POSITION_CLOSED"))
          /\ ~IsOpen(Ended(o, "POSITION_CLOSED"))
      BY <2>1, <3>0, EndedOrder, Zenon
    <3>2. New(o) = Ended(o, "POSITION_CLOSED")
      BY <2>5
    <3> QED BY <2>3, <3>1, <3>2
  <2>6. CASE IsOpen(o) /\ KeptWithin(o) /\ C(o) # 0
    <3>1. Shrunk(o, C(o)) \in OrderRecords /\ Tidy(o, Shrunk(o, C(o))) /\ Remaining(Shrunk(o, C(o))) <= C(o)
      BY <2>1, <2>2, <2>6, ShrunkOrder
    <3>2. New(o) = Shrunk(o, C(o))
      BY <2>6
    <3> QED BY <2>3, <3>1, <3>2
  <2> QED BY <2>4, <2>5, <2>6
<1>3. f \in [Ids(s) -> OrderRecords]
  BY <1>2
<1> HIDE DEF f, New
<1>4. t \in StateRecords /\ SameBook(s, t) /\ Len(t.orders) = Len(s.orders) /\ t.orders = f
  BY <1>0, <1>3, AllOrdersState
<1> HIDE DEF t
<1>5. AllTidy(s, t)
  BY <1>2, <1>4 DEF AllTidy
<1>6. Rests(s, t)
  BY <1>5, TidyRests
<1>7. ASSUME NEW id \in Ids(t) PROVE Fits(t, id)
  <2>1. id \in Ids(s) /\ t.orders[id] = f[id]
    BY <1>4, <1>7 DEF Ids
  <2>2. t.orders[id].req.side = s.orders[id].req.side
    BY <1>2, <2>1 DEF Tidy, SameTerms
  <2>3. ExitCapacity(t, t.orders[id].req.side) = ExitCapacity(s, s.orders[id].req.side)
    BY <1>4, <2>2 DEF ExitCapacity, SameBook
  <2> QED BY <1>2, <2>1, <2>3 DEF Fits
<1>8. Sound(t)
  BY <1>6, <1>7 DEF Sound, Rests
<1> QED BY <1>1, <1>4, <1>6, <1>8

-----------------------------------------------------------------------------
(* What follows a fill *)

LEMMA LinkedOnes ==
  ASSUME NEW s, Shaped(s), NEW id \in Ids(s), s.orders[id].oco # NoOrder
  PROVE  /\ s.orders[id].oco \in Ids(s) /\ s.orders[id].oco # id
         /\ s.orders[s.orders[id].oco].oco = id
         /\ (s.orders[id].role = "Normal" <=> s.orders[s.orders[id].oco].role = "Normal")
  BY DEF Shaped, Linked

LEMMA AfterPairFillRests ==
  ASSUME NEW s, Shaped(s), NEW id \in Ids(s), s.orders[id].status \in {"Filled", "PartiallyFilled"}, NEW units \in Nat
  PROVE  LET t == AfterPairFill(s, id, units)
         IN  /\ Rests(s, t) /\ Len(t.orders) = Len(s.orders) /\ t.held = s.held
             /\ s.orders[id].role = "Normal" /\ s.orders[id].oco # NoOrder => ~IsOpen(t.orders[s.orders[id].oco])
             /\ t.orders[id] = s.orders[id]
<1>0. s \in StateRecords
  BY DEF Shaped
<1> DEFINE o == s.orders[id]
           other == s.orders[o.oco]
           t == AfterPairFill(s, id, units)
<1>1. CASE o.oco = NoOrder
  <2>1. t = s
    BY <1>1 DEF AfterPairFill
  <2> QED BY <1>1, <2>1, RestsSelf
<1>2. CASE o.oco # NoOrder /\ ~IsOpen(other)
  <2>1. t = s
    BY <1>2 DEF AfterPairFill
  <2> QED BY <1>2, <2>1, RestsSelf
<1>3. CASE o.oco # NoOrder /\ IsOpen(other)
  <2>1. o.oco \in Ids(s) /\ o.oco # id
    BY <1>3, LinkedOnes
  <2>2. other \in OrderRecords /\ Proper(other) /\ o \in OrderRecords /\ Proper(o)
    BY <1>0, <2>1, StateFields DEF Shaped
  <2>3. CASE o.role = "Normal" \/ (o.status = "Filled" /\ units >= Remaining(other))
    <3>1. t = EndOrder(s, o.oco, "OCO_FILLED")
      BY <1>3, <2>3 DEF AfterPairFill
    <3>2. "OCO_FILLED" \in Reasons
      BY DEF Reasons
    <3>3. LET u == EndOrder(s, o.oco, "OCO_FILLED")
          IN  Rests(s, u) /\ OneChanged(s, u, o.oco, u.orders[o.oco]) /\ ~IsOpen(u.orders[o.oco])
      BY <2>1, <3>2, EndOrderRests
    <3> HIDE DEF t, other
    <3> QED BY <2>1, <3>1, <3>3 DEF OneChanged, SameBook, t
  <2>4. CASE ~(o.role = "Normal" \/ (o.status = "Filled" /\ units >= Remaining(other)))
    <3> DEFINE capacity == Greater(Remaining(o), Remaining(other) - units)
               p == Shrunk(other, capacity)
    <3>1. t = WithOrder(s, o.oco, p)
      BY <1>3, <2>4 DEF AfterPairFill
    <3>2. Remaining(o) \in Int /\ Remaining(other) \in Int
      BY <2>2, OrderFields DEF Remaining
    <3>3. o.status # "Filled" => Remaining(o) > 0
      <4>1. o.filled \in Nat /\ o.req.qty \in Nat
        BY <2>2, OrderFields
      <4>2. o.status # "Filled" => IsOpen(o)
        BY DEF IsOpen
      <4> QED BY <2>2, <4>2, OpenRemaining
    <3>4. capacity \in Nat /\ capacity > 0
      <4>1. o.status = "Filled" => Remaining(other) - units > 0
        BY <2>4, <3>2
      <4> HIDE DEF o, other
      <4> QED BY <3>2, <3>3, <4>1 DEF Greater
    <3>5. p \in OrderRecords /\ Tidy(other, p)
      BY <2>2, <3>4, ShrunkOrder
    <3> HIDE DEF p, t
    <3>6. Rests(s, t) /\ OneChanged(s, t, o.oco, p)
      BY <2>1, <3>1, <3>5, TidyOne
    <3> QED BY <2>1, <2>4, <3>6 DEF OneChanged, SameBook, t
  <2> QED BY <2>3, <2>4
<1> QED BY <1>1, <1>2, <1>3

LEMMA EndEntryRests ==
  ASSUME NEW s, Shaped(s), NEW id \in Ids(s)
  PROVE  LET t == EndEntry(s, id)
         IN  Rests(s, t) /\ Len(t.orders) = Len(s.orders) /\ (s.orders[id].role = "Normal" => t = s)
<1>1. s \in StateRecords /\ Linked(s, id)
  BY DEF Shaped
<1> DEFINE o == s.orders[id]
<1>2. CASE o.role # "Normal" /\ o.parent # NoOrder
  <2>1. o.parent \in Ids(s)
    BY <1>1, <1>2 DEF Linked
  <2>2. "OCO_FILLED" \in Reasons
    BY DEF Reasons
  <2>3. EndEntry(s, id) = EndOrder(s, o.parent, "OCO_FILLED")
    BY <1>2 DEF EndEntry
  <2> QED BY <1>2, <2>1, <2>2, <2>3, EndOrderRests DEF OneChanged
<1>3. CASE ~(o.role # "Normal" /\ o.parent # NoOrder)
  <2>1. EndEntry(s, id) = s
    BY <1>3 DEF EndEntry
  <2> QED BY <2>1, RestsSelf
<1> QED BY <1>2, <1>3

LEMMA GrownOrder ==
  ASSUME NEW o \in OrderRecords, Proper(o), NEW qty \in Nat
  PROVE  Grown(o, qty) \in OrderRecords /\ Tidy(o, Grown(o, qty))
<1>1. o.filled \in Nat /\ o.req.qty \in Nat
  BY OrderFields
<1>2. CASE IsOpen(o) /\ o.filled = 0 /\ o.req.qty < qty
  <2>1. Grown(o, qty) = WithQty(o, qty)
    BY <1>2 DEF Grown
  <2> QED BY <1>1, <1>2, <2>1, WithQtyOrder
<1>3. CASE ~(IsOpen(o) /\ o.filled = 0 /\ o.req.qty < qty)
  BY <1>3, TidySelf DEF Grown
<1> QED BY <1>2, <1>3

\* An exit known already.
LEMMA ExitGrows ==
  ASSUME NEW s, Shaped(s), NEW known \in Ids(s), NEW qty \in Nat
  PROVE  LET t == WithOrder(s, known, Grown(s.orders[known], qty))
         IN  Rests(s, t) /\ OneChanged(s, t, known, t.orders[known]) /\ Tidy(s.orders[known], t.orders[known])
<1> DEFINE p == Grown(s.orders[known], qty)
<1>1. p \in OrderRecords /\ Tidy(s.orders[known], p)
  BY GrownOrder, StateFields DEF Shaped
<1> HIDE DEF p
<1>2. LET t == WithOrder(s, known, p) IN Rests(s, t) /\ OneChanged(s, t, known, p)
  BY <1>1, TidyOne
<1> QED BY <1>1, <1>2 DEF p, OneChanged

-----------------------------------------------------------------------------
(* The exits of an entry *)

\* An order that a bracket's exit may begin as.
NewExit(e, id) ==
  /\ e \in OrderRecords /\ e.role # "Normal" /\ NotChained(e) /\ Proper(e) /\ e.parent = id
EntryNamed(o, p) ==
  /\ p \in OrderRecords /\ SameTerms(o.req, p.req) /\ p.role = o.role /\ p.reduceOnly = o.reduceOnly
  /\ p.filled = o.filled /\ p.status = o.status /\ p.oco = o.oco /\ p.parent = o.parent /\ p.chained = o.chained
  /\ p.from = o.from /\ Proper(p)
ExitsAttached(s, t, id) ==
  /\ t \in StateRecords /\ SameBook(s, t) /\ Len(s.orders) <= Len(t.orders)
  /\ \A other \in Ids(s) : other # id => t.orders[other] = s.orders[other]
  /\ EntryNamed(s.orders[id], t.orders[id])
  /\ t.orders[id].stop = s.orders[id].stop \/ (t.orders[id].stop \in Ids(t) /\ t.orders[id].stop > Len(s.orders))
  /\ t.orders[id].target = s.orders[id].target \/ (t.orders[id].target \in Ids(t) /\ t.orders[id].target > Len(s.orders))
  /\ \A new \in Ids(t) : new > Len(s.orders) =>
       /\ NewExit(t.orders[new], id)
       /\ t.orders[new].oco # NoOrder =>
            /\ t.orders[new].oco \in Ids(t) /\ t.orders[new].oco > Len(s.orders) /\ t.orders[new].oco # new
            /\ t.orders[t.orders[new].oco].oco = new

LEMMA AttachedShaped ==
  ASSUME NEW s, Shaped(s), NEW id \in Ids(s), NEW t, ExitsAttached(s, t, id), s.orders[id].role = "Normal"
  PROVE  Shaped(t)
<1>1. s \in StateRecords /\ t \in StateRecords
  BY DEF Shaped, ExitsAttached
<1>2. \A other \in Ids(s) : other \in Ids(t) /\ ~(other > Len(s.orders))
  BY <1>1, StateFields DEF Ids, ExitsAttached
<1>3. \A other \in Ids(t) : other \in Ids(s) \/ other > Len(s.orders)
  BY <1>1, StateFields DEF Ids, ExitsAttached
<1>4. \A other \in Ids(s) : t.orders[other].oco = s.orders[other].oco /\ t.orders[other].role = s.orders[other].role
                            /\ t.orders[other].parent = s.orders[other].parent
  BY DEF ExitsAttached, EntryNamed
<1>5. \A new \in Ids(t) : new > Len(s.orders) => t.orders[new].role # "Normal" /\ t.orders[new].parent = id
  BY DEF ExitsAttached, NewExit
<1>6. ASSUME NEW other \in Ids(t) PROVE Proper(t.orders[other])
  <2>1. CASE other \in Ids(s)
    BY <2>1 DEF ExitsAttached, EntryNamed, Shaped
  <2>2. CASE other > Len(s.orders)
    BY <1>6, <2>2 DEF ExitsAttached, NewExit
  <2> QED BY <1>3, <2>1, <2>2
<1>7. ASSUME NEW other \in Ids(t) PROVE Linked(t, other)
  <2> DEFINE o == t.orders[other]
  <2>1. CASE other \in Ids(s)
    <3>1. Linked(s, other)
      BY <2>1 DEF Shaped
    <3>2. ASSUME o.oco # NoOrder
          PROVE  /\ o.oco \in Ids(t) /\ o.oco # other /\ t.orders[o.oco].oco = other
                 /\ (o.role = "Normal" <=> t.orders[o.oco].role = "Normal")
      <4>1. o.oco = s.orders[other].oco /\ o.role = s.orders[other].role
        BY <1>4, <2>1
      <4>2. /\ o.oco \in Ids(s) /\ o.oco # other /\ s.orders[o.oco].oco = other
            /\ (o.role = "Normal" <=> s.orders[o.oco].role = "Normal")
        BY <3>1, <3>2, <4>1 DEF Linked
      <4> QED BY <1>2, <1>4, <4>2
    <3>3. o.parent # NoOrder => o.parent \in Ids(t)
      BY <1>2, <1>4, <2>1, <3>1 DEF Linked
    <3>4. ASSUME o.role = "Normal", o.stop # NoOrder PROVE o.stop \in Ids(t) /\ t.orders[o.stop].role # "Normal"
      <4>1. CASE o.stop = s.orders[other].stop
        <5>1. o.stop \in Ids(s) /\ s.orders[o.stop].role # "Normal"
          BY <1>4, <2>1, <3>1, <3>4, <4>1 DEF Linked
        <5> QED BY <1>2, <1>4, <5>1
      <4>2. CASE o.stop \in Ids(t) /\ o.stop > Len(s.orders)
        BY <1>5, <4>2
      <4> QED BY <2>1, <4>1, <4>2 DEF ExitsAttached
    <3>5. ASSUME o.role = "Normal", o.target # NoOrder PROVE o.target \in Ids(t) /\ t.orders[o.target].role # "Normal"
      <4>1. CASE o.target = s.orders[other].target
        <5>1. o.target \in Ids(s) /\ s.orders[o.target].role # "Normal"
          BY <1>4, <2>1, <3>1, <3>5, <4>1 DEF Linked
        <5> QED BY <1>2, <1>4, <5>1
      <4>2. CASE o.target \in Ids(t) /\ o.target > Len(s.orders)
        BY <1>5, <4>2
      <4> QED BY <2>1, <4>1, <4>2 DEF ExitsAttached
    <3> QED BY <3>2, <3>3, <3>4, <3>5 DEF Linked
  <2>2. CASE other > Len(s.orders)
    <3>1. o.role # "Normal" /\ o.parent \in Ids(t)
      BY <1>2, <1>5, <1>7, <2>2
    <3>2. ASSUME o.oco # NoOrder
          PROVE  /\ o.oco \in Ids(t) /\ o.oco # other /\ t.orders[o.oco].oco = other
                 /\ t.orders[o.oco].role # "Normal"
      BY <1>5, <1>7, <2>2, <3>2 DEF ExitsAttached
    <3> QED BY <3>1, <3>2 DEF Linked
  <2> QED BY <1>3, <1>7, <2>1, <2>2
<1> QED BY <1>1, <1>6, <1>7 DEF Shaped

LEMMA AttachedRests ==
  ASSUME NEW s, Shaped(s), NEW id \in Ids(s), NEW t, ExitsAttached(s, t, id), s.orders[id].role = "Normal"
  PROVE  Rests(s, t)
<1>1. s \in StateRecords /\ t \in StateRecords /\ SameBook(s, t) /\ Len(s.orders) <= Len(t.orders)
  BY DEF Shaped, ExitsAttached
<1>2. Shaped(t)
  BY AttachedShaped
<1>3. ASSUME NEW other \in Ids(s)
      PROVE  /\ SameTerms(s.orders[other].req, t.orders[other].req)
             /\ t.orders[other].role = s.orders[other].role /\ t.orders[other].reduceOnly = s.orders[other].reduceOnly
             /\ t.orders[other].filled = s.orders[other].filled /\ t.orders[other].status = s.orders[other].status
             /\ t.orders[other].oco = s.orders[other].oco /\ t.orders[other].chained = s.orders[other].chained
             /\ t.orders[other].from = s.orders[other].from
  BY DEF ExitsAttached, EntryNamed, SameTerms
<1>4. ASSUME NEW other \in Ids(s) PROVE AdvanceAt(s, t, other)
  <2> DEFINE o == s.orders[other]  p == t.orders[other]
  <2>1. Advance(o, p)
    BY <1>3 DEF Advance
  <2>2. Depth(t, p.req.side) = Depth(s, o.req.side) /\ (Marketable(t, p) <=> Marketable(s, o))
        /\ (Reached(t, p) <=> Reached(s, o)) /\ (IsOpen(p) <=> IsOpen(o))
    BY <1>1, <1>3 DEF SameBook, SameTerms, Depth, Marketable, Reached, IsOpen
  <2>3. Calm(s, other) => Calm(t, other)
    BY <1>3, <2>2 DEF Calm, Swept
  <2> QED BY <1>3, <2>1, <2>3 DEF AdvanceAt
<1>5. s.bid \in Nat /\ s.ask \in Nat
  BY <1>1, StateFields
<1>6. Onward(s, t)
  BY <1>1, <1>4, <1>5 DEF Onward, SameBook
<1>7. Fresh(s, t)
  BY <1>3 DEF Fresh, ExitsAttached, NewExit
<1>8. Still(s, t)
  BY <1>3 DEF Still
<1> QED BY <1>2, <1>6, <1>7, <1>8 DEF Rests

LEMMA Option == ASSUME NEW S, NEW x \in Optional(S) PROVE x # None => x[1] \in S /\ Len(x) = 1
  BY DEF Optional, None

LEMMA NoneOption == ASSUME NEW S PROVE None \in Optional(S)
  BY DEF Optional, None

LEMMA RequestTyped ==
  ASSUME NEW side \in Sides, NEW qty \in Nat, NEW limit \in Nat, NEW ioc \in BOOLEAN, NEW trigger \in Triggers
  PROVE  LET r == [Request(side, qty, limit, ioc) EXCEPT !.trigger = trigger]
         IN  /\ r \in RequestRecords /\ r.side = side /\ r.qty = qty /\ r.limit = limit /\ r.ioc = ioc
             /\ r.trigger = trigger /\ r.bracket = None /\ ~r.exitsOnly /\ r.then = None /\ r.oco = None /\ r.walk = None
<1>1. None \in Brackets /\ None \in Nexts /\ None \in Walks
  BY NoneOption DEF Brackets, Nexts, Walks
<1> DEFINE q == Request(side, qty, limit, ioc)
<1>0. None \in Triggers
  BY NoneOption DEF Triggers
<1>2. /\ q \in RequestRecords /\ q.side = side /\ q.qty = qty /\ q.limit = limit /\ q.ioc = ioc
      /\ q.bracket = None /\ ~q.exitsOnly /\ q.then = None /\ q.oco = None /\ q.walk = None
  BY <1>0, <1>1 DEF Request, RequestRecords
<1> HIDE DEF q
<1>3. LET r == [q EXCEPT !.trigger = trigger]
      IN  /\ r \in RequestRecords /\ r.side = side /\ r.qty = qty /\ r.limit = limit /\ r.ioc = ioc
          /\ r.trigger = trigger /\ r.bracket = None /\ ~r.exitsOnly /\ r.then = None /\ r.oco = None /\ r.walk = None
  BY <1>2 DEF RequestRecords
<1> QED BY <1>3 DEF q

\* A new order, in a role of its own.
NewIn(r, role, parent, status) == [NewOrder(r) EXCEPT !.role = role, !.parent = parent, !.status = status]

LEMMA NewInTyped ==
  ASSUME NEW r \in RequestRecords, NEW role \in Roles, NEW parent \in Nat, NEW status \in Statuses
  PROVE  LET e == NewIn(r, role, parent, status)
         IN  /\ e \in OrderRecords /\ e.req = r /\ e.filled = 0 /\ e.status = status /\ e.role = role
             /\ e.parent = parent /\ e.oco = NoOrder /\ e.stop = NoOrder /\ e.target = NoOrder /\ ~e.reduceOnly
             /\ NotChained(e)
<1> DEFINE q == NewOrder(r)
<1>1. "NONE" \in Reasons /\ NoOrder \in Nat /\ "Working" \in Statuses /\ "Normal" \in Roles
  BY DEF Reasons, NoOrder, Statuses, Roles
<1>2. /\ q \in OrderRecords /\ q.req = r /\ q.filled = 0 /\ q.oco = NoOrder /\ q.stop = NoOrder /\ q.target = NoOrder
      /\ ~q.reduceOnly /\ q.chained = NoOrder /\ q.from = NoOrder
  BY <1>1 DEF NewOrder, OrderRecords
<1> HIDE DEF q
<1>3. LET e == [q EXCEPT !.role = role, !.parent = parent, !.status = status]
      IN  /\ e \in OrderRecords /\ e.req = r /\ e.filled = 0 /\ e.status = status /\ e.role = role
          /\ e.parent = parent /\ e.oco = NoOrder /\ e.stop = NoOrder /\ e.target = NoOrder /\ ~e.reduceOnly
          /\ NotChained(e)
  BY <1>2 DEF OrderRecords, NotChained
<1> QED BY <1>3 DEF q, NewIn

LEMMA ExitOrder ==
  ASSUME NEW entry \in OrderRecords, entry.filled > 0, NEW id \in Nat,
         NEW spec \in [limit : Nat, trigger : Triggers], NEW role \in Roles \ {"Normal"}
  PROVE  LET e == Exit(entry, id, spec, role)
         IN  NewExit(e, id) /\ e.oco = NoOrder
<1>1. Opposite(entry.req.side) \in Sides /\ entry.filled \in Nat /\ spec.limit \in Nat /\ spec.trigger \in Triggers
  BY OrderFields DEF Opposite, Sides
<1> DEFINE ioc == spec.limit = 0
           r == [Request(Opposite(entry.req.side), entry.filled, spec.limit, ioc) EXCEPT !.trigger = spec.trigger]
           e == NewIn(r, role, id, Resting(spec.trigger))
<1>2. Exit(entry, id, spec, role) = e
  BY DEF Exit, NewIn, NoOrder
<1>3. ioc \in BOOLEAN
  OBVIOUS
<1>4. ioc <=> spec.limit = 0
  OBVIOUS
<1> HIDE DEF ioc
<1>5. /\ r \in RequestRecords /\ r.qty = entry.filled /\ r.limit = spec.limit /\ r.ioc = ioc
      /\ r.trigger = spec.trigger /\ r.bracket = None /\ ~r.exitsOnly /\ r.then = None /\ r.walk = None
  BY <1>1, <1>3, RequestTyped
<1>6. Resting(spec.trigger) \in Statuses /\ (Resting(spec.trigger) = "Armed" => spec.trigger # None)
  BY DEF Resting, Statuses
<1> HIDE DEF r
<1>7. /\ e \in OrderRecords /\ e.req = r /\ e.filled = 0 /\ e.status = Resting(spec.trigger) /\ e.role = role
      /\ e.parent = id /\ e.oco = NoOrder /\ NotChained(e)
  BY <1>5, <1>6, NewInTyped
<1> HIDE DEF e
<1>8. Proper(e)
  <2>1. IsOpen(e) => e.filled < e.req.qty
    BY <1>5, <1>7
  <2>2. e.status = "Armed" => e.req.trigger # None
    BY <1>5, <1>6, <1>7
  <2>3. e.req.then = None /\ e.req.walk = None /\ e.req.bracket = None
    BY <1>5, <1>7
  <2>4. e.req.ioc => e.req.limit = 0
    BY <1>4, <1>5, <1>7
  <2> QED BY <1>7, <2>1, <2>2, <2>3, <2>4 DEF Proper
<1> QED BY <1>2, <1>7, <1>8 DEF NewExit

\* One exit more, which the entry names.
Named(o, p) ==
  /\ p \in OrderRecords /\ p.req = o.req /\ p.role = o.role /\ p.reduceOnly = o.reduceOnly
  /\ p.filled = o.filled /\ p.status = o.status /\ p.oco = o.oco /\ p.parent = o.parent /\ p.chained = o.chained
  /\ p.from = o.from
SideAdded(s, t, id) ==
  /\ t \in StateRecords /\ SameBook(s, t) /\ Len(t.orders) = Len(s.orders) + 1
  /\ \A other \in Ids(s) : other # id => t.orders[other] = s.orders[other]
  /\ Named(s.orders[id], t.orders[id])
  /\ NewExit(t.orders[Len(t.orders)], id) /\ t.orders[Len(t.orders)].oco = NoOrder

LEMMA NamedStop ==
  ASSUME NEW o \in OrderRecords, NEW n \in Nat
  PROVE  LET p == [o EXCEPT !.stop = n] IN Named(o, p) /\ p.stop = n /\ p.target = o.target
  BY DEF OrderRecords, Named

LEMMA NamedTarget ==
  ASSUME NEW o \in OrderRecords, NEW n \in Nat
  PROVE  LET p == [o EXCEPT !.target = n] IN Named(o, p) /\ p.target = n /\ p.stop = o.stop
  BY DEF OrderRecords, Named

LEMMA ExitSideAdds ==
  ASSUME NEW s \in StateRecords, NEW id \in Ids(s), s.orders[id].filled > 0, NEW role \in {"StopLoss", "TakeProfit"},
         NEW spec \in ExitSpecs, spec # None,
         spec = IF role = "StopLoss" THEN s.orders[id].req.bracket[1].stop ELSE s.orders[id].req.bracket[1].target,
         NoOrder = IF role = "StopLoss" THEN s.orders[id].stop ELSE s.orders[id].target
  PROVE  LET t == ExitSide(s, id, role)
         IN  /\ SideAdded(s, t, id)
             /\ role = "StopLoss" => t.orders[id].stop = Len(t.orders) /\ t.orders[id].target = s.orders[id].target
             /\ role = "TakeProfit" => t.orders[id].target = Len(t.orders) /\ t.orders[id].stop = s.orders[id].stop
<1> DEFINE entry == s.orders[id]
           next == Len(s.orders) + 1
           named == IF role = "StopLoss" THEN [entry EXCEPT !.stop = next] ELSE [entry EXCEPT !.target = next]
           e == Exit(entry, id, spec[1], role)
           u == WithOrder(s, id, named)
           t == AddOrder(u, e)
<1>1. entry \in OrderRecords /\ Len(s.orders) \in Nat /\ id \in Nat
  BY StateFields DEF Ids
<1>2. /\ Named(entry, named)
      /\ role = "StopLoss" => named.stop = next /\ named.target = entry.target
      /\ role = "TakeProfit" => named.target = next /\ named.stop = entry.stop
  <2>1. CASE role = "StopLoss"
    <3> DEFINE p == [entry EXCEPT !.stop = next]
    <3>1. named = p
      BY <2>1
    <3>2. next \in Nat
      BY <1>1
    <3> HIDE DEF named, next
    <3>3. Named(entry, p) /\ p.stop = next /\ p.target = entry.target
      <4> HIDE DEF entry
      <4> QED BY <1>1, <3>2, NamedStop
    <3> HIDE DEF p, entry
    <3> QED BY <2>1, <3>1, <3>3
  <2>2. CASE role = "TakeProfit"
    <3> DEFINE p == [entry EXCEPT !.target = next]
    <3>1. named = p
      BY <2>2
    <3>2. next \in Nat
      BY <1>1
    <3> HIDE DEF named, next
    <3>3. Named(entry, p) /\ p.target = next /\ p.stop = entry.stop
      <4> HIDE DEF entry
      <4> QED BY <1>1, <3>2, NamedTarget
    <3> HIDE DEF p, entry
    <3> QED BY <2>2, <3>1, <3>3
  <2> QED BY <2>1, <2>2
<1>3. spec[1] \in [limit : Nat, trigger : Triggers]
  BY Option DEF ExitSpecs
<1>4. NewExit(e, id) /\ e.oco = NoOrder
  <2>1. role \in Roles \ {"Normal"}
    BY DEF Roles
  <2> DEFINE first == spec[1]
  <2>2. first \in [limit : Nat, trigger : Triggers] /\ entry.filled > 0
    BY <1>3
  <2> HIDE DEF first, entry
  <2>3. NewExit(Exit(entry, id, first, role), id) /\ Exit(entry, id, first, role).oco = NoOrder
    BY <1>1, <2>1, <2>2, ExitOrder
  <2> QED BY <2>3 DEF first
<1>5. ExitSide(s, id, role) = t
  BY DEF ExitSide
<1> HIDE DEF named, e
<1>6. OneChanged(s, u, id, named)
  BY <1>2, WithOrderState DEF Named
<1> HIDE DEF u
<1>7. OneAdded(u, t, e)
  BY <1>4, <1>6, AddOrderState DEF OneChanged, NewExit
<1> HIDE DEF t
<1>8. /\ Len(t.orders) = next /\ t.orders[next] = e /\ t.orders[id] = named /\ t \in StateRecords /\ SameBook(s, t)
      /\ \A other \in Ids(s) : other # id => t.orders[other] = s.orders[other]
  BY <1>6, <1>7 DEF OneChanged, OneAdded, SameBook, Ids
<1>9. SideAdded(s, t, id)
  BY <1>2, <1>4, <1>8 DEF SideAdded
<1> QED BY <1>2, <1>5, <1>8, <1>9

LEMMA NewExitOco ==
  ASSUME NEW e, NEW id, NewExit(e, id), NEW n \in Nat
  PROVE  LET x == [e EXCEPT !.oco = n] IN NewExit(x, id) /\ x.oco = n
<1> DEFINE x == [e EXCEPT !.oco = n]
<1>1. /\ x \in OrderRecords /\ x.req = e.req /\ x.filled = e.filled /\ x.status = e.status /\ x.role = e.role
      /\ x.parent = e.parent /\ x.chained = e.chained /\ x.from = e.from /\ x.oco = n
      /\ x.stop = e.stop /\ x.target = e.target
  BY DEF NewExit, OrderRecords
<1> HIDE DEF x
<1>2. Proper(x)
  BY <1>1 DEF NewExit, Proper, IsOpen
<1>3. NewExit(x, id) /\ x.oco = n
  BY <1>1, <1>2 DEF NewExit, NotChained
<1> QED BY <1>3 DEF x

LEMMA NamedProper ==
  ASSUME NEW o \in OrderRecords, Proper(o), NEW p, Named(o, p),
         p.req.bracket # None,
         p.stop # NoOrder => p.req.bracket[1].stop # None, p.target # NoOrder => p.req.bracket[1].target # None,
         p.req.bracket[1].stop # None /\ p.req.bracket[1].target # None => (p.stop = NoOrder <=> p.target = NoOrder)
  PROVE  EntryNamed(o, p)
<1>1. Proper(p)
  <2>1. IsOpen(p) => p.filled < p.req.qty
    BY DEF Named, Proper, IsOpen
  <2>2. p.status = "Armed" => p.req.trigger # None
    BY DEF Named, Proper
  <2>3. p.role # "Normal" => /\ p.req.then = None /\ p.req.walk = None
                             /\ p.req.ioc => p.req.limit = 0
                             /\ (p.req.bracket = None \/ p.req.exitsOnly)
    BY DEF Named, Proper
  <2> QED BY <2>1, <2>2, <2>3 DEF Proper
<1> QED BY <1>1 DEF Named, EntryNamed, SameTerms

\* The exit of a bracket with one.
LEMMA OneSideAttached ==
  ASSUME NEW s, Shaped(s), NEW id \in Ids(s), s.orders[id].role = "Normal", NEW t, SideAdded(s, t, id),
         s.orders[id].req.bracket # None,
         LET o == s.orders[id]  p == t.orders[id]  b == o.req.bracket[1]
         IN  \/ p.stop = Len(t.orders) /\ p.target = o.target /\ b.stop # None /\ b.target = None /\ o.target = NoOrder
             \/ p.target = Len(t.orders) /\ p.stop = o.stop /\ b.target # None /\ b.stop = None /\ o.stop = NoOrder
  PROVE  Rests(s, t)
<1> DEFINE o == s.orders[id]  p == t.orders[id]  b == o.req.bracket[1]
<1>1. s \in StateRecords /\ o \in OrderRecords /\ Proper(o) /\ Len(s.orders) \in Nat
  BY StateFields DEF Shaped
<1>2. Named(o, p) /\ t \in StateRecords /\ Len(t.orders) = Len(s.orders) + 1
  BY DEF SideAdded
<1>3. p.req.bracket = o.req.bracket
  BY <1>2 DEF Named
<1>4. EntryNamed(o, p)
  <2>1. p.stop # NoOrder => p.req.bracket[1].stop # None
    BY <1>3
  <2>2. p.target # NoOrder => p.req.bracket[1].target # None
    BY <1>3
  <2>3. ~(p.req.bracket[1].stop # None /\ p.req.bracket[1].target # None)
    BY <1>3
  <2>4. p.req.bracket # None
    BY <1>3
  <2> HIDE DEF o, p
  <2> QED BY <1>1, <1>2, <2>1, <2>2, <2>3, <2>4, NamedProper
<1>5. ASSUME NEW new \in Ids(t), new > Len(s.orders) PROVE new = Len(t.orders)
  BY <1>1, <1>2, <1>5 DEF Ids
<1>6. ExitsAttached(s, t, id)
  <2>1. Len(t.orders) \in Ids(t) /\ Len(t.orders) > Len(s.orders)
    BY <1>1, <1>2 DEF Ids
  <2>2. p.stop = o.stop \/ p.stop = Len(t.orders)
    OBVIOUS
  <2>3. p.target = o.target \/ p.target = Len(t.orders)
    OBVIOUS
  <2> HIDE DEF o, p
  <2>4. /\ p.stop = o.stop \/ (p.stop \in Ids(t) /\ p.stop > Len(s.orders))
        /\ p.target = o.target \/ (p.target \in Ids(t) /\ p.target > Len(s.orders))
    BY <2>1, <2>2, <2>3
  <2>5. \A new \in Ids(t) : new > Len(s.orders) => NewExit(t.orders[new], id) /\ t.orders[new].oco = NoOrder
    BY <1>5 DEF SideAdded
  <2>6. Len(s.orders) <= Len(t.orders)
    BY <1>1, <1>2
  <2> QED BY <1>2, <1>4, <2>4, <2>5, <2>6 DEF ExitsAttached, SideAdded, o, p
<1> QED BY <1>6, AttachedRests

\* The two exits of a bracket with both, linked.
LEMMA BothSidesAttached ==
  ASSUME NEW s, Shaped(s), NEW id \in Ids(s), s.orders[id].role = "Normal",
         s.orders[id].req.bracket # None,
         s.orders[id].req.bracket[1].stop # None, s.orders[id].req.bracket[1].target # None,
         NEW t, SideAdded(s, t, id), t.orders[id].stop = Len(t.orders),
         NEW u, SideAdded(t, u, id), u.orders[id].target = Len(u.orders), u.orders[id].stop = t.orders[id].stop
  PROVE  Rests(s, Link(u, u.orders[id].stop, u.orders[id].target))
<1> DEFINE n == Len(s.orders)
           a == n + 1
           b == n + 2
           o == s.orders[id]
           x == [u.orders[a] EXCEPT !.oco = b]
           v == WithOrder(u, a, x)
           y == [v.orders[b] EXCEPT !.oco = a]
           w == WithOrder(v, b, y)
<1>1. s \in StateRecords /\ t \in StateRecords /\ u \in StateRecords /\ n \in Nat /\ o \in OrderRecords /\ Proper(o)
  BY StateFields DEF Shaped, SideAdded
<1>2. Len(t.orders) = a /\ Len(u.orders) = b /\ id \in 1..n
  BY <1>1 DEF SideAdded, Ids
<1>3. a \in Ids(u) /\ b \in Ids(u) /\ a \in Ids(t) /\ id \in Ids(u) /\ id \in Ids(t) /\ a # b /\ id # a /\ id # b
  BY <1>1, <1>2 DEF Ids
<1>4. u.orders[id].stop = a /\ u.orders[id].target = b
  BY <1>2
<1>5. Link(u, a, b) = w
  BY DEF Link, WithOco
<1> HIDE DEF n, a, b
<1>6. NewExit(u.orders[a], id) /\ NewExit(u.orders[b], id)
  <2>1. u.orders[a] = t.orders[a]
    BY <1>2, <1>3 DEF SideAdded
  <2> QED BY <1>2, <2>1 DEF SideAdded
<1>7. a \in Nat /\ b \in Nat
  BY <1>3 DEF Ids
<1>8. NewExit(x, id) /\ x.oco = b
  BY <1>6, <1>7, NewExitOco
<1> HIDE DEF x
<1>9. OneChanged(u, v, a, x)
  BY <1>1, <1>3, <1>8, WithOrderState DEF NewExit
<1> HIDE DEF v
<1>10. v.orders[b] = u.orders[b] /\ v \in StateRecords /\ b \in Ids(v)
  BY <1>3, <1>9 DEF OneChanged, Ids
<1>11. NewExit(y, id) /\ y.oco = a
  BY <1>6, <1>7, <1>10, NewExitOco
<1> HIDE DEF y
<1>12. OneChanged(v, w, b, y)
  BY <1>10, <1>11, WithOrderState DEF NewExit
<1> HIDE DEF w
<1>13. /\ w \in StateRecords /\ SameBook(u, w) /\ Len(w.orders) = b /\ w.orders[a] = x /\ w.orders[b] = y
       /\ \A other \in Ids(u) : other # a /\ other # b => w.orders[other] = u.orders[other]
  BY <1>2, <1>3, <1>9, <1>12 DEF OneChanged, SameBook, Ids
<1>14. Named(o, w.orders[id])
  <2>1. w.orders[id] = u.orders[id]
    BY <1>3, <1>13
  <2>2. Named(o, t.orders[id]) /\ Named(t.orders[id], u.orders[id])
    BY DEF SideAdded
  <2> QED BY <2>1, <2>2 DEF Named
<1>15. w.orders[id].stop = a /\ w.orders[id].target = b
  BY <1>3, <1>4, <1>13
<1>16. a # NoOrder /\ b # NoOrder
  BY <1>1 DEF a, b, NoOrder, n
<1>17. EntryNamed(o, w.orders[id])
  <2>1. w.orders[id].req.bracket = o.req.bracket
    BY <1>14 DEF Named
  <2> QED BY <1>1, <1>14, <1>15, <1>16, <2>1, NamedProper
<1>18. ExitsAttached(s, w, id)
  <2>1. SameBook(s, w)
    BY <1>13 DEF SideAdded, SameBook
  <2>2. Len(s.orders) <= Len(w.orders) /\ a > Len(s.orders) /\ b > Len(s.orders) /\ a \in Ids(w) /\ b \in Ids(w)
    BY <1>1, <1>13 DEF a, b, n, Ids
  <2>3. ASSUME NEW other \in Ids(s), other # id PROVE w.orders[other] = s.orders[other]
    <3>1. other \in Ids(t) /\ other \in Ids(u) /\ other # a /\ other # b
      BY <1>1, <1>2, <2>3 DEF Ids, a, b, n
    <3>2. u.orders[other] = t.orders[other] /\ t.orders[other] = s.orders[other]
      BY <2>3, <3>1 DEF SideAdded
    <3> QED BY <1>13, <3>1, <3>2
  <2>4. ASSUME NEW new \in Ids(w), new > Len(s.orders)
        PROVE  /\ NewExit(w.orders[new], id)
               /\ w.orders[new].oco \in Ids(w) /\ w.orders[new].oco > Len(s.orders) /\ w.orders[new].oco # new
               /\ w.orders[w.orders[new].oco].oco = new
    <3>1. new = a \/ new = b
      BY <1>1, <1>13, <2>4 DEF Ids, a, b, n
    <3> QED BY <1>3, <1>8, <1>11, <1>13, <2>2, <3>1
  <2>5. w \in StateRecords
    BY <1>13
  <2> QED BY <1>15, <1>17, <2>1, <2>2, <2>3, <2>4, <2>5 DEF ExitsAttached
<1>19. Rests(s, w)
  BY <1>18, AttachedRests
<1> QED BY <1>4, <1>5, <1>19

\* What the exits of an entry do, with its exits known or not.
LEMMA KnownSide ==
  ASSUME NEW s, Shaped(s), NEW id \in Ids(s), s.orders[id].role = "Normal", NEW role \in {"StopLoss", "TakeProfit"},
         NoOrder # IF role = "StopLoss" THEN s.orders[id].stop ELSE s.orders[id].target
  PROVE  LET t == ExitSide(s, id, role)
         IN  Rests(s, t) /\ Len(t.orders) = Len(s.orders) /\ t.orders[id] = s.orders[id]
<1> DEFINE entry == s.orders[id]
           known == IF role = "StopLoss" THEN entry.stop ELSE entry.target
           spec == IF role = "StopLoss" THEN entry.req.bracket[1].stop ELSE entry.req.bracket[1].target
           t == WithOrder(s, known, Grown(s.orders[known], entry.filled))
<1>1. known \in Ids(s) /\ s.orders[known].role # "Normal"
  <2>1. Linked(s, id)
    BY DEF Shaped
  <2>2. CASE role = "StopLoss"
    BY <2>1, <2>2 DEF Linked
  <2>3. CASE role = "TakeProfit"
    BY <2>1, <2>3 DEF Linked
  <2> QED BY <2>2, <2>3
<1>2. known # id
  <2> HIDE DEF known
  <2> QED BY <1>1
<1>3. ExitSide(s, id, role) = IF spec = None THEN s ELSE t
  BY DEF ExitSide
<1>4. entry.filled \in Nat
  BY StateFields, OrderFields DEF Shaped
<1> HIDE DEF known
<1>5. Rests(s, t) /\ OneChanged(s, t, known, t.orders[known])
  BY <1>1, <1>4, ExitGrows
<1> HIDE DEF t
<1>6. Rests(s, t) /\ Len(t.orders) = Len(s.orders) /\ t.orders[id] = s.orders[id]
  BY <1>2, <1>5 DEF OneChanged
<1>7. Rests(s, s)
  BY RestsSelf
<1> QED BY <1>3, <1>6, <1>7

LEMMA AttachExitsRests ==
  ASSUME NEW s, Shaped(s), NEW id \in Ids(s), s.orders[id].filled > 0
  PROVE  LET t == AttachExits(s, id)
         IN  Rests(s, t) /\ (s.orders[id].req.bracket = None \/ s.orders[id].req.exitsOnly => Len(t.orders) = Len(s.orders))
<1> DEFINE o == s.orders[id]
           b == o.req.bracket[1]
           s1 == ExitSide(s, id, "StopLoss")
           s2 == ExitSide(s1, id, "TakeProfit")
           t == PairExits(s2, id, Len(s.orders))
<1>1. s \in StateRecords /\ o \in OrderRecords /\ Proper(o) /\ Len(s.orders) \in Nat
  BY StateFields DEF Shaped
<1>2. CASE o.req.bracket = None \/ o.req.exitsOnly
  <2>1. AttachExits(s, id) = s
    BY <1>2 DEF AttachExits
  <2> QED BY <2>1, RestsSelf
<1>3. CASE ~(o.req.bracket = None \/ o.req.exitsOnly)
  <2>1. AttachExits(s, id) = t
    BY <1>3 DEF AttachExits
  <2>2. /\ o.role = "Normal" /\ o.req.bracket # None
        /\ o.stop # NoOrder => b.stop # None
        /\ o.target # NoOrder => b.target # None
        /\ b.stop # None /\ b.target # None => (o.stop = NoOrder <=> o.target = NoOrder)
    BY <1>1, <1>3 DEF Proper
  <2>3. b.stop \in ExitSpecs /\ b.target \in ExitSpecs
    <3>1. o.req.bracket \in Brackets
      BY <1>1, OrderFields
    <3>2. b \in [stop : ExitSpecs, target : ExitSpecs]
      BY <2>2, <3>1, Option DEF Brackets
    <3> QED BY <3>2
  <2>4. b.stop = None => s1 = s
    BY DEF ExitSide
  <2>5. o.stop # NoOrder => Rests(s, s1) /\ Len(s1.orders) = Len(s.orders) /\ s1.orders[id] = o
    BY <2>2, KnownSide
  <2>6. b.stop # None /\ o.stop = NoOrder =>
          SideAdded(s, s1, id) /\ s1.orders[id].stop = Len(s1.orders) /\ s1.orders[id].target = o.target
    <3> SUFFICES ASSUME b.stop # None, o.stop = NoOrder
                 PROVE SideAdded(s, s1, id) /\ s1.orders[id].stop = Len(s1.orders) /\ s1.orders[id].target = o.target
      OBVIOUS
    <3> DEFINE spec == b.stop
    <3>1. spec \in ExitSpecs /\ spec # None
      BY <2>3
    <3>2. /\ spec = IF "StopLoss" = "StopLoss" THEN s.orders[id].req.bracket[1].stop ELSE s.orders[id].req.bracket[1].target
          /\ NoOrder = IF "StopLoss" = "StopLoss" THEN s.orders[id].stop ELSE s.orders[id].target
      OBVIOUS
    <3> HIDE DEF spec
    <3> QED BY <1>1, <3>1, <3>2, ExitSideAdds
  <2>7. Len(s1.orders) = Len(s.orders) => t = s2 \/ Len(s2.orders) > Len(s.orders)
    BY DEF PairExits
  <2>8. ~(Len(s2.orders) > Len(s.orders)) => t = s2
    BY DEF PairExits
  <2>9. CASE b.target = None
    <3>1. s1.orders[id].req = o.req /\ s1.orders[id].target = o.target
      BY <2>2, <2>4, <2>5, <2>6 DEF SideAdded, Named
    <3>2. s2 = s1
      BY <2>9, <3>1 DEF ExitSide
    <3>3. t = s1
      <4>1. o.target = NoOrder
        BY <2>2, <2>9
      <4>2. s1.orders[id].target = NoOrder
        BY <3>1, <4>1
      <4> QED BY <3>2, <4>2 DEF PairExits
    <3>4. Rests(s, s1)
      <4>1. CASE b.stop = None
        BY <2>4, <4>1, RestsSelf
      <4>2. CASE o.stop # NoOrder
        BY <2>5, <4>2
      <4>3. CASE b.stop # None /\ o.stop = NoOrder
        <5>1. SideAdded(s, s1, id) /\ s1.orders[id].stop = Len(s1.orders) /\ s1.orders[id].target = o.target
          BY <2>6, <4>3
        <5> HIDE DEF s1
        <5>2. o.target = NoOrder
          BY <2>2, <2>9
        <5> QED BY <2>2, <2>9, <4>3, <5>1, <5>2, OneSideAttached
      <4> QED BY <4>1, <4>2, <4>3
    <3> QED BY <1>3, <2>1, <3>3, <3>4
  <2>10. CASE b.target # None /\ b.stop = None
    <3>1. s1 = s
      BY <2>4, <2>10
    <3>2. o.stop = NoOrder
      BY <2>2, <2>10
    <3> DEFINE u == ExitSide(s, id, "TakeProfit")
    <3>3. s2 = u
      BY <3>1
    <3>4. CASE o.target # NoOrder
      <4>1. Rests(s, u) /\ Len(u.orders) = Len(s.orders)
        BY <2>2, <3>4, KnownSide
      <4> HIDE DEF s1, s2, u
      <4>2. t = u
        BY <1>1, <2>8, <3>3, <4>1
      <4> QED BY <1>3, <2>1, <4>1, <4>2
    <3>5. CASE o.target = NoOrder
      <4>1. SideAdded(s, u, id) /\ u.orders[id].target = Len(u.orders) /\ u.orders[id].stop = o.stop
        <5> DEFINE spec == b.target
        <5>1. spec \in ExitSpecs /\ spec # None
          BY <2>3, <2>10
        <5>2. /\ spec = IF "TakeProfit" = "StopLoss" THEN s.orders[id].req.bracket[1].stop ELSE s.orders[id].req.bracket[1].target
              /\ NoOrder = IF "TakeProfit" = "StopLoss" THEN s.orders[id].stop ELSE s.orders[id].target
          BY <3>5
        <5> HIDE DEF spec
        <5> QED BY <1>1, <5>1, <5>2, ExitSideAdds
      <4>2. t = u
        <5>1. u.orders[id].stop = NoOrder
          BY <3>2, <4>1
        <5> HIDE DEF u
        <5> QED BY <3>3, <5>1 DEF PairExits
      <4>3. Rests(s, u)
        <5> HIDE DEF u
        <5> QED BY <2>2, <2>10, <3>2, <4>1, OneSideAttached
      <4> QED BY <1>3, <2>1, <4>2, <4>3
    <3> QED BY <3>4, <3>5
  <2>11. CASE b.target # None /\ b.stop # None
    <3>1. CASE o.stop # NoOrder
      <4>1. o.target # NoOrder
        BY <2>2, <2>11, <3>1
      <4>2. Rests(s, s1) /\ Len(s1.orders) = Len(s.orders) /\ s1.orders[id] = o
        BY <2>5, <3>1
      <4> HIDE DEF s1
      <4>3. Rests(s1, s2) /\ Len(s2.orders) = Len(s1.orders)
        <5>1. Shaped(s1) /\ id \in Ids(s1) /\ s1.orders[id].role = "Normal" /\ s1.orders[id].target # NoOrder
          BY <2>2, <4>1, <4>2 DEF Rests, Ids
        <5> QED BY <5>1, KnownSide
      <4> HIDE DEF s2
      <4>4. t = s2
        BY <1>1, <2>8, <4>2, <4>3
      <4>5. Rests(s, s2)
        BY <4>2, <4>3, RestsTrans
      <4> QED BY <1>3, <2>1, <4>4, <4>5
    <3>2. CASE o.stop = NoOrder
      <4>1. o.target = NoOrder
        BY <2>2, <2>11, <3>2
      <4>2. SideAdded(s, s1, id) /\ s1.orders[id].stop = Len(s1.orders) /\ s1.orders[id].target = o.target
        BY <2>6, <2>11, <3>2
      <4> HIDE DEF s1
      <4>3. /\ SideAdded(s1, s2, id) /\ s2.orders[id].target = Len(s2.orders)
            /\ s2.orders[id].stop = s1.orders[id].stop
        <5> DEFINE spec == b.target
        <5>1. spec \in ExitSpecs /\ spec # None
          BY <2>3, <2>11
        <5>2. s1.orders[id].req = o.req /\ s1.orders[id].filled = o.filled /\ s1 \in StateRecords /\ id \in Ids(s1)
          BY <1>1, <4>2 DEF SideAdded, Named, Ids
        <5>3. /\ spec = IF "TakeProfit" = "StopLoss" THEN s1.orders[id].req.bracket[1].stop ELSE s1.orders[id].req.bracket[1].target
              /\ NoOrder = IF "TakeProfit" = "StopLoss" THEN s1.orders[id].stop ELSE s1.orders[id].target
          BY <4>1, <4>2, <5>2
        <5>4. s1.orders[id].filled > 0
          BY <5>2
        <5> HIDE DEF spec
        <5> QED BY <5>1, <5>2, <5>3, <5>4, ExitSideAdds
      <4> HIDE DEF s2
      <4>4. t = Link(s2, s2.orders[id].stop, s2.orders[id].target)
        <5>1. Len(s2.orders) > Len(s.orders) /\ s2.orders[id].stop # NoOrder /\ s2.orders[id].target # NoOrder
          BY <1>1, <4>2, <4>3 DEF SideAdded, NoOrder
        <5> QED BY <5>1 DEF PairExits
      <4> HIDE DEF t
      <4>5. Rests(s, t)
        BY <2>2, <2>11, <4>2, <4>3, <4>4, BothSidesAttached
      <4> QED BY <1>3, <2>1, <4>5
    <3> QED BY <3>1, <3>2
  <2> QED BY <2>9, <2>10, <2>11
<1> QED BY <1>2, <1>3

LEMMA RestsAt ==
  ASSUME NEW s, Shaped(s), NEW t, Rests(s, t), NEW id \in Ids(s)
  PROVE  /\ id \in Ids(t) /\ Shaped(t) /\ t.orders[id].filled = s.orders[id].filled /\ t.orders[id].role = s.orders[id].role
         /\ SameTerms(s.orders[id].req, t.orders[id].req) /\ (s.orders[id].role = "Normal" => t.orders[id].oco = s.orders[id].oco)
         /\ (~IsOpen(s.orders[id]) => ~IsOpen(t.orders[id])) /\ t.orders[id].reduceOnly = s.orders[id].reduceOnly
<1>1. id \in Ids(t)
  BY StateFields DEF Rests, Shaped, Onward, Ids
<1> QED BY <1>1 DEF Rests, Still, Onward, AdvanceAt, Advance, IsOpen

LEMMA OnFillRests ==
  ASSUME NEW s, Shaped(s), NEW id \in Ids(s), s.orders[id].status \in {"Filled", "PartiallyFilled"},
         s.orders[id].filled > 0, NEW units \in Nat
  PROVE  LET t == OnFill(s, id, units)  o == s.orders[id]
         IN  /\ Rests(s, t) /\ Sound(t)
             /\ o.role = "Normal" /\ o.oco # NoOrder => ~IsOpen(t.orders[o.oco])
             /\ o.req.bracket = None \/ o.req.exitsOnly => Len(t.orders) = Len(s.orders)
<1> DEFINE o == s.orders[id]
           a == AfterPairFill(s, id, units)
           b == EndEntry(a, id)
           c == AttachExits(b, id)
           t == SyncExits(c)
<1>1. /\ Rests(s, a) /\ Len(a.orders) = Len(s.orders)
      /\ o.role = "Normal" /\ o.oco # NoOrder => ~IsOpen(a.orders[o.oco])
  BY AfterPairFillRests
<1> HIDE DEF a
<1>2. Shaped(a) /\ id \in Ids(a)
  BY <1>1, RestsAt
<1>3. Rests(a, b) /\ Len(b.orders) = Len(a.orders)
  BY <1>2, EndEntryRests
<1> HIDE DEF b
<1>4. Rests(s, b)
  BY <1>1, <1>3, RestsTrans
<1>5. Shaped(b) /\ id \in Ids(b) /\ b.orders[id].filled > 0 /\ SameTerms(o.req, b.orders[id].req)
  BY <1>4, RestsAt
<1>6. Rests(b, c) /\ (b.orders[id].req.bracket = None \/ b.orders[id].req.exitsOnly => Len(c.orders) = Len(b.orders))
  BY <1>5, AttachExitsRests
<1> HIDE DEF c
<1>7. Shaped(c)
  BY <1>6 DEF Rests
<1>8. Rests(c, t) /\ Sound(t) /\ Len(t.orders) = Len(c.orders)
  BY <1>7, SyncExitsRests
<1> HIDE DEF t
<1>9. Rests(s, c)
  BY <1>4, <1>6, RestsTrans
<1>10. Rests(s, t) /\ Rests(a, t)
  <2>1. Rests(b, t)
    BY <1>5, <1>6, <1>8, RestsTrans
  <2> QED BY <1>2, <1>3, <1>8, <1>9, <2>1, RestsTrans
<1>11. ASSUME o.role = "Normal", o.oco # NoOrder PROVE ~IsOpen(t.orders[o.oco])
  <2>1. o.oco \in Ids(s)
    BY <1>11, LinkedOnes
  <2>2. o.oco \in Ids(a)
    BY <1>1, <2>1, RestsAt
  <2> QED BY <1>1, <1>2, <1>10, <1>11, <2>2, RestsAt
<1>12. o.req.bracket = None \/ o.req.exitsOnly => Len(t.orders) = Len(s.orders)
  BY <1>1, <1>3, <1>5, <1>6, <1>8 DEF SameTerms
<1>13. OnFill(s, id, units) = t
  BY DEF OnFill, a, b, c, t
<1> QED BY <1>8, <1>10, <1>11, <1>12, <1>13

-----------------------------------------------------------------------------
(* The fill itself *)

FilledBy(o, p, qty) ==
  /\ p \in OrderRecords /\ p.req = o.req /\ SameLinks(o, p) /\ p.role = o.role /\ p.reduceOnly = o.reduceOnly
  /\ p.filled = o.filled + qty /\ p.status \in {"Filled", "PartiallyFilled"} /\ Proper(p)

LEMMA FilledOrder ==
  ASSUME NEW o \in OrderRecords, Proper(o), NEW qty \in Nat, qty > 0, qty <= Remaining(o)
  PROVE  FilledBy(o, [o EXCEPT !.filled = @ + qty, !.status = IF qty = Remaining(o) THEN "Filled" ELSE "PartiallyFilled"], qty)
<1> DEFINE status == IF qty = Remaining(o) THEN "Filled" ELSE "PartiallyFilled"
           filled == o.filled + qty
           p == [o EXCEPT !.filled = filled, !.status = status]
<1>1. o.filled \in Nat /\ o.req.qty \in Nat /\ filled \in Nat
  BY OrderFields
<1>2. status \in Statuses /\ status \in {"Filled", "PartiallyFilled"} /\ (status = "PartiallyFilled" => filled < o.req.qty)
  BY <1>1 DEF Statuses, Remaining
<1> HIDE DEF status, filled
<1>3. /\ p \in OrderRecords /\ p.req = o.req /\ SameLinks(o, p) /\ p.role = o.role /\ p.reduceOnly = o.reduceOnly
      /\ p.filled = filled /\ p.status = status
  BY <1>1, <1>2 DEF OrderRecords, SameLinks
<1> HIDE DEF p
<1>4. IsOpen(p) => p.filled < p.req.qty
  BY <1>2, <1>3 DEF IsOpen
<1>5. Proper(p)
  <2>1. p.stop = o.stop /\ p.target = o.target /\ p.status # "Armed"
    BY <1>2, <1>3 DEF SameLinks
  <2> QED BY <1>3, <1>4, <2>1 DEF Proper
<1> QED BY <1>2, <1>3, <1>5 DEF FilledBy, p, filled, status

LEMMA FillPositionState ==
  ASSUME NEW s, Shaped(s), NEW id \in Ids(s), NEW qty \in Nat, qty > 0,
         qty <= Remaining(s.orders[id]), qty <= Depth(s, s.orders[id].req.side)
  PROVE  LET t == FillPosition(s, id, qty)  o == s.orders[id]
         IN  /\ t \in StateRecords /\ Len(t.orders) = Len(s.orders) /\ FilledBy(o, t.orders[id], qty)
             /\ \A other \in Ids(s) : other # id => t.orders[other] = s.orders[other]
             /\ t.price = s.price /\ t.walked = s.walked /\ t.atQuote = s.atQuote /\ t.quoted = s.quoted
             /\ t.bid <= s.bid /\ t.ask <= s.ask /\ Depth(t, o.req.side) = Depth(s, o.req.side) - qty
<1> DEFINE o == s.orders[id]
           p == [o EXCEPT !.filled = @ + qty, !.status = IF qty = Remaining(o) THEN "Filled" ELSE "PartiallyFilled"]
           buys == o.req.side = "Buy"
           signed == IF buys THEN qty ELSE -qty
           u == WithOrder(s, id, p)
           held == u.held + signed
           cash == u.cash - signed * s.price
           ask == IF buys THEN u.ask - qty ELSE u.ask
           bid == IF buys THEN u.bid ELSE u.bid - qty
           t == [u EXCEPT !.held = held, !.cash = cash, !.ask = ask, !.bid = bid]
<1>1. s \in StateRecords /\ o \in OrderRecords /\ Proper(o)
  BY StateFields DEF Shaped
<1>2. FilledBy(o, p, qty)
  <2> HIDE DEF o
  <2> QED BY <1>1, FilledOrder DEF o
<1>3. FillPosition(s, id, qty) = t
  BY DEF FillPosition
<1> HIDE DEF p
<1>4. OneChanged(s, u, id, p)
  BY <1>1, <1>2, WithOrderState DEF FilledBy
<1> HIDE DEF u
<1>5. u \in StateRecords /\ SameBook(s, u)
  BY <1>4 DEF OneChanged
<1>6. signed \in Int /\ s.price \in Int /\ u.cash \in Int /\ u.held \in Int
  BY <1>1, <1>5, StateFields DEF StateRecords
<1>7. cash \in Int
  <2> HIDE DEF signed
  <2> QED BY <1>6
<1>8. held \in Int
  BY <1>6
<1>9. s.bid \in Nat /\ s.ask \in Nat /\ u.bid = s.bid /\ u.ask = s.ask
  BY <1>1, <1>5, StateFields DEF SameBook
<1>10. bid \in Nat /\ ask \in Nat /\ bid <= s.bid /\ ask <= s.ask
       /\ (buys => ask = s.ask - qty) /\ (~buys => bid = s.bid - qty)
  <2>1. buys => qty <= s.ask
    BY DEF Depth
  <2>2. ~buys => qty <= s.bid
    BY DEF Depth
  <2> HIDE DEF buys
  <2> QED BY <1>9, <2>1, <2>2
<1>11. buys <=> o.req.side = "Buy"
  OBVIOUS
<1> HIDE DEF held, cash, bid, ask, buys
<1>12. /\ t \in StateRecords /\ t.orders = u.orders /\ t.price = u.price /\ t.walked = u.walked /\ t.atQuote = u.atQuote
       /\ t.quoted = u.quoted /\ t.bid = bid /\ t.ask = ask
  BY <1>5, <1>7, <1>8, <1>10 DEF StateRecords
<1> HIDE DEF t
<1>13. Depth(t, o.req.side) = Depth(s, o.req.side) - qty
  BY <1>10, <1>11, <1>12 DEF Depth
<1> QED BY <1>2, <1>3, <1>4, <1>5, <1>10, <1>12, <1>13 DEF OneChanged, SameBook

LEMMA FillOnward ==
  ASSUME NEW s, Shaped(s), NEW id \in Ids(s), NEW qty \in Nat, qty > 0, IsOpen(s.orders[id]), s.orders[id].status # "Armed",
         qty <= Remaining(s.orders[id]), qty <= Depth(s, s.orders[id].req.side), Marketable(s, s.orders[id])
  PROVE  LET t == FillPosition(s, id, qty)  o == s.orders[id]
         IN  /\ Shaped(t) /\ Onward(s, t) /\ Fresh(s, t) /\ Len(t.orders) = Len(s.orders)
             /\ FilledBy(o, t.orders[id], qty)
             /\ \A other \in Ids(s) : other # id => t.orders[other] = s.orders[other]
             /\ Depth(t, o.req.side) = Depth(s, o.req.side) - qty
<1> DEFINE o == s.orders[id]
           t == FillPosition(s, id, qty)
<1>1. /\ t \in StateRecords /\ Len(t.orders) = Len(s.orders) /\ FilledBy(o, t.orders[id], qty)
      /\ \A other \in Ids(s) : other # id => t.orders[other] = s.orders[other]
      /\ t.price = s.price /\ t.walked = s.walked /\ t.atQuote = s.atQuote /\ t.quoted = s.quoted
      /\ t.bid <= s.bid /\ t.ask <= s.ask /\ Depth(t, o.req.side) = Depth(s, o.req.side) - qty
  BY FillPositionState
<1> HIDE DEF t
<1>2. s \in StateRecords /\ o \in OrderRecords /\ Proper(o) /\ s.bid \in Nat /\ s.ask \in Nat /\ t.bid \in Nat /\ t.ask \in Nat
  BY <1>1, StateFields DEF Shaped
<1>3. ASSUME NEW other \in Ids(s)
      PROVE  /\ SameLinks(s.orders[other], t.orders[other]) /\ t.orders[other].role = s.orders[other].role
             /\ t.orders[other].req = s.orders[other].req
             /\ Proper(t.orders[other])
  <2>1. CASE other = id
    BY <1>1, <2>1 DEF FilledBy
  <2>2. CASE other # id
    BY <1>1, <2>2 DEF SameLinks, Shaped
  <2> QED BY <2>1, <2>2
<1>4. Shaped(t)
  BY <1>1, <1>3, Relinked
<1>5. ASSUME NEW other \in Ids(s) PROVE AdvanceAt(s, t, other)
  <2> DEFINE q == s.orders[other]  p == t.orders[other]
  <2>1. CASE other = id
    <3>1. Advance(q, p)
      BY <1>1, <2>1 DEF FilledBy, Advance, SameTerms, SameLinks
    <3>2. ~Calm(s, id)
      <4>1. Depth(s, o.req.side) # 0
        BY <1>2 DEF Depth
      <4> QED BY <4>1 DEF Calm, Swept
    <3> QED BY <2>1, <3>1, <3>2 DEF AdvanceAt
  <2>2. CASE other # id
    <3>1. p = q
      BY <1>1, <2>2
    <3>2. Advance(q, p)
      BY <3>1 DEF Advance, SameTerms
    <3>3. Depth(s, q.req.side) = 0 => Depth(t, q.req.side) = 0
      BY <1>1, <1>2 DEF Depth
    <3>4. (Marketable(t, q) <=> Marketable(s, q)) /\ (Reached(t, q) <=> Reached(s, q))
      BY <1>1 DEF Marketable, Reached
    <3>5. Calm(s, other) => Calm(t, other)
      BY <3>1, <3>3, <3>4 DEF Calm, Swept
    <3> QED BY <3>1, <3>2, <3>5 DEF AdvanceAt
  <2> QED BY <2>1, <2>2
<1>6. Onward(s, t)
  BY <1>1, <1>2, <1>5, StateFields DEF Onward
<1>7. Fresh(s, t)
  BY <1>1, <1>2, <1>3, StateFields DEF Fresh, SameLinks, Ids
<1> QED BY <1>1, <1>4, <1>6, <1>7 DEF t

\* Of a pair only one fills: the order that fills ends the other, which had not.
LEMMA FillPaired ==
  ASSUME NEW s, Shaped(s), Paired(s), NEW id \in Ids(s), IsOpen(s.orders[id]),
         NEW f, Shaped(f), Len(f.orders) = Len(s.orders), NEW qty, FilledBy(s.orders[id], f.orders[id], qty),
         \A other \in Ids(s) : other # id => f.orders[other] = s.orders[other],
         NEW t, Rests(f, t),
         s.orders[id].role = "Normal" /\ s.orders[id].oco # NoOrder => ~IsOpen(t.orders[s.orders[id].oco])
  PROVE  Paired(t)
<1>1. s \in StateRecords /\ t \in StateRecords /\ f \in StateRecords /\ Ids(f) = Ids(s)
  BY DEF Shaped, Rests, Ids
<1>2. ASSUME NEW n \in Ids(t), t.orders[n].role = "Normal", t.orders[n].oco # NoOrder, t.orders[n].filled > 0
      PROVE  t.orders[t.orders[n].oco].filled = 0 /\ ~IsOpen(t.orders[t.orders[n].oco])
  <2> DEFINE q == t.orders[n].oco
  <2>1. n \in Ids(s)
    <3>1. ~(n > Len(s.orders))
      BY <1>2 DEF Rests, Fresh
    <3> QED BY <1>1, <1>2, <3>1, StateFields DEF Ids
  <2>2. /\ t.orders[n].filled = f.orders[n].filled /\ f.orders[n].role = "Normal" /\ f.orders[n].oco = q
    <3>1. t.orders[n].filled = f.orders[n].filled /\ f.orders[n].role = t.orders[n].role
      BY <1>1, <2>1, RestsAt
    <3>2. t.orders[n].oco = f.orders[n].oco
      BY <1>1, <1>2, <2>1, <3>1, RestsAt
    <3> QED BY <1>2, <3>1, <3>2
  <2>3. s.orders[n].role = "Normal" /\ s.orders[n].oco = q
    <3>1. CASE n = id
      BY <2>2, <3>1 DEF FilledBy, SameLinks
    <3>2. CASE n # id
      BY <2>1, <2>2, <3>2
    <3> QED BY <3>1, <3>2
  <2>4. q \in Ids(s) /\ q # n /\ s.orders[q].oco = n /\ s.orders[q].role = "Normal" /\ q # NoOrder
    BY <1>2, <2>1, <2>3, LinkedOnes
  <2>5. t.orders[q].filled = f.orders[q].filled /\ (~IsOpen(f.orders[q]) => ~IsOpen(t.orders[q]))
    BY <1>1, <2>4, RestsAt
  <2>6. CASE n = id
    <3>1. ~IsOpen(t.orders[q])
      BY <2>3, <2>4, <2>6
    <3>2. f.orders[q].filled = s.orders[q].filled
      BY <2>4, <2>6
    <3>3. s.orders[q].filled = 0
      <4>1. PairHolds(s, q) /\ s.orders[q].filled \in Nat
        BY <1>1, <2>4, StateFields, OrderFields DEF Paired
      <4>2. s.orders[q].oco = id /\ n # NoOrder
        BY <1>1, <2>1, <2>4, <2>6 DEF Ids, NoOrder
      <4> QED BY <2>4, <2>6, <4>1, <4>2 DEF PairHolds
    <3> QED BY <2>5, <3>1, <3>2, <3>3
  <2>7. CASE n # id
    <3>1. s.orders[n].filled > 0
      BY <1>2, <2>1, <2>2, <2>7
    <3>2. s.orders[q].filled = 0 /\ ~IsOpen(s.orders[q])
      BY <2>1, <2>3, <2>4, <3>1 DEF Paired, PairHolds
    <3>3. q # id
      BY <3>2
    <3> QED BY <2>4, <2>5, <3>2, <3>3
  <2> QED BY <2>6, <2>7
<1> QED BY <1>2 DEF Paired, PairHolds

\* How much an order fills: nothing only without size, and all it can otherwise.
LEMMA FillSize ==
  ASSUME NEW s, Sound(s), NEW id \in Ids(s), IsOpen(s.orders[id])
  PROVE  LET qty == FillQuantity(s, s.orders[id])  o == s.orders[id]
         IN  /\ qty \in Nat /\ qty <= Remaining(o) /\ qty <= Depth(s, o.req.side)
             /\ qty = Remaining(o) \/ qty = Depth(s, o.req.side)
             /\ Remaining(o) > 0
<1> DEFINE o == s.orders[id]
<1>1. s \in StateRecords /\ o \in OrderRecords /\ Proper(o) /\ Fits(s, id)
  BY StateFields DEF Sound, Shaped
<1>2. Remaining(o) > 0 /\ Remaining(o) \in Nat
  BY <1>1, OpenRemaining
<1>3. Depth(s, o.req.side) \in Nat
  BY <1>1, StateFields DEF Depth
<1>4. ExitCapacity(s, o.req.side) \in Nat
  BY <1>1, Capacity
<1>5. KeptWithin(o) => Remaining(o) <= ExitCapacity(s, o.req.side)
  BY <1>1 DEF Fits
<1> HIDE DEF o
<1>6. LET qty == FillQuantity(s, o)
      IN  /\ qty \in Nat /\ qty <= Remaining(o) /\ qty <= Depth(s, o.req.side)
          /\ qty = Remaining(o) \/ qty = Depth(s, o.req.side)
  BY <1>2, <1>3, <1>4, <1>5 DEF FillQuantity, Lesser
<1> QED BY <1>2, <1>6 DEF o

LEMMA MatchFills ==
  ASSUME NEW s, Sound(s), NEW id \in Ids(s), IsOpen(s.orders[id]), s.orders[id].status # "Armed", Marketable(s, s.orders[id]),
         FillQuantity(s, s.orders[id]) # 0
  PROVE  LET qty == FillQuantity(s, s.orders[id])
             t == OnFill(FillPosition(s, id, qty), id, qty)
         IN  Works(s, t) /\ Steady(s, t) /\ Swept(t, id)
<1> DEFINE o == s.orders[id]
           qty == FillQuantity(s, o)
           f == FillPosition(s, id, qty)
           t == OnFill(f, id, qty)
<1>1. s \in StateRecords /\ o \in OrderRecords /\ Shaped(s)
  BY StateFields DEF Sound, Shaped
<1>2. /\ qty \in Nat /\ qty <= Remaining(o) /\ qty <= Depth(s, o.req.side)
      /\ qty = Remaining(o) \/ qty = Depth(s, o.req.side)
  BY FillSize
<1>3. qty > 0
  BY <1>2
<1> HIDE DEF qty
<1>4. /\ Shaped(f) /\ Onward(s, f) /\ Fresh(s, f) /\ Len(f.orders) = Len(s.orders)
      /\ FilledBy(o, f.orders[id], qty)
      /\ \A other \in Ids(s) : other # id => f.orders[other] = s.orders[other]
      /\ Depth(f, o.req.side) = Depth(s, o.req.side) - qty
  BY <1>1, <1>2, <1>3, FillOnward
<1> HIDE DEF f
<1>5. id \in Ids(f) /\ f \in StateRecords /\ f.orders[id] \in OrderRecords /\ f.orders[id].filled > 0
      /\ f.orders[id].status \in {"Filled", "PartiallyFilled"}
  <2>1. id \in Ids(f) /\ f \in StateRecords
    BY <1>4 DEF Ids, Shaped
  <2>2. f.orders[id].filled = o.filled + qty /\ o.filled \in Nat
    BY <1>1, <1>4, OrderFields DEF FilledBy
  <2> QED BY <1>2, <1>3, <1>4, <2>1, <2>2 DEF FilledBy
<1>6. /\ Rests(f, t) /\ Sound(t)
      /\ f.orders[id].role = "Normal" /\ f.orders[id].oco # NoOrder => ~IsOpen(t.orders[f.orders[id].oco])
      /\ f.orders[id].req.bracket = None \/ f.orders[id].req.exitsOnly => Len(t.orders) = Len(f.orders)
  BY <1>2, <1>4, <1>5, OnFillRests
<1> HIDE DEF t
<1>7. t \in StateRecords /\ Shaped(t)
  BY <1>6, SoundState
<1>8. Onward(s, t) /\ Fresh(s, t)
  BY <1>1, <1>4, <1>5, <1>6, <1>7, OnwardTrans, FreshTrans DEF Rests
<1>9. Paired(s) => Paired(t)
  <2>1. o.role = "Normal" /\ o.oco # NoOrder => ~IsOpen(t.orders[o.oco])
    BY <1>4, <1>6 DEF FilledBy, SameLinks
  <2> QED BY <1>1, <1>4, <1>6, <2>1, FillPaired
<1>10. Swept(t, id)
  <2>1. Swept(f, id)
    <3>1. f.orders[id].req = o.req /\ f.orders[id].filled = o.filled + qty
      BY <1>4 DEF FilledBy
    <3>2. CASE qty = Remaining(o)
      <4>1. ~(f.orders[id].filled < f.orders[id].req.qty)
        BY <1>1, <3>1, <3>2, OrderFields DEF Remaining
      <4>2. ~IsOpen(f.orders[id])
        BY <1>4, <4>1 DEF FilledBy, Proper
      <4> QED BY <4>2 DEF Swept
    <3>3. CASE qty = Depth(s, o.req.side)
      <4>1. Depth(f, f.orders[id].req.side) = 0
        BY <1>2, <1>4, <3>1, <3>3
      <4> QED BY <1>5, <4>1 DEF Swept
    <3> QED BY <1>2, <3>2, <3>3
  <2> QED BY <1>5, <1>6, <1>7, <2>1, SweptOnward DEF Rests
<1>11. Steady(s, t)
  <2>1. ASSUME Plain(s) PROVE Len(t.orders) = Len(s.orders)
    <3>1. o.req.bracket = None \/ o.req.exitsOnly
      BY <2>1 DEF Plain
    <3>2. f.orders[id].req = o.req
      BY <1>4 DEF FilledBy
    <3> QED BY <1>4, <1>6, <3>1, <3>2
  <2>2. ASSUME NEW n \in Ids(s), s.orders[n].status = "Armed"
        PROVE  t.orders[n].status = "Armed" \/ ~IsOpen(t.orders[n])
    <3>1. n # id /\ n \in Ids(f) /\ f.orders[n].status = "Armed"
      BY <1>4, <2>2 DEF Ids
    <3> QED BY <1>6, <3>1 DEF Rests, Still
  <2> QED BY <2>1, <2>2 DEF Steady
<1> QED BY <1>6, <1>8, <1>9, <1>10, <1>11 DEF Works, t, f, qty

LEMMA MatchOneWorks ==
  ASSUME NEW s, Sound(s), NEW id \in Ids(s), NEW incoming
  PROVE  LET t == MatchOne(s, id, incoming)
         IN  Works(s, t) /\ Steady(s, t) /\ (incoming = id \/ Quoted(s, id) => Settled(t, id))
<1> DEFINE o == s.orders[id]
           qty == FillQuantity(s, o)
           eligible == IsOpen(o) /\ o.status # "Armed" /\ (incoming = id \/ Quoted(s, id)) /\ Marketable(s, o)
           t == MatchOne(s, id, incoming)
<1>1. CASE ~eligible
  <2>1. t = s
    BY <1>1 DEF MatchOne
  <2>2. incoming = id \/ Quoted(s, id) => Settled(s, id)
    BY <1>1 DEF Settled, Swept
  <2> QED BY <2>1, <2>2, WorksSelf, SteadySelf
<1>2. CASE eligible /\ ~KeptWithin(o) /\ OrderCheck(s, id, o, "Fill") # "OK"
  <2>1. t = EndOrder(s, id, "RISK_CHANGED")
    BY <1>2 DEF MatchOne
  <2>2. "RISK_CHANGED" \in Reasons
    BY DEF Reasons
  <2>3. LET u == EndOrder(s, id, "RISK_CHANGED") IN Works(s, u) /\ OneChanged(s, u, id, u.orders[id]) /\ ~IsOpen(u.orders[id])
    BY <2>2, EndOrderWorks
  <2> HIDE DEF t
  <2>4. Works(s, t) /\ OneChanged(s, t, id, t.orders[id]) /\ ~IsOpen(t.orders[id])
    BY <2>1, <2>3
  <2>5. Steady(s, t)
    BY <2>4 DEF OneChanged, Steady
  <2>6. Settled(t, id)
    BY <2>4 DEF Settled, Swept
  <2> QED BY <2>4, <2>5, <2>6 DEF t
<1>3. CASE eligible /\ ~(~KeptWithin(o) /\ OrderCheck(s, id, o, "Fill") # "OK") /\ qty = 0
  <2>1. t = s
    BY <1>3 DEF MatchOne
  <2>2. Depth(s, o.req.side) = 0
    BY <1>3, FillSize
  <2>3. Settled(s, id)
    BY <1>3, <2>2 DEF Settled, Swept
  <2> QED BY <2>1, <2>3, WorksSelf, SteadySelf
<1>4. CASE eligible /\ ~(~KeptWithin(o) /\ OrderCheck(s, id, o, "Fill") # "OK") /\ qty # 0
  <2>1. t = OnFill(FillPosition(s, id, qty), id, qty)
    BY <1>4 DEF MatchOne
  <2>2. LET u == OnFill(FillPosition(s, id, qty), id, qty) IN Works(s, u) /\ Steady(s, u) /\ Swept(u, id)
    BY <1>4, MatchFills
  <2> HIDE DEF t, qty
  <2> QED BY <2>1, <2>2 DEF Settled, t
<1> QED BY <1>1, <1>2, <1>3, <1>4

-----------------------------------------------------------------------------
(* The resting orders of one side, each in its turn *)

RestingIds(s, side) == {id \in OpenIds(s) : s.orders[id].status # "Armed" /\ s.orders[id].req.side = side}
Before(s, side, id) == {other \in RestingIds(s, side) : Ahead(s, other, id)}
Turn(s, side, n) == CHOOSE id \in RestingIds(s, side) : Cardinality(Before(s, side, id)) = n - 1

LEMMA AheadOrder ==
  ASSUME NEW s \in StateRecords, NEW side, NEW a \in RestingIds(s, side), NEW b \in RestingIds(s, side),
         NEW c \in RestingIds(s, side)
  PROVE  /\ ~Ahead(s, a, a)
         /\ a # b => Ahead(s, a, b) \/ Ahead(s, b, a)
         /\ Ahead(s, a, b) /\ Ahead(s, b, c) => Ahead(s, a, c)
<1>1. \A id \in RestingIds(s, side) : id \in Int /\ s.orders[id].req.limit \in Int /\ s.orders[id].req.side = side
  BY StateFields, OrderFields DEF RestingIds, OpenIds, Ids
<1> DEFINE x == s.orders[a].req.limit  y == s.orders[b].req.limit  z == s.orders[c].req.limit
<1>2. a \in Int /\ b \in Int /\ c \in Int /\ x \in Int /\ y \in Int /\ z \in Int
  BY <1>1
<1>3. s.orders[a].req.side = side /\ s.orders[b].req.side = side /\ s.orders[c].req.side = side
  BY <1>1
<1>4. ~Ahead(s, a, a)
  BY <1>2 DEF Ahead
<1>5. a # b => Ahead(s, a, b) \/ Ahead(s, b, a)
  BY <1>2, <1>3 DEF Ahead
<1>6. Ahead(s, a, b) /\ Ahead(s, b, c) => Ahead(s, a, c)
  BY <1>2, <1>3 DEF Ahead
<1> QED BY <1>4, <1>5, <1>6

LEMMA RestingFinite ==
  ASSUME NEW s \in StateRecords, NEW side
  PROVE  IsFiniteSet(RestingIds(s, side)) /\ RestingIds(s, side) \subseteq Ids(s) /\ Cardinality(RestingIds(s, side)) \in Nat
<1>1. RestingIds(s, side) \subseteq Ids(s)
  BY StateFields DEF RestingIds, OpenIds
<1>2. IsFiniteSet(Ids(s))
  BY StateFields, FS_Interval DEF Ids
<1> QED BY <1>1, <1>2, FS_Subset, FS_CardinalityType

LEMMA RankLess ==
  ASSUME NEW s \in StateRecords, NEW side, NEW a \in RestingIds(s, side), NEW b \in RestingIds(s, side), Ahead(s, a, b)
  PROVE  Cardinality(Before(s, side, a)) < Cardinality(Before(s, side, b))
<1> DEFINE R == RestingIds(s, side)  A == Before(s, side, a)  B == Before(s, side, b)
<1>1. IsFiniteSet(R)
  BY RestingFinite
<1>2. A \subseteq R /\ B \subseteq R
  BY DEF Before
<1>3. IsFiniteSet(A) /\ IsFiniteSet(B) /\ Cardinality(A) \in Nat /\ Cardinality(B) \in Nat
  BY <1>1, <1>2, FS_Subset, FS_CardinalityType
<1>4. a \in B /\ a \notin A
  BY AheadOrder DEF Before
<1>5. A \subseteq B \ {a}
  <2>1. ASSUME NEW c \in A PROVE c \in B
    <3>1. c \in R /\ Ahead(s, c, a)
      BY <2>1 DEF Before
    <3>2. Ahead(s, c, b)
      BY <3>1, AheadOrder
    <3> QED BY <3>1, <3>2 DEF Before
  <2> QED BY <1>4, <2>1
<1> HIDE DEF A, B
<1>6. IsFiniteSet(B \ {a}) /\ Cardinality(B \ {a}) = Cardinality(B) - 1
  BY <1>3, <1>4, FS_RemoveElement
<1>7. Cardinality(A) <= Cardinality(B \ {a})
  BY <1>5, <1>6, FS_Subset
<1> QED BY <1>3, <1>6, <1>7 DEF A, B

LEMMA Turns ==
  ASSUME NEW s \in StateRecords, NEW side
  PROVE  LET R == RestingIds(s, side)
         IN  /\ \A n \in 1..Cardinality(R) : Turn(s, side, n) \in R
             /\ \A id \in R : \E n \in 1..Cardinality(R) : Turn(s, side, n) = id
<1> DEFINE R == RestingIds(s, side)
           m == Cardinality(R)
           rank == [id \in R |-> Cardinality(Before(s, side, id))]
<1>1. IsFiniteSet(R) /\ m \in Nat
  BY RestingFinite
<1>2. ASSUME NEW id \in R PROVE rank[id] \in 0..(m - 1)
  <2> DEFINE A == Before(s, side, id)
  <2>1. A \subseteq R \ {id}
    BY AheadOrder DEF Before
  <2>2. IsFiniteSet(R \ {id}) /\ Cardinality(R \ {id}) = m - 1
    BY <1>1, FS_RemoveElement
  <2> HIDE DEF A
  <2>3. IsFiniteSet(A) /\ Cardinality(A) <= m - 1 /\ Cardinality(A) \in Nat
    BY <2>1, <2>2, FS_Subset, FS_CardinalityType
  <2> QED BY <1>1, <2>3 DEF A
<1>3. ASSUME NEW a \in R, NEW b \in R, a # b PROVE rank[a] # rank[b]
  <2>1. rank[a] \in Int /\ rank[b] \in Int
    BY <1>2
  <2>2. CASE Ahead(s, a, b)
    BY <2>1, <2>2, RankLess
  <2>3. CASE Ahead(s, b, a)
    BY <2>1, <2>3, RankLess
  <2> QED BY <1>3, <2>2, <2>3, AheadOrder
<1> HIDE DEF m
<1>4. rank \in Injection(R, 0..(m - 1))
  BY <1>2, <1>3 DEF Injection, IsInjective
<1>5. IsFiniteSet(0..(m - 1)) /\ Cardinality(0..(m - 1)) = m
  BY <1>1, FS_Interval
<1>6. rank \in Surjection(R, 0..(m - 1))
  <2> HIDE DEF rank, R
  <2> QED BY <1>4, <1>5, FS_Injection DEF m
<1>7. ASSUME NEW n \in 1..m PROVE Turn(s, side, n) \in R /\ rank[Turn(s, side, n)] = n - 1
  <2>1. n - 1 \in 0..(m - 1)
    BY <1>1, <1>7
  <2>2. \E id \in R : rank[id] = n - 1
    BY <1>6, <2>1 DEF Surjection
  <2>3. \E id \in R : Cardinality(Before(s, side, id)) = n - 1
    BY <2>2
  <2> QED BY <2>3 DEF Turn
<1>8. ASSUME NEW id \in R PROVE \E n \in 1..m : Turn(s, side, n) = id
  <2> DEFINE n == rank[id] + 1
  <2>1. n \in 1..m /\ rank[id] = n - 1
    BY <1>1, <1>2, <1>8
  <2> HIDE DEF n
  <2>2. rank[Turn(s, side, n)] = rank[id] /\ Turn(s, side, n) \in R
    BY <1>7, <2>1
  <2>3. Turn(s, side, n) = id
    BY <1>3, <1>8, <2>2
  <2> QED BY <2>1, <2>3
<1> QED BY <1>7, <1>8 DEF m

LEMMA LeastNumber == ASSUME NEW Broken, Broken \subseteq Nat, Broken # {} PROVE \E u \in Broken : \A v \in Broken : u <= v
<1> DEFINE less == OpToRel(<, Nat)
<1>1. IsWellFoundedOn(less, Nat)
  BY NatLessThanWellFounded
<1>2. less = {ss \in Nat \X Nat : ss[1] < ss[2]}
  BY DEF OpToRel
<1> HIDE DEF less
<1>3. PICK u \in Broken : \A y \in Broken : ~ (<<y, u>> \in less)
  BY <1>1, WFMin
<1>4. ASSUME NEW v \in Broken PROVE u <= v
  <2>1. <<v, u>> \in Nat \X Nat
    OBVIOUS
  <2>2. ~ (<<v, u>>[1] < <<v, u>>[2])
    BY <1>2, <1>3, <2>1, Zenon
  <2>3. ~ (v < u) /\ v \in Nat /\ u \in Nat
    BY <2>2
  <2> QED BY <2>3
<1> QED BY <1>4

\* A pass over the first n orders that rest.
SidePass(f, s, side, incoming, n) ==
  f = [k \in 0..n |-> IF k = 0 THEN s ELSE MatchOne(f[k - 1], Turn(s, side, k), incoming)]

LEMMA SidePassExists == ASSUME NEW s, NEW side, NEW incoming, NEW n \in Nat PROVE \E f : SidePass(f, s, side, incoming, n)
<1> DEFINE Broken == {k \in Nat : ~ \E f : SidePass(f, s, side, incoming, k)}
<1> SUFFICES ASSUME Broken # {} PROVE FALSE
  OBVIOUS
<1>1. PICK k \in Broken : \A j \in Broken : k <= j
  BY LeastNumber
<1>2. k \in Nat /\ ~ \E f : SidePass(f, s, side, incoming, k)
  OBVIOUS
<1>3. CASE k = 0
  <2>1. SidePass([j \in 0..0 |-> s], s, side, incoming, 0)
    BY DEF SidePass
  <2> QED BY <1>2, <1>3, <2>1
<1>4. CASE k # 0
  <2>1. k - 1 \in Nat /\ k - 1 \notin Broken
    BY <1>1, <1>2, <1>4
  <2>2. PICK f : SidePass(f, s, side, incoming, k - 1)
    BY <2>1
  <2> DEFINE h == [j \in 0..k |-> IF j = 0 THEN s ELSE MatchOne(f[j - 1], Turn(s, side, j), incoming)]
  <2>3. \A j \in 0..(k - 1) : h[j] = f[j]
    BY <1>2, <2>1, <2>2 DEF SidePass
  <2>4. ASSUME NEW j \in 0..k, j # 0
        PROVE  MatchOne(f[j - 1], Turn(s, side, j), incoming) = MatchOne(h[j - 1], Turn(s, side, j), incoming)
    <3>1. j - 1 \in 0..(k - 1)
      BY <1>2, <2>4
    <3>2. h[j - 1] = f[j - 1]
      BY <2>3, <3>1
    <3> QED BY <3>2
  <2>5. h = [j \in 0..k |-> IF j = 0 THEN s ELSE MatchOne(h[j - 1], Turn(s, side, j), incoming)]
    BY <2>4
  <2> QED BY <1>2, <2>5 DEF SidePass
<1> QED BY <1>3, <1>4

LEMMA MatchSideIsPass ==
  ASSUME NEW s, NEW side, NEW incoming, NEW n, n = Cardinality(RestingIds(s, side))
  PROVE  MatchSide(s, side, incoming) = (CHOOSE f : SidePass(f, s, side, incoming, n))[n]
  BY DEF Folded, MatchSide, SidePass, Turn, RestingIds, Before

LEMMA WorksAt ==
  ASSUME NEW s, Sound(s), NEW t, Works(s, t), NEW id \in Ids(s)
  PROVE  id \in Ids(t) /\ Sound(t) /\ (Swept(s, id) => Swept(t, id)) /\ (Unreached(s, id) => Unreached(t, id))
<1>1. s \in StateRecords /\ t \in StateRecords /\ Onward(s, t)
  BY SoundState DEF Works
<1>2. id \in Ids(t)
  BY <1>1, StateFields DEF Onward, Ids
<1> QED BY <1>1, <1>2, SweptOnward, UnreachedOnward DEF Works

LEMMA SettledWorks ==
  ASSUME NEW s, Sound(s), NEW t, Works(s, t), Steady(s, t), NEW id \in Ids(s), Settled(s, id)
  PROVE  Settled(t, id)
<1>1. Swept(s, id) => Swept(t, id)
  BY WorksAt
<1>2. s.orders[id].status = "Armed" => t.orders[id].status = "Armed" \/ ~IsOpen(t.orders[id])
  BY DEF Steady
<1> QED BY <1>1, <1>2 DEF Settled, Swept

\* What matching does: it works, arms nothing, and settles what it may match.
Matches(s, t, ids, incoming) ==
  /\ Works(s, t) /\ Steady(s, t)
  /\ \A id \in ids : incoming = id \/ Quoted(s, id) => Settled(t, id)

LEMMA MatchesOn ==
  ASSUME NEW s, Sound(s), NEW t, NEW u, NEW ids, NEW more, NEW incoming, ids \subseteq Ids(s), more \subseteq Ids(s),
         Matches(s, t, ids, incoming), Matches(t, u, more, incoming)
  PROVE  Matches(s, u, ids \cup more, incoming)
<1>1. Works(s, t) /\ Works(t, u) /\ Steady(s, t) /\ Steady(t, u)
  BY DEF Matches
<1>2. Works(s, u) /\ Sound(t) /\ Sound(u)
  BY <1>1, WorksTrans DEF Works
<1>3. s \in StateRecords /\ t \in StateRecords /\ u \in StateRecords
  BY <1>2, SoundState
<1>4. Steady(s, u)
  BY <1>1, <1>3, SteadyTrans DEF Works
<1>5. \A id : Quoted(s, id) => Quoted(t, id)
  BY <1>1 DEF Works, Onward, Quoted
<1>6. ASSUME NEW id \in ids, incoming = id \/ Quoted(s, id) PROVE Settled(u, id)
  <2>1. Settled(t, id)
    BY <1>6 DEF Matches
  <2>2. id \in Ids(t)
    BY <1>1, <1>6, WorksAt
  <2> QED BY <1>1, <1>2, <2>1, <2>2, SettledWorks
<1>7. ASSUME NEW id \in more, incoming = id \/ Quoted(s, id) PROVE Settled(u, id)
  BY <1>5, <1>7 DEF Matches
<1> QED BY <1>1, <1>2, <1>4, <1>6, <1>7 DEF Matches

LEMMA MatchSideWorks ==
  ASSUME NEW s, Sound(s), NEW side, NEW incoming
  PROVE  Matches(s, MatchSide(s, side, incoming), {id \in Ids(s) : s.orders[id].req.side = side}, incoming)
<1> DEFINE R == RestingIds(s, side)
           n == Cardinality(R)
           pass == CHOOSE f : SidePass(f, s, side, incoming, n)
           Visited(k) == {Turn(s, side, j) : j \in 1..k}
           Fine(k) == Matches(s, pass[k], Visited(k), incoming)
           Broken == {k \in 0..n : ~Fine(k)}
<1>1. s \in StateRecords /\ n \in Nat /\ R \subseteq Ids(s)
  BY SoundState, RestingFinite
<1>2. MatchSide(s, side, incoming) = pass[n]
  BY MatchSideIsPass
<1>3. SidePass(pass, s, side, incoming, n)
  BY <1>1, SidePassExists
<1>4. /\ \A j \in 1..n : Turn(s, side, j) \in R
      /\ \A id \in R : \E j \in 1..n : Turn(s, side, j) = id
  BY <1>1, Turns
<1> HIDE DEF n, pass, R
<1>5. ASSUME Broken # {} PROVE FALSE
  <2>1. PICK k \in Broken : \A j \in Broken : k <= j
    <3>1. Broken \subseteq Nat
      BY <1>1
    <3> HIDE DEF Broken
    <3> QED BY <1>5, <3>1, LeastNumber
  <2>2. k \in 0..n /\ ~Matches(s, pass[k], Visited(k), incoming)
    OBVIOUS
  <2>3. pass[k] = IF k = 0 THEN s ELSE MatchOne(pass[k - 1], Turn(s, side, k), incoming)
    BY <1>3, <2>2 DEF SidePass
  <2>4. CASE k = 0
    <3>1. pass[k] = s /\ Visited(k) = {}
      BY <2>3, <2>4
    <3>2. Matches(s, s, {}, incoming)
      BY WorksSelf, SteadySelf DEF Matches
    <3> QED BY <2>2, <3>1, <3>2
  <2>5. CASE k # 0
    <3> DEFINE u == pass[k - 1]
               id == Turn(s, side, k)
    <3>1. k - 1 \in 0..n /\ k - 1 \notin Broken /\ k \in 1..n
      <4>1. k \in 0..n /\ k # 0
        BY <2>2, <2>5
      <4> HIDE DEF Broken
      <4> QED BY <1>1, <2>1, <4>1
    <3>2. Matches(s, u, Visited(k - 1), incoming)
      <4>1. Fine(k - 1)
        <5> HIDE DEF Fine
        <5> QED BY <3>1
      <4> QED BY <4>1
    <3>3. id \in Ids(s) /\ Visited(k - 1) \subseteq Ids(s) /\ Visited(k) = Visited(k - 1) \cup {id}
      <4>1. \A j \in 1..k : j \in 1..n
        BY <1>1, <2>2
      <4>2. \A j \in 1..n : Turn(s, side, j) \in Ids(s)
        BY <1>1, <1>4
      <4>3. 1..k = (1..(k - 1)) \cup {k}
        BY <1>1, <3>1
      <4> QED BY <3>1, <4>1, <4>2, <4>3
    <3> HIDE DEF u, id, Visited
    <3>4. Sound(u) /\ id \in Ids(u)
      BY <3>2, <3>3, WorksAt DEF Matches
    <3>5. Matches(u, MatchOne(u, id, incoming), {id}, incoming)
      <4>1. LET t == MatchOne(u, id, incoming)
            IN  Works(u, t) /\ Steady(u, t) /\ (incoming = id \/ Quoted(u, id) => Settled(t, id))
        BY <3>4, MatchOneWorks
      <4> QED BY <4>1 DEF Matches
    <3>6. Matches(s, MatchOne(u, id, incoming), Visited(k - 1) \cup {id}, incoming)
      BY <3>2, <3>3, <3>5, MatchesOn
    <3> QED BY <2>2, <2>3, <2>5, <3>3, <3>6 DEF u, id
  <2> QED BY <2>4, <2>5
<1>6. Matches(s, pass[n], Visited(n), incoming)
  <2>1. n \in 0..n
    BY <1>1
  <2>2. Fine(n)
    <3> HIDE DEF Fine
    <3> QED BY <1>5, <2>1
  <2> QED BY <2>2
<1>7. R \subseteq Visited(n)
  BY <1>4
<1> DEFINE t == pass[n]
<1> HIDE DEF Visited, Fine, Broken
<1>8. ASSUME NEW id \in Ids(s), s.orders[id].req.side = side, incoming = id \/ Quoted(s, id)
      PROVE  Settled(pass[n], id)
  <2>1. CASE id \in R
    BY <1>6, <1>7, <1>8, <2>1 DEF Matches
  <2>2. CASE id \notin R
    <3>1. Settled(s, id)
      <4>1. id \in DOMAIN s.orders
        BY <1>1, <1>8, StateFields
      <4> QED BY <1>8, <2>2, <4>1 DEF R, RestingIds, OpenIds, Settled, Swept
    <3> QED BY <1>6, <1>8, <3>1, SettledWorks DEF Matches
  <2> QED BY <2>1, <2>2
<1>9. Matches(s, pass[n], {id \in Ids(s) : s.orders[id].req.side = side}, incoming)
  BY <1>6, <1>8 DEF Matches
<1> QED BY <1>2, <1>9

LEMMA MatchSymbolsWorks ==
  ASSUME NEW s, Sound(s), NEW incoming
  PROVE  Matches(s, MatchSymbols(s, incoming), Ids(s), incoming)
<1> DEFINE a == MatchSide(s, "Buy", incoming)
           b == MatchSide(a, "Sell", incoming)
           Pass(f) == f = [n \in 0..2 |-> IF n = 0 THEN s ELSE MatchSide(f[n - 1], <<"Buy", "Sell">>[n], incoming)]
           g == [n \in 0..2 |-> IF n = 0 THEN s ELSE IF n = 1 THEN a ELSE b]
           pass == CHOOSE f : Pass(f)
<1>1. Pass(g)
  <2>1. ASSUME NEW n \in 0..2
        PROVE  g[n] = IF n = 0 THEN s ELSE MatchSide(g[n - 1], <<"Buy", "Sell">>[n], incoming)
    <3>1. g[0] = s /\ g[1] = a /\ g[2] = b
      OBVIOUS
    <3>2. <<"Buy", "Sell">>[1] = "Buy" /\ <<"Buy", "Sell">>[2] = "Sell"
      OBVIOUS
    <3>3. n = 0 \/ n = 1 \/ n = 2
      OBVIOUS
    <3> HIDE DEF g
    <3>4. CASE n = 0
      BY <3>1, <3>4
    <3>5. CASE n = 1
      BY <3>1, <3>2, <3>5
    <3>6. CASE n = 2
      BY <3>1, <3>2, <3>6
    <3> QED BY <3>3, <3>4, <3>5, <3>6
  <2> QED BY <2>1
<1>2. Pass(pass)
  <2> HIDE DEF g, Pass
  <2> QED BY <1>1
<1>3. MatchSymbols(s, incoming) = pass[2]
  BY DEF Folded, MatchSymbols
<1> HIDE DEF pass, g
<1>4. pass[0] = s /\ pass[1] = MatchSide(pass[0], "Buy", incoming) /\ pass[2] = MatchSide(pass[1], "Sell", incoming)
  <2>1. pass[0] = s
    BY <1>2
  <2>2. pass[1] = MatchSide(pass[1 - 1], <<"Buy", "Sell">>[1], incoming)
    BY <1>2
  <2>3. pass[2] = MatchSide(pass[2 - 1], <<"Buy", "Sell">>[2], incoming)
    BY <1>2
  <2>4. <<"Buy", "Sell">>[1] = "Buy" /\ <<"Buy", "Sell">>[2] = "Sell" /\ 1 - 1 = 0 /\ 2 - 1 = 1
    OBVIOUS
  <2> HIDE DEF Pass
  <2> QED BY <2>1, <2>2, <2>3, <2>4
<1>5. MatchSymbols(s, incoming) = b
  BY <1>3, <1>4
<1> DEFINE Of(side) == {id \in Ids(s) : s.orders[id].req.side = side}
<1>6. Matches(s, a, Of("Buy"), incoming)
  BY MatchSideWorks
<1> HIDE DEF a
<1>7. Sound(a) /\ Onward(s, a)
  BY <1>6 DEF Matches, Works
<1>8. Matches(a, b, {id \in Ids(a) : a.orders[id].req.side = "Sell"}, incoming)
  BY <1>7, MatchSideWorks
<1> HIDE DEF b
<1>9. Of("Sell") \subseteq {id \in Ids(a) : a.orders[id].req.side = "Sell"}
  <2>1. ASSUME NEW id \in Of("Sell") PROVE id \in Ids(a) /\ a.orders[id].req.side = "Sell"
    <3>1. id \in Ids(a)
      BY <1>6, WorksAt DEF Matches
    <3>2. AdvanceAt(s, a, id)
      BY <1>7 DEF Onward
    <3> QED BY <3>1, <3>2 DEF AdvanceAt, Advance, SameTerms
  <2> QED BY <2>1
<1>10. Matches(a, b, Of("Sell"), incoming)
  BY <1>8, <1>9 DEF Matches
<1>11. Matches(s, b, Of("Buy") \cup Of("Sell"), incoming)
  BY <1>6, <1>10, MatchesOn
<1>12. Ids(s) = Of("Buy") \cup Of("Sell")
  <2>1. \A id \in Ids(s) : s.orders[id].req.side \in Sides
    BY SoundState, StateFields, OrderFields
  <2> QED BY <2>1 DEF Sides
<1> QED BY <1>5, <1>11, <1>12

-----------------------------------------------------------------------------
(* Triggers *)

\* Between two states no order is armed except the one visited.
Waits(s, t, id) ==
  \A other \in Ids(s) \ {id} :
    s.orders[other].status = "Armed" => t.orders[other].status = "Armed" \/ ~IsOpen(t.orders[other])

\* What visiting an order's trigger does.
Visits(s, t, id) ==
  /\ Works(s, t) /\ Waits(s, t, id)
  /\ id \in Ids(s) => /\ Unreached(t, id)
                      /\ s.orders[id].role = "Normal" /\ Settled(s, id) => Calm(t, id)

LEMMA OneChangedBook ==
  ASSUME NEW s \in StateRecords, NEW t, NEW id \in Ids(s), NEW o, OneChanged(s, t, id, o)
  PROVE  /\ \A side : Depth(t, side) = Depth(s, side)
         /\ \A p : (Marketable(t, p) <=> Marketable(s, p)) /\ (Reached(t, p) <=> Reached(s, p))
         /\ \A side : ExitCapacity(t, side) = ExitCapacity(s, side)
  BY DEF OneChanged, SameBook, Depth, Marketable, Reached, ExitCapacity

LEMMA StatusOrder ==
  ASSUME NEW o \in OrderRecords, NEW status \in Statuses
  PROVE  LET p == WithStatus(o, status)
         IN  /\ p \in OrderRecords /\ p.status = status /\ p.req = o.req /\ p.filled = o.filled /\ p.role = o.role
             /\ p.reduceOnly = o.reduceOnly /\ SameLinks(o, p)
  BY DEF WithStatus, OrderRecords, SameLinks

\* An order that changes only its status, between two open ones.
LEMMA StatusWorks ==
  ASSUME NEW s, Sound(s), NEW id \in Ids(s), IsOpen(s.orders[id]), NEW status \in {"Working", "Armed"},
         status = "Armed" => s.orders[id].req.trigger # None
  PROVE  LET t == WithOrder(s, id, WithStatus(s.orders[id], status))
         IN  /\ Sound(t) /\ Fresh(s, t) /\ (Paired(s) => Paired(t))
             /\ OneChanged(s, t, id, WithStatus(s.orders[id], status))
             /\ t.orders[id].status = status /\ t.orders[id].req = s.orders[id].req /\ t.orders[id].role = s.orders[id].role
<1> DEFINE o == s.orders[id]
           p == WithStatus(o, status)
           t == WithOrder(s, id, p)
<1>1. s \in StateRecords /\ o \in OrderRecords /\ Shaped(s)
  BY SoundState, StateFields
<1>2. status \in Statuses
  BY DEF Statuses
<1>3. /\ p \in OrderRecords /\ p.status = status /\ p.req = o.req /\ p.filled = o.filled /\ p.role = o.role
      /\ p.reduceOnly = o.reduceOnly /\ SameLinks(o, p)
  BY <1>1, <1>2, StatusOrder
<1> HIDE DEF p
<1>4. OneChanged(s, t, id, p)
  BY <1>1, <1>3, WithOrderState
<1> HIDE DEF t
<1>5. t \in StateRecords /\ Len(t.orders) = Len(s.orders) /\ t.orders[id] = p
      /\ \A other \in Ids(s) : other # id => t.orders[other] = s.orders[other]
  BY <1>4 DEF OneChanged
<1>6. Ids(t) = Ids(s)
  BY <1>5 DEF Ids
<1>7. IsOpen(p) /\ Proper(o)
  BY <1>1, <1>3 DEF IsOpen, Shaped
<1>8. Proper(p)
  BY <1>3, <1>7 DEF Proper, SameLinks
<1>9. Shaped(t)
  <2>1. ASSUME NEW n \in Ids(s)
        PROVE  SameLinks(s.orders[n], t.orders[n]) /\ t.orders[n].role = s.orders[n].role /\ Proper(t.orders[n])
    <3>1. CASE n = id
      BY <1>3, <1>5, <1>8, <3>1
    <3>2. CASE n # id
      BY <1>1, <1>5, <3>2 DEF SameLinks, Shaped
    <3> QED BY <3>1, <3>2
  <2> QED BY <1>1, <1>5, <2>1, Relinked
<1>10. ASSUME NEW n \in Ids(s) PROVE Fits(t, n)
  <2>1. Fits(s, n)
    BY DEF Sound
  <2>2. \A side : ExitCapacity(t, side) = ExitCapacity(s, side)
    BY <1>1, <1>4, OneChangedBook
  <2>3. CASE n = id
    <3>1. Remaining(p) = Remaining(o) /\ KeptWithin(p) = KeptWithin(o)
      BY <1>3 DEF Remaining, KeptWithin
    <3> QED BY <1>3, <1>5, <2>1, <2>2, <2>3, <3>1 DEF Fits
  <2>4. CASE n # id
    BY <1>5, <2>1, <2>2, <2>4 DEF Fits
  <2> QED BY <2>3, <2>4
<1>11. Fresh(s, t)
  <2>1. \A n \in Ids(s) : t.orders[n].chained = s.orders[n].chained /\ t.orders[n].from = s.orders[n].from
    BY <1>3, <1>5 DEF SameLinks
  <2>2. \A n \in Ids(t) : ~ (n > Len(s.orders))
    BY <1>1, <1>6, StateFields DEF Ids
  <2> QED BY <2>1, <2>2 DEF Fresh
<1>12. ASSUME Paired(s) PROVE Paired(t)
  <2>1. ASSUME NEW n \in Ids(s), t.orders[n].role = "Normal", t.orders[n].oco # NoOrder, t.orders[n].filled > 0
        PROVE  t.orders[t.orders[n].oco].filled = 0 /\ ~IsOpen(t.orders[t.orders[n].oco])
    <3>1. s.orders[n].role = "Normal" /\ s.orders[n].oco = t.orders[n].oco /\ s.orders[n].filled = t.orders[n].filled
      BY <1>3, <1>5, <2>1 DEF SameLinks
    <3>2. s.orders[s.orders[n].oco].filled = 0 /\ ~IsOpen(s.orders[s.orders[n].oco])
      BY <1>12, <2>1, <3>1 DEF Paired, PairHolds
    <3>3. s.orders[n].oco \in Ids(s) /\ s.orders[n].oco # id
      BY <1>1, <2>1, <3>1, <3>2, LinkedOnes
    <3> QED BY <1>5, <3>1, <3>2, <3>3
  <2> QED BY <1>6, <2>1 DEF Paired, PairHolds
<1> QED BY <1>3, <1>4, <1>5, <1>6, <1>9, <1>10, <1>11, <1>12 DEF Sound, t, p

\* An armed order that its price has reached starts to work.
LEMMA StartedWorks ==
  ASSUME NEW s, Sound(s), NEW id \in Ids(s), s.orders[id].status = "Armed", Reached(s, s.orders[id])
  PROVE  LET t == WithOrder(s, id, WithStatus(s.orders[id], "Working"))
         IN  /\ Works(s, t) /\ Waits(s, t, id) /\ id \in Ids(t)
             /\ t.orders[id].status = "Working" /\ t.orders[id].req = s.orders[id].req /\ t.orders[id].role = s.orders[id].role
<1> DEFINE o == s.orders[id]
           t == WithOrder(s, id, WithStatus(s.orders[id], "Working"))
<1>1. /\ Sound(t) /\ Fresh(s, t) /\ (Paired(s) => Paired(t))
      /\ OneChanged(s, t, id, WithStatus(s.orders[id], "Working"))
      /\ t.orders[id].status = "Working" /\ t.orders[id].req = s.orders[id].req /\ t.orders[id].role = s.orders[id].role
  BY StatusWorks DEF IsOpen
<1>2. s \in StateRecords /\ t \in StateRecords /\ o \in OrderRecords
  BY <1>1, SoundState, StateFields
<1>3. /\ t.orders[id].filled = o.filled /\ t.orders[id].reduceOnly = o.reduceOnly /\ t.orders[id].oco = o.oco
  BY <1>1, <1>2, StatusOrder DEF OneChanged, SameLinks, Statuses
<1> HIDE DEF t
<1>4. ASSUME NEW n \in Ids(s) PROVE AdvanceAt(s, t, n)
  <2>1. CASE n = id
    <3>1. Advance(o, t.orders[id])
      BY <1>1, <1>3 DEF Advance, SameTerms, IsOpen
    <3>2. ~Calm(s, id)
      BY DEF Calm, Swept, IsOpen
    <3> QED BY <2>1, <3>1, <3>2 DEF AdvanceAt
  <2>2. CASE n # id
    <3>1. t.orders[n] = s.orders[n]
      BY <1>1, <2>2 DEF OneChanged
    <3>2. Calm(s, n) => Calm(t, n)
      BY <1>1, <1>2, <3>1, OneChangedBook DEF Calm, Swept
    <3> QED BY <3>1, <3>2 DEF AdvanceAt, Advance, SameTerms
  <2> QED BY <2>1, <2>2
<1>5. Onward(s, t)
  BY <1>1, <1>2, <1>4, StateFields DEF Onward, OneChanged, SameBook
<1>6. Waits(s, t, id)
  BY <1>1 DEF Waits, OneChanged
<1>7. id \in Ids(t)
  BY <1>1 DEF OneChanged, Ids
<1> QED BY <1>1, <1>5, <1>6, <1>7 DEF Works, t

LEMMA WaitsTrans ==
  ASSUME NEW s, NEW t, NEW u, NEW id, Waits(s, t, id), Waits(t, u, id), Onward(s, t), Onward(t, u),
         Sound(s), Sound(t)
  PROVE  Waits(s, u, id)
<1>1. ASSUME NEW n \in Ids(s) \ {id}, s.orders[n].status = "Armed"
      PROVE  u.orders[n].status = "Armed" \/ ~IsOpen(u.orders[n])
  <2>1. n \in Ids(t)
    BY SoundState, StateFields DEF Onward, Ids
  <2>2. t.orders[n].status = "Armed" \/ ~IsOpen(t.orders[n])
    BY <1>1 DEF Waits
  <2>3. ~IsOpen(t.orders[n]) => ~IsOpen(u.orders[n])
    BY <2>1 DEF Onward, AdvanceAt, Advance, IsOpen
  <2> QED BY <2>1, <2>2, <2>3 DEF Waits
<1> QED BY <1>1 DEF Waits

LEMMA WorksSizes ==
  ASSUME NEW s, Sound(s), NEW t, Works(s, t)
  PROVE  /\ s \in StateRecords /\ t \in StateRecords /\ Len(s.orders) <= Len(t.orders) /\ Ids(s) \subseteq Ids(t)
         /\ Onward(s, t) /\ Sound(t)
<1>1. s \in StateRecords /\ t \in StateRecords /\ Onward(s, t) /\ Sound(t)
  BY SoundState DEF Works
<1> QED BY <1>1, StateFields DEF Onward, Ids

\* A stop exit that found no size left: what matters is how it was before it started.
LEMMA ArmsAgain ==
  ASSUME NEW s, Sound(s), NEW id \in Ids(s), s.orders[id].status = "Armed", s.orders[id].role # "Normal",
         NEW m, Works(s, m), Waits(s, m, id), IsOpen(m.orders[id]), m.orders[id].status # "Armed",
         m.orders[id].req.ioc, m.orders[id].req.trigger # None, Swept(m, id)
  PROVE  LET t == WithOrder(m, id, WithStatus(m.orders[id], "Armed"))
         IN  Works(s, t) /\ Waits(s, t, id) /\ Unreached(t, id)
<1> DEFINE t == WithOrder(m, id, WithStatus(m.orders[id], "Armed"))
           o == s.orders[id]
           q == m.orders[id]
<1>1. /\ s \in StateRecords /\ m \in StateRecords /\ Len(s.orders) <= Len(m.orders) /\ Ids(s) \subseteq Ids(m)
      /\ Onward(s, m) /\ Sound(m) /\ id \in Ids(m)
  BY WorksSizes
<1>2. /\ Sound(t) /\ Fresh(m, t) /\ (Paired(m) => Paired(t))
      /\ OneChanged(m, t, id, WithStatus(q, "Armed"))
      /\ t.orders[id].status = "Armed" /\ t.orders[id].req = q.req /\ t.orders[id].role = q.role
  BY <1>1, StatusWorks
<1>3. t \in StateRecords /\ q \in OrderRecords /\ Len(t.orders) = Len(m.orders) /\ SameBook(m, t)
  BY <1>1, <1>2, SoundState, StateFields DEF OneChanged
<1> DEFINE p == WithStatus(q, "Armed")
<1>20. OneChanged(m, t, id, p)
  BY <1>2
<1> HIDE DEF p, t
<1>21. /\ \A side : Depth(t, side) = Depth(m, side)
       /\ \A x : (Marketable(t, x) <=> Marketable(m, x)) /\ (Reached(t, x) <=> Reached(m, x))
  BY <1>1, <1>20, OneChangedBook
<1>4. t.orders[id].filled = q.filled /\ t.orders[id].reduceOnly = q.reduceOnly /\ t.orders[id].oco = q.oco
  BY <1>2, <1>3, StatusOrder DEF OneChanged, SameLinks, Statuses
<1> HIDE DEF t
<1>5. AdvanceAt(s, m, id) /\ Advance(o, q)
  BY <1>1 DEF Onward, AdvanceAt
<1>6. ASSUME NEW n \in Ids(s) PROVE AdvanceAt(s, t, n)
  <2>1. CASE n = id
    <3>1. Advance(o, t.orders[id])
      BY <1>2, <1>4, <1>5 DEF Advance, SameTerms, IsOpen
    <3>2. ~Calm(s, id)
      BY DEF Calm
    <3> QED BY <2>1, <3>1, <3>2 DEF AdvanceAt
  <2>2. CASE n # id
    <3>1. t.orders[n] = m.orders[n] /\ n \in Ids(m)
      BY <1>1, <1>2, <2>2 DEF OneChanged
    <3>2. Calm(m, n) => Calm(t, n)
      BY <1>21, <3>1 DEF Calm, Swept
    <3>3. AdvanceAt(s, m, n)
      BY <1>1 DEF Onward
    <3> QED BY <3>1, <3>2, <3>3 DEF AdvanceAt
  <2> QED BY <2>1, <2>2
<1>7. Onward(s, t)
  <2>1. t.bid <= s.bid /\ t.ask <= s.ask /\ Len(s.orders) <= Len(t.orders)
    BY <1>1, <1>3, StateFields DEF Onward, SameBook
  <2> QED BY <1>1, <1>3, <1>6, <2>1 DEF Onward, SameBook
<1>8. Fresh(s, t)
  <2>1. Fresh(s, m)
    BY DEF Works
  <2>2. \A n \in Ids(s) : t.orders[n].chained = s.orders[n].chained /\ t.orders[n].from = s.orders[n].from
    BY <1>1, <1>2, <2>1 DEF Fresh
  <2>3. \A n \in Ids(t) : n > Len(s.orders) => t.orders[n].role # "Normal" /\ NotChained(t.orders[n])
    <3>1. ASSUME NEW n \in Ids(t), n > Len(s.orders) PROVE t.orders[n] = m.orders[n] /\ n \in Ids(m)
      <4>1. n # id /\ n \in Ids(m)
        BY <1>1, <1>3, <3>1, StateFields DEF Ids
      <4> QED BY <1>2, <4>1 DEF OneChanged
    <3> QED BY <2>1, <3>1 DEF Fresh
  <2> QED BY <2>2, <2>3 DEF Fresh
<1>9. Waits(s, t, id)
  <2>1. \A n \in Ids(s) \ {id} : t.orders[n] = m.orders[n]
    BY <1>1, <1>2 DEF OneChanged
  <2> QED BY <2>1 DEF Waits
<1>10. Unreached(t, id)
  <2>1. Proper(q) /\ q.role # "Normal" /\ q.req.ioc
    BY <1>1, <1>5 DEF Sound, Shaped, Advance
  <2>2. Marketable(m, q)
    BY <2>1 DEF Proper, Marketable
  <2>3. Depth(m, q.req.side) = 0
    BY <2>2 DEF Swept
  <2>4. Depth(t, t.orders[id].req.side) = 0
    BY <1>2, <1>21, <2>3
  <2> QED BY <1>2, <2>1, <2>4 DEF Unreached
<1>11. Paired(s) => Paired(t)
  BY <1>2 DEF Works
<1> QED BY <1>2, <1>7, <1>8, <1>9, <1>10, <1>11 DEF Works, t

LEMMA ActivateVisits ==
  ASSUME NEW s, Sound(s), NEW id \in Ids(s), s.orders[id].status = "Armed", Reached(s, s.orders[id])
  PROVE  LET t == Activate(s, id)
         IN  Works(s, t) /\ Waits(s, t, id) /\ Unreached(t, id) /\ (s.orders[id].role = "Normal" => Calm(t, id))
<1> DEFINE o == s.orders[id]
           w == WithOrder(s, id, WithStatus(o, "Working"))
           m == MatchSymbols(w, id)
           q == m.orders[id]
           t == Activate(s, id)
<1>1. s \in StateRecords /\ o \in OrderRecords /\ Shaped(s) /\ Proper(o) /\ o.req.trigger # None
  BY SoundState, StateFields DEF Shaped, Proper
<1>2. CASE o.role = "Normal" /\ OrderCheck(s, id, o, "Activate") # "OK"
  <2>1. "RISK_CHANGED" \in Reasons
    BY DEF Reasons
  <2>2. LET u == EndOrder(s, id, "RISK_CHANGED")
        IN  Works(s, u) /\ OneChanged(s, u, id, u.orders[id]) /\ ~IsOpen(u.orders[id])
    BY <2>1, EndOrderWorks
  <2>3. t = EndOrder(s, id, "RISK_CHANGED")
    BY <1>2 DEF Activate
  <2> HIDE DEF t
  <2>4. Works(s, t) /\ OneChanged(s, t, id, t.orders[id]) /\ ~IsOpen(t.orders[id])
    BY <2>2, <2>3
  <2>5. t.orders[id].role = o.role
    BY <1>1, <2>4 DEF Works, Onward, AdvanceAt, Advance
  <2>6. Waits(s, t, id)
    BY <2>4 DEF Waits, OneChanged
  <2> QED BY <2>4, <2>5, <2>6 DEF Unreached, Calm, Swept, IsOpen, t
<1>3. CASE ~(o.role = "Normal" /\ OrderCheck(s, id, o, "Activate") # "OK")
  <2>1. t = EndIoc(m, id)
    BY <1>3 DEF Activate
  <2>2. /\ Works(s, w) /\ Waits(s, w, id) /\ id \in Ids(w)
        /\ w.orders[id].status = "Working" /\ w.orders[id].req = o.req /\ w.orders[id].role = o.role
    BY StartedWorks
  <2> HIDE DEF w
  <2>3. Sound(w)
    BY <2>2 DEF Works
  <2>4. Matches(w, m, Ids(w), id)
    BY <2>3, MatchSymbolsWorks
  <2> HIDE DEF m
  <2>5. Works(w, m) /\ Settled(m, id) /\ Steady(w, m)
    BY <2>2, <2>4 DEF Matches
  <2>6. Works(s, m) /\ Sound(m) /\ id \in Ids(m)
    BY <2>2, <2>3, <2>5, WorksTrans, WorksSizes
  <2>7. Advance(w.orders[id], q)
    BY <2>2, <2>5 DEF Works, Onward, AdvanceAt
  <2>8. q.status # "Armed" /\ q.role = o.role /\ SameTerms(o.req, q.req)
    BY <2>2, <2>7 DEF Advance
  <2>9. Swept(m, id)
    BY <2>5, <2>8 DEF Settled
  <2>10. Waits(s, m, id)
    <3>1. Waits(w, m, id)
      BY <2>5 DEF Steady, Waits
    <3> QED BY <2>2, <2>3, <2>5, <3>1, WaitsTrans DEF Works
  <2>11. CASE ~IsOpen(q) \/ ~q.req.ioc
    <3>1. t = m
      BY <2>1, <2>11 DEF EndIoc
    <3> HIDE DEF t
    <3> QED BY <2>6, <2>8, <2>9, <2>10, <3>1 DEF Unreached, Calm, t
  <2>12. CASE IsOpen(q) /\ q.req.ioc /\ q.role # "Normal" /\ q.req.trigger # None
    <3>1. t = WithOrder(m, id, WithStatus(q, "Armed"))
      BY <2>1, <2>12 DEF EndIoc
    <3>2. LET u == WithOrder(m, id, WithStatus(q, "Armed")) IN Works(s, u) /\ Waits(s, u, id) /\ Unreached(u, id)
      BY <2>6, <2>8, <2>9, <2>10, <2>12, ArmsAgain
    <3> HIDE DEF t
    <3> QED BY <2>8, <2>12, <3>1, <3>2 DEF t
  <2>13. CASE IsOpen(q) /\ q.req.ioc /\ ~(q.role # "Normal" /\ q.req.trigger # None)
    <3>1. t = EndOrder(m, id, "IOC_REMAINDER")
      BY <2>1, <2>13 DEF EndIoc
    <3>2. "IOC_REMAINDER" \in Reasons
      BY DEF Reasons
    <3>3. LET u == EndOrder(m, id, "IOC_REMAINDER")
          IN  Works(m, u) /\ OneChanged(m, u, id, u.orders[id]) /\ ~IsOpen(u.orders[id])
      BY <2>6, <3>2, EndOrderWorks
    <3> HIDE DEF t
    <3>4. Works(m, t) /\ OneChanged(m, t, id, t.orders[id]) /\ ~IsOpen(t.orders[id])
      BY <3>1, <3>3
    <3>5. Works(s, t)
      BY <2>6, <3>4, WorksTrans
    <3>6. Waits(s, t, id)
      <4>1. Waits(m, t, id)
        BY <3>4 DEF Waits, OneChanged
      <4> QED BY <2>6, <2>10, <3>4, <4>1, WaitsTrans DEF Works
    <3>7. t.orders[id].role = o.role
      BY <3>5 DEF Works, Onward, AdvanceAt, Advance
    <3> QED BY <3>4, <3>5, <3>6, <3>7 DEF Unreached, Calm, Swept, IsOpen, t
  <2> QED BY <2>11, <2>12, <2>13
<1> QED BY <1>2, <1>3

LEMMA CheckTriggerVisits ==
  ASSUME NEW s, Sound(s), NEW id \in Nat \ {0}
  PROVE  Visits(s, CheckTrigger(s, id), id)
<1> DEFINE o == s.orders[id]
           t == CheckTrigger(s, id)
<1>1. s \in StateRecords /\ DOMAIN s.orders = Ids(s)
  BY SoundState, StateFields
<1>2. Works(s, s) /\ Waits(s, s, id)
  BY WorksSelf DEF Waits
<1>3. CASE id \notin Ids(s)
  <2>1. t = s
    BY <1>1, <1>3 DEF CheckTrigger
  <2> QED BY <1>2, <1>3, <2>1 DEF Visits
<1>4. CASE id \in Ids(s) /\ ~(o.status = "Armed" /\ Reached(s, o))
  <2>1. t = s
    BY <1>1, <1>4 DEF CheckTrigger
  <2>2. Unreached(s, id)
    BY <1>4 DEF Unreached
  <2>3. o.role = "Normal" /\ Settled(s, id) => Calm(s, id)
    BY <1>4 DEF Settled, Calm
  <2> HIDE DEF t
  <2> QED BY <1>2, <2>1, <2>2, <2>3 DEF Visits, t
<1>5. CASE id \in Ids(s) /\ o.status = "Armed" /\ Reached(s, o)
  <2>1. t = Activate(s, id)
    BY <1>1, <1>5 DEF CheckTrigger
  <2>2. LET u == Activate(s, id)
        IN  Works(s, u) /\ Waits(s, u, id) /\ Unreached(u, id) /\ (o.role = "Normal" => Calm(u, id))
    BY <1>5, ActivateVisits
  <2> HIDE DEF t
  <2> QED BY <2>1, <2>2 DEF Visits, t
<1> QED BY <1>3, <1>4, <1>5

TriggerPass(f, s, n) == f = [id \in 0..n |-> IF id = 0 THEN s ELSE CheckTrigger(f[id - 1], id)]

LEMMA TriggerPassExists == ASSUME NEW s, NEW n \in Nat PROVE \E f : TriggerPass(f, s, n)
<1> DEFINE Broken == {k \in Nat : ~ \E f : TriggerPass(f, s, k)}
<1> SUFFICES ASSUME Broken # {} PROVE FALSE
  OBVIOUS
<1>1. PICK k \in Broken : \A j \in Broken : k <= j
  BY LeastNumber
<1>2. k \in Nat /\ ~ \E f : TriggerPass(f, s, k)
  OBVIOUS
<1>3. CASE k = 0
  <2>1. TriggerPass([j \in 0..0 |-> s], s, 0)
    BY DEF TriggerPass
  <2> QED BY <1>2, <1>3, <2>1
<1>4. CASE k # 0
  <2>1. k - 1 \in Nat /\ k - 1 \notin Broken
    BY <1>1, <1>2, <1>4
  <2>2. PICK f : TriggerPass(f, s, k - 1)
    BY <2>1
  <2> DEFINE h == [j \in 0..k |-> IF j = 0 THEN s ELSE CheckTrigger(f[j - 1], j)]
  <2>3. \A j \in 0..(k - 1) : h[j] = f[j]
    BY <1>2, <2>1, <2>2 DEF TriggerPass
  <2>4. ASSUME NEW j \in 0..k, j # 0 PROVE CheckTrigger(f[j - 1], j) = CheckTrigger(h[j - 1], j)
    <3>1. j - 1 \in 0..(k - 1)
      BY <1>2, <2>4
    <3>2. h[j - 1] = f[j - 1]
      BY <2>3, <3>1
    <3> QED BY <3>2
  <2>5. h = [j \in 0..k |-> IF j = 0 THEN s ELSE CheckTrigger(h[j - 1], j)]
    BY <2>4
  <2> QED BY <1>2, <2>5 DEF TriggerPass
<1> QED BY <1>3, <1>4

LEMMA CheckTriggersIsPass ==
  ASSUME NEW s
  PROVE  CheckTriggers(s) = (CHOOSE f : TriggerPass(f, s, IdBound))[IdBound]
  BY DEF CheckTriggers, Folded, TriggerPass

\* What visiting the triggers up to k has done.
Visited(s, t, k) ==
  /\ Works(s, t)
  /\ \A id \in Ids(t) : id <= k => Unreached(t, id)
  /\ \A id \in Ids(s) : s.orders[id].role = "Normal" /\ Settled(s, id)
                        => Settled(t, id) /\ (id <= k => Calm(t, id))

LEMMA VisitedMore ==
  ASSUME NEW s, Sound(s), NEW k \in Nat \ {0}, NEW u, Visited(s, u, k - 1)
  PROVE  Visited(s, CheckTrigger(u, k), k)
<1> DEFINE t == CheckTrigger(u, k)
<1>1. Works(s, u) /\ Sound(u)
  BY DEF Visited, Works
<1>2. Visits(u, t, k)
  BY <1>1, CheckTriggerVisits
<1> HIDE DEF t
<1>3. Works(u, t) /\ Waits(u, t, k)
  BY <1>2 DEF Visits
<1>4. Works(s, t)
  BY <1>1, <1>3, WorksTrans
<1>5. /\ s \in StateRecords /\ u \in StateRecords /\ t \in StateRecords
      /\ Ids(s) \subseteq Ids(u) /\ Ids(u) \subseteq Ids(t) /\ Onward(u, t) /\ Onward(s, u) /\ Fresh(s, t) /\ Fresh(u, t)
  BY <1>1, <1>3, <1>4, WorksSizes DEF Works
<1>6. ASSUME NEW id \in Ids(t), id <= k PROVE Unreached(t, id)
  <2>1. CASE id = k /\ id \in Ids(u)
    BY <1>2, <2>1 DEF Visits
  <2>2. CASE id # k /\ id \in Ids(u)
    <3>1. id <= k - 1
      BY <1>5, <1>6, <2>2, StateFields DEF Ids
    <3> QED BY <1>1, <1>3, <2>2, <3>1, WorksAt DEF Visited
  <2>3. CASE id \notin Ids(u)
    <3>1. Len(u.orders) < id /\ k # 0
      BY <1>5, <2>3, StateFields DEF Ids
    <3>2. k \notin Ids(u) => t = u
      BY <1>5, StateFields DEF CheckTrigger, t
    <3>3. k \notin Ids(u)
      BY <1>5, <1>6, <3>1, StateFields DEF Ids
    <3> QED BY <2>3, <3>2, <3>3
  <2> QED BY <2>1, <2>2, <2>3
<1>7. ASSUME NEW id \in Ids(s), s.orders[id].role = "Normal", Settled(s, id)
      PROVE  Settled(t, id) /\ (id <= k => Calm(t, id))
  <2>1. Settled(u, id) /\ (id <= k - 1 => Calm(u, id)) /\ id \in Ids(u)
    BY <1>5, <1>7 DEF Visited
  <2>2. u.orders[id].role = "Normal"
    BY <1>5, <1>7 DEF Onward, AdvanceAt, Advance
  <2>3. CASE id = k
    <3>1. Calm(t, id)
      BY <1>2, <2>1, <2>2, <2>3 DEF Visits
    <3> QED BY <3>1 DEF Calm, Settled
  <2>4. CASE id # k
    <3>1. id <= k => Calm(t, id)
      <4>1. id <= k => id <= k - 1
        BY <1>5, <2>4, StateFields DEF Ids
      <4> QED BY <1>5, <2>1, <4>1 DEF Onward, AdvanceAt
    <3>2. Settled(t, id)
      <4>1. CASE Swept(u, id)
        BY <1>1, <1>3, <2>1, <4>1, WorksAt DEF Settled
      <4>2. CASE u.orders[id].status = "Armed"
        BY <1>3, <2>1, <2>4, <4>2 DEF Waits, Settled, Swept
      <4> QED BY <2>1, <4>1, <4>2 DEF Settled
    <3> QED BY <3>1, <3>2
  <2> QED BY <2>3, <2>4
<1> QED BY <1>4, <1>6, <1>7 DEF Visited, t

\* What checking the triggers does, while the orders stay within the bound.
Checks(s, t) ==
  /\ Works(s, t)
  /\ Len(t.orders) <= IdBound =>
       /\ AllUnreached(t)
       /\ \A id \in Ids(s) : s.orders[id].role = "Normal" /\ Settled(s, id) => Calm(t, id)

LEMMA CheckTriggersWorks ==
  ASSUME OrdersConstants, NEW s, Sound(s)
  PROVE  Checks(s, CheckTriggers(s))
<1> DEFINE n == IdBound
           pass == CHOOSE f : TriggerPass(f, s, n)
           Fine(k) == Visited(s, pass[k], k)
           Broken == {k \in 0..n : ~Fine(k)}
<1>1. s \in StateRecords /\ n \in Nat
  BY SoundState DEF OrdersConstants, IdBound
<1>2. CheckTriggers(s) = pass[n]
  BY CheckTriggersIsPass
<1>3. TriggerPass(pass, s, n)
  BY <1>1, TriggerPassExists
<1> HIDE DEF n, pass
<1>4. ASSUME Broken # {} PROVE FALSE
  <2>1. PICK k \in Broken : \A j \in Broken : k <= j
    <3>1. Broken \subseteq Nat
      BY <1>1
    <3> HIDE DEF Broken
    <3> QED BY <1>4, <3>1, LeastNumber
  <2>2. k \in 0..n /\ ~Visited(s, pass[k], k)
    OBVIOUS
  <2>3. pass[k] = IF k = 0 THEN s ELSE CheckTrigger(pass[k - 1], k)
    BY <1>3, <2>2 DEF TriggerPass
  <2>4. CASE k = 0
    <3>1. Visited(s, s, 0)
      <4>1. \A id \in Ids(s) : ~ (id <= 0)
        BY <1>1, StateFields DEF Ids
      <4> QED BY <4>1, WorksSelf DEF Visited
    <3> QED BY <2>2, <2>3, <2>4, <3>1
  <2>5. CASE k # 0
    <3>1. k - 1 \in 0..n /\ k - 1 \notin Broken /\ k \in Nat \ {0}
      <4>1. k \in 0..n /\ k # 0
        BY <2>2, <2>5
      <4> HIDE DEF Broken
      <4> QED BY <1>1, <2>1, <4>1
    <3>2. Visited(s, pass[k - 1], k - 1)
      <4>1. Fine(k - 1)
        <5> HIDE DEF Fine
        <5> QED BY <3>1
      <4> QED BY <4>1
    <3>3. Visited(s, CheckTrigger(pass[k - 1], k), k)
      BY <3>1, <3>2, VisitedMore
    <3> QED BY <2>2, <2>3, <2>5, <3>3
  <2> QED BY <2>4, <2>5
<1>5. Visited(s, pass[n], n)
  <2>1. n \in 0..n
    BY <1>1
  <2>2. Fine(n)
    <3> HIDE DEF Fine
    <3> QED BY <1>4, <2>1
  <2> QED BY <2>2
<1> DEFINE t == pass[n]
<1> HIDE DEF t, Fine, Broken
<1>6. Visited(s, t, n)
  BY <1>5 DEF t
<1>7. ASSUME Len(t.orders) <= n
      PROVE  AllUnreached(t) /\ \A id \in Ids(s) : s.orders[id].role = "Normal" /\ Settled(s, id) => Calm(t, id)
  <2>1. Works(s, t)
    BY <1>6 DEF Visited
  <2>2. t \in StateRecords /\ Ids(s) \subseteq Ids(t)
    BY <2>1, WorksSizes
  <2>3. \A id \in Ids(t) : id <= n
    BY <1>1, <1>7, <2>2, StateFields DEF Ids
  <2> QED BY <1>6, <2>2, <2>3 DEF Visited, AllUnreached
<1> QED BY <1>2, <1>6, <1>7 DEF Visited, Checks, t, n

-----------------------------------------------------------------------------
(* Placing *)

\* New orders behind the old ones, which stay as they were.
Behind(s, t) ==
  /\ t \in StateRecords /\ SameBook(s, t) /\ Len(s.orders) <= Len(t.orders)
  /\ \A id \in Ids(s) : t.orders[id] = s.orders[id]

LEMMA BehindBook ==
  ASSUME NEW s \in StateRecords, NEW t, Behind(s, t)
  PROVE  /\ t \in StateRecords /\ Ids(s) \subseteq Ids(t)
         /\ \A side : Depth(t, side) = Depth(s, side) /\ ExitCapacity(t, side) = ExitCapacity(s, side)
         /\ \A p : (Marketable(t, p) <=> Marketable(s, p)) /\ (Reached(t, p) <=> Reached(s, p))
<1>1. t \in StateRecords /\ Len(s.orders) \in Nat /\ Len(t.orders) \in Nat /\ Len(s.orders) <= Len(t.orders)
  BY StateFields DEF Behind
<1>2. Ids(s) \subseteq Ids(t)
  BY <1>1 DEF Ids
<1> QED BY <1>1, <1>2 DEF Behind, SameBook, Depth, Marketable, Reached, ExitCapacity

LEMMA BehindOnward ==
  ASSUME NEW s \in StateRecords, NEW t, Behind(s, t)
  PROVE  Onward(s, t)
<1>1. ASSUME NEW id \in Ids(s) PROVE AdvanceAt(s, t, id)
  <2>1. t.orders[id] = s.orders[id]
    BY DEF Behind
  <2>2. Calm(s, id) => Calm(t, id)
    BY <2>1, BehindBook DEF Calm, Swept
  <2> QED BY <2>1, <2>2 DEF AdvanceAt, Advance, SameTerms
<1> QED BY <1>1, StateFields DEF Behind, SameBook, Onward

LEMMA BehindSound ==
  ASSUME NEW s, Sound(s), NEW t, Behind(s, t),
         \A id \in Ids(t) : id > Len(s.orders) => Proper(t.orders[id]) /\ Linked(t, id) /\ Fits(t, id)
  PROVE  Sound(t)
<1>1. s \in StateRecords /\ Shaped(s) /\ t \in StateRecords
  BY SoundState DEF Behind
<1>2. ASSUME NEW id \in Ids(t) PROVE Proper(t.orders[id]) /\ Linked(t, id) /\ Fits(t, id)
  <2>1. CASE id \in Ids(s)
    <3>1. t.orders[id] = s.orders[id] /\ Ids(s) \subseteq Ids(t) /\ \A n \in Ids(s) : t.orders[n] = s.orders[n]
      BY <1>1, <2>1, BehindBook DEF Behind
    <3>2. Proper(s.orders[id]) /\ Linked(s, id) /\ Fits(s, id)
      BY <2>1 DEF Sound, Shaped
    <3>3. Linked(t, id)
      BY <3>1, <3>2 DEF Linked
    <3>4. Fits(t, id)
      BY <1>1, <3>1, <3>2, BehindBook DEF Fits
    <3> QED BY <3>1, <3>2, <3>3, <3>4
  <2>2. CASE id \notin Ids(s)
    <3>1. id > Len(s.orders)
      BY <1>1, <2>2, StateFields DEF Ids
    <3> QED BY <3>1
  <2> QED BY <2>1, <2>2
<1> QED BY <1>1, <1>2 DEF Sound, Shaped

LEMMA BehindPaired ==
  ASSUME NEW s, Sound(s), NEW t, Behind(s, t), Paired(s),
         \A id \in Ids(t) : id > Len(s.orders) => t.orders[id].role # "Normal" \/ t.orders[id].oco = NoOrder
  PROVE  Paired(t)
<1>1. s \in StateRecords /\ Shaped(s) /\ t \in StateRecords
  BY SoundState DEF Behind
<1>2. ASSUME NEW id \in Ids(t) PROVE PairHolds(t, id)
  <2>1. CASE id \in Ids(s)
    <3>1. t.orders[id] = s.orders[id] /\ PairHolds(s, id)
      BY <2>1 DEF Behind, Paired
    <3>2. s.orders[id].oco # NoOrder => t.orders[s.orders[id].oco] = s.orders[s.orders[id].oco]
      BY <1>1, <2>1, LinkedOnes DEF Behind
    <3> QED BY <3>1, <3>2 DEF PairHolds
  <2>2. CASE id \notin Ids(s)
    <3>1. id > Len(s.orders)
      BY <1>1, <2>2, StateFields DEF Ids
    <3> QED BY <3>1 DEF PairHolds
  <2> QED BY <2>1, <2>2
<1> QED BY <1>2 DEF Paired

LEMMA AddedBehind ==
  ASSUME NEW s \in StateRecords, NEW o \in OrderRecords
  PROVE  LET t == AddOrder(s, o)
         IN  /\ Behind(s, t) /\ Len(t.orders) = Len(s.orders) + 1 /\ t.orders[Len(s.orders) + 1] = o
             /\ \A id \in Ids(t) : id > Len(s.orders) => id = Len(s.orders) + 1
<1> DEFINE t == AddOrder(s, o)
<1>1. OneAdded(s, t, o)
  BY AddOrderState
<1> HIDE DEF t
<1>2. t \in StateRecords /\ Len(s.orders) \in Nat /\ Len(t.orders) = Len(s.orders) + 1
  BY <1>1, StateFields DEF OneAdded
<1>3. \A id \in Ids(t) : id > Len(s.orders) => id = Len(s.orders) + 1
  BY <1>2 DEF Ids
<1> QED BY <1>1, <1>2, <1>3 DEF OneAdded, Behind, t

\* An order added with no links of its own.
LEMMA AddedSound ==
  ASSUME NEW s, Sound(s), NEW o \in OrderRecords, Proper(o),
         o.oco = NoOrder, o.parent = NoOrder, o.stop = NoOrder, o.target = NoOrder,
         IsOpen(o) /\ KeptWithin(o) => Remaining(o) <= ExitCapacity(s, o.req.side)
  PROVE  LET t == AddOrder(s, o)
         IN  /\ Sound(t) /\ Behind(s, t) /\ Len(t.orders) = Len(s.orders) + 1 /\ t.orders[Len(s.orders) + 1] = o
             /\ \A id \in Ids(t) : id > Len(s.orders) => id = Len(s.orders) + 1
             /\ (Paired(s) => Paired(t))
<1> DEFINE t == AddOrder(s, o)
<1>1. s \in StateRecords
  BY SoundState
<1>2. /\ Behind(s, t) /\ Len(t.orders) = Len(s.orders) + 1 /\ t.orders[Len(s.orders) + 1] = o
      /\ \A id \in Ids(t) : id > Len(s.orders) => id = Len(s.orders) + 1
  BY <1>1, AddedBehind
<1> HIDE DEF t
<1>3. ASSUME NEW id \in Ids(t), id > Len(s.orders) PROVE Proper(t.orders[id]) /\ Linked(t, id) /\ Fits(t, id)
  <2>1. t.orders[id] = o
    BY <1>2, <1>3
  <2>2. Linked(t, id)
    BY <2>1 DEF Linked
  <2>3. Fits(t, id)
    BY <1>1, <1>2, <2>1, BehindBook DEF Fits
  <2> QED BY <2>1, <2>2, <2>3
<1>4. Sound(t)
  BY <1>2, <1>3, BehindSound
<1>5. Paired(s) => Paired(t)
  <2>1. \A id \in Ids(t) : id > Len(s.orders) => t.orders[id].role # "Normal" \/ t.orders[id].oco = NoOrder
    BY <1>2
  <2> QED BY <1>2, <2>1, BehindPaired
<1> QED BY <1>2, <1>4, <1>5 DEF t

LEMMA NewOrderTyped ==
  ASSUME NEW r \in RequestRecords
  PROVE  LET o == NewOrder(r)
         IN  /\ o \in OrderRecords /\ o.req = r /\ o.filled = 0 /\ o.status = "Working" /\ o.role = "Normal"
             /\ o.oco = NoOrder /\ o.parent = NoOrder /\ o.stop = NoOrder /\ o.target = NoOrder /\ ~o.reduceOnly /\ NotChained(o)
<1>1. "NONE" \in Reasons /\ NoOrder \in Nat /\ "Working" \in Statuses /\ "Normal" \in Roles
  BY DEF Reasons, NoOrder, Statuses, Roles
<1> QED BY <1>1 DEF NewOrder, OrderRecords, NotChained

LEMMA ValidFields ==
  ASSUME NEW r, ValidRequest(r)
  PROVE  /\ r \in RequestRecords /\ r.qty > 0 /\ r.qty \in Nat /\ r.side \in Sides /\ r.trigger \in Triggers
         /\ (r.oco # None => r.oco[1] \in OrderRequests) /\ (r.then # None => r.then[1] \in OrderRequests)
<1>1. r \in RequestRecords /\ r.qty > 0
  BY DEF ValidRequest, WalkAllowed, HeldExitsAllowed, ChainAllowed
<1>2. r.qty \in Nat /\ r.side \in Sides /\ r.trigger \in Triggers /\ r.oco \in Nexts /\ r.then \in Nexts
  BY <1>1 DEF RequestRecords
<1> QED BY <1>1, <1>2, Option DEF Nexts

\* A state with a new order that has not met the market yet.
Joined(s, t, r) ==
  LET n == Len(s.orders) + 1
      o == t.orders[n]
  IN  /\ Sound(t) /\ Behind(s, t) /\ n <= Len(t.orders) /\ (Paired(s) => Paired(t))
      /\ NotChained(o) /\ SameTerms(r, o.req)
      /\ (r.exitsOnly /\ o.role # "Normal") \/ (o.role = "Normal" /\ o.oco = NoOrder)
      /\ \A id \in Ids(t) : id > n => t.orders[id].role # "Normal" /\ NotChained(t.orders[id])

LEMMA FreshJoined ==
  ASSUME NEW s, Sound(s), NEW r, ValidRequest(r), NEW o \in OrderRecords, SameTerms(r, o.req),
         Proper(o), o.oco = NoOrder, o.parent = NoOrder, o.stop = NoOrder, o.target = NoOrder, NotChained(o),
         o.role = "Normal", ~o.reduceOnly
  PROVE  LET t == AddOrder(s, o)
         IN  Joined(s, t, r) /\ Len(t.orders) = Len(s.orders) + 1 /\ t.orders[Len(s.orders) + 1] = o
<1> DEFINE t == AddOrder(s, o)
<1>1. s \in StateRecords
  BY SoundState
<1>2. ~KeptWithin(o)
  BY DEF KeptWithin
<1>3. /\ Sound(t) /\ Behind(s, t) /\ Len(t.orders) = Len(s.orders) + 1 /\ t.orders[Len(s.orders) + 1] = o
      /\ \A id \in Ids(t) : id > Len(s.orders) => id = Len(s.orders) + 1
      /\ (Paired(s) => Paired(t))
  BY <1>2, AddedSound
<1> HIDE DEF t
<1>4. Len(s.orders) \in Nat /\ Len(t.orders) = Len(s.orders) + 1
  BY <1>1, <1>3, StateFields
<1>5. \A id \in Ids(t) : ~ (id > Len(s.orders) + 1)
  BY <1>4 DEF Ids
<1> QED BY <1>3, <1>4, <1>5 DEF Joined, t

\* Exits of a position held: the order itself, and a stop beside it.
HeldFirst(o, role, status, target, stop, oco) ==
  [o EXCEPT !.role = role, !.status = status, !.target = target, !.stop = stop, !.oco = oco]
HeldStop(r, oco, status) == [NewOrder(r) EXCEPT !.role = "StopLoss", !.oco = oco, !.status = status]
HeldStopRequest(r, limit, trigger, ioc) ==
  [r EXCEPT !.bracket = None, !.exitsOnly = FALSE, !.limit = limit, !.trigger = trigger, !.ioc = ioc]

LEMMA HeldFirstOrder ==
  ASSUME NEW o \in OrderRecords, NEW role \in Roles, NEW status \in Statuses, NEW target \in Nat, NEW stop \in Nat, NEW oco \in Nat
  PROVE  LET p == HeldFirst(o, role, status, target, stop, oco)
         IN  /\ p \in OrderRecords /\ p.role = role /\ p.status = status /\ p.target = target /\ p.stop = stop /\ p.oco = oco
             /\ p.req = o.req /\ p.filled = o.filled /\ p.parent = o.parent /\ p.chained = o.chained /\ p.from = o.from
             /\ p.reduceOnly = o.reduceOnly
  BY DEF HeldFirst, OrderRecords

LEMMA HeldStopOrder ==
  ASSUME NEW r \in RequestRecords, NEW status \in Statuses, NEW oco \in Nat
  PROVE  LET p == HeldStop(r, oco, status)
         IN  /\ p \in OrderRecords /\ p.role = "StopLoss" /\ p.status = status /\ p.oco = oco
             /\ p.req = r /\ p.filled = 0 /\ p.parent = NoOrder /\ p.stop = NoOrder /\ p.target = NoOrder /\ NotChained(p)
<1> DEFINE q == NewOrder(r)
<1>1. /\ q \in OrderRecords /\ q.req = r /\ q.filled = 0 /\ q.parent = NoOrder /\ q.stop = NoOrder /\ q.target = NoOrder
      /\ NotChained(q)
  BY NewOrderTyped
<1>2. "StopLoss" \in Roles
  BY DEF Roles
<1> HIDE DEF q
<1>3. LET p == [q EXCEPT !.role = "StopLoss", !.oco = oco, !.status = status]
      IN  /\ p \in OrderRecords /\ p.role = "StopLoss" /\ p.status = status /\ p.oco = oco
          /\ p.req = r /\ p.filled = 0 /\ p.parent = NoOrder /\ p.stop = NoOrder /\ p.target = NoOrder /\ NotChained(p)
  BY <1>1, <1>2 DEF OrderRecords, NotChained
<1> QED BY <1>3 DEF HeldStop, q

LEMMA HeldStopRequestTyped ==
  ASSUME NEW r \in RequestRecords, NEW limit \in Nat, NEW trigger \in Triggers, NEW ioc \in BOOLEAN
  PROVE  LET q == HeldStopRequest(r, limit, trigger, ioc)
         IN  /\ q \in RequestRecords /\ q.bracket = None /\ ~q.exitsOnly /\ q.limit = limit /\ q.trigger = trigger
             /\ q.ioc = ioc /\ q.side = r.side /\ q.qty = r.qty /\ q.then = r.then /\ q.walk = r.walk
<1>1. None \in Brackets
  BY NoneOption DEF Brackets
<1> QED BY <1>1 DEF HeldStopRequest, RequestRecords

LEMMA RestingStatus ==
  ASSUME NEW trigger
  PROVE  Resting(trigger) \in Statuses /\ (Resting(trigger) = "Armed" => trigger # None)
  BY DEF Resting, Statuses

LEMMA BracketFields ==
  ASSUME NEW r, ValidRequest(r), r.bracket # None
  PROVE  LET b == r.bracket[1]
         IN  (b.stop # None => b.stop[1].limit \in Nat /\ b.stop[1].trigger \in Triggers)
<1> DEFINE b == r.bracket[1]
<1>1. r.bracket \in Brackets
  BY ValidFields DEF RequestRecords
<1>2. b \in [stop : ExitSpecs, target : ExitSpecs]
  BY <1>1, Option DEF Brackets
<1>3. b.stop \in ExitSpecs
  BY <1>2
<1> HIDE DEF b
<1>4. b.stop # None => b.stop[1] \in [limit : Nat, trigger : Triggers]
  BY <1>3, Option DEF ExitSpecs
<1>5. b.stop # None => b.stop[1].limit \in Nat /\ b.stop[1].trigger \in Triggers
  BY <1>4
<1> QED BY <1>5 DEF b

LEMMA ExitProper ==
  ASSUME NEW o \in OrderRecords, o.role # "Normal", o.filled < o.req.qty, o.status = "Armed" => o.req.trigger # None,
         o.req.then = None, o.req.walk = None, o.req.ioc => o.req.limit = 0, o.req.bracket = None \/ o.req.exitsOnly
  PROVE  Proper(o)
  BY DEF Proper

\* One exit for a position held: the order itself in its role.
LEMMA OneHeldJoined ==
  ASSUME NEW s, Sound(s), NEW r, ValidRequest(r), r.exitsOnly, r.qty <= ExitCapacity(s, r.side),
         NEW role \in {"StopLoss", "TakeProfit"}, NEW stop \in Nat, NEW target \in Nat
  PROVE  LET n == Len(s.orders) + 1
             a == AddOrder(s, NewOrder(r))
         IN  Joined(s, WithOrder(a, n, HeldFirst(NewOrder(r), role, Resting(r.trigger), target, stop, NoOrder)), r)
<1> DEFINE n == Len(s.orders) + 1
           o == NewOrder(r)
           a == AddOrder(s, o)
           p == HeldFirst(o, role, Resting(r.trigger), target, stop, NoOrder)
           t == WithOrder(a, n, p)
<1>1. r \in RequestRecords /\ r.qty > 0 /\ r.qty \in Nat /\ s \in StateRecords /\ NoOrder \in Nat /\ role \in Roles
  BY ValidFields, SoundState DEF NoOrder, Roles
<1>2. /\ o \in OrderRecords /\ o.req = r /\ o.filled = 0 /\ o.parent = NoOrder /\ NotChained(o)
  BY <1>1, NewOrderTyped
<1> HIDE DEF o
<1>3. /\ Behind(s, a) /\ Len(a.orders) = n /\ a.orders[n] = o
      /\ \A id \in Ids(a) : id > Len(s.orders) => id = n
  BY <1>1, <1>2, AddedBehind
<1> HIDE DEF a
<1>4. Resting(r.trigger) \in Statuses /\ (Resting(r.trigger) = "Armed" => r.trigger # None)
  BY RestingStatus
<1>5. /\ p \in OrderRecords /\ p.role = role /\ p.status = Resting(r.trigger) /\ p.oco = NoOrder
      /\ p.req = r /\ p.filled = 0 /\ p.parent = NoOrder /\ NotChained(p)
  <2> DEFINE status == Resting(r.trigger)
             h == HeldFirst(o, role, status, target, stop, NoOrder)
  <2>1. status \in Statuses
    BY <1>4
  <2> HIDE DEF status
  <2>2. /\ h \in OrderRecords /\ h.role = role /\ h.status = status /\ h.oco = NoOrder
        /\ h.req = o.req /\ h.filled = o.filled /\ h.parent = o.parent /\ h.chained = o.chained /\ h.from = o.from
    <3>1. o \in OrderRecords /\ role \in Roles /\ status \in Statuses /\ target \in Nat /\ stop \in Nat /\ NoOrder \in Nat
      BY <1>1, <1>2, <1>4, <2>1
    <3> HIDE DEF p, n, t
    <3> QED BY <3>1, HeldFirstOrder
  <2>3. p = h
    BY DEF status
  <2> HIDE DEF h, p
  <2> QED BY <1>2, <2>2, <2>3 DEF NotChained, status
<1> HIDE DEF p
<1>6. a \in StateRecords /\ n \in Ids(a) /\ Len(s.orders) \in Nat
  BY <1>1, <1>3, StateFields DEF Behind, Ids
<1>7. OneChanged(a, t, n, p)
  BY <1>5, <1>6, WithOrderState
<1> HIDE DEF t
<1>8. /\ t \in StateRecords /\ Len(t.orders) = n /\ t.orders[n] = p /\ SameBook(s, t) /\ n \notin Ids(s)
      /\ \A id \in Ids(s) : t.orders[id] = s.orders[id]
  <2>1. n \notin Ids(s) /\ Ids(s) \subseteq Ids(a)
    BY <1>1, <1>3, <1>6, BehindBook DEF Ids
  <2> QED BY <1>3, <1>7, <2>1 DEF OneChanged, Behind, SameBook
<1>9. Behind(s, t)
  BY <1>6, <1>8 DEF Behind
<1>10. \A id \in Ids(t) : id > Len(s.orders) => id = n
  BY <1>6, <1>8 DEF Ids
<1>11. Proper(p)
  <2>1. r.then = None /\ r.walk = None /\ (r.ioc => r.limit = 0)
    BY DEF ValidRequest, WalkAllowed, HeldExitsAllowed, ChainAllowed
  <2> QED BY <1>1, <1>4, <1>5, <2>1, ExitProper
<1>12. Fits(t, n)
  <2>1. Remaining(p) = r.qty
    BY <1>1, <1>5 DEF Remaining
  <2>2. ExitCapacity(t, r.side) = ExitCapacity(s, r.side)
    BY <1>1, <1>9, BehindBook
  <2> QED BY <1>5, <1>8, <2>1, <2>2 DEF Fits
<1>13. Linked(t, n)
  BY <1>5, <1>8 DEF Linked
<1>14. Sound(t)
  BY <1>8, <1>9, <1>10, <1>11, <1>12, <1>13, BehindSound
<1>15. Paired(s) => Paired(t)
  BY <1>5, <1>8, <1>9, <1>10, BehindPaired
<1>16. \A id \in Ids(t) : ~ (id > n)
  BY <1>6, <1>8 DEF Ids
<1>17. n <= Len(t.orders) /\ NotChained(t.orders[n]) /\ SameTerms(r, t.orders[n].req) /\ t.orders[n].role # "Normal"
  <2>1. n <= Len(t.orders)
    BY <1>6, <1>8
  <2>2. NotChained(t.orders[n]) /\ t.orders[n].req = r /\ t.orders[n].role # "Normal"
    <3> HIDE DEF n
    <3> QED BY <1>5, <1>8
  <2>3. SameTerms(r, r)
    BY DEF SameTerms
  <2> HIDE DEF n
  <2> QED BY <2>1, <2>2, <2>3
<1>18. Joined(s, t, r)
  BY <1>9, <1>14, <1>15, <1>16, <1>17 DEF Joined
<1> QED BY <1>18 DEF t, p, a, o

\* Both exits for a position held: each ends the other.
LEMMA BothHeldJoined ==
  ASSUME NEW s, Sound(s), NEW r, ValidRequest(r), r.exitsOnly, r.qty <= ExitCapacity(s, r.side),
         r.bracket[1].stop # None
  PROVE  LET n == Len(s.orders) + 1
             a == AddOrder(s, NewOrder(r))
             b == r.bracket[1].stop[1]
             q == HeldStopRequest(r, b.limit, b.trigger, b.limit = 0)
             w == WithOrder(a, n, HeldFirst(NewOrder(r), "TakeProfit", Resting(r.trigger), n, n + 1, n + 1))
         IN  Joined(s, AddOrder(w, HeldStop(q, n, Resting(q.trigger))), r)
<1> DEFINE n == Len(s.orders) + 1
           o == NewOrder(r)
           a == AddOrder(s, o)
           p == HeldFirst(o, "TakeProfit", Resting(r.trigger), n, n + 1, n + 1)
           w == WithOrder(a, n, p)
           b == r.bracket[1].stop[1]
           ioc == b.limit = 0
           q == HeldStopRequest(r, b.limit, b.trigger, ioc)
           x == HeldStop(q, n, Resting(q.trigger))
           t == AddOrder(w, x)
<1>1. r \in RequestRecords /\ r.qty > 0 /\ r.qty \in Nat /\ s \in StateRecords /\ "TakeProfit" \in Roles
  BY ValidFields, SoundState DEF Roles
<1>20. Len(s.orders) \in Nat /\ n \in Nat /\ n + 1 \in Nat /\ n # NoOrder
  BY <1>1, StateFields DEF NoOrder
<1>2. /\ o \in OrderRecords /\ o.req = r /\ o.filled = 0 /\ o.parent = NoOrder /\ NotChained(o)
  BY <1>1, NewOrderTyped
<1> HIDE DEF o
<1>3. Behind(s, a) /\ Len(a.orders) = n /\ a.orders[n] = o
  BY <1>1, <1>2, AddedBehind
<1> HIDE DEF a
<1>4. Resting(r.trigger) \in Statuses /\ (Resting(r.trigger) = "Armed" => r.trigger # None)
  BY RestingStatus
<1>5. /\ p \in OrderRecords /\ p.role = "TakeProfit" /\ p.status = Resting(r.trigger) /\ p.oco = n + 1
      /\ p.req = r /\ p.filled = 0 /\ p.parent = NoOrder /\ NotChained(p)
  <2> DEFINE status == Resting(r.trigger)
             h == HeldFirst(o, "TakeProfit", status, n, n + 1, n + 1)
  <2>1. status \in Statuses
    BY <1>4
  <2> HIDE DEF status
  <2>2. /\ h \in OrderRecords /\ h.role = "TakeProfit" /\ h.status = status /\ h.oco = n + 1
        /\ h.req = o.req /\ h.filled = o.filled /\ h.parent = o.parent /\ h.chained = o.chained /\ h.from = o.from
    <3>1. o \in OrderRecords /\ "TakeProfit" \in Roles /\ status \in Statuses /\ n \in Nat /\ n + 1 \in Nat /\ n + 1 \in Nat
      BY <1>1, <1>2, <1>4, <1>20, <2>1
    <3> HIDE DEF p, n, t
    <3> QED BY <3>1, HeldFirstOrder
  <2>3. p = h
    BY DEF status
  <2> HIDE DEF h, p
  <2> QED BY <1>2, <2>2, <2>3 DEF NotChained, status
<1> HIDE DEF p
<1>6. a \in StateRecords /\ n \in Ids(a)
  BY <1>3, <1>20 DEF Behind, Ids
<1>7. OneChanged(a, w, n, p)
  BY <1>5, <1>6, WithOrderState
<1> HIDE DEF w
<1>8. b.limit \in Nat /\ b.trigger \in Triggers /\ ioc \in BOOLEAN /\ (ioc <=> b.limit = 0)
  BY BracketFields DEF ValidRequest, WalkAllowed, HeldExitsAllowed, ChainAllowed
<1> HIDE DEF ioc, b
<1>9. /\ q \in RequestRecords /\ q.bracket = None /\ q.limit = b.limit /\ q.trigger = b.trigger
      /\ q.ioc = ioc /\ q.side = r.side /\ q.qty = r.qty /\ q.then = r.then /\ q.walk = r.walk
  BY <1>1, <1>8, HeldStopRequestTyped
<1> HIDE DEF q
<1>10. Resting(q.trigger) \in Statuses /\ (Resting(q.trigger) = "Armed" => q.trigger # None)
  BY RestingStatus
<1>11. /\ x \in OrderRecords /\ x.role = "StopLoss" /\ x.status = Resting(q.trigger) /\ x.oco = n
       /\ x.req = q /\ x.filled = 0 /\ x.parent = NoOrder /\ NotChained(x)
  BY <1>9, <1>10, <1>20, HeldStopOrder
<1> HIDE DEF x
<1>12. w \in StateRecords /\ Len(w.orders) = n
  BY <1>3, <1>7 DEF OneChanged
<1>13. OneAdded(w, t, x)
  BY <1>11, <1>12, AddOrderState
<1> HIDE DEF t
<1>14. n \notin Ids(s) /\ Ids(s) \subseteq Ids(a)
  BY <1>1, <1>3, <1>20, BehindBook DEF Ids
<1>15. Ids(w) = Ids(a)
  BY <1>3, <1>12 DEF Ids
<1>16. /\ t \in StateRecords /\ Len(t.orders) = n + 1 /\ t.orders[n] = p /\ t.orders[n + 1] = x /\ SameBook(s, t)
       /\ \A id \in Ids(s) : t.orders[id] = s.orders[id]
  BY <1>3, <1>6, <1>7, <1>12, <1>13, <1>14, <1>15 DEF OneChanged, OneAdded, Behind, SameBook
<1>17. Behind(s, t) /\ n \in Ids(t) /\ n + 1 \in Ids(t) /\ n # n + 1 /\ n <= Len(t.orders)
  BY <1>16, <1>20 DEF Behind, Ids
<1>18. /\ \A id \in Ids(t) : id > Len(s.orders) => id = n \/ id = n + 1
       /\ \A id \in Ids(t) : id > n => id = n + 1
  BY <1>16, <1>20 DEF Ids
<1>19. r.then = None /\ r.walk = None /\ (r.ioc => r.limit = 0)
  BY DEF ValidRequest, WalkAllowed, HeldExitsAllowed, ChainAllowed
<1>21. Proper(p) /\ Proper(x)
  <2>1. Proper(p)
    BY <1>1, <1>4, <1>5, <1>19, ExitProper
  <2>2. Proper(x)
    BY <1>1, <1>8, <1>9, <1>10, <1>11, <1>19, ExitProper
  <2> QED BY <2>1, <2>2
<1>22. Fits(t, n) /\ Fits(t, n + 1)
  <2>1. Remaining(p) = r.qty /\ Remaining(x) = r.qty
    BY <1>1, <1>5, <1>9, <1>11 DEF Remaining
  <2>2. ExitCapacity(t, r.side) = ExitCapacity(s, r.side)
    BY <1>1, <1>17, BehindBook
  <2>3. Fits(t, n)
    BY <1>5, <1>16, <2>1, <2>2 DEF Fits
  <2>4. Fits(t, n + 1)
    BY <1>9, <1>11, <1>16, <2>1, <2>2 DEF Fits
  <2> QED BY <2>3, <2>4
<1>23. Linked(t, n) /\ Linked(t, n + 1)
  BY <1>5, <1>11, <1>16, <1>17 DEF Linked
<1>24. Sound(t)
  BY <1>16, <1>17, <1>18, <1>21, <1>22, <1>23, BehindSound
<1>25. Paired(s) => Paired(t)
  BY <1>5, <1>11, <1>16, <1>17, <1>18, BehindPaired
<1>26. Joined(s, t, r)
  BY <1>5, <1>11, <1>16, <1>17, <1>18, <1>24, <1>25 DEF Joined, SameTerms
<1> QED BY <1>26 DEF t, x, q, ioc, b, w, p, a, o

LEMMA HeldExitsAre ==
  ASSUME NEW a, NEW n
  PROVE  LET o == a.orders[n]
             b == o.req.bracket[1]
             both == b.target # None /\ b.stop # None
             role == IF b.target # None THEN "TakeProfit" ELSE "StopLoss"
             target == IF b.target # None THEN n ELSE NoOrder
             stop == IF both THEN n + 1 ELSE IF b.target # None THEN NoOrder ELSE n
             oco == IF both THEN n + 1 ELSE NoOrder
             q == HeldStopRequest(o.req, b.stop[1].limit, b.stop[1].trigger, b.stop[1].limit = 0)
             w == WithOrder(a, n, HeldFirst(o, role, Resting(o.req.trigger), target, stop, oco))
         IN  PlaceHeldExits(a, n) = IF both THEN AddOrder(w, HeldStop(q, n, Resting(q.trigger))) ELSE w
  BY DEF PlaceHeldExits, HeldFirst, HeldStop, HeldStopRequest

LEMMA HeldJoined ==
  ASSUME NEW s, Sound(s), NEW r, ValidRequest(r), r.exitsOnly, r.qty <= ExitCapacity(s, r.side)
  PROVE  Joined(s, PlaceHeldExits(AddOrder(s, NewOrder(r)), Len(s.orders) + 1), r)
<1> DEFINE n == Len(s.orders) + 1
           a == AddOrder(s, NewOrder(r))
           b == r.bracket[1]
           both == b.target # None /\ b.stop # None
           role == IF b.target # None THEN "TakeProfit" ELSE "StopLoss"
           target == IF b.target # None THEN n ELSE NoOrder
           stop == IF both THEN n + 1 ELSE IF b.target # None THEN NoOrder ELSE n
           oco == IF both THEN n + 1 ELSE NoOrder
           q == HeldStopRequest(r, b.stop[1].limit, b.stop[1].trigger, b.stop[1].limit = 0)
           w == WithOrder(a, n, HeldFirst(NewOrder(r), role, Resting(r.trigger), target, stop, oco))
           t == PlaceHeldExits(a, n)
<1>1. s \in StateRecords /\ r \in RequestRecords /\ n \in Nat /\ n + 1 \in Nat /\ NoOrder \in Nat
  BY SoundState, ValidFields, StateFields DEF NoOrder
<1>2. a.orders[n] = NewOrder(r) /\ NewOrder(r).req = r
  BY <1>1, NewOrderTyped, AddedBehind
<1>3. t = IF both THEN AddOrder(w, HeldStop(q, n, Resting(q.trigger))) ELSE w
  <2> DEFINE o == a.orders[n]
             x == HeldStopRequest(o.req, o.req.bracket[1].stop[1].limit, o.req.bracket[1].stop[1].trigger,
                                  o.req.bracket[1].stop[1].limit = 0)
             v == WithOrder(a, n, HeldFirst(o,
                    IF o.req.bracket[1].target # None THEN "TakeProfit" ELSE "StopLoss",
                    Resting(o.req.trigger),
                    IF o.req.bracket[1].target # None THEN n ELSE NoOrder,
                    IF o.req.bracket[1].target # None /\ o.req.bracket[1].stop # None THEN n + 1
                      ELSE IF o.req.bracket[1].target # None THEN NoOrder ELSE n,
                    IF o.req.bracket[1].target # None /\ o.req.bracket[1].stop # None THEN n + 1 ELSE NoOrder))
  <2>1. t = IF o.req.bracket[1].target # None /\ o.req.bracket[1].stop # None
            THEN AddOrder(v, HeldStop(x, n, Resting(x.trigger))) ELSE v
    <3> HIDE DEF n, a
    <3> QED BY HeldExitsAre
  <2>2. o = NewOrder(r) /\ o.req = r
    BY <1>2
  <2> HIDE DEF a, t, o, n
  <2> QED BY <2>1, <2>2
<1>4. CASE both
  <2>1. b.stop # None /\ target = n /\ stop = n + 1 /\ oco = n + 1 /\ role = "TakeProfit"
    BY <1>4
  <2>2. t = AddOrder(WithOrder(a, n, HeldFirst(NewOrder(r), "TakeProfit", Resting(r.trigger), n, n + 1, n + 1)),
                     HeldStop(q, n, Resting(q.trigger)))
    <3> HIDE DEF t, role, target, stop, oco, q, a, n
    <3> QED BY <1>3, <1>4, <2>1
  <2>3. Joined(s, AddOrder(WithOrder(a, n, HeldFirst(NewOrder(r), "TakeProfit", Resting(r.trigger), n, n + 1, n + 1)),
                           HeldStop(q, n, Resting(q.trigger))), r)
    BY <2>1, BothHeldJoined
  <2> HIDE DEF t
  <2>4. Joined(s, t, r)
    BY <2>2, <2>3
  <2> QED BY <2>4 DEF t
<1>5. CASE ~both
  <2>1. oco = NoOrder /\ role \in {"StopLoss", "TakeProfit"} /\ target \in Nat /\ stop \in Nat
    BY <1>1, <1>5
  <2> HIDE DEF role, target, stop, oco
  <2>2. t = WithOrder(a, n, HeldFirst(NewOrder(r), role, Resting(r.trigger), target, stop, NoOrder))
    <3> HIDE DEF t, q, a, n
    <3> QED BY <1>3, <1>5, <2>1
  <2>3. Joined(s, WithOrder(a, n, HeldFirst(NewOrder(r), role, Resting(r.trigger), target, stop, NoOrder)), r)
    BY <2>1, OneHeldJoined
  <2> HIDE DEF t
  <2>4. Joined(s, t, r)
    BY <2>2, <2>3
  <2> QED BY <2>4 DEF t
<1> QED BY <1>4, <1>5

\* What entering an order does: what was there only moves on, and the new one is calm.
Enters(s, t, r) ==
  LET n == Len(s.orders) + 1
      o == t.orders[n]
  IN  /\ Sound(t) /\ Onward(s, t) /\ n <= Len(t.orders) /\ (Paired(s) => Paired(t))
      /\ \A id \in Ids(s) : t.orders[id].chained = s.orders[id].chained /\ t.orders[id].from = s.orders[id].from
      /\ \A id \in Ids(t) : id > n => t.orders[id].role # "Normal" /\ NotChained(t.orders[id])
      /\ NotChained(o) /\ SameTerms(r, o.req) /\ (r.exitsOnly \/ (o.role = "Normal" /\ o.oco = NoOrder))
      /\ Len(t.orders) <= IdBound => /\ AllUnreached(s) => AllUnreached(t)
                                     /\ o.role = "Normal" => Calm(t, n)

LEMMA JoinedEnters ==
  ASSUME OrdersConstants, NEW s, Sound(s), NEW r, NEW t, Joined(s, t, r), NEW u, Works(t, u),
         t.orders[Len(s.orders) + 1].role # "Normal" \/ Settled(u, Len(s.orders) + 1)
  PROVE  Enters(s, CheckTriggers(u), r)
<1> DEFINE n == Len(s.orders) + 1
           v == CheckTriggers(u)
<1>1. Sound(t) /\ Sound(u) /\ s \in StateRecords /\ Behind(s, t) /\ n <= Len(t.orders) /\ t \in StateRecords
  BY SoundState DEF Joined, Works
<1>2. Checks(u, v)
  BY <1>1, CheckTriggersWorks
<1> HIDE DEF v
<1>3. Works(t, v) /\ Works(u, v)
  BY <1>1, <1>2, WorksTrans DEF Checks
<1>4. v \in StateRecords /\ Sound(v) /\ Ids(t) \subseteq Ids(v) /\ Onward(t, v) /\ Fresh(t, v) /\ Len(t.orders) <= Len(v.orders)
  BY <1>1, <1>3, WorksSizes DEF Works
<1>5. Onward(s, t) /\ Ids(s) \subseteq Ids(t) /\ n \in Ids(t) /\ n \in Ids(v)
  <2>1. n \in Ids(t)
    BY <1>1, StateFields DEF Ids
  <2> QED BY <1>1, <1>4, <2>1, BehindOnward, BehindBook
<1>6. Onward(s, v)
  BY <1>1, <1>4, <1>5, OnwardTrans
<1>7. \A id \in Ids(s) : v.orders[id].chained = s.orders[id].chained /\ v.orders[id].from = s.orders[id].from
  BY <1>1, <1>4, <1>5 DEF Fresh, Behind
<1>8. Advance(t.orders[n], v.orders[n]) /\ v.orders[n].chained = t.orders[n].chained /\ v.orders[n].from = t.orders[n].from
  BY <1>4, <1>5 DEF Onward, AdvanceAt, Fresh
<1>9. NotChained(v.orders[n]) /\ SameTerms(r, v.orders[n].req)
  BY <1>8 DEF Joined, NotChained, Advance, SameTerms
<1>10. r.exitsOnly \/ (v.orders[n].role = "Normal" /\ v.orders[n].oco = NoOrder)
  BY <1>8 DEF Joined, Advance
<1>11. ASSUME NEW id \in Ids(v), id > n PROVE v.orders[id].role # "Normal" /\ NotChained(v.orders[id])
  <2>1. CASE id \in Ids(t)
    <3>1. t.orders[id].role # "Normal" /\ NotChained(t.orders[id])
      BY <1>11, <2>1 DEF Joined
    <3>2. v.orders[id].role = t.orders[id].role /\ v.orders[id].chained = t.orders[id].chained
          /\ v.orders[id].from = t.orders[id].from
      BY <1>4, <2>1 DEF Onward, AdvanceAt, Advance, Fresh
    <3> QED BY <3>1, <3>2 DEF NotChained
  <2>2. CASE id \notin Ids(t)
    <3>1. id > Len(t.orders)
      BY <1>1, <1>4, <2>2, StateFields DEF Ids
    <3> QED BY <1>4, <3>1 DEF Fresh
  <2> QED BY <2>1, <2>2
<1>12. Paired(s) => Paired(v)
  BY <1>3 DEF Joined, Works
<1>13. ASSUME Len(v.orders) <= IdBound, v.orders[n].role = "Normal" PROVE Calm(v, n)
  <2>1. n \in Ids(u) /\ u.orders[n].role = t.orders[n].role /\ v.orders[n].role = t.orders[n].role
    <3>1. n \in Ids(u) /\ Onward(t, u)
      BY <1>1, <1>5, WorksSizes
    <3> QED BY <1>5, <1>8, <3>1 DEF Onward, AdvanceAt, Advance
  <2>2. CASE Settled(u, n)
    BY <1>2, <1>13, <2>1, <2>2 DEF Checks
  <2>3. t.orders[n].role = "Normal"
    BY <1>13, <2>1
  <2> QED BY <2>2, <2>3
<1>14. Len(v.orders) <= IdBound => AllUnreached(v)
  BY <1>2 DEF Checks
<1>15. n <= Len(v.orders)
  BY <1>1, <1>4, StateFields
<1> QED BY <1>4, <1>6, <1>7, <1>9, <1>10, <1>11, <1>12, <1>13, <1>14, <1>15 DEF Enters, v

LEMMA EnteredEnters ==
  ASSUME OrdersConstants, NEW s, Sound(s), NEW r \in OrderRequests,
         LET n == Len(s.orders) + 1
             a == AddOrder(s, NewOrder(r))
         IN  OrderCheck(a, n, a.orders[n], "Accept") = "OK"
  PROVE  Enters(s, CheckTriggers(Enter(AddOrder(s, NewOrder(r)), Len(s.orders) + 1)), r)
<1> DEFINE n == Len(s.orders) + 1
           o == NewOrder(r)
           a == AddOrder(s, o)
           u == Enter(a, n)
<1>1. ValidRequest(r) /\ r \in RequestRecords /\ r.qty > 0 /\ r.qty \in Nat /\ s \in StateRecords
  BY SoundState, ValidFields DEF OrdersConstants
<1>2. /\ o \in OrderRecords /\ o.req = r /\ o.filled = 0 /\ o.status = "Working" /\ o.role = "Normal"
      /\ o.oco = NoOrder /\ o.parent = NoOrder /\ o.stop = NoOrder /\ o.target = NoOrder /\ ~o.reduceOnly /\ NotChained(o)
  BY <1>1, NewOrderTyped
<1>3. Proper(o) /\ SameTerms(r, o.req)
  <2> HIDE DEF o
  <2> QED BY <1>1, <1>2 DEF Proper, SameTerms
<1>4. Joined(s, a, r) /\ Len(a.orders) = n /\ a.orders[n] = o
  <2> HIDE DEF o
  <2> QED BY <1>1, <1>2, <1>3, FreshJoined
<1>5. Sound(a) /\ Behind(s, a) /\ a \in StateRecords /\ n \in Ids(a)
  <2>1. Sound(a) /\ Behind(s, a) /\ a \in StateRecords
    <3> HIDE DEF a
    <3> QED BY <1>4, SoundState DEF Joined
  <2>2. Len(a.orders) = n /\ n \in Nat /\ n > 0
    BY <1>1, <1>4, StateFields
  <2> HIDE DEF a, n
  <2> QED BY <2>1, <2>2 DEF Ids
<1>6. r.exitsOnly => r.qty <= ExitCapacity(s, r.side)
  <2>1. OrderCheck(a, n, a.orders[n], "Accept") = "OK"
    OBVIOUS
  <2> HIDE DEF a, n, o
  <2>2. OrderCheck(a, n, o, "Accept") = "OK"
    BY <1>4, <2>1
  <2>3. r.exitsOnly => ClosingOnly(a, OpenIds(a), n, o)
    BY <1>2, <2>2 DEF OrderCheck
  <2>4. ClosingOnly(a, OpenIds(a), n, o) => Remaining(o) <= ExitCapacity(a, r.side)
    BY <1>2 DEF ClosingOnly
  <2>5. Remaining(o) = r.qty /\ ExitCapacity(a, r.side) = ExitCapacity(s, r.side)
    BY <1>1, <1>2, <1>5, BehindBook DEF Remaining
  <2> QED BY <2>3, <2>4, <2>5
<1>7. CASE r.trigger # None /\ ~r.exitsOnly
  <2> DEFINE p == WithStatus(o, "Armed")
             t == AddOrder(s, p)
  <2>1. u = WithOrder(a, n, WithStatus(a.orders[n], "Armed"))
    <3> HIDE DEF a, n, o
    <3> QED BY <1>2, <1>4, <1>7 DEF Enter, u
  <2>2. "Armed" \in Statuses
    BY DEF Statuses
  <2>3. /\ p \in OrderRecords /\ p.status = "Armed" /\ p.req = o.req /\ p.filled = o.filled /\ p.role = o.role
        /\ p.reduceOnly = o.reduceOnly /\ SameLinks(o, p)
    <3> HIDE DEF o
    <3> QED BY <1>2, <2>2, StatusOrder
  <2>4. Sound(u) /\ OneChanged(a, u, n, p) /\ (Paired(a) => Paired(u))
    <3>1. IsOpen(a.orders[n]) /\ a.orders[n].req.trigger # None
      <4> HIDE DEF a, n, o
      <4> QED BY <1>2, <1>4, <1>7 DEF IsOpen
    <3>2. LET x == WithOrder(a, n, WithStatus(a.orders[n], "Armed"))
          IN  /\ Sound(x) /\ (Paired(a) => Paired(x))
              /\ OneChanged(a, x, n, WithStatus(a.orders[n], "Armed"))
      <4> HIDE DEF a, n, o
      <4> QED BY <1>5, <3>1, StatusWorks
    <3> HIDE DEF a, n, o, u
    <3> QED BY <1>4, <2>1, <3>2
  <2> HIDE DEF u, a, o, p
  <2>5. Behind(s, u) /\ Len(u.orders) = n /\ u.orders[n] = p
    <3>1. n \notin Ids(s) /\ Ids(s) \subseteq Ids(a) /\ Len(s.orders) \in Nat
      BY <1>1, <1>5, BehindBook, StateFields DEF Ids
    <3> QED BY <1>4, <1>5, <2>4, <3>1 DEF OneChanged, Behind, SameBook
  <2>6. Joined(s, u, r)
    <3>1. \A id \in Ids(u) : ~ (id > n)
      BY <1>1, <2>5, StateFields DEF Ids
    <3>2. n <= Len(u.orders)
      BY <1>1, <2>5, StateFields
    <3>3. NotChained(p) /\ SameTerms(r, p.req) /\ p.role = "Normal" /\ p.oco = NoOrder
      BY <1>2, <1>3, <2>3 DEF SameLinks, NotChained
    <3>4. Paired(s) => Paired(u)
      BY <1>4, <2>4 DEF Joined
    <3> QED BY <2>4, <2>5, <3>1, <3>2, <3>3, <3>4 DEF Joined
  <2>7. Settled(u, n)
    BY <2>3, <2>5 DEF Settled
  <2>8. Works(u, u)
    BY <2>4, WorksSelf
  <2>9. Enters(s, CheckTriggers(u), r)
    BY <2>6, <2>7, <2>8, JoinedEnters
  <2> QED BY <2>9 DEF u, a, o
<1>8. CASE ~(r.trigger # None /\ ~r.exitsOnly)
  <2> DEFINE t == IF r.exitsOnly THEN PlaceHeldExits(a, n) ELSE a
             m == MatchSymbols(t, n)
  <2>1. u = EndNewIoc(m, n)
    <3> HIDE DEF a, n, o
    <3> QED BY <1>2, <1>4, <1>8 DEF Enter, u
  <2>2. Joined(s, t, r)
    <3>1. CASE r.exitsOnly
      <4>1. Joined(s, PlaceHeldExits(a, n), r)
        BY <1>1, <1>6, <3>1, HeldJoined
      <4> HIDE DEF a, n
      <4> QED BY <3>1, <4>1
    <3>2. CASE ~r.exitsOnly
      <4> HIDE DEF a, n
      <4> QED BY <1>4, <3>2
    <3> QED BY <3>1, <3>2
  <2> HIDE DEF a, o, t, u
  <2>3. Sound(t) /\ n \in Ids(t)
    BY <1>1, <2>2, StateFields, SoundState DEF Joined, Ids
  <2>4. Matches(t, m, Ids(t), n)
    BY <2>3, MatchSymbolsWorks
  <2> HIDE DEF m
  <2>5. Works(t, m) /\ Settled(m, n) /\ Sound(m) /\ n \in Ids(m)
    BY <2>3, <2>4, WorksSizes DEF Matches
  <2>6. Works(m, u) /\ Settled(u, n)
    <3>1. CASE u = m
      BY <2>5, <3>1, WorksSelf
    <3>2. CASE u # m
      <4>1. u = EndOrder(m, n, "IOC_REMAINDER")
        BY <2>1, <3>2 DEF EndNewIoc
      <4>2. "IOC_REMAINDER" \in Reasons
        BY DEF Reasons
      <4>3. LET x == EndOrder(m, n, "IOC_REMAINDER") IN Works(m, x) /\ ~IsOpen(x.orders[n])
        BY <2>5, <4>2, EndOrderWorks
      <4>4. Works(m, u) /\ ~IsOpen(u.orders[n])
        BY <4>1, <4>3
      <4> QED BY <4>4 DEF Settled, Swept
    <3> QED BY <3>1, <3>2
  <2>7. Works(t, u)
    BY <2>3, <2>5, <2>6, WorksTrans
  <2>8. Enters(s, CheckTriggers(u), r)
    BY <2>2, <2>6, <2>7, JoinedEnters
  <2> QED BY <2>8 DEF u, a, o
<1> QED BY <1>7, <1>8

LEMMA RejectedEnters ==
  ASSUME NEW s, Sound(s), NEW r \in OrderRequests, OrdersConstants, NEW why \in Reasons
  PROVE  LET t == RecordRejected(s, r, why)
         IN  /\ Enters(s, t, r) /\ Behind(s, t) /\ Len(t.orders) = Len(s.orders) + 1
             /\ ~IsOpen(t.orders[Len(s.orders) + 1]) /\ t.orders[Len(s.orders) + 1].status = "Rejected"
             /\ (AllUnreached(s) => AllUnreached(t))
<1> DEFINE n == Len(s.orders) + 1
           q == NewOrder(r)
           o == [q EXCEPT !.status = "Rejected", !.reason = why]
           t == AddOrder(s, o)
<1>1. ValidRequest(r) /\ r \in RequestRecords /\ s \in StateRecords /\ Len(s.orders) \in Nat /\ "Rejected" \in Statuses
  BY SoundState, ValidFields, StateFields DEF OrdersConstants, Statuses
<1>2. /\ q \in OrderRecords /\ q.req = r /\ q.filled = 0 /\ q.role = "Normal"
      /\ q.oco = NoOrder /\ q.parent = NoOrder /\ q.stop = NoOrder /\ q.target = NoOrder /\ ~q.reduceOnly /\ NotChained(q)
  BY <1>1, NewOrderTyped
<1> HIDE DEF q
<1>3. /\ o \in OrderRecords /\ o.req = r /\ o.filled = 0 /\ o.role = "Normal" /\ o.status = "Rejected"
      /\ o.oco = NoOrder /\ o.parent = NoOrder /\ o.stop = NoOrder /\ o.target = NoOrder /\ ~o.reduceOnly /\ NotChained(o)
  BY <1>1, <1>2 DEF OrderRecords, NotChained
<1> HIDE DEF o
<1>4. Proper(o) /\ SameTerms(r, o.req) /\ ~IsOpen(o)
  BY <1>3 DEF Proper, SameTerms, IsOpen
<1>5. Joined(s, t, r) /\ Len(t.orders) = n /\ t.orders[n] = o
  BY <1>1, <1>3, <1>4, FreshJoined
<1>6. t = RecordRejected(s, r, why)
  BY DEF RecordRejected, o, q
<1> HIDE DEF t
<1>7. Sound(t) /\ Behind(s, t) /\ Onward(s, t) /\ t \in StateRecords
  BY <1>1, <1>5, BehindOnward, SoundState DEF Joined
<1>8. ASSUME AllUnreached(s) PROVE AllUnreached(t)
  <2>1. ASSUME NEW id \in Ids(t) PROVE Unreached(t, id)
    <3>1. CASE id \in Ids(s)
      <4>1. t.orders[id] = s.orders[id] /\ Unreached(s, id)
        BY <1>7, <1>8, <3>1 DEF Behind, AllUnreached
      <4> QED BY <1>1, <1>7, <4>1, BehindBook DEF Unreached
    <3>2. CASE id \notin Ids(s)
      <4>1. id = n
        BY <1>1, <1>5, <3>2, <2>1 DEF Ids
      <4> QED BY <1>4, <1>5, <4>1 DEF Unreached, IsOpen
    <3> QED BY <3>1, <3>2
  <2> QED BY <2>1 DEF AllUnreached
<1>9. Calm(t, n)
  BY <1>3, <1>4, <1>5 DEF Calm, Swept
<1>10. \A id \in Ids(s) : t.orders[id].chained = s.orders[id].chained /\ t.orders[id].from = s.orders[id].from
  BY <1>7 DEF Behind
<1>11. Enters(s, t, r)
  BY <1>3, <1>5, <1>7, <1>8, <1>9, <1>10 DEF Joined, Enters
<1> QED BY <1>3, <1>4, <1>5, <1>6, <1>7, <1>8, <1>11

LEMMA CheckReasons ==
  ASSUME NEW s, NEW id, NEW o, NEW stage
  PROVE  OrderCheck(s, id, o, stage) # "OK" /\ s \in StateRecords => OrderCheck(s, id, o, stage) \in Reasons
  BY DEF OrderCheck, StateRecords, Reasons

LEMMA PlaceOrderEnters ==
  ASSUME OrdersConstants, NEW s, Sound(s), NEW r \in OrderRequests
  PROVE  Enters(s, PlaceOrder(s, r), r)
<1> DEFINE n == Len(s.orders) + 1
           a == AddOrder(s, NewOrder(r))
           decision == OrderCheck(a, n, a.orders[n], "Accept")
<1>1. s \in StateRecords /\ r \in RequestRecords
  BY SoundState, ValidFields DEF OrdersConstants
<1>2. CASE decision = "OK"
  <2>1. PlaceOrder(s, r) = CheckTriggers(Enter(a, n))
    BY <1>2 DEF PlaceOrder
  <2>2. Enters(s, CheckTriggers(Enter(a, n)), r)
    BY <1>2, EnteredEnters
  <2> QED BY <2>1, <2>2
<1>3. CASE decision # "OK"
  <2>1. PlaceOrder(s, r) = RecordRejected(s, r, decision)
    BY <1>3 DEF PlaceOrder
  <2>2. a \in StateRecords
    BY <1>1, NewOrderTyped, AddedBehind DEF Behind
  <2>3. decision \in Reasons
    <3> HIDE DEF a, n
    <3> QED BY <1>3, <2>2, CheckReasons
  <2> HIDE DEF decision
  <2>4. Enters(s, RecordRejected(s, r, decision), r)
    BY <2>3, RejectedEnters
  <2> QED BY <2>1, <2>4
<1> QED BY <1>2, <1>3

-----------------------------------------------------------------------------
(* Pairs *)

\* Two orders that differ at most in the order they cancel.
SameButOco(o, p) ==
  /\ p.req = o.req /\ p.filled = o.filled /\ p.status = o.status /\ p.role = o.role /\ p.parent = o.parent
  /\ p.stop = o.stop /\ p.target = o.target /\ p.reduceOnly = o.reduceOnly /\ p.chained = o.chained /\ p.from = o.from

LEMMA OcoOrder ==
  ASSUME NEW o \in OrderRecords, NEW n \in Nat
  PROVE  LET p == [o EXCEPT !.oco = n] IN p \in OrderRecords /\ p.oco = n /\ SameButOco(o, p)
  BY DEF OrderRecords, SameButOco

LEMMA WithOcoState ==
  ASSUME NEW s \in StateRecords, NEW id \in Ids(s), NEW n \in Nat
  PROVE  LET t == WithOco(s, id, n)
         IN  /\ t \in StateRecords /\ SameBook(s, t) /\ Len(t.orders) = Len(s.orders) /\ Ids(t) = Ids(s)
             /\ t.orders[id].oco = n /\ SameButOco(s.orders[id], t.orders[id])
             /\ \A other \in Ids(s) : other # id => t.orders[other] = s.orders[other]
<1> DEFINE o == s.orders[id]
           p == [o EXCEPT !.oco = n]
           t == WithOrder(s, id, p)
<1>1. o \in OrderRecords
  BY StateFields
<1>2. p \in OrderRecords /\ p.oco = n /\ SameButOco(o, p)
  BY <1>1, OcoOrder
<1> HIDE DEF p
<1>3. OneChanged(s, t, id, p)
  BY <1>2, WithOrderState
<1>4. t = WithOco(s, id, n)
  BY DEF WithOco, p
<1> HIDE DEF t
<1>5. Ids(t) = Ids(s)
  BY <1>3 DEF OneChanged, Ids
<1> QED BY <1>2, <1>3, <1>4, <1>5 DEF OneChanged

LEMMA LinkState ==
  ASSUME NEW s \in StateRecords, NEW a \in Ids(s), NEW b \in Ids(s), a # b
  PROVE  LET t == Link(s, a, b)
         IN  /\ t \in StateRecords /\ SameBook(s, t) /\ Len(t.orders) = Len(s.orders) /\ Ids(t) = Ids(s)
             /\ t.orders[a].oco = b /\ t.orders[b].oco = a
             /\ SameButOco(s.orders[a], t.orders[a]) /\ SameButOco(s.orders[b], t.orders[b])
             /\ \A other \in Ids(s) \ {a, b} : t.orders[other] = s.orders[other]
<1> DEFINE u == WithOco(s, a, b)
           t == WithOco(u, b, a)
<1>1. a \in Nat /\ b \in Nat
  BY DEF Ids
<1>2. /\ u \in StateRecords /\ SameBook(s, u) /\ Len(u.orders) = Len(s.orders) /\ Ids(u) = Ids(s)
      /\ u.orders[a].oco = b /\ SameButOco(s.orders[a], u.orders[a])
      /\ \A other \in Ids(s) : other # a => u.orders[other] = s.orders[other]
  BY <1>1, WithOcoState
<1> HIDE DEF u
<1>3. /\ t \in StateRecords /\ SameBook(u, t) /\ Len(t.orders) = Len(u.orders) /\ Ids(t) = Ids(u)
      /\ t.orders[b].oco = a /\ SameButOco(u.orders[b], t.orders[b])
      /\ \A other \in Ids(u) : other # b => t.orders[other] = u.orders[other]
  BY <1>1, <1>2, WithOcoState
<1>4. t = Link(s, a, b)
  BY DEF Link, u
<1> HIDE DEF t
<1>5. SameBook(s, t)
  BY <1>2, <1>3 DEF SameBook
<1>6. t.orders[a] = u.orders[a] /\ u.orders[b] = s.orders[b]
  BY <1>2, <1>3
<1>7. \A other \in Ids(s) \ {a, b} : t.orders[other] = s.orders[other]
  BY <1>2, <1>3
<1> QED BY <1>2, <1>3, <1>4, <1>5, <1>6, <1>7

\* States that differ at most in the orders' partners.
Alike(s, t) ==
  /\ t \in StateRecords /\ SameBook(s, t) /\ Len(t.orders) = Len(s.orders)
  /\ \A id \in Ids(s) : SameButOco(s.orders[id], t.orders[id])

LEMMA AlikeViews ==
  ASSUME NEW s, NEW t, Alike(s, t), NEW id \in Ids(s)
  PROVE  /\ (Calm(s, id) => Calm(t, id)) /\ (Unreached(s, id) => Unreached(t, id)) /\ (Fits(s, id) => Fits(t, id))
         /\ (Proper(s.orders[id]) => Proper(t.orders[id]))
<1>1. SameButOco(s.orders[id], t.orders[id]) /\ SameBook(s, t)
  BY DEF Alike
<1>2. /\ \A side : Depth(t, side) = Depth(s, side) /\ ExitCapacity(t, side) = ExitCapacity(s, side)
      /\ \A p : Marketable(t, p) <=> Marketable(s, p)
      /\ \A p : Reached(t, p) <=> Reached(s, p)
  BY <1>1 DEF SameBook, Depth, ExitCapacity, Marketable, Reached
<1> DEFINE o == s.orders[id]
           p == t.orders[id]
<1>3. SameButOco(o, p)
  BY <1>1
<1>4. (IsOpen(p) <=> IsOpen(o)) /\ (KeptWithin(p) <=> KeptWithin(o)) /\ Remaining(p) = Remaining(o)
      /\ (Marketable(s, p) <=> Marketable(s, o)) /\ (Reached(s, p) <=> Reached(s, o))
  <2> HIDE DEF o, p
  <2> QED BY <1>3 DEF SameButOco, IsOpen, KeptWithin, Remaining, Marketable, Reached
<1>5. p.status = o.status /\ p.role = o.role /\ p.req = o.req
  <2> HIDE DEF o, p
  <2> QED BY <1>3 DEF SameButOco
<1>6. Swept(s, id) <=> Swept(t, id)
  BY <1>2, <1>4, <1>5 DEF Swept
<1>7. Calm(s, id) => Calm(t, id)
  BY <1>2, <1>4, <1>5, <1>6 DEF Calm
<1>8. Unreached(s, id) => Unreached(t, id)
  BY <1>2, <1>4, <1>5 DEF Unreached
<1>9. Fits(s, id) => Fits(t, id)
  BY <1>2, <1>4, <1>5 DEF Fits
<1>10. Proper(o) => Proper(p)
  <2> HIDE DEF o, p
  <2> QED BY <1>3, <1>4 DEF SameButOco, Proper
<1> QED BY <1>7, <1>8, <1>9, <1>10

LEMMA LinkAlike ==
  ASSUME NEW s \in StateRecords, NEW a \in Ids(s), NEW b \in Ids(s), a # b
  PROVE  Alike(s, Link(s, a, b))
<1> DEFINE t == Link(s, a, b)
<1>1. /\ t \in StateRecords /\ SameBook(s, t) /\ Len(t.orders) = Len(s.orders)
      /\ SameButOco(s.orders[a], t.orders[a]) /\ SameButOco(s.orders[b], t.orders[b])
      /\ \A other \in Ids(s) \ {a, b} : t.orders[other] = s.orders[other]
  BY LinkState
<1> HIDE DEF t
<1>2. \A id \in Ids(s) : SameButOco(s.orders[id], t.orders[id])
  BY <1>1 DEF SameButOco
<1> QED BY <1>1, <1>2 DEF Alike, t

LEMMA LinkSound ==
  ASSUME NEW s, Sound(s), NEW a \in Ids(s), NEW b \in Ids(s), a # b,
         s.orders[a].role = "Normal", s.orders[b].role = "Normal", s.orders[a].oco = NoOrder, s.orders[b].oco = NoOrder
  PROVE  Sound(Link(s, a, b))
<1> DEFINE t == Link(s, a, b)
<1>1. s \in StateRecords /\ Shaped(s)
  BY SoundState
<1>2. /\ t \in StateRecords /\ Ids(t) = Ids(s)
      /\ t.orders[a].oco = b /\ t.orders[b].oco = a
      /\ \A other \in Ids(s) \ {a, b} : t.orders[other] = s.orders[other]
  BY <1>1, LinkState
<1>3. Alike(s, t)
  BY <1>1, LinkAlike
<1> HIDE DEF t
<1>4. \A id \in Ids(s) : SameButOco(s.orders[id], t.orders[id])
  BY <1>3 DEF Alike
<1>5. ASSUME NEW id \in Ids(s) PROVE Linked(t, id)
  <2>1. Linked(s, id)
    BY <1>1 DEF Shaped
  <2>2. /\ t.orders[id].role = s.orders[id].role /\ t.orders[id].parent = s.orders[id].parent
        /\ t.orders[id].stop = s.orders[id].stop /\ t.orders[id].target = s.orders[id].target
        /\ \A n \in Ids(s) : t.orders[n].role = s.orders[n].role
    BY <1>4 DEF SameButOco
  <2>3. /\ t.orders[id].parent # NoOrder => t.orders[id].parent \in Ids(t)
        /\ t.orders[id].role = "Normal" =>
             /\ t.orders[id].stop # NoOrder => t.orders[id].stop \in Ids(t) /\ t.orders[t.orders[id].stop].role # "Normal"
             /\ t.orders[id].target # NoOrder => t.orders[id].target \in Ids(t) /\ t.orders[t.orders[id].target].role # "Normal"
    BY <1>2, <2>1, <2>2 DEF Linked
  <2>4. t.orders[id].oco # NoOrder =>
          /\ t.orders[id].oco \in Ids(t) /\ t.orders[id].oco # id /\ t.orders[t.orders[id].oco].oco = id
          /\ (t.orders[id].role = "Normal" <=> t.orders[t.orders[id].oco].role = "Normal")
    <3>1. CASE id \in {a, b}
      BY <1>2, <2>2, <3>1
    <3>2. CASE id \notin {a, b}
      <4>1. t.orders[id] = s.orders[id]
        BY <1>2, <3>2
      <4>2. ASSUME s.orders[id].oco # NoOrder
            PROVE  /\ s.orders[id].oco \in Ids(s) \ {a, b} /\ s.orders[id].oco # id
                   /\ s.orders[s.orders[id].oco].oco = id
                   /\ (s.orders[id].role = "Normal" <=> s.orders[s.orders[id].oco].role = "Normal")
        <5>1. id # NoOrder
          BY DEF Ids, NoOrder
        <5> QED BY <2>1, <4>2, <5>1 DEF Linked
      <4> QED BY <1>2, <4>1, <4>2
    <3> QED BY <3>1, <3>2
  <2> QED BY <2>3, <2>4 DEF Linked
<1>6. \A id \in Ids(t) : Proper(t.orders[id]) /\ Linked(t, id) /\ Fits(t, id)
  BY <1>1, <1>2, <1>3, <1>5, AlikeViews DEF Sound, Shaped
<1> QED BY <1>2, <1>6 DEF Sound, Shaped, t

\* Both orders of a pair are recorded, and neither knows the other yet.
Prepared(s, t, a, b) ==
  /\ Sound(t) /\ Onward(s, t) /\ a = Len(s.orders) + 1 /\ b \in Ids(t) /\ a < b
  /\ \A id \in Ids(s) : t.orders[id].chained = s.orders[id].chained /\ t.orders[id].from = s.orders[id].from
  /\ \A id \in Ids(t) : id > Len(s.orders) => NotChained(t.orders[id]) /\ (t.orders[id].role = "Normal" => id \in {a, b})
  /\ t.orders[a].role = "Normal" /\ t.orders[b].role = "Normal" /\ t.orders[a].oco = NoOrder /\ t.orders[b].oco = NoOrder
  /\ Paired(s) => Paired(t)
  /\ Len(t.orders) <= IdBound =>
       /\ Calm(t, a)
       /\ t.orders[a].filled > 0 => t.orders[b].filled = 0
       /\ t.orders[a].filled = 0 => Calm(t, b)
       /\ AllUnreached(s) => \A id \in Ids(t) : (id = b /\ t.orders[a].filled > 0) \/ Unreached(t, id)

\* What placing a request does: what was there only moves on, and nothing new is
\* chained; while the orders stay within the bound, pairs hold and new orders are calm.
Places(s, t, r) ==
  LET n == Len(s.orders) + 1
  IN  /\ Sound(t) /\ Onward(s, t) /\ n <= Len(t.orders) /\ SameTerms(r, t.orders[n].req)
      /\ \A id \in Ids(s) : t.orders[id].chained = s.orders[id].chained /\ t.orders[id].from = s.orders[id].from
      /\ \A id \in Ids(t) : id > Len(s.orders) => NotChained(t.orders[id])
      /\ Len(t.orders) <= IdBound =>
           /\ Paired(s) => Paired(t)
           /\ AllUnreached(s) => AllUnreached(t)
           /\ \A id \in Ids(t) : id > Len(s.orders) /\ t.orders[id].role = "Normal" => Calm(t, id)

LEMMA EntersPlaces ==
  ASSUME NEW s, Sound(s), NEW t, NEW r, Enters(s, t, r)
  PROVE  Places(s, t, r)
<1> DEFINE n == Len(s.orders) + 1
<1>1. s \in StateRecords /\ t \in StateRecords /\ Len(s.orders) \in Nat
  BY SoundState, StateFields DEF Enters
<1>2. \A id \in Ids(t) : id > Len(s.orders) => id = n \/ id > n
  BY <1>1 DEF Ids
<1>3. \A id \in Ids(t) : id > Len(s.orders) => NotChained(t.orders[id])
  BY <1>2 DEF Enters
<1>4. Len(t.orders) <= IdBound => \A id \in Ids(t) : id > Len(s.orders) /\ t.orders[id].role = "Normal" => Calm(t, id)
  BY <1>2 DEF Enters
<1> QED BY <1>3, <1>4 DEF Enters, Places

\* Ending the other order of a filled one.
LEMMA CancelIfFilledWorks ==
  ASSUME NEW s, Sound(s), NEW a \in Ids(s), NEW b \in Ids(s)
  PROVE  LET t == CancelIfFilled(s, a, b)
         IN  /\ Works(s, t) /\ Rests(s, t) /\ Len(t.orders) = Len(s.orders)
             /\ s.orders[a].filled > 0 => ~IsOpen(t.orders[b])
             /\ \A id \in Ids(s) : t.orders[id].filled = s.orders[id].filled
<1> DEFINE t == CancelIfFilled(s, a, b)
<1>1. CASE s.orders[a].filled > 0
  <2>1. "OCO_FILLED" \in Reasons
    BY DEF Reasons
  <2>2. LET u == EndOrder(s, b, "OCO_FILLED")
        IN  Works(s, u) /\ Rests(s, u) /\ OneChanged(s, u, b, u.orders[b]) /\ ~IsOpen(u.orders[b])
    BY <2>1, EndOrderWorks
  <2>3. t = EndOrder(s, b, "OCO_FILLED")
    BY <1>1 DEF CancelIfFilled
  <2> HIDE DEF t
  <2>4. Works(s, t) /\ Rests(s, t) /\ OneChanged(s, t, b, t.orders[b]) /\ ~IsOpen(t.orders[b])
    BY <2>2, <2>3
  <2> QED BY <2>4 DEF Rests, Still, OneChanged, t
<1>2. CASE ~(s.orders[a].filled > 0)
  <2>1. t = s
    BY <1>2 DEF CancelIfFilled
  <2> HIDE DEF t
  <2>2. Works(s, s) /\ Rests(s, s)
    BY WorksSelf, RestsSelf, SoundState
  <2> QED BY <1>2, <2>1, <2>2 DEF t
<1> QED BY <1>1, <1>2

LEMMA LinkPairPlaces ==
  ASSUME NEW s, Sound(s), NEW p, NEW a, NEW b, Prepared(s, p, a, b), NEW r, SameTerms(r, p.orders[a].req)
  PROVE  Places(s, LinkPair(p, a, b), r)
<1> DEFINE x == Link(p, a, b)
           y == CancelIfFilled(x, a, b)
           t == CancelIfFilled(y, b, a)
<1>1. /\ s \in StateRecords /\ p \in StateRecords /\ Sound(p) /\ Onward(s, p) /\ Len(s.orders) \in Nat
      /\ a = Len(s.orders) + 1 /\ a \in Ids(p) /\ b \in Ids(p) /\ a # b /\ Ids(s) \subseteq Ids(p) /\ a \notin Ids(s) /\ b \notin Ids(s)
      /\ Len(p.orders) \in Nat
  <2>1. s \in StateRecords /\ p \in StateRecords /\ Sound(p) /\ Onward(s, p)
    BY SoundState DEF Prepared
  <2>2. Len(s.orders) \in Nat /\ Len(p.orders) \in Nat /\ Len(s.orders) <= Len(p.orders)
    BY <2>1, StateFields DEF Onward
  <2>3. a = Len(s.orders) + 1 /\ b \in Ids(p) /\ a < b
    BY DEF Prepared
  <2> QED BY <2>1, <2>2, <2>3 DEF Ids
<1>2. /\ x \in StateRecords /\ Ids(x) = Ids(p) /\ x.orders[a].oco = b /\ x.orders[b].oco = a
      /\ \A other \in Ids(p) \ {a, b} : x.orders[other] = p.orders[other]
      /\ SameBook(p, x) /\ Len(x.orders) = Len(p.orders)
  BY <1>1, LinkState
<1>3. Alike(p, x)
  BY <1>1, LinkAlike
<1>4. Sound(x)
  BY <1>1, LinkSound DEF Prepared
<1> HIDE DEF x
<1>5. /\ Works(x, y) /\ Rests(x, y) /\ Len(y.orders) = Len(x.orders)
      /\ x.orders[a].filled > 0 => ~IsOpen(y.orders[b])
      /\ \A id \in Ids(x) : y.orders[id].filled = x.orders[id].filled
  <2>1. a \in Ids(x) /\ b \in Ids(x)
    BY <1>1, <1>2
  <2> QED BY <1>4, <2>1, CancelIfFilledWorks
<1> HIDE DEF y
<1>6. Sound(y) /\ Ids(y) = Ids(x)
  BY <1>5 DEF Works, Ids
<1>7. /\ Works(y, t) /\ Rests(y, t) /\ Len(t.orders) = Len(y.orders)
      /\ y.orders[b].filled > 0 => ~IsOpen(t.orders[a])
      /\ \A id \in Ids(y) : t.orders[id].filled = y.orders[id].filled
  <2>1. a \in Ids(y) /\ b \in Ids(y)
    BY <1>1, <1>2, <1>6
  <2> QED BY <1>6, <2>1, CancelIfFilledWorks
<1> HIDE DEF t
<1>8. /\ Works(x, t) /\ Sound(t) /\ t \in StateRecords /\ Onward(x, t) /\ Onward(y, t) /\ Fresh(x, t) /\ Ids(t) = Ids(p)
      /\ Len(t.orders) = Len(p.orders)
  BY <1>2, <1>4, <1>5, <1>6, <1>7, WorksTrans, WorksSizes DEF Works, Ids
<1>9. /\ \A id \in Ids(p) : t.orders[id].filled = p.orders[id].filled /\ t.orders[id].role = p.orders[id].role
      /\ \A id \in Ids(p) : t.orders[id].chained = p.orders[id].chained /\ t.orders[id].from = p.orders[id].from
  BY <1>2, <1>3, <1>5, <1>6, <1>7, <1>8 DEF Alike, SameButOco, Onward, AdvanceAt, Advance, Fresh
<1>10. ASSUME NEW id \in Ids(p)
       PROVE  (Calm(p, id) => Calm(t, id)) /\ (Unreached(p, id) => Unreached(t, id))
  <2>1. (Calm(p, id) => Calm(x, id)) /\ (Unreached(p, id) => Unreached(x, id))
    BY <1>3, AlikeViews
  <2>2. AdvanceAt(x, t, id) /\ (Unreached(x, id) => Unreached(t, id))
    BY <1>2, <1>4, <1>8, WorksAt DEF Onward
  <2> QED BY <2>1, <2>2 DEF AdvanceAt
<1>11. ASSUME NEW id \in Ids(s) PROVE AdvanceAt(s, t, id)
  <2>1. AdvanceAt(s, p, id) /\ x.orders[id] = p.orders[id] /\ AdvanceAt(x, t, id) /\ id \in Ids(p)
    BY <1>1, <1>2, <1>8 DEF Onward
  <2>2. Advance(s.orders[id], t.orders[id])
    BY <2>1, AdvanceTrans DEF AdvanceAt
  <2>3. ASSUME Calm(s, id)
        PROVE  /\ t.orders[id].filled = s.orders[id].filled /\ Calm(t, id)
               /\ t.orders[id].status = "Filled" => s.orders[id].status = "Filled"
    <3>1. /\ Calm(p, id) /\ p.orders[id].filled = s.orders[id].filled
          /\ p.orders[id].status = "Filled" => s.orders[id].status = "Filled"
      BY <2>1, <2>3 DEF AdvanceAt
    <3>2. Calm(x, id)
      BY <1>3, <2>1, <3>1, AlikeViews
    <3> QED BY <2>1, <3>1, <3>2 DEF AdvanceAt
  <2> QED BY <2>2, <2>3 DEF AdvanceAt
<1>12. Onward(s, t)
  <2>1. t.bid <= s.bid /\ t.ask <= s.ask
    <3>1. t.bid <= x.bid /\ t.ask <= x.ask /\ x.bid = p.bid /\ x.ask = p.ask /\ p.bid <= s.bid /\ p.ask <= s.ask
      BY <1>1, <1>2, <1>8 DEF Onward, SameBook
    <3> QED BY <1>1, <1>2, <1>8, <3>1, StateFields
  <2>2. Len(s.orders) <= Len(t.orders)
    BY <1>1, <1>8 DEF Onward
  <2>3. t.price = s.price /\ t.walked = s.walked /\ t.atQuote = s.atQuote /\ t.quoted = s.quoted
    BY <1>1, <1>2, <1>8 DEF Onward, SameBook
  <2> QED BY <1>11, <2>1, <2>2, <2>3 DEF Onward
<1>13. \A id \in Ids(s) : t.orders[id].chained = s.orders[id].chained /\ t.orders[id].from = s.orders[id].from
  BY <1>1, <1>9 DEF Prepared
<1>14. \A id \in Ids(t) : id > Len(s.orders) => NotChained(t.orders[id]) /\ (t.orders[id].role = "Normal" => id \in {a, b})
  BY <1>8, <1>9 DEF Prepared, NotChained
<1>15. a <= Len(t.orders) /\ SameTerms(r, t.orders[a].req)
  <2>1. a <= Len(t.orders)
    BY <1>1, <1>8 DEF Ids
  <2>2. x.orders[a].req = p.orders[a].req /\ SameTerms(x.orders[a].req, t.orders[a].req)
    BY <1>1, <1>2, <1>3, <1>8 DEF Alike, SameButOco, Onward, AdvanceAt, Advance
  <2> QED BY <2>1, <2>2 DEF SameTerms
<1>16. p.orders[a].filled > 0 => ~IsOpen(t.orders[b])
  <2>1. x.orders[a].filled = p.orders[a].filled
    BY <1>1, <1>3 DEF Alike, SameButOco
  <2>2. ~IsOpen(y.orders[b]) => ~IsOpen(t.orders[b])
    BY <1>1, <1>2, <1>6, <1>8 DEF Onward, AdvanceAt, Advance, IsOpen
  <2> QED BY <1>5, <2>1, <2>2
<1>17. p.orders[b].filled > 0 => ~IsOpen(t.orders[a])
  <2>1. y.orders[b].filled = p.orders[b].filled
    BY <1>1, <1>2, <1>3, <1>5 DEF Alike, SameButOco
  <2> QED BY <1>7, <2>1
<1>18. t.orders[a].oco = b /\ t.orders[b].oco = a /\ t.orders[a].role = "Normal" /\ t.orders[b].role = "Normal"
  <2>1. x.orders[a].role = "Normal" /\ x.orders[b].role = "Normal"
    BY <1>1, <1>3 DEF Alike, SameButOco, Prepared
  <2> QED BY <1>1, <1>2, <1>8, <2>1 DEF Onward, AdvanceAt, Advance
<1>19. ASSUME Len(t.orders) <= IdBound
       PROVE  /\ Paired(s) => Paired(t)
              /\ AllUnreached(s) => AllUnreached(t)
              /\ \A id \in Ids(t) : id > Len(s.orders) /\ t.orders[id].role = "Normal" => Calm(t, id)
  <2>1. /\ Calm(p, a) /\ (p.orders[a].filled > 0 => p.orders[b].filled = 0) /\ (p.orders[a].filled = 0 => Calm(p, b))
        /\ AllUnreached(s) => \A id \in Ids(p) : (id = b /\ p.orders[a].filled > 0) \/ Unreached(p, id)
    BY <1>8, <1>19 DEF Prepared
  <2>2. p.orders[a].filled \in Nat /\ p.orders[b].filled \in Nat
    BY <1>1, StateFields, OrderFields
  <2>3. Calm(t, a) /\ Calm(t, b)
    <3>1. Calm(t, a)
      BY <1>1, <1>10, <2>1
    <3>2. CASE p.orders[a].filled = 0
      BY <1>1, <1>10, <2>1, <3>2
    <3>3. CASE p.orders[a].filled > 0
      <4>1. ~IsOpen(t.orders[b])
        BY <1>16, <3>3
      <4>2. Swept(t, b)
        BY <4>1 DEF Swept
      <4>3. Calm(t, b)
        BY <1>18, <4>2 DEF Calm
      <4> QED BY <3>1, <4>3
    <3> QED BY <2>2, <3>1, <3>2, <3>3
  <2>4. ASSUME AllUnreached(s) PROVE AllUnreached(t)
    <3>1. ASSUME NEW id \in Ids(t) PROVE Unreached(t, id)
      <4>1. CASE id = b /\ p.orders[a].filled > 0
        BY <1>16, <4>1 DEF Unreached, IsOpen
      <4>2. CASE Unreached(p, id)
        BY <1>8, <1>10, <4>2
      <4> QED BY <1>8, <2>1, <2>4, <4>1, <4>2
    <3> QED BY <3>1 DEF AllUnreached
  <2>5. ASSUME Paired(s) PROVE Paired(t)
    <3>1. ASSUME NEW id \in Ids(t), t.orders[id].role = "Normal", t.orders[id].oco # NoOrder, t.orders[id].filled > 0
          PROVE  t.orders[t.orders[id].oco].filled = 0 /\ ~IsOpen(t.orders[t.orders[id].oco])
      <4>1. CASE id = a
        <5>1. p.orders[a].filled > 0 /\ t.orders[b].filled = p.orders[b].filled
          BY <1>1, <1>9, <3>1, <4>1
        <5> QED BY <1>16, <1>18, <2>1, <4>1, <5>1
      <4>2. CASE id = b
        <5>1. p.orders[b].filled > 0 /\ t.orders[a].filled = p.orders[a].filled
          BY <1>1, <1>9, <3>1, <4>2
        <5>2. p.orders[a].filled = 0
          BY <2>1, <2>2, <5>1
        <5> QED BY <1>17, <1>18, <4>2, <5>1, <5>2
      <4>3. CASE id \notin {a, b}
        <5>1. x.orders[id] = p.orders[id] /\ id \in Ids(p) /\ id \in Ids(x)
          BY <1>2, <1>8, <4>3
        <5>2. /\ t.orders[id].role = x.orders[id].role /\ t.orders[id].filled = p.orders[id].filled
              /\ (x.orders[id].role = "Normal" => t.orders[id].oco = x.orders[id].oco)
          BY <1>8, <1>9, <5>1 DEF Onward, AdvanceAt, Advance
        <5>3. p.orders[id].role = "Normal" /\ p.orders[id].oco = t.orders[id].oco /\ p.orders[id].filled > 0
          BY <3>1, <5>1, <5>2
        <5>4. p.orders[p.orders[id].oco].filled = 0 /\ ~IsOpen(p.orders[p.orders[id].oco])
          BY <2>5, <3>1, <5>1, <5>3 DEF Prepared, Paired, PairHolds
        <5>5. p.orders[id].oco \in Ids(p) /\ p.orders[p.orders[id].oco].oco = id
          BY <1>1, <3>1, <5>1, <5>3, LinkedOnes, SoundState
        <5>6. id # NoOrder
          BY <5>1 DEF Ids, NoOrder
        <5>7. p.orders[id].oco \notin {a, b}
          BY <5>5, <5>6 DEF Prepared
        <5> DEFINE m == p.orders[id].oco
        <5>8. x.orders[m] = p.orders[m] /\ m \in Ids(x) /\ m \in Ids(p)
          BY <1>2, <5>5, <5>7
        <5> HIDE DEF m
        <5>9. t.orders[m].filled = p.orders[m].filled /\ (~IsOpen(x.orders[m]) => ~IsOpen(t.orders[m]))
          BY <1>8, <1>9, <5>8 DEF Onward, AdvanceAt, Advance, IsOpen
        <5> QED BY <5>3, <5>4, <5>8, <5>9 DEF m
      <4> QED BY <4>1, <4>2, <4>3
    <3> QED BY <3>1 DEF Paired, PairHolds
  <2> QED BY <1>14, <2>3, <2>4, <2>5
<1>20. t = LinkPair(p, a, b)
  BY DEF LinkPair, t, y, x
<1>21. Places(s, t, r)
  BY <1>1, <1>8, <1>12, <1>13, <1>14, <1>15, <1>19 DEF Places
<1> QED BY <1>20, <1>21

LEMMA EntersSizes ==
  ASSUME NEW s, Sound(s), NEW t, NEW r, Enters(s, t, r)
  PROVE  /\ s \in StateRecords /\ t \in StateRecords /\ Len(s.orders) \in Nat /\ Len(t.orders) \in Nat
         /\ Len(s.orders) + 1 \in Ids(t) /\ Ids(s) \subseteq Ids(t) /\ Len(s.orders) + 1 \notin Ids(s)
<1>1. s \in StateRecords /\ t \in StateRecords
  BY SoundState DEF Enters
<1>2. Len(s.orders) \in Nat /\ Len(t.orders) \in Nat /\ Len(s.orders) + 1 <= Len(t.orders)
  BY <1>1, StateFields DEF Enters
<1> QED BY <1>1, <1>2 DEF Ids

\* The second order placed behind a first one that has not filled.
LEMMA TrialPrepared ==
  ASSUME OrdersConstants, NEW s, Sound(s), NEW r \in OrderRequests, ~r.exitsOnly,
         NEW f, Enters(s, f, r), f.orders[Len(s.orders) + 1].filled = 0,
         NEW r2 \in OrderRequests, ~r2.exitsOnly, NEW t, Enters(f, t, r2)
  PROVE  Prepared(s, t, Len(s.orders) + 1, Len(f.orders) + 1)
<1> DEFINE a == Len(s.orders) + 1
           b == Len(f.orders) + 1
<1>1. /\ s \in StateRecords /\ f \in StateRecords /\ t \in StateRecords /\ Sound(f) /\ Sound(t)
      /\ a \in Ids(f) /\ b \in Ids(t) /\ Ids(s) \subseteq Ids(f) /\ Ids(f) \subseteq Ids(t)
      /\ a \notin Ids(s) /\ b \notin Ids(f)
  BY EntersSizes DEF Enters
<1>2. Len(s.orders) \in Nat /\ Len(f.orders) \in Nat /\ Len(t.orders) \in Nat
  BY <1>1, StateFields
<1>3. Onward(s, f) /\ Onward(f, t) /\ Onward(s, t)
  BY <1>1, OnwardTrans DEF Enters
<1>4. \A id \in Ids(s) : t.orders[id].chained = s.orders[id].chained /\ t.orders[id].from = s.orders[id].from
  BY <1>1 DEF Enters
<1>5. /\ NotChained(f.orders[a]) /\ f.orders[a].role = "Normal" /\ f.orders[a].oco = NoOrder
      /\ NotChained(t.orders[b]) /\ t.orders[b].role = "Normal" /\ t.orders[b].oco = NoOrder
  BY DEF Enters
<1>6. /\ t.orders[a].chained = f.orders[a].chained /\ t.orders[a].from = f.orders[a].from
      /\ Advance(f.orders[a], t.orders[a]) /\ AdvanceAt(f, t, a)
  BY <1>1, <1>3 DEF Enters, Onward, AdvanceAt
<1>7. NotChained(t.orders[a]) /\ t.orders[a].role = "Normal" /\ t.orders[a].oco = NoOrder
  BY <1>5, <1>6 DEF NotChained, Advance
<1>8. ASSUME NEW id \in Ids(t), id > Len(s.orders)
      PROVE  NotChained(t.orders[id]) /\ (t.orders[id].role = "Normal" => id \in {a, b})
  <2>1. CASE id = a \/ id = b
    BY <1>5, <1>7, <2>1
  <2>2. CASE id # a /\ id # b /\ id \in Ids(f)
    <3>1. id > a
      BY <1>2, <1>8, <2>2 DEF Ids
    <3>2. f.orders[id].role # "Normal" /\ NotChained(f.orders[id])
      BY <2>2, <3>1 DEF Enters
    <3>3. t.orders[id].chained = f.orders[id].chained /\ t.orders[id].from = f.orders[id].from
          /\ t.orders[id].role = f.orders[id].role
      BY <1>3, <2>2 DEF Enters, Onward, AdvanceAt, Advance
    <3> QED BY <3>2, <3>3 DEF NotChained
  <2>3. CASE id # b /\ id \notin Ids(f)
    <3>1. id > b
      BY <1>2, <1>8, <2>3 DEF Ids
    <3> QED BY <3>1 DEF Enters
  <2> QED BY <2>1, <2>2, <2>3
<1>9. Paired(s) => Paired(t)
  BY DEF Enters
<1>10. a < b /\ Len(f.orders) <= Len(t.orders)
  BY <1>1, <1>2, <1>3 DEF Ids, Onward
<1>11. ASSUME Len(t.orders) <= IdBound
       PROVE  /\ Calm(t, a) /\ Calm(t, b) /\ t.orders[a].filled = 0
              /\ (AllUnreached(s) => AllUnreached(t))
  <2>1. Len(f.orders) <= IdBound
    BY <1>2, <1>10, <1>11 DEF OrdersConstants, IdBound
  <2>2. Calm(f, a) /\ (AllUnreached(s) => AllUnreached(f))
    BY <1>5, <2>1 DEF Enters
  <2>3. Calm(t, b) /\ (AllUnreached(f) => AllUnreached(t))
    BY <1>5, <1>11 DEF Enters
  <2>4. Calm(t, a) /\ t.orders[a].filled = f.orders[a].filled
    BY <1>6, <2>2 DEF AdvanceAt
  <2> QED BY <2>2, <2>3, <2>4
<1>12. Len(t.orders) <= IdBound =>
         /\ Calm(t, a)
         /\ t.orders[a].filled > 0 => t.orders[b].filled = 0
         /\ t.orders[a].filled = 0 => Calm(t, b)
         /\ AllUnreached(s) => \A id \in Ids(t) : (id = b /\ t.orders[a].filled > 0) \/ Unreached(t, id)
  BY <1>11 DEF AllUnreached
<1> QED BY <1>1, <1>3, <1>4, <1>5, <1>7, <1>8, <1>9, <1>10, <1>12 DEF Prepared

\* The second order only recorded behind a first one that has filled.
LEMMA RecordedPrepared ==
  ASSUME OrdersConstants, NEW s, Sound(s), NEW r \in OrderRequests, ~r.exitsOnly,
         NEW f, Enters(s, f, r), f.orders[Len(s.orders) + 1].filled > 0,
         NEW r2 \in OrderRequests, ~r2.exitsOnly
  PROVE  Prepared(s, AddOrder(f, WithStatus(NewOrder(r2), Resting(r2.trigger))), Len(s.orders) + 1, Len(f.orders) + 1)
<1> DEFINE a == Len(s.orders) + 1
           b == Len(f.orders) + 1
           q == NewOrder(r2)
           status == Resting(r2.trigger)
           o == WithStatus(q, status)
           t == AddOrder(f, o)
<1>1. ValidRequest(r2) /\ r2 \in RequestRecords /\ r2.qty > 0
  BY ValidFields DEF OrdersConstants
<1>2. /\ q \in OrderRecords /\ q.req = r2 /\ q.filled = 0 /\ q.role = "Normal"
      /\ q.oco = NoOrder /\ q.parent = NoOrder /\ q.stop = NoOrder /\ q.target = NoOrder /\ ~q.reduceOnly /\ NotChained(q)
  BY <1>1, NewOrderTyped
<1> HIDE DEF q
<1>3. status \in Statuses /\ (status = "Armed" => r2.trigger # None)
  BY RestingStatus
<1> HIDE DEF status
<1>4. /\ o \in OrderRecords /\ o.status = status /\ o.req = r2 /\ o.filled = 0 /\ o.role = "Normal"
      /\ ~o.reduceOnly /\ SameLinks(q, o)
  BY <1>2, <1>3, StatusOrder
<1> HIDE DEF o
<1>5. o.oco = NoOrder /\ o.parent = NoOrder /\ o.stop = NoOrder /\ o.target = NoOrder /\ NotChained(o)
  BY <1>2, <1>4 DEF SameLinks, NotChained
<1>6. Proper(o) /\ SameTerms(r2, o.req)
  BY <1>1, <1>3, <1>4, <1>5 DEF Proper, SameTerms
<1>7. /\ s \in StateRecords /\ f \in StateRecords /\ Sound(f)
      /\ a \in Ids(f) /\ Ids(s) \subseteq Ids(f) /\ a \notin Ids(s)
  BY EntersSizes DEF Enters
<1>8. Joined(f, t, r2) /\ Len(t.orders) = b /\ t.orders[b] = o
  BY <1>1, <1>4, <1>5, <1>6, <1>7, FreshJoined
<1> HIDE DEF t
<1>9. Sound(t) /\ Behind(f, t) /\ t \in StateRecords /\ Onward(f, t) /\ Onward(s, f)
  BY <1>7, <1>8, BehindOnward, SoundState DEF Joined, Enters
<1>10. Len(s.orders) \in Nat /\ Len(f.orders) \in Nat /\ b \in Ids(t) /\ b \notin Ids(f) /\ Ids(t) = Ids(f) \cup {b} /\ a < b
  BY <1>7, <1>8, StateFields DEF Ids
<1>11. Onward(s, t)
  BY <1>7, <1>9, OnwardTrans
<1>12. \A id \in Ids(f) : t.orders[id] = f.orders[id]
  BY <1>9 DEF Behind
<1>13. \A id \in Ids(s) : t.orders[id].chained = s.orders[id].chained /\ t.orders[id].from = s.orders[id].from
  BY <1>7, <1>12 DEF Enters
<1>14. /\ NotChained(f.orders[a]) /\ f.orders[a].role = "Normal" /\ f.orders[a].oco = NoOrder
  BY DEF Enters
<1>15. ASSUME NEW id \in Ids(t), id > Len(s.orders)
       PROVE  NotChained(t.orders[id]) /\ (t.orders[id].role = "Normal" => id \in {a, b})
  <2>1. CASE id = a \/ id = b
    BY <1>5, <1>7, <1>8, <1>12, <1>14, <2>1
  <2>2. CASE id # a /\ id # b
    <3>1. id > a /\ id \in Ids(f)
      BY <1>10, <1>15, <2>2 DEF Ids
    <3> QED BY <1>12, <3>1 DEF Enters
  <2> QED BY <2>1, <2>2
<1>16. Paired(s) => Paired(t)
  BY <1>8 DEF Enters, Joined
<1>17. ASSUME Len(t.orders) <= IdBound
       PROVE  /\ Calm(t, a) /\ t.orders[a].filled > 0 /\ t.orders[b].filled = 0
              /\ AllUnreached(s) => \A id \in Ids(t) : id = b \/ Unreached(t, id)
  <2>1. Len(f.orders) <= IdBound
    BY <1>8, <1>10, <1>17 DEF OrdersConstants, IdBound
  <2>2. Calm(f, a) /\ (AllUnreached(s) => AllUnreached(f))
    BY <1>14, <2>1 DEF Enters
  <2>3. Calm(t, a)
    BY <1>7, <1>9, <2>2 DEF Onward, AdvanceAt
  <2>4. ASSUME AllUnreached(s), NEW id \in Ids(t), id # b PROVE Unreached(t, id)
    <3>1. id \in Ids(f) /\ Unreached(f, id)
      BY <1>10, <2>2, <2>4 DEF AllUnreached
    <3> QED BY <1>7, <1>9, <3>1, UnreachedOnward
  <2> QED BY <1>4, <1>7, <1>8, <1>12, <2>3, <2>4
<1>18. Len(t.orders) <= IdBound =>
         /\ Calm(t, a)
         /\ t.orders[a].filled > 0 => t.orders[b].filled = 0
         /\ t.orders[a].filled = 0 => Calm(t, b)
         /\ AllUnreached(s) => \A id \in Ids(t) : (id = b /\ t.orders[a].filled > 0) \/ Unreached(t, id)
  BY <1>17
<1>19. t.orders[a].role = "Normal" /\ t.orders[b].role = "Normal" /\ t.orders[a].oco = NoOrder /\ t.orders[b].oco = NoOrder
  BY <1>4, <1>5, <1>7, <1>8, <1>12, <1>14
<1>20. Prepared(s, t, a, b)
  BY <1>9, <1>10, <1>11, <1>13, <1>15, <1>16, <1>18, <1>19 DEF Prepared
<1> QED BY <1>20 DEF t, o, q, status

LEMMA PlacePlaces ==
  ASSUME OrdersConstants, NEW s, Sound(s), NEW r \in OrderRequests
  PROVE  Places(s, Place(s, r), r)
<1> DEFINE a == Len(s.orders) + 1
           f == PlaceOrder(s, r)
           r2 == r.oco[1]
           trial == PlaceOrder(f, r2)
           b == Len(f.orders) + 1
           t == Place(s, r)
<1>1. ValidRequest(r)
  BY DEF OrdersConstants
<1>2. Enters(s, f, r)
  BY PlaceOrderEnters
<1>3. t = PlaceBoth(s, r, f)
  BY DEF Place
<1> HIDE DEF f, t
<1>4. CASE r.oco = None \/ f.orders[a].status = "Rejected"
  <2>1. t = f
    BY <1>3, <1>4 DEF PlaceBoth
  <2> QED BY <1>2, <2>1, EntersPlaces DEF t
<1>5. CASE ~(r.oco = None \/ f.orders[a].status = "Rejected")
  <2>1. t = PlaceSecond(s, r, f, trial)
    BY <1>3, <1>5 DEF PlaceBoth
  <2>2. r2 \in OrderRequests /\ ~r2.exitsOnly /\ ~r.exitsOnly
    BY <1>1, <1>5, ValidFields DEF ValidRequest, WalkAllowed, HeldExitsAllowed, ChainAllowed
  <2>3. Sound(f) /\ f \in StateRecords
    BY <1>2, SoundState DEF Enters
  <2>4. Enters(f, trial, r2)
    BY <2>2, <2>3, PlaceOrderEnters
  <2> HIDE DEF trial
  <2>5. trial \in StateRecords /\ trial.orders[b] \in OrderRecords /\ SameTerms(r, f.orders[a].req)
    BY <1>2, <2>3, <2>4, EntersSizes, StateFields DEF Enters
  <2>6. CASE trial.orders[b].status = "Rejected"
    <3>1. t = RecordRejected(s, r, trial.orders[b].reason)
      BY <2>1, <2>6 DEF PlaceSecond
    <3>2. trial.orders[b].reason \in Reasons
      BY <2>5, OrderFields
    <3>3. Enters(s, RecordRejected(s, r, trial.orders[b].reason), r)
      <4> DEFINE why == trial.orders[b].reason
      <4> HIDE DEF why
      <4>1. why \in Reasons
        BY <3>2 DEF why
      <4>2. Enters(s, RecordRejected(s, r, why), r)
        BY <4>1, RejectedEnters
      <4> QED BY <4>2 DEF why
    <3> QED BY <3>1, <3>3, EntersPlaces DEF t
  <2>7. CASE trial.orders[b].status # "Rejected" /\ f.orders[a].filled > 0
    <3> DEFINE p == AddOrder(f, WithStatus(NewOrder(r2), Resting(r2.trigger)))
    <3>1. t = LinkPair(p, a, b)
      BY <2>1, <2>7 DEF PlaceSecond
    <3>2. Prepared(s, p, a, b)
      BY <1>2, <2>2, <2>7, RecordedPrepared
    <3>3. p.orders[a] = f.orders[a]
      <4>1. a \in Ids(f)
        BY <1>2, EntersSizes
      <4> DEFINE o == WithStatus(NewOrder(r2), Resting(r2.trigger))
      <4>2. o \in OrderRecords
        <5>1. r2 \in RequestRecords
          BY <2>2, ValidFields DEF OrdersConstants
        <5> DEFINE q == NewOrder(r2)
                   status == Resting(r2.trigger)
        <5>2. q \in OrderRecords /\ status \in Statuses
          BY <5>1, NewOrderTyped, RestingStatus
        <5> HIDE DEF q, status
        <5>3. WithStatus(q, status) \in OrderRecords
          BY <5>2, StatusOrder
        <5> QED BY <5>3 DEF q, status
      <4> HIDE DEF o
      <4>3. Behind(f, AddOrder(f, o))
        BY <2>3, <4>2, AddedBehind
      <4> QED BY <4>1, <4>3 DEF Behind, o
    <3> HIDE DEF p
    <3>4. Places(s, LinkPair(p, a, b), r)
      BY <2>5, <3>2, <3>3, LinkPairPlaces
    <3> QED BY <3>1, <3>4 DEF t
  <2>8. CASE trial.orders[b].status # "Rejected" /\ ~(f.orders[a].filled > 0)
    <3>1. t = LinkPair(trial, a, b)
      BY <2>1, <2>8 DEF PlaceSecond
    <3>2. f.orders[a].filled = 0 /\ a \in Ids(f)
      <4>1. f.orders[a] \in OrderRecords /\ a \in Ids(f)
        BY <1>2, <2>3, EntersSizes, StateFields
      <4>2. f.orders[a].filled \in Nat
        BY <4>1, OrderFields
      <4> QED BY <2>8, <4>1, <4>2
    <3>3. Prepared(s, trial, a, b)
      BY <1>2, <2>2, <2>4, <3>2, TrialPrepared
    <3>4. SameTerms(r, trial.orders[a].req)
      BY <2>4, <2>5, <3>2 DEF Enters, Onward, AdvanceAt, Advance, SameTerms
    <3>5. Places(s, LinkPair(trial, a, b), r)
      BY <3>3, <3>4, LinkPairPlaces
    <3> QED BY <3>1, <3>5 DEF t
  <2> QED BY <2>6, <2>7, <2>8
<1> QED BY <1>4, <1>5

-----------------------------------------------------------------------------
(* Chains *)

\* States whose orders differ at most in the orders they cancel or place.
SameCore(o, p) ==
  /\ p.req = o.req /\ p.filled = o.filled /\ p.status = o.status /\ p.role = o.role /\ p.parent = o.parent
  /\ p.stop = o.stop /\ p.target = o.target /\ p.reduceOnly = o.reduceOnly
Akin(s, t) ==
  /\ t \in StateRecords /\ SameBook(s, t) /\ Len(t.orders) = Len(s.orders)
  /\ \A id \in Ids(s) : SameCore(s.orders[id], t.orders[id])

LEMMA AkinViews ==
  ASSUME NEW s, NEW t, Akin(s, t), NEW id \in Ids(s)
  PROVE  /\ (Calm(s, id) => Calm(t, id)) /\ (Unreached(s, id) => Unreached(t, id)) /\ (Fits(s, id) => Fits(t, id))
         /\ (Proper(s.orders[id]) => Proper(t.orders[id]))
<1>1. SameCore(s.orders[id], t.orders[id]) /\ SameBook(s, t)
  BY DEF Akin
<1>2. /\ \A side : Depth(t, side) = Depth(s, side) /\ ExitCapacity(t, side) = ExitCapacity(s, side)
      /\ \A p : Marketable(t, p) <=> Marketable(s, p)
      /\ \A p : Reached(t, p) <=> Reached(s, p)
  BY <1>1 DEF SameBook, Depth, ExitCapacity, Marketable, Reached
<1> DEFINE o == s.orders[id]
           p == t.orders[id]
<1>3. SameCore(o, p)
  BY <1>1
<1>4. (IsOpen(p) <=> IsOpen(o)) /\ (KeptWithin(p) <=> KeptWithin(o)) /\ Remaining(p) = Remaining(o)
      /\ (Marketable(s, p) <=> Marketable(s, o)) /\ (Reached(s, p) <=> Reached(s, o))
  <2> HIDE DEF o, p
  <2> QED BY <1>3 DEF SameCore, IsOpen, KeptWithin, Remaining, Marketable, Reached
<1>5. p.status = o.status /\ p.role = o.role /\ p.req = o.req
  <2> HIDE DEF o, p
  <2> QED BY <1>3 DEF SameCore
<1>6. Swept(s, id) <=> Swept(t, id)
  BY <1>2, <1>4, <1>5 DEF Swept
<1>7. Calm(s, id) => Calm(t, id)
  BY <1>2, <1>4, <1>5, <1>6 DEF Calm
<1>8. Unreached(s, id) => Unreached(t, id)
  BY <1>2, <1>4, <1>5 DEF Unreached
<1>9. Fits(s, id) => Fits(t, id)
  BY <1>2, <1>4, <1>5 DEF Fits
<1>10. Proper(o) => Proper(p)
  <2> HIDE DEF o, p
  <2> QED BY <1>3, <1>4 DEF SameCore, Proper
<1> QED BY <1>7, <1>8, <1>9, <1>10

LEMMA ChainedOrder ==
  ASSUME NEW o \in OrderRecords, NEW n \in Nat
  PROVE  LET p == [o EXCEPT !.chained = n]
         IN  p \in OrderRecords /\ p.chained = n /\ p.from = o.from /\ p.oco = o.oco /\ SameCore(o, p)
  BY DEF OrderRecords, SameCore

LEMMA FromOrder ==
  ASSUME NEW o \in OrderRecords, NEW n \in Nat
  PROVE  LET p == [o EXCEPT !.from = n]
         IN  p \in OrderRecords /\ p.from = n /\ p.chained = o.chained /\ p.oco = o.oco /\ SameCore(o, p)
  BY DEF OrderRecords, SameCore

ChainNamed(s, t, id, n) ==
  /\ Sound(t) /\ Akin(s, t) /\ (Paired(s) => Paired(t))
  /\ t.orders[id].chained = n /\ t.orders[id].from = s.orders[id].from
  /\ t.orders[n].from = id /\ t.orders[n].chained = s.orders[n].chained
  /\ \A other \in Ids(s) \ {id, n} : t.orders[other] = s.orders[other]
  /\ t.orders[id].oco = s.orders[id].oco
ChainNames(s, id, n) ==
  LET w == WithOrder(s, id, [s.orders[id] EXCEPT !.chained = n])
  IN  WithOrder(w, n, [w.orders[n] EXCEPT !.from = id])

\* Naming a chained order and its origin moves no order.
LEMMA NamedAkin ==
  ASSUME NEW s, Sound(s), NEW id \in Ids(s), NEW n \in Ids(s), id # n
  PROVE  ChainNamed(s, ChainNames(s, id, n), id, n)
<1> DEFINE p == [s.orders[id] EXCEPT !.chained = n]
           w == WithOrder(s, id, p)
           q == [w.orders[n] EXCEPT !.from = id]
           t == WithOrder(w, n, q)
<1>1. s \in StateRecords /\ Shaped(s) /\ s.orders[id] \in OrderRecords /\ s.orders[n] \in OrderRecords /\ id \in Nat /\ n \in Nat
  BY SoundState, StateFields DEF Ids
<1>2. p \in OrderRecords /\ p.chained = n /\ p.from = s.orders[id].from /\ p.oco = s.orders[id].oco /\ SameCore(s.orders[id], p)
  BY <1>1, ChainedOrder
<1> HIDE DEF p
<1>3. OneChanged(s, w, id, p)
  BY <1>1, <1>2, WithOrderState
<1> HIDE DEF w
<1>4. /\ w \in StateRecords /\ SameBook(s, w) /\ Len(w.orders) = Len(s.orders) /\ w.orders[id] = p /\ Ids(w) = Ids(s)
      /\ \A other \in Ids(s) : other # id => w.orders[other] = s.orders[other]
  BY <1>3 DEF OneChanged, Ids
<1>5. w.orders[n] = s.orders[n]
  BY <1>4
<1>6. q \in OrderRecords /\ q.from = id /\ q.chained = s.orders[n].chained /\ q.oco = s.orders[n].oco /\ SameCore(s.orders[n], q)
  BY <1>1, <1>5, FromOrder
<1> HIDE DEF q
<1>7. OneChanged(w, t, n, q)
  BY <1>4, <1>6, WithOrderState
<1> HIDE DEF t
<1>8. /\ t \in StateRecords /\ SameBook(s, t) /\ Len(t.orders) = Len(s.orders) /\ t.orders[n] = q /\ t.orders[id] = p
      /\ Ids(t) = Ids(s)
      /\ \A other \in Ids(s) \ {id, n} : t.orders[other] = s.orders[other]
  BY <1>4, <1>7 DEF OneChanged, SameBook, Ids
<1>9. \A other \in Ids(s) : SameCore(s.orders[other], t.orders[other]) /\ t.orders[other].oco = s.orders[other].oco
  BY <1>2, <1>6, <1>8 DEF SameCore
<1>10. Akin(s, t)
  BY <1>8, <1>9 DEF Akin
<1>11. ASSUME NEW other \in Ids(s) PROVE Linked(t, other)
  <2>1. Linked(s, other)
    BY <1>1 DEF Shaped
  <2>2. /\ t.orders[other].role = s.orders[other].role /\ t.orders[other].parent = s.orders[other].parent
        /\ t.orders[other].stop = s.orders[other].stop /\ t.orders[other].target = s.orders[other].target
        /\ \A x \in Ids(s) : t.orders[x].role = s.orders[x].role
    BY <1>9 DEF SameCore
  <2> QED BY <1>8, <1>9, <2>1, <2>2 DEF Linked
<1>12. \A other \in Ids(t) : Proper(t.orders[other]) /\ Linked(t, other) /\ Fits(t, other)
  BY <1>1, <1>8, <1>10, <1>11, AkinViews DEF Sound, Shaped
<1>13. Sound(t)
  BY <1>8, <1>12 DEF Sound, Shaped
<1>14. ASSUME Paired(s), NEW x \in Ids(t), t.orders[x].role = "Normal", t.orders[x].oco # NoOrder, t.orders[x].filled > 0
       PROVE  t.orders[t.orders[x].oco].filled = 0 /\ ~IsOpen(t.orders[t.orders[x].oco])
  <2> DEFINE m == s.orders[x].oco
  <2>1. x \in Ids(s) /\ t.orders[x].role = s.orders[x].role /\ t.orders[x].oco = m /\ t.orders[x].filled = s.orders[x].filled
    BY <1>8, <1>9 DEF SameCore
  <2>2. s.orders[m].filled = 0 /\ ~IsOpen(s.orders[m])
    BY <1>14, <2>1 DEF Paired, PairHolds
  <2>3. m \in Ids(s)
    BY <1>1, <1>14, <2>1, LinkedOnes
  <2> HIDE DEF m
  <2>4. t.orders[m].filled = s.orders[m].filled /\ t.orders[m].status = s.orders[m].status
    BY <1>9, <2>3 DEF SameCore
  <2> QED BY <2>1, <2>2, <2>4 DEF IsOpen
<1>15. Paired(s) => Paired(t)
  BY <1>14 DEF Paired, PairHolds
<1>16. t.orders[id].oco = s.orders[id].oco
  BY <1>9
<1>17. ChainNamed(s, t, id, n)
  BY <1>2, <1>6, <1>8, <1>10, <1>13, <1>15, <1>16 DEF ChainNamed
<1>18. t = ChainNames(s, id, n)
  BY DEF t, q, w, p, ChainNames
<1> QED BY <1>17, <1>18

\* How the orders' chains are kept: what is there names what it named.
ChainKeeps(s, t) ==
  /\ Len(s.orders) <= Len(t.orders)
  /\ \A id \in Ids(s) : /\ t.orders[id].chained = s.orders[id].chained /\ t.orders[id].from = s.orders[id].from
                        /\ t.orders[id].req.then = s.orders[id].req.then
                        /\ ~IsOpen(s.orders[id]) => t.orders[id].status = s.orders[id].status
  /\ \A id \in Ids(t) : id > Len(s.orders) => NotChained(t.orders[id])

LEMMA ChainKeepsTrans ==
  ASSUME NEW s \in StateRecords, NEW t \in StateRecords, NEW u \in StateRecords, ChainKeeps(s, t), ChainKeeps(t, u)
  PROVE  ChainKeeps(s, u)
<1>1. /\ Len(s.orders) \in Nat /\ Len(t.orders) \in Nat /\ Len(u.orders) \in Nat
      /\ Len(s.orders) <= Len(t.orders) /\ Len(t.orders) <= Len(u.orders)
  BY StateFields DEF ChainKeeps
<1>2. Ids(s) \subseteq Ids(t) /\ Ids(t) \subseteq Ids(u) /\ Len(s.orders) <= Len(u.orders)
  BY <1>1 DEF Ids
<1>3. ASSUME NEW id \in Ids(s)
      PROVE  /\ u.orders[id].chained = s.orders[id].chained /\ u.orders[id].from = s.orders[id].from
             /\ u.orders[id].req.then = s.orders[id].req.then
             /\ ~IsOpen(s.orders[id]) => u.orders[id].status = s.orders[id].status
  BY <1>2 DEF ChainKeeps, IsOpen
<1>4. ASSUME NEW id \in Ids(u), id > Len(s.orders) PROVE NotChained(u.orders[id])
  <2>1. CASE id \in Ids(t)
    BY <1>4, <2>1 DEF ChainKeeps, NotChained
  <2>2. CASE id \notin Ids(t)
    <3>1. id > Len(t.orders)
      BY <1>1, <2>2 DEF Ids
    <3> QED BY <3>1 DEF ChainKeeps
  <2> QED BY <2>1, <2>2
<1> QED BY <1>2, <1>3, <1>4 DEF ChainKeeps

LEMMA ChainSoundKept ==
  ASSUME NEW s \in StateRecords, NEW t \in StateRecords, ChainKeeps(s, t), ChainSound(s)
  PROVE  ChainSound(t)
<1>1. Len(s.orders) \in Nat /\ Len(t.orders) \in Nat /\ Len(s.orders) <= Len(t.orders)
  BY StateFields DEF ChainKeeps
<1>2. Ids(s) \subseteq Ids(t) /\ \A id \in Ids(t) : id \in Ids(s) \/ id > Len(s.orders)
  BY <1>1 DEF Ids
<1>3. ASSUME NEW id \in Ids(s)
      PROVE  /\ t.orders[id].chained # NoOrder =>
                  /\ t.orders[id].status = "Filled" /\ t.orders[id].req.then # None /\ t.orders[id].chained \in Ids(t)
                  /\ t.orders[t.orders[id].chained].from = id /\ t.orders[id].chained > id
             /\ t.orders[id].from # NoOrder => t.orders[id].from \in Ids(t) /\ t.orders[t.orders[id].from].chained = id
  <2> DEFINE o == s.orders[id]
             p == t.orders[id]
             c == o.chained
             f == o.from
  <2>1. p.chained = c /\ p.from = f /\ p.req.then = o.req.then /\ (~IsOpen(o) => p.status = o.status)
    BY DEF ChainKeeps
  <2>2. /\ c # NoOrder => o.status = "Filled" /\ o.req.then # None /\ c \in Ids(s) /\ s.orders[c].from = id /\ c > id
        /\ f # NoOrder => f \in Ids(s) /\ s.orders[f].chained = id
    BY DEF ChainSound
  <2>3. /\ c # NoOrder => t.orders[c].from = s.orders[c].from
        /\ f # NoOrder => t.orders[f].chained = s.orders[f].chained
    <3> HIDE DEF c, f
    <3> QED BY <2>2 DEF ChainKeeps
  <2> HIDE DEF o, p, c, f
  <2>4. c # NoOrder => p.status = "Filled" /\ p.req.then # None /\ c \in Ids(t) /\ t.orders[c].from = id /\ c > id
    BY <1>2, <2>1, <2>2, <2>3 DEF IsOpen
  <2>5. f # NoOrder => f \in Ids(t) /\ t.orders[f].chained = id
    BY <1>2, <2>2, <2>3
  <2> QED BY <2>1, <2>4, <2>5 DEF p
<1>4. ASSUME NEW id \in Ids(t), id > Len(s.orders) PROVE t.orders[id].chained = NoOrder /\ t.orders[id].from = NoOrder
  BY <1>4 DEF ChainKeeps, NotChained
<1> QED BY <1>2, <1>3, <1>4 DEF ChainSound

LEMMA WorksChains ==
  ASSUME NEW s, Sound(s), NEW t, Works(s, t)
  PROVE  ChainKeeps(s, t)
  BY DEF Works, Onward, AdvanceAt, Advance, SameTerms, Fresh, ChainKeeps

LEMMA PlacesChains ==
  ASSUME NEW s, NEW t, NEW r, Places(s, t, r)
  PROVE  ChainKeeps(s, t)
  BY DEF Places, Onward, AdvanceAt, Advance, SameTerms, ChainKeeps

\* What a transaction keeps at every step, while the orders stay within the bound.
Upheld(s) == Sound(s) /\ (Len(s.orders) <= IdBound => Paired(s) /\ AllUnreached(s))
ChainsUpheld(s) == ChainSound(s) /\ (Len(s.orders) <= IdBound => AllCalm(s))

LEMMA UpheldSizes ==
  ASSUME NEW s, Upheld(s), NEW t, Sound(t), Onward(s, t)
  PROVE  /\ s \in StateRecords /\ t \in StateRecords /\ Len(s.orders) \in Nat /\ Len(t.orders) \in Nat
         /\ Len(s.orders) <= Len(t.orders) /\ Ids(s) \subseteq Ids(t) /\ Sound(s)
         /\ \A id \in Ids(t) : id \in Ids(s) \/ id > Len(s.orders)
<1>1. s \in StateRecords /\ t \in StateRecords /\ Sound(s)
  BY SoundState DEF Upheld
<1>2. Len(s.orders) \in Nat /\ Len(t.orders) \in Nat /\ Len(s.orders) <= Len(t.orders)
  BY <1>1, StateFields DEF Onward
<1> QED BY <1>1, <1>2 DEF Ids

LEMMA Bounded ==
  ASSUME OrdersConstants, NEW m \in Nat, NEW n \in Nat, m <= n, n <= IdBound
  PROVE  m <= IdBound
  BY DEF OrdersConstants, IdBound

\* What an order that places its chained order does.
ChainsAt(s, t, id, n) ==
  /\ Upheld(t) /\ Onward(s, t) /\ n = Len(s.orders) + 1 /\ n \in Ids(t)
  /\ \A other \in Ids(s) : t.orders[other].from = s.orders[other].from
  /\ \A other \in Ids(s) \ {id} : t.orders[other].chained = s.orders[other].chained
  /\ t.orders[id].chained = n /\ t.orders[n].from = id /\ t.orders[n].chained = NoOrder
  /\ \A other \in Ids(t) : other > n => NotChained(t.orders[other])
  /\ Len(t.orders) <= IdBound => (AllCalm(s) => AllCalm(t))

LEMMA ChainStep ==
  ASSUME OrdersConstants, NEW s, Upheld(s), NEW id \in Ids(s), s.orders[id].status = "Filled",
         s.orders[id].req.then # None
  PROVE  ChainsAt(s, Chain(s, id), id, Len(s.orders) + 1)
<1> DEFINE n == Len(s.orders) + 1
           r == s.orders[id].req.then[1]
           p == Place(s, r)
           t == ChainNames(p, id, n)
<1>1. Sound(s) /\ s \in StateRecords /\ Len(s.orders) \in Nat
  BY SoundState, StateFields DEF Upheld
<1>2. r \in OrderRequests
  <2>1. s.orders[id].req.then \in Nexts
    BY <1>1, StateFields, OrderFields
  <2> QED BY <2>1, Option DEF Nexts
<1>3. Places(s, p, r)
  BY <1>1, <1>2, PlacePlaces
<1>4. t = Chain(s, id)
  BY DEF Chain, ChainNames
<1> HIDE DEF p, r
<1>5. /\ Sound(p) /\ p \in StateRecords /\ Onward(s, p) /\ Ids(s) \subseteq Ids(p) /\ Len(s.orders) <= Len(p.orders)
      /\ Len(p.orders) \in Nat
      /\ \A other \in Ids(p) : other \in Ids(s) \/ other > Len(s.orders)
  BY <1>3, UpheldSizes DEF Places
<1>6. n \in Ids(p) /\ id \in Ids(p) /\ id # n /\ id \in Nat
  <2>1. n <= Len(p.orders)
    BY <1>3 DEF Places
  <2> QED BY <1>1, <1>5, <2>1 DEF Ids
<1>7. /\ Sound(t) /\ Akin(p, t) /\ (Paired(p) => Paired(t))
      /\ t.orders[id].chained = n /\ t.orders[id].from = p.orders[id].from
      /\ t.orders[n].from = id /\ t.orders[n].chained = p.orders[n].chained
      /\ \A other \in Ids(p) \ {id, n} : t.orders[other] = p.orders[other]
      /\ t.orders[id].oco = p.orders[id].oco
  <2>1. ChainNamed(p, t, id, n)
    <3> HIDE DEF n
    <3> QED BY <1>5, <1>6, NamedAkin
  <2> QED BY <2>1 DEF ChainNamed
<1> HIDE DEF t
<1>8. t \in StateRecords /\ Len(t.orders) = Len(p.orders) /\ Ids(t) = Ids(p) /\ SameBook(p, t)
  BY <1>7 DEF Akin, Ids
<1>9. \A other \in Ids(p) : t.orders[other].role = p.orders[other].role
  BY <1>7 DEF Akin, SameCore
<1>10. ASSUME NEW other \in Ids(s) PROVE AdvanceAt(s, t, other)
  <2>1. AdvanceAt(s, p, other) /\ other \in Ids(p) /\ SameCore(p.orders[other], t.orders[other])
    BY <1>5, <1>7 DEF Onward, Akin
  <2>2. t.orders[other].oco = p.orders[other].oco
    <3>1. CASE other = id
      BY <1>7, <3>1
    <3>2. CASE other # id
      <4>1. other # n
        BY <1>1 DEF Ids
      <4> QED BY <1>7, <2>1, <3>2, <4>1
    <3> QED BY <3>1, <3>2
  <2>3. Advance(s.orders[other], t.orders[other])
    BY <2>1, <2>2 DEF AdvanceAt, Advance, SameTerms, SameCore
  <2>4. ASSUME Calm(s, other)
        PROVE  /\ t.orders[other].filled = s.orders[other].filled /\ Calm(t, other)
               /\ t.orders[other].status = "Filled" => s.orders[other].status = "Filled"
    <3>1. Calm(p, other) /\ p.orders[other].filled = s.orders[other].filled
          /\ (p.orders[other].status = "Filled" => s.orders[other].status = "Filled")
      BY <2>1, <2>4 DEF AdvanceAt
    <3>2. Calm(t, other)
      BY <1>7, <2>1, <3>1, AkinViews
    <3> QED BY <2>1, <3>1, <3>2 DEF SameCore
  <2> QED BY <2>3, <2>4 DEF AdvanceAt
<1>11. Onward(s, t)
  <2>1. t.bid <= s.bid /\ t.ask <= s.ask /\ Len(s.orders) <= Len(t.orders)
    BY <1>5, <1>8 DEF Onward, SameBook
  <2>2. t.price = s.price /\ t.walked = s.walked /\ t.atQuote = s.atQuote /\ t.quoted = s.quoted
    BY <1>5, <1>8 DEF Onward, SameBook
  <2> QED BY <1>10, <2>1, <2>2 DEF Onward
<1>12. ASSUME Len(t.orders) <= IdBound
       PROVE  Paired(t) /\ AllUnreached(t) /\ (AllCalm(s) => AllCalm(t))
  <2>1. Len(s.orders) <= IdBound
    BY <1>1, <1>5, <1>8, <1>12, Bounded
  <2>2. /\ Paired(p) /\ AllUnreached(p)
        /\ \A other \in Ids(p) : other > Len(s.orders) /\ p.orders[other].role = "Normal" => Calm(p, other)
    BY <1>3, <1>8, <1>12, <2>1 DEF Upheld, Places
  <2>3. AllUnreached(t)
    BY <1>7, <1>8, <2>2, AkinViews DEF AllUnreached
  <2>4. ASSUME AllCalm(s), NEW other \in Ids(t), t.orders[other].role = "Normal" PROVE Calm(t, other)
    <3>1. CASE other \in Ids(s)
      <4>1. AdvanceAt(s, t, other)
        BY <1>10, <3>1
      <4>2. s.orders[other].role = "Normal"
        BY <2>4, <4>1 DEF AdvanceAt, Advance
      <4> QED BY <2>4, <3>1, <4>1, <4>2 DEF AllCalm, AdvanceAt
    <3>2. CASE other \notin Ids(s)
      <4>1. Calm(p, other)
        BY <1>5, <1>8, <1>9, <2>2, <2>4, <3>2
      <4> QED BY <1>7, <1>8, <4>1, AkinViews
    <3> QED BY <3>1, <3>2
  <2> QED BY <1>7, <2>2, <2>3, <2>4 DEF AllCalm
<1>13. Upheld(t)
  BY <1>7, <1>12 DEF Upheld
<1>14. /\ \A other \in Ids(s) : t.orders[other].from = s.orders[other].from
       /\ \A other \in Ids(s) \ {id} : t.orders[other].chained = s.orders[other].chained
  <2>1. n \notin Ids(s)
    BY <1>1 DEF Ids
  <2> QED BY <1>3, <1>5, <1>7, <2>1 DEF Places
<1>15. t.orders[n].chained = NoOrder
  BY <1>1, <1>3, <1>6, <1>7 DEF Places, NotChained
<1>16. ASSUME NEW other \in Ids(t), other > n PROVE NotChained(t.orders[other])
  <2>1. other # n /\ other # id /\ other > Len(s.orders)
    BY <1>1, <1>6, <1>16 DEF Ids
  <2> QED BY <1>3, <1>7, <1>8, <1>16, <2>1 DEF Places
<1>17. ChainsAt(s, t, id, n)
  BY <1>6, <1>7, <1>8, <1>11, <1>12, <1>13, <1>14, <1>15, <1>16 DEF ChainsAt
<1> QED BY <1>4, <1>17

\* An order that places nothing, or its chained order.
Follows(s, t, id) ==
  /\ Upheld(t) /\ Onward(s, t) /\ (ChainsUpheld(s) => ChainsUpheld(t))
  /\ \A other \in Ids(s) : s.orders[other].chained # NoOrder => t.orders[other].chained # NoOrder
  /\ id \in Ids(s) => Placed(t, id)
  /\ id \notin Ids(s) => t = s

LEMMA ChainsFollow ==
  ASSUME OrdersConstants, NEW s, Upheld(s), NEW id \in Ids(s), s.orders[id].status = "Filled", s.orders[id].req.then # None,
         s.orders[id].chained = NoOrder, NEW t, ChainsAt(s, t, id, Len(s.orders) + 1)
  PROVE  Follows(s, t, id)
<1> DEFINE n == Len(s.orders) + 1
<1>1. /\ s \in StateRecords /\ t \in StateRecords /\ Len(s.orders) \in Nat /\ Len(t.orders) \in Nat
      /\ Len(s.orders) <= Len(t.orders) /\ Ids(s) \subseteq Ids(t) /\ Sound(s) /\ Onward(s, t) /\ Upheld(t)
      /\ \A other \in Ids(t) : other \in Ids(s) \/ other > Len(s.orders)
  BY UpheldSizes DEF ChainsAt, Upheld
<1>2. n \in Ids(t) /\ n \notin Ids(s) /\ n # NoOrder /\ n \in Nat /\ id < n /\ id # NoOrder
  BY <1>1 DEF ChainsAt, Ids, NoOrder
<1>3. ASSUME ChainSound(s) PROVE ChainSound(t)
  <2>1. ASSUME NEW other \in Ids(t), t.orders[other].chained # NoOrder
        PROVE  /\ t.orders[other].status = "Filled" /\ t.orders[other].req.then # None /\ t.orders[other].chained \in Ids(t)
               /\ t.orders[t.orders[other].chained].from = other /\ t.orders[other].chained > other
    <3>1. CASE other = id
      <4>1. t.orders[id].status = "Filled" /\ t.orders[id].req.then = s.orders[id].req.then
        BY <1>1 DEF Onward, AdvanceAt, Advance, SameTerms, IsOpen
      <4> QED BY <1>2, <3>1, <4>1 DEF ChainsAt
    <3>2. CASE other # id /\ other \in Ids(s)
      <4> DEFINE c == s.orders[other].chained
      <4>1. t.orders[other].chained = c
        BY <3>2 DEF ChainsAt
      <4>2. /\ s.orders[other].status = "Filled" /\ s.orders[other].req.then # None /\ c \in Ids(s)
            /\ s.orders[c].from = other /\ c > other
        BY <1>3, <2>1, <3>2, <4>1 DEF ChainSound
      <4>3. t.orders[other].status = "Filled" /\ t.orders[other].req.then = s.orders[other].req.then
        BY <1>1, <3>2, <4>2 DEF Onward, AdvanceAt, Advance, SameTerms, IsOpen
      <4> HIDE DEF c
      <4>4. t.orders[c].from = other /\ c \in Ids(t)
        BY <1>1, <4>2 DEF ChainsAt
      <4> QED BY <4>1, <4>2, <4>3, <4>4
    <3>3. CASE other \notin Ids(s)
      <4>1. other = n \/ other > n
        BY <1>1, <3>3 DEF Ids
      <4> QED BY <2>1, <4>1 DEF ChainsAt, NotChained
    <3> QED BY <3>1, <3>2, <3>3
  <2>2. ASSUME NEW other \in Ids(t), t.orders[other].from # NoOrder
        PROVE  t.orders[other].from \in Ids(t) /\ t.orders[t.orders[other].from].chained = other
    <3>1. CASE other \in Ids(s)
      <4> DEFINE f == s.orders[other].from
      <4>1. t.orders[other].from = f
        BY <3>1 DEF ChainsAt
      <4>2. f \in Ids(s) /\ s.orders[f].chained = other /\ other # NoOrder
        BY <1>3, <2>2, <3>1, <4>1 DEF ChainSound, Ids, NoOrder
      <4> HIDE DEF f
      <4>3. f # id
        BY <4>2
      <4>4. t.orders[f].chained = other
        BY <4>2, <4>3 DEF ChainsAt
      <4> QED BY <1>1, <4>1, <4>2, <4>4
    <3>2. CASE other = n
      BY <1>1, <3>2 DEF ChainsAt
    <3>3. CASE other \notin Ids(s) /\ other # n
      <4>1. other > n
        BY <1>1, <3>3 DEF Ids
      <4> QED BY <2>2, <4>1 DEF ChainsAt, NotChained
    <3> QED BY <3>1, <3>2, <3>3
  <2> QED BY <2>1, <2>2 DEF ChainSound
<1>4. ASSUME ChainsUpheld(s) PROVE ChainsUpheld(t)
  <2>1. Len(t.orders) <= IdBound => Len(s.orders) <= IdBound
    BY <1>1, Bounded
  <2> QED BY <1>3, <1>4, <2>1 DEF ChainsUpheld, ChainsAt
<1>5. \A other \in Ids(s) : s.orders[other].chained # NoOrder => t.orders[other].chained # NoOrder
  BY <1>2 DEF ChainsAt
<1>6. Placed(t, id)
  BY <1>2 DEF Placed, ChainsAt
<1> QED BY <1>1, <1>4, <1>5, <1>6 DEF Follows

LEMMA PlaceThenFollows ==
  ASSUME OrdersConstants, NEW s, Upheld(s), NEW id
  PROVE  Follows(s, PlaceThen(s, id), id)
<1> DEFINE o == s.orders[id]
           t == PlaceThen(s, id)
<1>1. s \in StateRecords /\ DOMAIN s.orders = Ids(s)
  BY SoundState, StateFields DEF Upheld
<1>2. Onward(s, s)
  BY <1>1, OnwardSelf
<1>3. CASE id \notin Ids(s)
  <2>1. t = s
    BY <1>1, <1>3 DEF PlaceThen
  <2> QED BY <1>2, <1>3, <2>1 DEF Follows
<1>4. CASE id \in Ids(s) /\ ~(o.status = "Filled" /\ o.req.then # None /\ o.chained = NoOrder)
  <2>1. t = s
    BY <1>1, <1>4 DEF PlaceThen
  <2>2. Placed(s, id)
    BY <1>4 DEF Placed
  <2> HIDE DEF t
  <2> QED BY <1>2, <1>4, <2>1, <2>2 DEF Follows, t
<1>5. CASE id \in Ids(s) /\ o.status = "Filled" /\ o.req.then # None /\ o.chained = NoOrder
  <2>1. t = Chain(s, id)
    BY <1>1, <1>5 DEF PlaceThen
  <2>2. ChainsAt(s, Chain(s, id), id, Len(s.orders) + 1)
    BY <1>5, ChainStep
  <2>3. Follows(s, Chain(s, id), id)
    BY <1>5, <2>2, ChainsFollow
  <2> QED BY <2>1, <2>3
<1> QED BY <1>3, <1>4, <1>5

\* A pass over the orders up to n, each placing its chained order.
ChainPass(f, before, s, n) ==
  f = [id \in 0..n |-> IF id = 0 THEN s
                       ELSE IF id \in DOMAIN before.orders \ OpenIds(before) THEN f[id - 1]
                       ELSE PlaceThen(f[id - 1], id)]
ChainTurn(before, u, id) == IF id \in DOMAIN before.orders \ OpenIds(before) THEN u ELSE PlaceThen(u, id)

LEMMA ChainPassIs ==
  ASSUME NEW f, NEW before, NEW s, NEW n
  PROVE  ChainPass(f, before, s, n) <=> f = [id \in 0..n |-> IF id = 0 THEN s ELSE ChainTurn(before, f[id - 1], id)]
  BY DEF ChainPass, ChainTurn

LEMMA ChainPassExists == ASSUME NEW before, NEW s, NEW n \in Nat PROVE \E f : ChainPass(f, before, s, n)
<1> DEFINE Broken == {k \in Nat : ~ \E f : ChainPass(f, before, s, k)}
<1> SUFFICES ASSUME Broken # {} PROVE FALSE
  OBVIOUS
<1>1. PICK k \in Broken : \A j \in Broken : k <= j
  BY LeastNumber
<1>2. k \in Nat /\ ~ \E f : ChainPass(f, before, s, k)
  OBVIOUS
<1>3. CASE k = 0
  <2>1. ChainPass([j \in 0..0 |-> s], before, s, 0)
    BY DEF ChainPass
  <2> QED BY <1>2, <1>3, <2>1
<1>4. CASE k # 0
  <2>1. k - 1 \in Nat /\ k - 1 \notin Broken
    BY <1>1, <1>2, <1>4
  <2>2. PICK f : ChainPass(f, before, s, k - 1)
    BY <2>1
  <2>3. f = [id \in 0..(k - 1) |-> IF id = 0 THEN s ELSE ChainTurn(before, f[id - 1], id)]
    BY <2>2, ChainPassIs
  <2> DEFINE h == [j \in 0..k |-> IF j = 0 THEN s ELSE ChainTurn(before, f[j - 1], j)]
  <2>4. \A j \in 0..(k - 1) : h[j] = f[j]
    BY <1>2, <2>1, <2>3
  <2>5. ASSUME NEW j \in 0..k, j # 0 PROVE ChainTurn(before, f[j - 1], j) = ChainTurn(before, h[j - 1], j)
    <3>1. j - 1 \in 0..(k - 1)
      BY <1>2, <2>5
    <3>2. h[j - 1] = f[j - 1]
      BY <2>4, <3>1
    <3> QED BY <3>2
  <2>6. h = [j \in 0..k |-> IF j = 0 THEN s ELSE ChainTurn(before, h[j - 1], j)]
    BY <2>5
  <2> HIDE DEF h
  <2>7. ChainPass(h, before, s, k)
    BY <2>6, ChainPassIs
  <2> QED BY <1>2, <2>7
<1> QED BY <1>3, <1>4

\* What the pass has done after it visited the orders up to k, `skip' being the
\* orders it leaves out.
Chaining(skip, s, t, k) ==
  /\ Upheld(t) /\ Onward(s, t) /\ (ChainsUpheld(s) => ChainsUpheld(t))
  /\ ChainsUpheld(s) /\ (\A id \in skip : Placed(s, id)) /\ Len(t.orders) <= IdBound
     => \A id \in Ids(t) : id <= k \/ id \in skip => Placed(t, id)

LEMMA PlacedFollows ==
  ASSUME NEW u, Sound(u), AllCalm(u), NEW t, Onward(u, t), NEW id \in Ids(u), Placed(u, id),
         u.orders[id].chained # NoOrder => t.orders[id].chained # NoOrder
  PROVE  Placed(t, id)
<1>1. u.orders[id] \in OrderRecords /\ Proper(u.orders[id])
  BY SoundState, StateFields DEF Sound, Shaped
<1>2. t.orders[id].req.then = u.orders[id].req.then /\ AdvanceAt(u, t, id)
  BY DEF Onward, AdvanceAt, Advance, SameTerms
<1>3. CASE u.orders[id].role = "Normal"
  <2>1. Calm(u, id)
    BY <1>3 DEF AllCalm
  <2>2. t.orders[id].status = "Filled" => u.orders[id].status = "Filled"
    BY <1>2, <2>1 DEF AdvanceAt
  <2> QED BY <1>2, <2>2 DEF Placed
<1>4. CASE u.orders[id].role # "Normal"
  <2>1. u.orders[id].req.then = None
    BY <1>1, <1>4 DEF Proper
  <2> QED BY <1>2, <2>1 DEF Placed
<1> QED BY <1>3, <1>4

LEMMA ChainingMore ==
  ASSUME OrdersConstants, NEW s, Sound(s), NEW skip, skip \subseteq Ids(s), NEW k \in Nat \ {0}, NEW u,
         Chaining(skip, s, u, k - 1), NEW t, IF k \in skip THEN t = u ELSE t = PlaceThen(u, k)
  PROVE  Chaining(skip, s, t, k)
<1>1. Upheld(u) /\ Onward(s, u) /\ (ChainsUpheld(s) => ChainsUpheld(u)) /\ Sound(u) /\ u \in StateRecords /\ s \in StateRecords
  BY SoundState DEF Chaining, Upheld
<1>2. /\ \A id \in Ids(u) : id \in Nat
      /\ Len(u.orders) \in Nat /\ Len(s.orders) \in Nat /\ Len(s.orders) <= Len(u.orders) /\ Ids(s) \subseteq Ids(u)
  <2>1. Len(u.orders) \in Nat /\ Len(s.orders) \in Nat /\ Len(s.orders) <= Len(u.orders)
    BY <1>1, StateFields DEF Onward
  <2> QED BY <2>1 DEF Ids
<1>3. \A id \in Ids(u) : id <= k => id = k \/ id <= k - 1
  BY <1>2
<1>4. CASE k \in skip
  BY <1>3, <1>4 DEF Chaining
<1>5. CASE k \notin skip
  <2>1. Follows(u, t, k)
    BY <1>1, <1>5, PlaceThenFollows
  <2>2. Upheld(t) /\ Onward(u, t) /\ (ChainsUpheld(u) => ChainsUpheld(t)) /\ t \in StateRecords
    BY <2>1, SoundState DEF Follows, Upheld
  <2>3. Onward(s, t)
    BY <1>1, <2>2, OnwardTrans
  <2>4. ASSUME ChainsUpheld(s), \A id \in skip : Placed(s, id), Len(t.orders) <= IdBound,
               NEW id \in Ids(t), id <= k \/ id \in skip
        PROVE  Placed(t, id)
    <3>1. Len(t.orders) \in Nat /\ Len(u.orders) <= Len(t.orders)
      BY <2>2, StateFields DEF Onward
    <3>2. Len(u.orders) <= IdBound
      BY <1>2, <2>4, <3>1, Bounded
    <3>3. AllCalm(u)
      BY <1>1, <2>4, <3>2 DEF ChainsUpheld
    <3>4. CASE id = k /\ k \in Ids(u)
      BY <2>1, <3>4 DEF Follows
    <3>5. CASE id # k /\ id \in Ids(u)
      <4>1. id <= k - 1 \/ id \in skip
        BY <1>3, <2>4, <3>5
      <4>2. Placed(u, id)
        BY <2>4, <3>2, <3>5, <4>1 DEF Chaining
      <4>3. u.orders[id].chained # NoOrder => t.orders[id].chained # NoOrder
        BY <2>1, <3>5 DEF Follows
      <4> QED BY <1>1, <2>2, <3>3, <3>5, <4>2, <4>3, PlacedFollows
    <3>6. CASE id \notin Ids(u)
      <4>1. k \notin Ids(u) => t = u
        BY <2>1 DEF Follows
      <4>2. k \in Ids(u)
        BY <2>4, <3>6, <4>1
      <4>3. id > Len(u.orders) /\ k <= Len(u.orders) /\ id \in Nat
        BY <1>2, <2>4, <3>1, <3>6, <4>2 DEF Ids
      <4>4. ~ (id <= k)
        BY <1>2, <4>3
      <4> QED BY <1>2, <2>4, <3>6, <4>4
    <3> QED BY <3>4, <3>5, <3>6
  <2> QED BY <1>1, <2>2, <2>3, <2>4 DEF Chaining
<1> QED BY <1>4, <1>5

LEMMA PlaceChainedDone ==
  ASSUME OrdersConstants, NEW s, Upheld(s), NEW before, DOMAIN before.orders \ OpenIds(before) \subseteq Ids(s)
  PROVE  Chaining(DOMAIN before.orders \ OpenIds(before), s, PlaceChained(before, s), IdBound)
<1> DEFINE n == IdBound
           skip == DOMAIN before.orders \ OpenIds(before)
           pass == CHOOSE f : ChainPass(f, before, s, n)
           Fine(k) == Chaining(skip, s, pass[k], k)
           Broken == {k \in 0..n : ~Fine(k)}
<1>1. Sound(s) /\ s \in StateRecords /\ n \in Nat
  BY SoundState DEF OrdersConstants, IdBound, Upheld
<1>2. PlaceChained(before, s) = pass[n]
  BY DEF ChainPass, Folded, PlaceChained
<1>3. ChainPass(pass, before, s, n)
  BY <1>1, ChainPassExists
<1>4. skip \subseteq Ids(s)
  OBVIOUS
<1> HIDE DEF n, pass
<1>5. ASSUME NEW k \in 0..n PROVE pass[k] = IF k = 0 THEN s ELSE IF k \in skip THEN pass[k - 1] ELSE PlaceThen(pass[k - 1], k)
  BY <1>3 DEF ChainPass
<1> HIDE DEF skip
<1>6. ASSUME Broken # {} PROVE FALSE
  <2>1. PICK k \in Broken : \A j \in Broken : k <= j
    <3>1. Broken \subseteq Nat
      BY <1>1
    <3> HIDE DEF Broken
    <3> QED BY <1>6, <3>1, LeastNumber
  <2>2. k \in 0..n /\ ~Chaining(skip, s, pass[k], k)
    OBVIOUS
  <2>3. CASE k = 0
    <3>1. \A id \in Ids(s) : ~ (id <= 0)
      BY <1>1, StateFields DEF Ids
    <3>2. Chaining(skip, s, s, 0)
      BY <1>1, <3>1, OnwardSelf DEF Chaining
    <3>3. pass[0] = s
      BY <1>1, <1>5
    <3> QED BY <2>2, <2>3, <3>2, <3>3
  <2>4. CASE k # 0
    <3>1. k - 1 \in 0..n /\ k - 1 \notin Broken /\ k \in Nat \ {0}
      <4>1. k \in 0..n /\ k # 0
        BY <2>2, <2>4
      <4> HIDE DEF Broken
      <4> QED BY <1>1, <2>1, <4>1
    <3>2. Chaining(skip, s, pass[k - 1], k - 1)
      <4>1. Fine(k - 1)
        <5> HIDE DEF Fine
        <5> QED BY <3>1
      <4> QED BY <4>1
    <3>3. IF k \in skip THEN pass[k] = pass[k - 1] ELSE pass[k] = PlaceThen(pass[k - 1], k)
      BY <1>5, <2>2, <2>4
    <3>4. Chaining(skip, s, pass[k], k)
      <4> DEFINE u == pass[k - 1]
                 t == pass[k]
      <4>1. Chaining(skip, s, u, k - 1) /\ IF k \in skip THEN t = u ELSE t = PlaceThen(u, k)
        BY <3>2, <3>3
      <4> HIDE DEF u, t
      <4>2. Chaining(skip, s, t, k)
        BY <1>1, <1>4, <3>1, <4>1, ChainingMore
      <4> QED BY <4>2 DEF t
    <3> QED BY <2>2, <3>4
  <2> QED BY <2>3, <2>4
<1>7. n \in 0..n
  BY <1>1
<1>8. Fine(n)
  <2> HIDE DEF Fine
  <2> QED BY <1>6, <1>7
<1>9. Chaining(skip, s, pass[n], n)
  BY <1>8
<1> HIDE DEF Fine, Broken
<1> QED BY <1>2, <1>9 DEF skip, n

-----------------------------------------------------------------------------
(* Commands *)

\* What a command keeps: the invariants, chains, and calm orders.
Acts(s, t) ==
  /\ Upheld(t) /\ ChainKeeps(s, t) /\ (t.walked => s.walked)
  /\ Len(t.orders) <= IdBound /\ AllCalm(s) => AllCalm(t)

LEMMA KeepsSizes ==
  ASSUME NEW s \in StateRecords, NEW t \in StateRecords, Len(s.orders) <= Len(t.orders)
  PROVE  /\ Len(s.orders) \in Nat /\ Len(t.orders) \in Nat /\ Ids(s) \subseteq Ids(t)
         /\ \A id \in Ids(t) : id \in Ids(s) \/ id > Len(s.orders)
         /\ Len(s.orders) = Len(t.orders) => Ids(s) = Ids(t)
<1>1. Len(s.orders) \in Nat /\ Len(t.orders) \in Nat
  BY StateFields
<1> QED BY <1>1 DEF Ids

LEMMA ActsTrans ==
  ASSUME OrdersConstants, NEW s \in StateRecords, NEW t, NEW u, Acts(s, t), Acts(t, u)
  PROVE  Acts(s, u)
<1>1. t \in StateRecords /\ u \in StateRecords
  BY SoundState DEF Acts, Upheld
<1>2. ChainKeeps(s, u)
  BY <1>1, ChainKeepsTrans DEF Acts
<1>3. Len(t.orders) \in Nat /\ Len(u.orders) \in Nat /\ Len(t.orders) <= Len(u.orders)
  BY <1>1, StateFields DEF Acts, ChainKeeps
<1>4. Len(u.orders) <= IdBound => Len(t.orders) <= IdBound
  BY <1>3, Bounded
<1> QED BY <1>2, <1>4 DEF Acts

LEMMA ActsSelf ==
  ASSUME NEW s, Upheld(s)
  PROVE  Acts(s, s)
<1>1. s \in StateRecords
  BY SoundState DEF Upheld
<1>2. Len(s.orders) \in Nat /\ Len(s.orders) <= Len(s.orders) /\ \A id \in Ids(s) : ~ (id > Len(s.orders))
  BY <1>1, StateFields DEF Ids
<1> QED BY <1>2 DEF Acts, ChainKeeps

LEMMA WorksCalm ==
  ASSUME NEW s, Sound(s), NEW t, Works(s, t), AllCalm(s)
  PROVE  AllCalm(t)
<1>1. s \in StateRecords /\ t \in StateRecords /\ Len(s.orders) <= Len(t.orders) /\ Onward(s, t) /\ Fresh(s, t)
  BY WorksSizes DEF Works
<1>2. ASSUME NEW id \in Ids(t), t.orders[id].role = "Normal" PROVE Calm(t, id)
  <2>1. id \in Ids(s)
    BY <1>1, <1>2, KeepsSizes DEF Fresh
  <2>2. AdvanceAt(s, t, id) /\ s.orders[id].role = "Normal"
    BY <1>1, <1>2, <2>1 DEF Onward, AdvanceAt, Advance
  <2> QED BY <2>1, <2>2 DEF AllCalm, AdvanceAt
<1> QED BY <1>2 DEF AllCalm

LEMMA WorksActs ==
  ASSUME OrdersConstants, NEW s, Upheld(s), NEW t, Works(s, t),
         Len(t.orders) <= IdBound /\ AllUnreached(s) => AllUnreached(t)
  PROVE  Acts(s, t)
<1>1. Sound(s) /\ Sound(t) /\ s \in StateRecords /\ t \in StateRecords /\ Len(s.orders) <= Len(t.orders)
  BY WorksSizes DEF Upheld
<1>2. Len(s.orders) \in Nat /\ Len(t.orders) \in Nat
  BY <1>1, StateFields
<1>3. Len(t.orders) <= IdBound => Len(s.orders) <= IdBound
  BY <1>1, <1>2, Bounded
<1>4. Upheld(t)
  BY <1>1, <1>3 DEF Upheld, Works
<1>5. ChainKeeps(s, t)
  BY <1>1, WorksChains
<1>6. AllCalm(s) => AllCalm(t)
  BY <1>1, WorksCalm
<1>7. t.walked = s.walked
  BY DEF Works, Onward
<1> QED BY <1>4, <1>5, <1>6, <1>7 DEF Acts

\* A step that adds no order reaches no trigger.
LEMMA SameSizeUnreached ==
  ASSUME NEW s, Sound(s), NEW t, Works(s, t), Len(t.orders) = Len(s.orders), AllUnreached(s)
  PROVE  AllUnreached(t)
<1>1. s \in StateRecords /\ t \in StateRecords /\ Onward(s, t) /\ Ids(t) = Ids(s)
  BY WorksSizes DEF Ids
<1> QED BY <1>1, UnreachedOnward DEF AllUnreached

LEMMA SameSizeActs ==
  ASSUME OrdersConstants, NEW s, Upheld(s), NEW t, Works(s, t), Len(t.orders) = Len(s.orders)
  PROVE  Acts(s, t)
<1>1. Sound(s)
  BY DEF Upheld
<1> QED BY <1>1, SameSizeUnreached, WorksActs

\* A step that changes no order and no price works.
LEMMA SameOrdersWorks ==
  ASSUME NEW s, Sound(s), NEW t \in StateRecords, t.orders = s.orders, SameBook(s, t)
  PROVE  Works(s, t)
<1>1. s \in StateRecords /\ \A id \in Ids(s) : s.orders[id] \in OrderRecords /\ Proper(s.orders[id])
  BY SoundState, StateFields DEF Sound, Shaped
<1>2. AllTidy(s, t)
  BY <1>1, TidySelf DEF AllTidy
<1>3. \A id \in Ids(s) : t.orders[id].req.qty <= s.orders[id].req.qty
  BY <1>1, OrderFields
<1> QED BY <1>2, <1>3, TidyFits

LEMMA KillState ==
  ASSUME NEW s \in StateRecords, NEW why \in Reasons
  PROVE  LET t == [s EXCEPT !.kill = why] IN t \in StateRecords /\ t.orders = s.orders /\ SameBook(s, t)
  BY DEF StateRecords, SameBook

LEMMA KillWorks ==
  ASSUME NEW s, Sound(s), NEW why \in Reasons
  PROVE  LET t == [s EXCEPT !.kill = why] IN Works(s, t) /\ t.orders = s.orders
<1> DEFINE t == [s EXCEPT !.kill = why]
<1>1. t \in StateRecords /\ t.orders = s.orders /\ SameBook(s, t)
  BY SoundState, KillState
<1> HIDE DEF t
<1>2. Works(s, t) /\ t.orders = s.orders
  BY <1>1, SameOrdersWorks
<1> QED BY <1>2 DEF t

LEMMA TripWorks ==
  ASSUME NEW s, Sound(s), NEW why \in Reasons
  PROVE  Works(s, TripLatch(s, why)) /\ Len(TripLatch(s, why).orders) = Len(s.orders)
<1> DEFINE latched == IF s.kill = "NONE" THEN [s EXCEPT !.kill = why] ELSE s
           t == EndOrders(latched, Untenable(s), "KILL_SWITCH")
<1>1. Works(s, latched) /\ latched.orders = s.orders
  <2>1. Works(s, s)
    BY WorksSelf
  <2>2. CASE s.kill = "NONE"
    BY <2>2, KillWorks
  <2>3. CASE s.kill # "NONE"
    BY <2>1, <2>3
  <2> QED BY <2>2, <2>3
<1>2. TripLatch(s, why) = t
  BY DEF TripLatch
<1> HIDE DEF latched
<1>3. Sound(latched) /\ "KILL_SWITCH" \in Reasons
  BY <1>1 DEF Works, Reasons
<1>4. Works(latched, t) /\ Len(t.orders) = Len(latched.orders)
  BY <1>3, EndOrdersWork
<1> HIDE DEF t
<1>5. Works(s, t) /\ Len(t.orders) = Len(s.orders)
  BY <1>1, <1>4, WorksTrans
<1> QED BY <1>2, <1>5

LEMMA CheckLossWorks ==
  ASSUME NEW s, Sound(s)
  PROVE  Works(s, CheckLoss(s)) /\ Len(CheckLoss(s).orders) = Len(s.orders)
<1>1. "DAILY_LOSS" \in Reasons
  BY DEF Reasons
<1> QED BY <1>1, WorksSelf, TripWorks DEF CheckLoss

LEMMA CheckLossActs ==
  ASSUME OrdersConstants, NEW s, Upheld(s)
  PROVE  Acts(s, CheckLoss(s)) /\ Len(CheckLoss(s).orders) = Len(s.orders)
<1>1. Sound(s)
  BY DEF Upheld
<1> QED BY <1>1, CheckLossWorks, SameSizeActs

LEMMA TripKillActs ==
  ASSUME OrdersConstants, NEW s, Upheld(s)
  PROVE  Acts(s, TripManually(s))
<1> DEFINE t == TripLatch(s, "MANUAL")
           u == [t EXCEPT !.kill = "MANUAL"]
<1>1. Sound(s) /\ "MANUAL" \in Reasons
  BY DEF Upheld, Reasons
<1>2. Works(s, t) /\ Len(t.orders) = Len(s.orders)
  BY <1>1, TripWorks
<1> HIDE DEF t
<1>3. Sound(t)
  BY <1>2 DEF Works
<1>4. Works(t, u) /\ u.orders = t.orders
  BY <1>1, <1>3, KillWorks
<1>5. u = TripManually(s)
  BY DEF TripManually, t
<1> HIDE DEF u
<1>6. Works(s, u) /\ Len(u.orders) = Len(s.orders)
  BY <1>1, <1>2, <1>4, WorksTrans
<1>7. Acts(s, u)
  BY <1>6, SameSizeActs
<1> QED BY <1>5, <1>7

LEMMA ResetKillActs ==
  ASSUME OrdersConstants, NEW s, Upheld(s)
  PROVE  Acts(s, ResetLatch(s))
<1> DEFINE t == [s EXCEPT !.kill = "NONE"]
<1>1. Sound(s) /\ "NONE" \in Reasons /\ s \in StateRecords
  BY SoundState DEF Upheld, Reasons
<1>2. Works(s, t) /\ t.orders = s.orders
  BY <1>1, KillWorks
<1>3. ResetLatch(s) = CheckLoss(t)
  BY DEF ResetLatch
<1> HIDE DEF t
<1>4. Acts(s, t)
  BY <1>2, SameSizeActs
<1>5. Acts(t, CheckLoss(t))
  BY <1>4, CheckLossActs DEF Acts
<1> QED BY <1>1, <1>3, <1>4, <1>5, ActsTrans

LEMMA PlacesActs ==
  ASSUME OrdersConstants, NEW s, Upheld(s), NEW t, NEW r, Places(s, t, r)
  PROVE  Acts(s, t)
<1>1. Sound(s) /\ Sound(t) /\ s \in StateRecords /\ t \in StateRecords /\ Len(s.orders) <= Len(t.orders) /\ Onward(s, t)
  BY SoundState DEF Upheld, Places, Onward
<1>2. Len(s.orders) \in Nat /\ Len(t.orders) \in Nat /\ \A id \in Ids(t) : id \in Ids(s) \/ id > Len(s.orders)
  BY <1>1, KeepsSizes
<1>3. Len(t.orders) <= IdBound => Len(s.orders) <= IdBound
  BY <1>1, <1>2, Bounded
<1>4. Upheld(t)
  BY <1>1, <1>3 DEF Upheld, Places
<1>5. ChainKeeps(s, t)
  BY PlacesChains
<1>6. ASSUME AllCalm(s), Len(t.orders) <= IdBound, NEW id \in Ids(t), t.orders[id].role = "Normal"
      PROVE  Calm(t, id)
  <2>1. CASE id \in Ids(s)
    <3>1. AdvanceAt(s, t, id) /\ s.orders[id].role = "Normal"
      BY <1>1, <1>6, <2>1 DEF Onward, AdvanceAt, Advance
    <3> QED BY <1>6, <2>1, <3>1 DEF AllCalm, AdvanceAt
  <2>2. CASE id \notin Ids(s)
    BY <1>2, <1>6, <2>2 DEF Places
  <2> QED BY <2>1, <2>2
<1>7. t.walked = s.walked
  BY <1>1 DEF Onward
<1> QED BY <1>4, <1>5, <1>6, <1>7 DEF Acts, AllCalm

LEMMA SubmitActs ==
  ASSUME OrdersConstants, NEW s, Upheld(s), NEW r \in OrderRequests
  PROVE  Acts(s, SubmitRequest(s, r))
<1> DEFINE m == CheckLoss(s)
<1>1. Acts(s, m) /\ s \in StateRecords
  BY CheckLossActs, SoundState DEF Upheld
<1> HIDE DEF m
<1>2. Upheld(m) /\ Sound(m)
  BY <1>1 DEF Acts, Upheld
<1>3. Acts(m, Place(m, r))
  BY <1>2, PlacePlaces, PlacesActs
<1> QED BY <1>1, <1>3, ActsTrans DEF SubmitRequest, m

LEMMA CancelOneActs ==
  ASSUME OrdersConstants, NEW s, Upheld(s), NEW id \in Ids(s)
  PROVE  Acts(s, CancelOne(s, id))
<1>1. Sound(s) /\ "USER_CANCEL" \in Reasons
  BY DEF Upheld, Reasons
<1>2. Works(s, EndOrder(s, id, "USER_CANCEL"))
      /\ Len(EndOrder(s, id, "USER_CANCEL").orders) = Len(s.orders)
  BY <1>1, EndOrderWorks DEF OneChanged
<1> QED BY <1>2, ActsSelf, SameSizeActs DEF CancelOne

LEMMA CancelAllActs ==
  ASSUME OrdersConstants, NEW s, Upheld(s)
  PROVE  Acts(s, CancelAllOrders(s))
<1>1. Sound(s) /\ "USER_CANCEL" \in Reasons
  BY DEF Upheld, Reasons
<1>2. Works(s, EndOrders(s, OpenIds(s), "USER_CANCEL"))
      /\ Len(EndOrders(s, OpenIds(s), "USER_CANCEL").orders) = Len(s.orders)
  BY <1>1, EndOrdersWork
<1> QED BY <1>2, ActsSelf, SameSizeActs DEF CancelAllOrders

\* An order changed in size, limit or level.
AlteredTo(s, o, p) ==
  /\ p \in OrderRecords /\ p.filled = o.filled /\ p.status = o.status /\ p.role = o.role
  /\ p.reduceOnly = o.reduceOnly /\ SameLinks(o, p) /\ p.req.then = o.req.then /\ Proper(p)
  /\ IsOpen(p) /\ KeptWithin(p) => Remaining(p) <= ExitCapacity(s, p.req.side)
Altered(s, t, id) ==
  /\ Sound(t) /\ (Paired(s) => Paired(t)) /\ AlteredTo(s, s.orders[id], t.orders[id])
  /\ OneChanged(s, t, id, t.orders[id])

LEMMA RequestFields ==
  ASSUME NEW r \in RequestRecords, NEW n \in Nat
  PROVE  /\ LET q == [r EXCEPT !.qty = n]
            IN  /\ q \in RequestRecords /\ q.qty = n /\ q.limit = r.limit /\ q.ioc = r.ioc /\ q.trigger = r.trigger
                /\ q.side = r.side /\ q.bracket = r.bracket /\ q.exitsOnly = r.exitsOnly /\ q.then = r.then /\ q.walk = r.walk
         /\ LET q == [r EXCEPT !.limit = n]
            IN  /\ q \in RequestRecords /\ q.qty = r.qty /\ q.limit = n /\ q.ioc = r.ioc /\ q.trigger = r.trigger
                /\ q.side = r.side /\ q.bracket = r.bracket /\ q.exitsOnly = r.exitsOnly /\ q.then = r.then /\ q.walk = r.walk
  BY DEF RequestRecords

LEMMA TriggerField ==
  ASSUME NEW r \in RequestRecords, NEW g \in Triggers
  PROVE  LET q == [r EXCEPT !.trigger = g]
         IN  /\ q \in RequestRecords /\ q.qty = r.qty /\ q.limit = r.limit /\ q.ioc = r.ioc /\ q.trigger = g
             /\ q.side = r.side /\ q.bracket = r.bracket /\ q.exitsOnly = r.exitsOnly /\ q.then = r.then /\ q.walk = r.walk
  BY DEF RequestRecords

LEMMA WithRequest ==
  ASSUME NEW o \in OrderRecords, NEW r \in RequestRecords
  PROVE  LET p == [o EXCEPT !.req = r]
         IN  /\ p \in OrderRecords /\ p.req = r /\ p.filled = o.filled /\ p.status = o.status /\ p.role = o.role
             /\ p.reduceOnly = o.reduceOnly /\ SameLinks(o, p)
  BY DEF OrderRecords, SameLinks

LEMMA LevelTrigger ==
  ASSUME NEW g \in Triggers, g # None, NEW n \in Nat
  PROVE  <<[g[1] EXCEPT !.level = n]>> \in Triggers /\ <<[g[1] EXCEPT !.level = n]>> # None
<1>1. g[1] \in [below : BOOLEAN, level : Int]
  BY Option DEF Triggers
<1> DEFINE x == [g[1] EXCEPT !.level = n]
<1>2. x \in [below : BOOLEAN, level : Int]
  BY <1>1
<1> HIDE DEF x
<1>3. <<x>> \in Seq([below : BOOLEAN, level : Int]) /\ Len(<<x>>) = 1
  BY <1>2
<1>4. <<x>> # <<>>
  BY <1>3
<1> QED BY <1>3, <1>4 DEF Triggers, Optional, None, x

LEMMA AlteredProper ==
  ASSUME NEW o \in OrderRecords, Proper(o), NEW r \in RequestRecords, NEW p \in OrderRecords, p.req = r,
         p.filled = o.filled, p.status = o.status, p.role = o.role, SameLinks(o, p),
         r.bracket = o.req.bracket, r.exitsOnly = o.req.exitsOnly, r.then = o.req.then, r.walk = o.req.walk,
         IsOpen(o) => o.filled < r.qty, o.status = "Armed" => r.trigger # None,
         o.role # "Normal" /\ r.ioc => r.limit = 0
  PROVE  Proper(p)
  BY DEF Proper, SameLinks, IsOpen

LEMMA ChangedAltered ==
  ASSUME NEW s \in StateRecords, NEW o \in OrderRecords, Proper(o), NEW c \in Changes, ~Refused(s, o, c),
         IsOpen(o) /\ KeptWithin(o) => Remaining(o) <= ExitCapacity(s, o.req.side)
  PROVE  AlteredTo(s, o, Changed(o, c))
<1> DEFINE p == Changed(o, c)
           r == p.req
<1>1. o.req \in RequestRecords /\ o.req.trigger \in Triggers /\ c.value \in Nat /\ c.field \in {"qty", "limit", "level"}
      /\ o.filled \in Nat /\ o.req.side \in Sides /\ o.req.qty \in Nat
  BY OrderFields DEF Changes
<1>2. IsOpen(o) /\ ExitCapacity(s, o.req.side) \in Nat
  BY Capacity DEF Refused
<1>3. CASE c.field = "qty"
  <2> DEFINE q == [o.req EXCEPT !.qty = c.value]
  <2>1. q \in RequestRecords /\ q.qty = c.value /\ q.limit = o.req.limit /\ q.ioc = o.req.ioc /\ q.trigger = o.req.trigger
        /\ q.side = o.req.side /\ q.bracket = o.req.bracket /\ q.exitsOnly = o.req.exitsOnly /\ q.then = o.req.then
        /\ q.walk = o.req.walk
    BY <1>1, RequestFields
  <2>2. p = [o EXCEPT !.req = q]
    BY <1>3 DEF Changed
  <2> HIDE DEF q, p
  <2>3. /\ p \in OrderRecords /\ p.req = q /\ p.filled = o.filled /\ p.status = o.status /\ p.role = o.role
        /\ p.reduceOnly = o.reduceOnly /\ SameLinks(o, p)
    BY <2>1, <2>2, WithRequest
  <2>4. c.value > o.filled /\ ~o.reduceOnly /\ (KeptWithin(o) => ~ (c.value > o.filled + ExitCapacity(s, o.req.side)))
    <3>1. ~ (c.value <= o.filled) /\ ~o.reduceOnly /\ (KeptWithin(o) => ~ (c.value > o.filled + ExitCapacity(s, o.req.side)))
      BY <1>3 DEF Refused
    <3> QED BY <1>1, <3>1
  <2>5. Proper(p)
    <3>1. o.role # "Normal" /\ q.ioc => q.limit = 0
      BY <2>1 DEF Proper
    <3>2. o.status = "Armed" => q.trigger # None
      BY <2>1 DEF Proper
    <3>3. o.filled < q.qty
      BY <1>1, <2>1, <2>4
    <3> QED BY <2>1, <2>3, <3>1, <3>2, <3>3, AlteredProper
  <2>6. KeptWithin(p) => Remaining(p) <= ExitCapacity(s, p.req.side)
    <3>1. KeptWithin(p) => KeptWithin(o)
      BY <2>3 DEF KeptWithin
    <3>2. Remaining(p) = c.value - o.filled /\ p.req.side = o.req.side
      BY <2>1, <2>3 DEF Remaining
    <3> QED BY <1>1, <1>2, <2>4, <3>1, <3>2
  <2>7. p.req.then = o.req.then
    BY <2>1, <2>3
  <2> QED BY <2>3, <2>5, <2>6, <2>7 DEF AlteredTo, p
<1>4. CASE c.field = "limit"
  <2> DEFINE q == [o.req EXCEPT !.limit = c.value]
  <2>1. q \in RequestRecords /\ q.qty = o.req.qty /\ q.limit = c.value /\ q.ioc = o.req.ioc /\ q.trigger = o.req.trigger
        /\ q.side = o.req.side /\ q.bracket = o.req.bracket /\ q.exitsOnly = o.req.exitsOnly /\ q.then = o.req.then
        /\ q.walk = o.req.walk
    BY <1>1, RequestFields
  <2>2. p = [o EXCEPT !.req = q]
    BY <1>4 DEF Changed
  <2> HIDE DEF q, p
  <2>3. /\ p \in OrderRecords /\ p.req = q /\ p.filled = o.filled /\ p.status = o.status /\ p.role = o.role
        /\ p.reduceOnly = o.reduceOnly /\ SameLinks(o, p)
    BY <2>1, <2>2, WithRequest
  <2>4. o.req.limit # 0
    BY <1>4 DEF Refused
  <2>5. Proper(p)
    <3>1. o.role # "Normal" => ~q.ioc
      BY <2>1, <2>4 DEF Proper
    <3>2. o.status = "Armed" => q.trigger # None
      BY <2>1 DEF Proper
    <3>3. o.filled < q.qty
      BY <1>2, <2>1 DEF Proper
    <3> QED BY <2>1, <2>3, <3>1, <3>2, <3>3, AlteredProper
  <2>6. KeptWithin(p) => Remaining(p) <= ExitCapacity(s, p.req.side)
    <3>1. KeptWithin(p) => KeptWithin(o)
      BY <2>3 DEF KeptWithin
    <3>2. Remaining(p) = Remaining(o) /\ p.req.side = o.req.side
      BY <2>1, <2>3 DEF Remaining
    <3> QED BY <1>2, <3>1, <3>2
  <2>7. p.req.then = o.req.then
    BY <2>1, <2>3
  <2> QED BY <2>3, <2>5, <2>6, <2>7 DEF AlteredTo, p
<1>5. CASE c.field = "level"
  <2> DEFINE g == <<[o.req.trigger[1] EXCEPT !.level = c.value]>>
             q == [o.req EXCEPT !.trigger = g]
  <2>0. o.status = "Armed" /\ o.req.trigger # None
    BY <1>5 DEF Refused
  <2>1. g \in Triggers /\ g # None
    BY <1>1, <2>0, LevelTrigger
  <2>2. p = [o EXCEPT !.req = q]
    BY <1>5 DEF Changed
  <2> HIDE DEF g
  <2>3. q \in RequestRecords /\ q.qty = o.req.qty /\ q.limit = o.req.limit /\ q.ioc = o.req.ioc /\ q.trigger = g
        /\ q.side = o.req.side /\ q.bracket = o.req.bracket /\ q.exitsOnly = o.req.exitsOnly /\ q.then = o.req.then
        /\ q.walk = o.req.walk
    BY <1>1, <2>1, TriggerField
  <2> HIDE DEF q, p
  <2>4. /\ p \in OrderRecords /\ p.req = q /\ p.filled = o.filled /\ p.status = o.status /\ p.role = o.role
        /\ p.reduceOnly = o.reduceOnly /\ SameLinks(o, p)
    BY <2>2, <2>3, WithRequest
  <2>5. Proper(p)
    <3>1. o.role # "Normal" /\ q.ioc => q.limit = 0
      BY <2>3 DEF Proper
    <3>2. q.trigger # None
      BY <2>1, <2>3
    <3>3. o.filled < q.qty
      BY <1>2, <2>3 DEF Proper
    <3> QED BY <2>3, <2>4, <3>1, <3>2, <3>3, AlteredProper
  <2>6. KeptWithin(p) => Remaining(p) <= ExitCapacity(s, p.req.side)
    <3>1. KeptWithin(p) => KeptWithin(o)
      BY <2>4 DEF KeptWithin
    <3>2. Remaining(p) = Remaining(o) /\ p.req.side = o.req.side
      BY <2>3, <2>4 DEF Remaining
    <3> QED BY <1>2, <3>1, <3>2
  <2>7. p.req.then = o.req.then
    BY <2>3, <2>4
  <2> QED BY <2>4, <2>5, <2>6, <2>7 DEF AlteredTo, p
<1> QED BY <1>1, <1>3, <1>4, <1>5

LEMMA AlteredState ==
  ASSUME NEW s, Sound(s), NEW id \in Ids(s), NEW p, AlteredTo(s, s.orders[id], p)
  PROVE  Altered(s, WithOrder(s, id, p), id)
<1> DEFINE t == WithOrder(s, id, p)
           o == s.orders[id]
<1>1. s \in StateRecords /\ Shaped(s) /\ p \in OrderRecords
  BY SoundState DEF AlteredTo
<1>2. OneChanged(s, t, id, p)
  BY <1>1, WithOrderState
<1> HIDE DEF t
<1>3. /\ t \in StateRecords /\ SameBook(s, t) /\ Len(t.orders) = Len(s.orders) /\ t.orders[id] = p /\ Ids(t) = Ids(s)
      /\ \A other \in Ids(s) : other # id => t.orders[other] = s.orders[other]
  BY <1>2 DEF OneChanged, Ids
<1>4. ASSUME NEW other \in Ids(s)
      PROVE  /\ SameLinks(s.orders[other], t.orders[other]) /\ t.orders[other].role = s.orders[other].role
             /\ Proper(t.orders[other]) /\ Fits(t, other)
             /\ t.orders[other].filled = s.orders[other].filled /\ t.orders[other].status = s.orders[other].status
  <2>1. CASE other = id
    <3>1. ExitCapacity(t, p.req.side) = ExitCapacity(s, p.req.side)
      BY <1>2, <1>1, OneChangedBook
    <3>2. Fits(t, id)
      BY <1>3, <3>1 DEF AlteredTo, Fits
    <3> QED BY <1>3, <2>1, <3>2 DEF AlteredTo
  <2>2. CASE other # id
    <3>1. t.orders[other] = s.orders[other]
      BY <1>3, <2>2
    <3>2. Proper(s.orders[other]) /\ Fits(s, other)
      BY <1>1 DEF Shaped, Sound
    <3>3. Fits(t, other)
      BY <1>2, <1>1, <3>1, <3>2, OneChangedBook DEF Fits
    <3> QED BY <3>1, <3>2, <3>3 DEF SameLinks
  <2> QED BY <2>1, <2>2
<1>5. Shaped(t)
  BY <1>1, <1>3, <1>4, Relinked
<1>6. Sound(t)
  BY <1>3, <1>4, <1>5 DEF Sound
<1>7. ASSUME Paired(s), NEW x \in Ids(t), t.orders[x].role = "Normal", t.orders[x].oco # NoOrder, t.orders[x].filled > 0
       PROVE  t.orders[t.orders[x].oco].filled = 0 /\ ~IsOpen(t.orders[t.orders[x].oco])
  <2> DEFINE m == s.orders[x].oco
  <2>1. x \in Ids(s) /\ s.orders[x].role = "Normal" /\ t.orders[x].oco = m /\ m # NoOrder /\ s.orders[x].filled > 0
    BY <1>3, <1>4, <1>7 DEF SameLinks
  <2>2. s.orders[m].filled = 0 /\ ~IsOpen(s.orders[m])
    BY <1>7, <2>1 DEF Paired, PairHolds
  <2>3. m \in Ids(s)
    BY <1>1, <2>1, LinkedOnes
  <2> HIDE DEF m
  <2>4. t.orders[m].filled = s.orders[m].filled /\ t.orders[m].status = s.orders[m].status
    BY <1>4, <2>3
  <2> QED BY <2>1, <2>2, <2>4 DEF IsOpen
<1>8. Paired(s) => Paired(t)
  BY <1>7 DEF Paired, PairHolds
<1>9. AlteredTo(s, o, t.orders[id]) /\ OneChanged(s, t, id, t.orders[id])
  BY <1>2, <1>3
<1>10. Altered(s, t, id)
  BY <1>6, <1>8, <1>9 DEF Altered
<1> QED BY <1>10 DEF t

\* What was altered and then matched and checked: the other orders keep calm.
LEMMA AlteredActs ==
  ASSUME OrdersConstants, NEW s, Upheld(s), NEW id \in Ids(s), NEW n, Altered(s, n, id),
         NEW x, Works(n, x), Settled(x, id), NEW t, Checks(x, t)
  PROVE  Acts(s, t)
<1>1. /\ s \in StateRecords /\ n \in StateRecords /\ SameBook(s, n) /\ Len(n.orders) = Len(s.orders) /\ Ids(n) = Ids(s)
      /\ Sound(n) /\ \A other \in Ids(s) : other # id => n.orders[other] = s.orders[other]
  BY SoundState DEF Upheld, Altered, OneChanged, Ids
<1>2. Sound(x) /\ Works(x, t) /\ x \in StateRecords
  BY SoundState DEF Works, Checks
<1>3. Works(n, t) /\ t \in StateRecords /\ Sound(t)
  BY <1>1, <1>2, WorksTrans, SoundState DEF Works
<1>4. Len(t.orders) \in Nat /\ Len(s.orders) \in Nat /\ Len(s.orders) <= Len(t.orders)
  BY <1>1, <1>3, StateFields DEF Works, Onward
<1>5. Len(t.orders) <= IdBound => Len(s.orders) <= IdBound
  BY <1>4, Bounded
<1>6. Upheld(t)
  BY <1>3, <1>5 DEF Upheld, Altered, Works, Checks
<1>7. ChainKeeps(s, n)
  <2>1. \A other \in Ids(s) : /\ n.orders[other].chained = s.orders[other].chained
                              /\ n.orders[other].from = s.orders[other].from
                              /\ n.orders[other].req.then = s.orders[other].req.then
                              /\ n.orders[other].status = s.orders[other].status
    BY <1>1 DEF Altered, AlteredTo, SameLinks
  <2>2. Len(s.orders) <= Len(n.orders) /\ \A other \in Ids(n) : ~ (other > Len(s.orders))
    BY <1>1, <1>4 DEF Ids
  <2> QED BY <2>1, <2>2 DEF ChainKeeps
<1>8. ChainKeeps(s, t)
  BY <1>1, <1>3, <1>7, WorksChains, ChainKeepsTrans
<1>9. ASSUME Len(t.orders) <= IdBound, AllCalm(s), NEW other \in Ids(t), t.orders[other].role = "Normal"
      PROVE  Calm(t, other)
  <2>1. Onward(n, t) /\ Fresh(n, t) /\ Onward(n, x) /\ Onward(x, t) /\ Len(n.orders) <= Len(x.orders)
    BY <1>2, <1>3 DEF Works, Onward
  <2>2. other \in Ids(n)
    BY <1>1, <1>3, <1>9, <2>1, KeepsSizes DEF Fresh, Onward
  <2>3. n.orders[other].role = "Normal" /\ x.orders[other].role = "Normal" /\ other \in Ids(x)
    <3>1. other \in Ids(x)
      BY <1>1, <1>2, <2>1, <2>2, KeepsSizes
    <3> QED BY <1>9, <2>1, <2>2, <3>1 DEF Onward, AdvanceAt, Advance
  <2>4. CASE other = id
    BY <1>9, <2>3, <2>4 DEF Checks
  <2>5. CASE other # id
    <3>1. n.orders[other] = s.orders[other] /\ other \in Ids(s)
      BY <1>1, <2>2, <2>5
    <3>2. Calm(s, other)
      BY <1>9, <2>3, <3>1 DEF AllCalm
    <3>3. Calm(n, other)
      <4>1. OneChanged(s, n, id, n.orders[id])
        BY DEF Altered
      <4>2. /\ \A side : Depth(n, side) = Depth(s, side)
            /\ \A p : (Marketable(n, p) <=> Marketable(s, p)) /\ (Reached(n, p) <=> Reached(s, p))
        BY <1>1, <4>1, OneChangedBook
      <4> QED BY <3>1, <3>2, <4>2 DEF Calm, Swept
    <3> QED BY <2>1, <2>2, <3>3 DEF Onward, AdvanceAt
  <2> QED BY <2>4, <2>5
<1>10. t.walked = s.walked
  BY <1>1, <1>3 DEF Works, Onward, SameBook
<1> QED BY <1>6, <1>8, <1>9, <1>10 DEF Acts, AllCalm

LEMMA ChangeActs ==
  ASSUME OrdersConstants, NEW s, Upheld(s), NEW id \in Ids(s), NEW c \in Changes
  PROVE  Acts(s, ChangeOrder(s, id, c))
<1> DEFINE o == s.orders[id]
           n == WithOrder(s, id, Changed(o, c))
           x == IF o.status = "Armed" THEN n ELSE MatchSymbols(n, id)
<1>1. Sound(s) /\ s \in StateRecords /\ o \in OrderRecords /\ Proper(o) /\ Fits(s, id)
  BY SoundState, StateFields DEF Upheld, Sound, Shaped
<1>2. ChangeOrder(s, id, c) = s \/ (ChangeOrder(s, id, c) = CheckTriggers(x) /\ ~Refused(s, o, c))
  BY DEF ChangeOrder
<1>3. CASE ChangeOrder(s, id, c) = s
  BY <1>3, ActsSelf
<1>4. CASE ChangeOrder(s, id, c) = CheckTriggers(x) /\ ~Refused(s, o, c)
  <2>1. AlteredTo(s, o, Changed(o, c))
    BY <1>1, <1>4, ChangedAltered DEF Fits
  <2>2. Altered(s, n, id)
    BY <1>1, <2>1, AlteredState
  <2> HIDE DEF n
  <2>3. Sound(n) /\ n.orders[id].status = o.status /\ id \in Ids(n)
    BY <2>2 DEF Altered, AlteredTo, OneChanged, Ids
  <2>4. Works(n, x) /\ Settled(x, id)
    <3>1. CASE o.status = "Armed"
      BY <2>3, <3>1, WorksSelf DEF Settled
    <3>2. CASE o.status # "Armed"
      BY <2>3, <3>2, MatchSymbolsWorks DEF Matches
    <3> QED BY <3>1, <3>2
  <2> HIDE DEF x
  <2>5. Sound(x)
    BY <2>4 DEF Works
  <2>6. Checks(x, CheckTriggers(x))
    BY <2>5, CheckTriggersWorks
  <2> QED BY <1>4, <2>2, <2>4, <2>6, AlteredActs
<1> QED BY <1>2, <1>3, <1>4

\* A state with the same orders and position.
LEMMA RenewedKeeps ==
  ASSUME NEW s, Sound(s), NEW t \in StateRecords, t.orders = s.orders, t.held = s.held
  PROVE  Sound(t) /\ (Paired(s) => Paired(t)) /\ ChainKeeps(s, t) /\ Ids(t) = Ids(s)
<1>1. Ids(t) = Ids(s)
  BY DEF Ids
<1>2. \A side : ExitCapacity(t, side) = ExitCapacity(s, side)
  BY DEF ExitCapacity
<1>3. \A id \in Ids(s) : Proper(t.orders[id]) /\ Linked(t, id) /\ Fits(t, id)
  BY <1>1, <1>2 DEF Sound, Shaped, Linked, Fits
<1>4. Sound(t)
  BY <1>1, <1>3 DEF Sound, Shaped
<1>5. Paired(s) => Paired(t)
  BY <1>1 DEF Paired, PairHolds
<1>6. Len(s.orders) \in Nat
  BY SoundState, StateFields
<1>7. ChainKeeps(s, t)
  BY <1>1, <1>6 DEF ChainKeeps, Ids
<1> QED BY <1>1, <1>4, <1>5, <1>7

LEMMA BehindKeeps ==
  ASSUME NEW s \in StateRecords, NEW t, Behind(s, t), NEW id \in Ids(s)
  PROVE  (Calm(s, id) => Calm(t, id)) /\ (Unreached(s, id) => Unreached(t, id))
<1>1. Onward(s, t) /\ t \in StateRecords
  BY BehindOnward DEF Behind
<1> QED BY <1>1, UnreachedOnward DEF Onward, AdvanceAt

LEMMA EndOrdersHeld ==
  ASSUME NEW s, Sound(s), NEW ids, NEW why
  PROVE  EndOrders(s, ids, why).held = s.held
<1>1. s \in StateRecords
  BY SoundState
<1> DEFINE q == <<>> \o [id \in DOMAIN s.orders |-> IF id \in ids THEN Ended(s.orders[id], why) ELSE s.orders[id]]
<1>2. EndOrders(s, ids, why) = [s EXCEPT !.orders = q]
  BY DEF EndOrders, WithOrders
<1> HIDE DEF q
<1>3. [s EXCEPT !.orders = q].held = s.held
  BY <1>1 DEF StateRecords
<1> QED BY <1>2, <1>3

LEMMA PlainRequest ==
  ASSUME NEW side \in Sides, NEW qty \in Nat
  PROVE  LET r == Request(side, qty, 0, FALSE)
         IN  /\ r \in RequestRecords /\ r.side = side /\ r.qty = qty /\ r.limit = 0 /\ ~r.ioc
             /\ r.trigger = None /\ r.bracket = None /\ ~r.exitsOnly /\ r.then = None /\ r.oco = None /\ r.walk = None
<1>1. None \in Triggers /\ None \in Brackets /\ None \in Nexts /\ None \in Walks
  BY NoneOption DEF Triggers, Brackets, Nexts, Walks
<1> QED BY <1>1 DEF Request, RequestRecords

LEMMA ReduceOnlyOrder ==
  ASSUME NEW o \in OrderRecords
  PROVE  LET p == [o EXCEPT !.reduceOnly = TRUE]
         IN  /\ p \in OrderRecords /\ p.req = o.req /\ p.filled = o.filled /\ p.status = o.status /\ p.role = o.role
             /\ SameLinks(o, p) /\ p.reduceOnly
  BY DEF OrderRecords, SameLinks

\* The order that closes what is held.
CloseOrder(side, qty) == [NewOrder(Request(side, qty, 0, FALSE)) EXCEPT !.reduceOnly = TRUE]

LEMMA CloseOrderTyped ==
  ASSUME NEW side \in Sides, NEW qty \in Nat, qty > 0
  PROVE  LET o == CloseOrder(side, qty)
         IN  /\ o \in OrderRecords /\ Proper(o) /\ o.oco = NoOrder /\ o.parent = NoOrder /\ o.stop = NoOrder /\ o.target = NoOrder
             /\ NotChained(o) /\ o.status = "Working" /\ o.role = "Normal" /\ o.req.side = side /\ Remaining(o) = qty
             /\ o.req.bracket = None
<1> DEFINE r == Request(side, qty, 0, FALSE)
           n == NewOrder(r)
           o == [n EXCEPT !.reduceOnly = TRUE]
<1>1. /\ r \in RequestRecords /\ r.side = side /\ r.qty = qty /\ r.limit = 0 /\ ~r.ioc
      /\ r.trigger = None /\ r.bracket = None /\ ~r.exitsOnly /\ r.then = None /\ r.oco = None /\ r.walk = None
  BY PlainRequest
<1> HIDE DEF r
<1>2. /\ n \in OrderRecords /\ n.req = r /\ n.filled = 0 /\ n.status = "Working" /\ n.role = "Normal"
      /\ n.oco = NoOrder /\ n.parent = NoOrder /\ n.stop = NoOrder /\ n.target = NoOrder /\ ~n.reduceOnly /\ NotChained(n)
  BY <1>1, NewOrderTyped
<1> HIDE DEF n
<1>3. /\ o \in OrderRecords /\ o.req = n.req /\ o.filled = n.filled /\ o.status = n.status /\ o.role = n.role
      /\ SameLinks(n, o) /\ o.reduceOnly
  BY <1>2, ReduceOnlyOrder
<1>4. o = CloseOrder(side, qty)
  BY DEF CloseOrder, n, r
<1> HIDE DEF o
<1>5. o.oco = NoOrder /\ o.parent = NoOrder /\ o.stop = NoOrder /\ o.target = NoOrder /\ NotChained(o)
  BY <1>2, <1>3 DEF SameLinks, NotChained
<1>6. o.req = r /\ o.filled = 0 /\ o.status = "Working" /\ o.role = "Normal"
  BY <1>2, <1>3
<1>7. Remaining(o) = qty
  BY <1>1, <1>6 DEF Remaining
<1>8. Proper(o)
  BY <1>1, <1>6 DEF Proper
<1>9. o.req.side = side /\ o.req.bracket = None
  BY <1>1, <1>6
<1> QED BY <1>3, <1>4, <1>5, <1>6, <1>7, <1>8, <1>9

LEMMA ClosedAdds ==
  ASSUME OrdersConstants, NEW s, Upheld(s), Plain(s), NEW o \in OrderRecords, Proper(o),
         o.oco = NoOrder, o.parent = NoOrder, o.stop = NoOrder, o.target = NoOrder, NotChained(o),
         o.status = "Working", o.role = "Normal", o.req.bracket = None,
         Remaining(o) <= ExitCapacity(s, o.req.side)
  PROVE  Acts(s, MatchSymbols(AddOrder(s, o), Len(s.orders) + 1))
<1> DEFINE n == Len(s.orders) + 1
           a == AddOrder(s, o)
           t == MatchSymbols(a, n)
<1>1. Sound(s) /\ s \in StateRecords /\ Len(s.orders) \in Nat
  BY SoundState, StateFields DEF Upheld
<1>2. /\ Sound(a) /\ Behind(s, a) /\ Len(a.orders) = n /\ a.orders[n] = o
      /\ \A id \in Ids(a) : id > Len(s.orders) => id = n
      /\ (Paired(s) => Paired(a))
  BY <1>1, AddedSound
<1> HIDE DEF a
<1>3. Matches(a, t, Ids(a), n)
  BY <1>2, MatchSymbolsWorks
<1> HIDE DEF t
<1>4. /\ a \in StateRecords /\ n \in Ids(a) /\ Works(a, t) /\ Steady(a, t) /\ Settled(t, n) /\ t \in StateRecords
      /\ Sound(t) /\ Onward(a, t)
  <2>1. a \in StateRecords
    BY <1>2 DEF Behind
  <2>2. n \in Ids(a)
    BY <1>1, <1>2 DEF Ids
  <2>3. Works(a, t) /\ Steady(a, t) /\ Settled(t, n)
    BY <1>3, <2>2 DEF Matches
  <2> QED BY <2>1, <2>2, <2>3, SoundState DEF Works
<1>5. \A id \in Ids(a) : (id \in Ids(s) /\ a.orders[id] = s.orders[id]) \/ id = n
  <2>1. Len(s.orders) <= Len(a.orders)
    BY <1>1, <1>2
  <2> QED BY <1>1, <1>2, <1>4, <2>1, KeepsSizes DEF Behind
<1>6. Plain(a)
  BY <1>2, <1>5 DEF Plain
<1>7. Len(t.orders) = Len(a.orders) /\ Ids(t) = Ids(a)
  BY <1>4, <1>6 DEF Steady, Ids
<1>8. Onward(s, a) /\ Onward(s, t)
  BY <1>1, <1>2, <1>4, BehindOnward, OnwardTrans
<1>9. t.orders[n].status # "Armed" /\ t.orders[n].role = "Normal"
  BY <1>2, <1>4 DEF Onward, AdvanceAt, Advance
<1>10. Len(t.orders) <= IdBound => Len(s.orders) <= IdBound
  <2>1. Len(t.orders) = n /\ Len(s.orders) <= n /\ n \in Nat
    BY <1>1, <1>2, <1>7
  <2> HIDE DEF n
  <2> QED BY <1>1, <2>1, Bounded
<1>11. AllUnreached(s) => AllUnreached(t)
  <2>1. Unreached(t, n)
    BY <1>9 DEF Unreached
  <2>2. ASSUME NEW id \in Ids(s), Unreached(s, id) PROVE Unreached(t, id)
    BY <1>1, <1>4, <1>8, <2>2, UnreachedOnward
  <2> HIDE DEF n
  <2> QED BY <1>5, <1>7, <2>1, <2>2 DEF AllUnreached
<1>12. Upheld(t)
  BY <1>2, <1>4, <1>10, <1>11 DEF Upheld, Works
<1>13. ASSUME AllCalm(s), NEW id \in Ids(t), t.orders[id].role = "Normal" PROVE Calm(t, id)
  <2>1. CASE id = n
    BY <1>4, <1>9, <2>1 DEF Settled, Calm
  <2>2. CASE id # n
    <3>1. id \in Ids(s) /\ AdvanceAt(s, t, id) /\ s.orders[id].role = "Normal"
      BY <1>5, <1>7, <1>8, <1>13, <2>2 DEF Onward, AdvanceAt, Advance
    <3> QED BY <1>13, <3>1 DEF AllCalm, AdvanceAt
  <2> QED BY <2>1, <2>2
<1>14. ChainKeeps(s, a)
  <2>1. \A id \in Ids(a) : id > Len(s.orders) => NotChained(a.orders[id])
    BY <1>2
  <2>2. \A id \in Ids(s) : a.orders[id] = s.orders[id]
    BY <1>2 DEF Behind
  <2>3. Len(s.orders) <= Len(a.orders)
    BY <1>2 DEF Behind
  <2> QED BY <2>1, <2>2, <2>3 DEF ChainKeeps
<1>15. ChainKeeps(s, t)
  BY <1>1, <1>2, <1>4, <1>14, WorksChains, ChainKeepsTrans
<1>16. t.walked = s.walked
  BY <1>8 DEF Onward
<1>17. Acts(s, t)
  BY <1>12, <1>13, <1>15, <1>16 DEF Acts, AllCalm
<1> QED BY <1>17 DEF t, a

LEMMA CloseHeldActs ==
  ASSUME OrdersConstants, NEW s, Upheld(s)
  PROVE  Acts(s, CloseHeld(s))
<1> DEFINE own == {id \in OpenIds(s) : s.orders[id].role = "Normal"}
           c == EndOrders(s, own, "USER_CANCEL")
           side == IF s.held > 0 THEN "Sell" ELSE "Buy"
           o == CloseOrder(side, Abs(s.held))
<1>1. Sound(s) /\ s \in StateRecords /\ s.held \in Int /\ "USER_CANCEL" \in Reasons /\ DOMAIN s.orders = Ids(s)
  BY SoundState, StateFields DEF Upheld, Reasons
<1>2. /\ Works(s, c) /\ Len(c.orders) = Len(s.orders)
      /\ \A id \in Ids(s) : c.orders[id] = IF id \in own THEN Ended(s.orders[id], "USER_CANCEL") ELSE s.orders[id]
  BY <1>1, EndOrdersWork
<1>3. c.held = s.held
  BY <1>1, EndOrdersHeld
<1>4. CloseHeld(s) = IF s.held = 0 THEN c ELSE MatchSymbols(AddOrder(c, o), Len(s.orders) + 1)
  BY DEF CloseHeld, CloseOrder
<1>5. Ids(c) = Ids(s) /\ \A id \in Ids(s) : IsOpen(c.orders[id]) => c.orders[id].role # "Normal"
  <2>1. ASSUME NEW id \in Ids(s), IsOpen(c.orders[id]) PROVE c.orders[id].role # "Normal"
    <3>1. s.orders[id] \in OrderRecords /\ Proper(s.orders[id])
      BY <1>1, StateFields DEF Sound, Shaped
    <3>2. ~IsOpen(Ended(s.orders[id], "USER_CANCEL"))
      BY <1>1, <3>1, EndedOrder
    <3>3. id \notin own /\ c.orders[id] = s.orders[id]
      BY <1>2, <2>1, <3>2
    <3> QED BY <1>1, <2>1, <3>3 DEF OpenIds
  <2> QED BY <1>2, <2>1 DEF Ids
<1> HIDE DEF c
<1>6. Acts(s, c) /\ Upheld(c) /\ Sound(c)
  BY <1>2, SameSizeActs DEF Acts, Upheld
<1>7. Plain(c)
  <2>1. ASSUME NEW id \in Ids(c), IsOpen(c.orders[id])
        PROVE  c.orders[id].req.bracket = None \/ c.orders[id].req.exitsOnly
    <3>1. Proper(c.orders[id])
      BY <1>6 DEF Sound, Shaped
    <3>2. c.orders[id].role # "Normal"
      BY <1>5, <2>1
    <3> QED BY <3>1, <3>2 DEF Proper
  <2> QED BY <2>1 DEF Plain
<1>8. CASE s.held # 0
  <2>1. Abs(s.held) \in Nat /\ Abs(s.held) > 0 /\ side \in Sides
    BY <1>1, <1>8 DEF Abs, Sides
  <2>2. ExitCapacity(c, side) = Abs(s.held)
    BY <1>1, <1>3, <1>8 DEF ExitCapacity, Greater, Abs
  <2>3. /\ o \in OrderRecords /\ Proper(o) /\ o.oco = NoOrder /\ o.parent = NoOrder /\ o.stop = NoOrder /\ o.target = NoOrder
        /\ NotChained(o) /\ o.status = "Working" /\ o.role = "Normal" /\ o.req.side = side /\ Remaining(o) = Abs(s.held)
        /\ o.req.bracket = None
    <3> HIDE DEF side
    <3> QED BY <2>1, CloseOrderTyped
  <2> HIDE DEF o, side
  <2>4. Remaining(o) <= ExitCapacity(c, o.req.side)
    BY <2>1, <2>2, <2>3
  <2>5. Acts(c, MatchSymbols(AddOrder(c, o), Len(c.orders) + 1))
    BY <1>6, <1>7, <2>3, <2>4, ClosedAdds
  <2> QED BY <1>1, <1>2, <1>4, <1>6, <1>8, <2>5, ActsTrans
<1> QED BY <1>4, <1>6, <1>8

LEMMA QuotedState ==
  ASSUME NEW s \in StateRecords, NEW b, b.price \in Int, b.size \in Nat
  PROVE  LET t == [s EXCEPT !.price = b.price, !.bid = b.size, !.ask = b.size, !.atQuote = TRUE]
         IN  t \in StateRecords /\ t.orders = s.orders /\ t.held = s.held /\ t.atQuote /\ t.walked = s.walked
  BY DEF StateRecords

LEMMA UnwalkedState ==
  ASSUME NEW s \in StateRecords
  PROVE  LET t == [s EXCEPT !.walked = FALSE]
         IN  t \in StateRecords /\ t.orders = s.orders /\ t.held = s.held /\ t.atQuote = s.atQuote /\ ~t.walked
             /\ t.price = s.price /\ t.bid = s.bid /\ t.ask = s.ask
  BY DEF StateRecords

\* A whole pass of matching and triggers at a new quote leaves every order calm.
LEMMA QuotePass ==
  ASSUME OrdersConstants, NEW s, Sound(s), s.atQuote
  PROVE  LET t == CheckTriggers(MatchSymbols(s, NoOrder))
         IN  Works(s, t) /\ (Len(t.orders) <= IdBound => AllUnreached(t) /\ AllCalm(t))
<1> DEFINE x == MatchSymbols(s, NoOrder)
           t == CheckTriggers(x)
<1>1. Works(s, x) /\ \A id \in Ids(s) : Settled(x, id)
  BY MatchSymbolsWorks DEF Matches, Quoted
<1> HIDE DEF x
<1>2. Sound(x)
  BY <1>1 DEF Works
<1>3. Checks(x, t)
  BY <1>2, CheckTriggersWorks
<1> HIDE DEF t
<1>4. Works(x, t) /\ Works(s, t)
  BY <1>1, <1>3, WorksTrans DEF Checks
<1>5. /\ s \in StateRecords /\ x \in StateRecords /\ t \in StateRecords /\ Len(x.orders) <= Len(t.orders)
      /\ Len(s.orders) <= Len(x.orders) /\ Fresh(s, x) /\ Fresh(x, t) /\ Onward(x, t)
  BY <1>1, <1>2, <1>4, WorksSizes DEF Works
<1>6. ASSUME Len(t.orders) <= IdBound, NEW id \in Ids(t), t.orders[id].role = "Normal" PROVE Calm(t, id)
  <2>1. id \in Ids(x)
    BY <1>5, <1>6, KeepsSizes DEF Fresh
  <2>2. x.orders[id].role = "Normal"
    BY <1>5, <1>6, <2>1 DEF Onward, AdvanceAt, Advance
  <2>3. id \in Ids(s)
    BY <1>5, <2>1, <2>2, KeepsSizes DEF Fresh
  <2> QED BY <1>1, <1>3, <1>6, <2>1, <2>2, <2>3 DEF Checks
<1>7. Works(s, t) /\ (Len(t.orders) <= IdBound => AllUnreached(t) /\ AllCalm(t))
  BY <1>3, <1>4, <1>6 DEF Checks, AllCalm
<1> QED BY <1>7 DEF t, x

LEMMA QuotesActs ==
  ASSUME OrdersConstants, NEW s, Upheld(s), NEW b, b.price \in Int, b.size \in Nat
  PROVE  Acts(s, QuoteBatch(s, b))
<1> DEFINE q == [s EXCEPT !.price = b.price, !.bid = b.size, !.ask = b.size, !.atQuote = TRUE]
           m == CheckLoss(q)
           c == [m EXCEPT !.walked = FALSE]
           t == CheckTriggers(MatchSymbols(c, NoOrder))
<1>1. Sound(s) /\ s \in StateRecords
  BY SoundState DEF Upheld
<1>2. QuoteBatch(s, b) = t
  BY DEF QuoteBatch
<1>3. q \in StateRecords /\ q.orders = s.orders /\ q.held = s.held /\ q.atQuote /\ q.walked = s.walked
  BY <1>1, QuotedState
<1> HIDE DEF q
<1>4. Sound(q) /\ (Paired(s) => Paired(q)) /\ ChainKeeps(s, q)
  BY <1>1, <1>3, RenewedKeeps
<1>5. Works(q, m)
  BY <1>4, CheckLossWorks
<1> HIDE DEF m
<1>6. Sound(m) /\ m \in StateRecords /\ (Paired(q) => Paired(m)) /\ ChainKeeps(q, m) /\ m.atQuote
  BY <1>3, <1>4, <1>5, WorksChains, SoundState DEF Works, Onward
<1>7. c \in StateRecords /\ c.orders = m.orders /\ c.held = m.held /\ c.atQuote /\ ~c.walked
  BY <1>6, UnwalkedState
<1> HIDE DEF c
<1>8. Sound(c) /\ (Paired(m) => Paired(c)) /\ ChainKeeps(m, c)
  BY <1>6, <1>7, RenewedKeeps
<1>9. Works(c, t) /\ (Len(t.orders) <= IdBound => AllUnreached(t) /\ AllCalm(t))
  BY <1>7, <1>8, QuotePass
<1> HIDE DEF t
<1>10. Sound(t) /\ t \in StateRecords /\ (Paired(c) => Paired(t)) /\ ChainKeeps(c, t) /\ ~t.walked
  BY <1>7, <1>8, <1>9, WorksChains, SoundState DEF Works, Onward
<1>11. ChainKeeps(s, t)
  <2>1. ChainKeeps(s, m)
    BY <1>1, <1>3, <1>4, <1>6, ChainKeepsTrans
  <2>2. ChainKeeps(m, t)
    BY <1>6, <1>7, <1>8, <1>10, ChainKeepsTrans
  <2> QED BY <1>1, <1>6, <1>10, <2>1, <2>2, ChainKeepsTrans
<1>12. Len(t.orders) <= IdBound => Len(s.orders) <= IdBound
  <2>1. Len(s.orders) \in Nat /\ Len(t.orders) \in Nat /\ Len(s.orders) <= Len(t.orders)
    BY <1>1, <1>10, <1>11, StateFields DEF ChainKeeps
  <2> QED BY <2>1, Bounded
<1>13. Upheld(t)
  BY <1>4, <1>6, <1>8, <1>9, <1>10, <1>12 DEF Upheld
<1>14. Acts(s, t)
  BY <1>9, <1>10, <1>11, <1>13 DEF Acts
<1> QED BY <1>2, <1>14

\* An order whose limit a walk moved.
LEMMA WalkedOrder ==
  ASSUME OrdersConstants, NEW o \in OrderRecords, Proper(o), o.req.walk # None
  PROVE  LET p == [o EXCEPT !.req = [o.req EXCEPT !.limit = o.req.walk[1]]]
         IN  /\ p \in OrderRecords /\ p.filled = o.filled /\ p.status = o.status /\ p.role = o.role
             /\ p.reduceOnly = o.reduceOnly /\ SameLinks(o, p) /\ p.req.qty = o.req.qty /\ p.req.side = o.req.side
             /\ p.req.trigger = o.req.trigger /\ p.req.ioc = o.req.ioc /\ Proper(p)
<1> DEFINE n == o.req.walk[1]
           q == [o.req EXCEPT !.limit = n]
           p == [o EXCEPT !.req = q]
<1>1. o.req \in RequestRecords /\ o.req.walk \in Walks
  BY OrderFields
<1>2. n \in Nat
  <2>1. PICK r \in OrderRequests : o.req.walk = r.walk
    BY <1>1 DEF Walks
  <2>2. ValidRequest(r)
    BY DEF OrdersConstants
  <2> QED BY <2>1, <2>2 DEF ValidRequest, WalkAllowed, HeldExitsAllowed, ChainAllowed
<1> HIDE DEF n
<1>3. /\ q \in RequestRecords /\ q.qty = o.req.qty /\ q.limit = n /\ q.ioc = o.req.ioc /\ q.trigger = o.req.trigger
      /\ q.side = o.req.side /\ q.bracket = o.req.bracket /\ q.exitsOnly = o.req.exitsOnly /\ q.then = o.req.then
      /\ q.walk = o.req.walk
  BY <1>1, <1>2, RequestFields
<1> HIDE DEF q
<1>4. /\ p \in OrderRecords /\ p.req = q /\ p.filled = o.filled /\ p.status = o.status /\ p.role = o.role
      /\ p.reduceOnly = o.reduceOnly /\ SameLinks(o, p)
  BY <1>3, WithRequest
<1> HIDE DEF p
<1>5. o.role = "Normal"
  BY DEF Proper
<1>6. Proper(p)
  <2>1. IsOpen(o) => o.filled < q.qty
    BY <1>3 DEF Proper
  <2>2. o.status = "Armed" => q.trigger # None
    BY <1>3 DEF Proper
  <2> QED BY <1>3, <1>4, <1>5, <2>1, <2>2, AlteredProper
<1>7. p.req.qty = o.req.qty /\ p.req.side = o.req.side /\ p.req.trigger = o.req.trigger /\ p.req.ioc = o.req.ioc
  BY <1>3, <1>4
<1> QED BY <1>4, <1>6, <1>7 DEF p, q, n

\* A state in which time moved walking limits.
LEMMA WalkedState ==
  ASSUME NEW s \in StateRecords, NEW f \in [Ids(s) -> OrderRecords]
  PROVE  LET t == [[s EXCEPT !.orders = <<>> \o f] EXCEPT !.walked = TRUE]
         IN  /\ t \in StateRecords /\ t.orders = f /\ Len(t.orders) = Len(s.orders) /\ t.held = s.held
             /\ t.price = s.price /\ t.bid = s.bid /\ t.ask = s.ask
<1> DEFINE u == [s EXCEPT !.orders = <<>> \o f]
<1>1. u \in StateRecords /\ SameBook(s, u) /\ Len(u.orders) = Len(s.orders) /\ u.orders = f
  BY AllOrdersState
<1> HIDE DEF u
<1>2. [u EXCEPT !.walked = TRUE] \in StateRecords /\ [u EXCEPT !.walked = TRUE].orders = u.orders
      /\ [u EXCEPT !.walked = TRUE].held = u.held /\ [u EXCEPT !.walked = TRUE].price = u.price
      /\ [u EXCEPT !.walked = TRUE].bid = u.bid /\ [u EXCEPT !.walked = TRUE].ask = u.ask
  BY <1>1 DEF StateRecords
<1> DEFINE t == [u EXCEPT !.walked = TRUE]
<1>3. /\ t \in StateRecords /\ t.orders = f /\ Len(t.orders) = Len(s.orders) /\ t.held = s.held
      /\ t.price = s.price /\ t.bid = s.bid /\ t.ask = s.ask
  BY <1>1, <1>2 DEF SameBook
<1> QED BY <1>3 DEF t, u

\* What holds between transactions.
OrdersHold(s) == Sound(s) /\ Paired(s) /\ AllUnreached(s)

LEMMA WalkLimitsKeeps ==
  ASSUME OrdersConstants, NEW s, OrdersHold(s)
  PROVE  LET t == WalkLimits(s)
         IN  OrdersHold(t) /\ Len(t.orders) = Len(s.orders)
<1> DEFINE Walked(o) == IF WalkDue(o) THEN [o EXCEPT !.req = [o.req EXCEPT !.limit = o.req.walk[1]]] ELSE o
           f == [id \in Ids(s) |-> Walked(s.orders[id])]
           t == [[s EXCEPT !.orders = <<>> \o f] EXCEPT !.walked = TRUE]
<1>1. Sound(s) /\ s \in StateRecords /\ Shaped(s) /\ DOMAIN s.orders = Ids(s)
  BY SoundState, StateFields DEF OrdersHold
<1>2. WalkLimits(s) = t
  BY <1>1 DEF WalkLimits, WithOrders
<1>3. ASSUME NEW id \in Ids(s)
      PROVE  LET o == s.orders[id]  p == f[id]
             IN  /\ p \in OrderRecords /\ p.filled = o.filled /\ p.status = o.status /\ p.role = o.role
                 /\ p.reduceOnly = o.reduceOnly /\ SameLinks(o, p) /\ p.req.qty = o.req.qty /\ p.req.side = o.req.side
                 /\ p.req.trigger = o.req.trigger /\ p.req.ioc = o.req.ioc /\ Proper(p)
  <2>1. s.orders[id] \in OrderRecords /\ Proper(s.orders[id])
    BY <1>1, StateFields DEF Shaped
  <2>2. f[id] = Walked(s.orders[id])
    OBVIOUS
  <2>3. CASE WalkDue(s.orders[id])
    <3>1. s.orders[id].req.walk # None
      BY <2>3 DEF WalkDue
    <3> QED BY <2>1, <2>2, <2>3, <3>1, WalkedOrder
  <2>4. CASE ~WalkDue(s.orders[id])
    BY <2>1, <2>2, <2>4 DEF SameLinks
  <2> QED BY <2>3, <2>4
<1>4. f \in [Ids(s) -> OrderRecords]
  BY <1>3
<1> HIDE DEF f
<1>5. /\ t \in StateRecords /\ t.orders = f /\ Len(t.orders) = Len(s.orders) /\ t.held = s.held
      /\ t.price = s.price /\ t.bid = s.bid /\ t.ask = s.ask
  BY <1>1, <1>4, WalkedState
<1> HIDE DEF t
<1>6. Ids(t) = Ids(s)
  BY <1>5 DEF Ids
<1>7. ASSUME NEW id \in Ids(s)
      PROVE  /\ t.orders[id].filled = s.orders[id].filled /\ t.orders[id].status = s.orders[id].status
             /\ t.orders[id].role = s.orders[id].role /\ t.orders[id].reduceOnly = s.orders[id].reduceOnly
             /\ SameLinks(s.orders[id], t.orders[id]) /\ t.orders[id].req.qty = s.orders[id].req.qty
             /\ t.orders[id].req.side = s.orders[id].req.side /\ t.orders[id].req.trigger = s.orders[id].req.trigger
             /\ t.orders[id].req.ioc = s.orders[id].req.ioc /\ Proper(t.orders[id])
  BY <1>3, <1>5
<1>8. Shaped(t)
  BY <1>1, <1>5, <1>7, Relinked
<1>9. \A side : ExitCapacity(t, side) = ExitCapacity(s, side) /\ Depth(t, side) = Depth(s, side)
  BY <1>5 DEF ExitCapacity, Depth
<1>10. ASSUME NEW id \in Ids(s) PROVE Fits(t, id) /\ Unreached(t, id)
  <2> DEFINE o == s.orders[id]
             p == t.orders[id]
  <2>1. Fits(s, id) /\ Unreached(s, id)
    BY <1>1 DEF Sound, OrdersHold, AllUnreached
  <2>2. /\ p.filled = o.filled /\ p.status = o.status /\ p.role = o.role /\ p.reduceOnly = o.reduceOnly
        /\ p.req.qty = o.req.qty /\ p.req.side = o.req.side /\ p.req.trigger = o.req.trigger /\ p.req.ioc = o.req.ioc
    BY <1>7
  <2>3. (IsOpen(o) <=> IsOpen(p)) /\ (KeptWithin(o) <=> KeptWithin(p)) /\ Remaining(p) = Remaining(o)
        /\ (Reached(s, o) <=> Reached(t, p))
    <3> HIDE DEF o, p
    <3> QED BY <1>5, <2>2 DEF IsOpen, KeptWithin, Remaining, Reached
  <2> QED BY <1>9, <2>1, <2>2, <2>3 DEF Fits, Unreached
<1>11. Sound(t) /\ AllUnreached(t)
  BY <1>6, <1>8, <1>10 DEF Sound, AllUnreached
<1>12. ASSUME NEW x \in Ids(t), t.orders[x].role = "Normal", t.orders[x].oco # NoOrder, t.orders[x].filled > 0
       PROVE  t.orders[t.orders[x].oco].filled = 0 /\ ~IsOpen(t.orders[t.orders[x].oco])
  <2> DEFINE m == s.orders[x].oco
  <2>1. x \in Ids(s) /\ s.orders[x].role = "Normal" /\ t.orders[x].oco = m /\ m # NoOrder /\ s.orders[x].filled > 0
    BY <1>6, <1>7, <1>12 DEF SameLinks
  <2>2. s.orders[m].filled = 0 /\ ~IsOpen(s.orders[m])
    BY <2>1 DEF OrdersHold, Paired, PairHolds
  <2>3. m \in Ids(s)
    BY <1>1, <2>1, LinkedOnes
  <2> HIDE DEF m
  <2>4. t.orders[m].filled = s.orders[m].filled /\ t.orders[m].status = s.orders[m].status
    BY <1>7, <2>3
  <2> QED BY <2>1, <2>2, <2>4 DEF IsOpen
<1>13. Paired(t)
  BY <1>12 DEF Paired, PairHolds
<1> QED BY <1>2, <1>5, <1>11, <1>13 DEF OrdersHold

\* And where nothing walks.
ChainsHold(s) ==
  /\ ~s.walked /\ AllCalm(s) /\ ChainSound(s) /\ \A id \in Ids(s) : Placed(s, id)

\* A transaction after its command acted.
Done(before, t) == MatchWalked(CheckLoss(PlaceChained(before, t)))

\* From a command's result to the published state.
LEMMA DoneUpheld ==
  ASSUME OrdersConstants, NEW a \in StateRecords, NEW t, Upheld(t), Len(a.orders) <= Len(t.orders)
  PROVE  Upheld(Done(a, t))
<1> DEFINE p == PlaceChained(a, t)
           m == CheckLoss(p)
           x == MatchSymbols(m, NoOrder)
           d == CheckTriggers(x)
<1>1. t \in StateRecords /\ DOMAIN a.orders = Ids(a)
  BY SoundState, StateFields DEF Upheld
<1>2. DOMAIN a.orders \ OpenIds(a) \subseteq Ids(t)
  BY <1>1, KeepsSizes
<1>3. Upheld(p)
  BY <1>2, PlaceChainedDone DEF Chaining
<1> HIDE DEF p
<1>4. Upheld(m) /\ Sound(m)
  BY <1>3, CheckLossActs DEF Acts, Upheld
<1> HIDE DEF m
<1>5. Works(m, x)
  BY <1>4, MatchSymbolsWorks DEF Matches
<1> HIDE DEF x
<1>6. Sound(x)
  BY <1>5 DEF Works
<1>7. Checks(x, d)
  BY <1>6, CheckTriggersWorks
<1> HIDE DEF d
<1>8. Works(m, d) /\ (Len(d.orders) <= IdBound => AllUnreached(d))
  BY <1>4, <1>5, <1>7, WorksTrans DEF Checks
<1>9. Upheld(d)
  BY <1>4, <1>8, WorksActs DEF Acts
<1>10. Done(a, t) = m \/ Done(a, t) = d
  BY DEF Done, MatchWalked, m, p, d, x
<1> QED BY <1>4, <1>9, <1>10

LEMMA PublishedState ==
  ASSUME NEW s \in StateRecords
  PROVE  LET t == Published(s)
         IN  /\ t \in StateRecords /\ t.orders = s.orders /\ t.held = s.held /\ ~t.walked
             /\ t.price = s.price /\ t.bid = s.bid /\ t.ask = s.ask
<1>1. Len(s.orders) \in Nat
  BY StateFields
<1> DEFINE n == IF s.atQuote THEN Len(s.orders) ELSE s.quoted
           t == [s EXCEPT !.walked = FALSE, !.atQuote = FALSE, !.quoted = n]
<1>2. n \in Nat
  BY <1>1 DEF StateRecords
<1>3. Published(s) = t
  BY DEF Published
<1> HIDE DEF n
<1>4. /\ t \in StateRecords /\ t.orders = s.orders /\ t.held = s.held /\ ~t.walked
      /\ t.price = s.price /\ t.bid = s.bid /\ t.ask = s.ask
  BY <1>2 DEF StateRecords
<1> QED BY <1>3, <1>4

LEMMA PublishedViews ==
  ASSUME NEW s, Sound(s), NEW id \in Ids(s)
  PROVE  LET t == Published(s)
         IN  (Calm(s, id) => Calm(t, id)) /\ (Unreached(s, id) => Unreached(t, id))
<1> DEFINE t == Published(s)
<1>1. /\ t \in StateRecords /\ t.orders = s.orders /\ t.held = s.held /\ ~t.walked
      /\ t.price = s.price /\ t.bid = s.bid /\ t.ask = s.ask
  BY SoundState, PublishedState
<1> HIDE DEF t
<1>2. /\ \A side : Depth(t, side) = Depth(s, side)
      /\ \A p : (Marketable(t, p) <=> Marketable(s, p)) /\ (Reached(t, p) <=> Reached(s, p))
  BY <1>1 DEF Depth, Marketable, Reached
<1>3. t.orders[id] = s.orders[id]
  BY <1>1
<1>4. (Calm(s, id) => Calm(t, id)) /\ (Unreached(s, id) => Unreached(t, id))
  BY <1>2, <1>3 DEF Calm, Swept, Unreached
<1> QED BY <1>4 DEF t

LEMMA PublishedHolds ==
  ASSUME NEW s, Upheld(s), Len(s.orders) <= IdBound
  PROVE  OrdersHold(Published(s)) /\ Published(s).orders = s.orders /\ ~Published(s).walked
<1> DEFINE t == Published(s)
<1>1. Sound(s) /\ Paired(s) /\ AllUnreached(s) /\ s \in StateRecords
  BY SoundState DEF Upheld
<1>2. \A id \in Ids(s) : Unreached(t, id)
  BY <1>1, PublishedViews DEF AllUnreached
<1>3. t \in StateRecords /\ t.orders = s.orders /\ t.held = s.held /\ ~t.walked
  BY <1>1, PublishedState
<1> HIDE DEF t
<1>4. Sound(t) /\ Paired(t) /\ Ids(t) = Ids(s)
  BY <1>1, <1>3, RenewedKeeps
<1>5. OrdersHold(t) /\ t.orders = s.orders /\ ~t.walked
  BY <1>2, <1>3, <1>4 DEF OrdersHold, AllUnreached
<1> QED BY <1>5 DEF t

LEMMA PublishedCalm ==
  ASSUME NEW s, Upheld(s), Len(s.orders) <= IdBound, AllCalm(s), ChainSound(s), \A id \in Ids(s) : Placed(s, id)
  PROVE  ChainsHold(Published(s))
<1> DEFINE t == Published(s)
<1>1. Sound(s)
  BY DEF Upheld
<1>2. \A id \in Ids(s) : Calm(s, id) => Calm(t, id)
  BY <1>1, PublishedViews
<1>3. t.orders = s.orders /\ ~t.walked
  BY PublishedHolds
<1> HIDE DEF t
<1>4. Ids(t) = Ids(s)
  BY <1>3 DEF Ids
<1>5. AllCalm(t)
  BY <1>2, <1>3, <1>4 DEF AllCalm
<1>6. ChainSound(t) /\ \A id \in Ids(t) : Placed(t, id)
  BY <1>3, <1>4 DEF ChainSound, Placed
<1>7. ChainsHold(t)
  BY <1>3, <1>5, <1>6 DEF ChainsHold
<1> QED BY <1>7 DEF t

\* A working step leaves every chained order placed.
LEMMA WorksPlaced ==
  ASSUME NEW s, Sound(s), AllCalm(s), \A id \in Ids(s) : Placed(s, id), NEW t, Works(s, t)
  PROVE  \A id \in Ids(t) : Placed(t, id)
<1>1. /\ s \in StateRecords /\ t \in StateRecords /\ Len(s.orders) <= Len(t.orders) /\ Onward(s, t) /\ Fresh(s, t)
      /\ Sound(t)
  BY WorksSizes DEF Works
<1>2. ASSUME NEW id \in Ids(t) PROVE Placed(t, id)
  <2>1. CASE id \in Ids(s)
    <3>1. t.orders[id].chained = s.orders[id].chained
      BY <1>1, <2>1 DEF Fresh
    <3> QED BY <1>1, <2>1, <3>1, PlacedFollows
  <2>2. CASE id \notin Ids(s)
    <3>1. t.orders[id].role # "Normal"
      BY <1>1, <2>2, KeepsSizes DEF Fresh
    <3>2. Proper(t.orders[id])
      BY <1>1 DEF Sound, Shaped
    <3> QED BY <3>1, <3>2 DEF Proper, Placed
  <2> QED BY <2>1, <2>2
<1> QED BY <1>2

LEMMA DoneCalm ==
  ASSUME OrdersConstants, NEW a, OrdersHold(a), ChainsHold(a), NEW t, Acts(a, t), Len(Done(a, t).orders) <= IdBound
  PROVE  ChainsHold(Published(Done(a, t)))
<1> DEFINE skip == DOMAIN a.orders \ OpenIds(a)
           p == PlaceChained(a, t)
           m == CheckLoss(p)
<1>1. a \in StateRecords /\ t \in StateRecords /\ Upheld(t) /\ Len(a.orders) <= Len(t.orders) /\ DOMAIN a.orders = Ids(a)
  BY SoundState, StateFields DEF OrdersHold, Acts, Upheld, ChainKeeps
<1>2. skip \subseteq Ids(t) /\ skip \subseteq Ids(a)
  BY <1>1, KeepsSizes
<1>3. Chaining(skip, t, p, IdBound)
  BY <1>1, <1>2, PlaceChainedDone
<1>4. \A id \in skip : Placed(t, id)
  <2>1. ASSUME NEW id \in skip PROVE Placed(t, id)
    <3>1. id \in Ids(a) /\ ~IsOpen(a.orders[id])
      BY <1>1 DEF OpenIds
    <3>2. t.orders[id].chained = a.orders[id].chained /\ t.orders[id].req.then = a.orders[id].req.then
          /\ t.orders[id].status = a.orders[id].status
      BY <3>1 DEF Acts, ChainKeeps
    <3>3. Placed(a, id)
      BY <3>1 DEF ChainsHold
    <3> QED BY <3>2, <3>3 DEF Placed
  <2> QED BY <2>1
<1> HIDE DEF skip, p
<1>5. Upheld(p) /\ Onward(t, p) /\ Sound(p) /\ p \in StateRecords
  BY <1>3, SoundState DEF Chaining, Upheld
<1>6. Works(p, m) /\ Len(m.orders) = Len(p.orders) /\ Upheld(m)
  BY <1>5, CheckLossWorks, CheckLossActs DEF Acts
<1> HIDE DEF m
<1>7. ~m.walked
  BY <1>5, <1>6 DEF Works, Onward, Acts, ChainsHold
<1>8. Done(a, t) = m
  BY <1>7 DEF Done, MatchWalked, m, p
<1>9. Len(m.orders) <= IdBound /\ Len(p.orders) <= IdBound
  BY <1>6, <1>8
<1>10. ChainsUpheld(t)
  <2>1. ChainSound(t)
    BY <1>1, ChainSoundKept DEF Acts, ChainsHold
  <2> QED BY <2>1 DEF ChainsUpheld, Acts, ChainsHold
<1>11. AllCalm(p) /\ ChainSound(p)
  BY <1>3, <1>9, <1>10 DEF Chaining, ChainsUpheld
<1>12. \A id \in Ids(p) : Placed(p, id)
  <2>1. ASSUME NEW id \in Ids(p) PROVE id <= IdBound
    <3>1. id \in Nat /\ id <= Len(p.orders) /\ Len(p.orders) \in Nat
      BY <1>5, StateFields DEF Ids
    <3> QED BY <1>9, <3>1, Bounded
  <2> QED BY <1>3, <1>4, <1>9, <1>10, <2>1 DEF Chaining
<1>13. AllCalm(m) /\ \A id \in Ids(m) : Placed(m, id)
  BY <1>5, <1>6, <1>11, <1>12, WorksCalm, WorksPlaced
<1>14. ChainSound(m)
  <2>1. m \in StateRecords
    BY <1>6, SoundState DEF Upheld
  <2> QED BY <1>5, <1>6, <1>11, <2>1, WorksChains, ChainSoundKept
<1> QED BY <1>6, <1>8, <1>9, <1>13, <1>14, PublishedCalm

-----------------------------------------------------------------------------
(* The actions *)

LEMMA OrdersInvIs == OrdersInv <=> config \in Accounts /\ OrdersHold(book)
  BY DEF OrdersInv, OrdersHold

LEMMA HoldUpheld ==
  ASSUME NEW s, OrdersHold(s)
  PROVE  Upheld(s) /\ s \in StateRecords
  BY SoundState DEF OrdersHold, Upheld

LEMMA AdvancedUpheld ==
  ASSUME OrdersConstants, OrdersInv, NEW s \in Advanced
  PROVE  Upheld(s) /\ s \in StateRecords /\ Len(s.orders) = Len(book.orders) /\ Ids(s) = Ids(book)
         /\ DOMAIN book.orders = Ids(book)
<1>1. OrdersHold(book) /\ book \in StateRecords
  BY OrdersInvIs, HoldUpheld
<1>2. s = book \/ s = WalkLimits(book)
  BY DEF Advanced
<1>3. OrdersHold(s) /\ Len(s.orders) = Len(book.orders)
  BY <1>1, <1>2, WalkLimitsKeeps
<1> QED BY <1>1, <1>3, HoldUpheld, StateFields DEF Ids

LEMMA ConfigTyped ==
  ASSUME OrdersConstants, OrdersInv
  PROVE  /\ config.requests \subseteq OrderRequests /\ config.changes \subseteq Changes
         /\ \A b \in config.market : b.price \in Int /\ b.size \in Nat
  BY DEF OrdersConstants, OrdersInv

\* Every action is one transaction of one command.
Commanded == config' = config /\ \E s \in Advanced : \E t : Acts(s, t) /\ TransactOrders(t)

LEMMA NextActs ==
  ASSUME OrdersConstants, OrdersInv, OrdersNext
  PROVE  Commanded
<1>1. /\ config.requests \subseteq OrderRequests /\ config.changes \subseteq Changes
      /\ \A b \in config.market : b.price \in Int /\ b.size \in Nat
  BY ConfigTyped
<1>2. \A s \in Advanced : Upheld(s) /\ s \in StateRecords /\ Ids(s) = Ids(book) /\ DOMAIN book.orders = Ids(book)
  BY AdvancedUpheld
<1>3. \A s \in Advanced : LET m == CheckLoss(s) IN Acts(s, m) /\ Upheld(m) /\ Ids(m) = Ids(s)
  <2>1. ASSUME NEW s \in Advanced PROVE Acts(s, CheckLoss(s)) /\ Len(CheckLoss(s).orders) = Len(s.orders)
    BY <1>2, CheckLossActs
  <2> QED BY <2>1 DEF Acts, Ids
<1>4. CASE Submitting
  <2>1. PICK r \in config.requests : Command("submit", {SubmitRequest(s, r) : s \in Advanced})
    BY <1>4 DEF Submitting
  <2>2. PICK s \in Advanced : TransactOrders(SubmitRequest(s, r)) /\ config' = config
    BY <2>1 DEF Command
  <2>3. Acts(s, SubmitRequest(s, r))
    BY <1>1, <1>2, SubmitActs
  <2> QED BY <2>2, <2>3 DEF Commanded
<1>5. CASE Cancelling
  <2>1. PICK id \in DOMAIN book.orders : Command("cancel", {CancelOne(s, id) : s \in Advanced})
    BY <1>5 DEF Cancelling
  <2>2. PICK s \in Advanced : TransactOrders(CancelOne(s, id)) /\ config' = config
    BY <2>1 DEF Command
  <2>3. Acts(s, CancelOne(s, id))
    BY <1>2, CancelOneActs
  <2> QED BY <2>2, <2>3 DEF Commanded
<1>6. CASE CancellingAll
  <2>1. PICK s \in Advanced : TransactOrders(CancelAllOrders(s)) /\ config' = config
    BY <1>6 DEF CancellingAll, Command
  <2>2. Acts(s, CancelAllOrders(s))
    BY <1>2, CancelAllActs
  <2> QED BY <2>1, <2>2 DEF Commanded
<1>7. CASE Modifying
  <2>1. PICK id \in DOMAIN book.orders, c \in config.changes :
               Command("modify", {ChangeOrder(CheckLoss(s), id, c) : s \in Advanced})
    BY <1>7 DEF Modifying
  <2>2. PICK s \in Advanced : TransactOrders(ChangeOrder(CheckLoss(s), id, c)) /\ config' = config
    BY <2>1 DEF Command
  <2> DEFINE m == CheckLoss(s)
  <2>3. Acts(s, m) /\ Upheld(m) /\ id \in Ids(m) /\ c \in Changes
    BY <1>1, <1>2, <1>3
  <2> HIDE DEF m
  <2>4. Acts(m, ChangeOrder(m, id, c))
    BY <2>3, ChangeActs
  <2>5. Acts(s, ChangeOrder(m, id, c))
    BY <1>2, <2>3, <2>4, ActsTrans
  <2> QED BY <2>2, <2>5 DEF Commanded, m
<1>8. CASE Closing
  <2>1. PICK s \in Advanced : TransactOrders(CloseHeld(CheckLoss(s))) /\ config' = config
    BY <1>8 DEF Closing, Command
  <2> DEFINE m == CheckLoss(s)
  <2>2. Acts(s, m) /\ Upheld(m)
    BY <1>3
  <2> HIDE DEF m
  <2>3. Acts(s, CloseHeld(m))
    BY <1>2, <2>2, CloseHeldActs, ActsTrans
  <2> QED BY <2>1, <2>3 DEF Commanded, m
<1>9. CASE Killing
  <2>1. PICK s \in Advanced : TransactOrders(TripManually(s)) /\ config' = config
    BY <1>9 DEF Killing, Command
  <2>2. Acts(s, TripManually(s))
    BY <1>2, TripKillActs
  <2> QED BY <2>1, <2>2 DEF Commanded
<1>10. CASE Resetting
  <2>1. PICK s \in Advanced : TransactOrders(ResetLatch(s)) /\ config' = config
    BY <1>10 DEF Resetting, Command
  <2>2. Acts(s, ResetLatch(s))
    BY <1>2, ResetKillActs
  <2> QED BY <2>1, <2>2 DEF Commanded
<1>11. CASE Quoting
  <2>1. PICK b \in config.market : \E s \in {QuoteBatch(t, b) : t \in Advanced} : TransactOrders(s)
    BY <1>11 DEF Quoting
  <2>2. PICK s \in Advanced : TransactOrders(QuoteBatch(s, b))
    BY <2>1
  <2>3. Acts(s, QuoteBatch(s, b))
    BY <1>1, <1>2, QuotesActs
  <2> QED BY <1>11, <2>2, <2>3 DEF Commanded, Quoting
<1> QED BY <1>4, <1>5, <1>6, <1>7, <1>8, <1>9, <1>10, <1>11 DEF OrdersNext

LEMMA TransactionIs ==
  ASSUME NEW t, TransactOrders(t)
  PROVE  Len(Done(book, t).orders) <= IdBound /\ book' = Published(Done(book, t))
  BY DEF TransactOrders, Done

LEMMA InitState ==
  ASSUME OrdersConstants, OrdersInit
  PROVE  OrdersInv /\ ((\A r \in OrderRequests : r.walk = None) => ChainsInv)
<1>1. StartPrice \in Int /\ "NONE" \in Reasons
  BY DEF OrdersConstants, Reasons
<1>2. book \in StateRecords /\ Len(book.orders) = 0 /\ ~book.walked
  BY <1>1 DEF OrdersInit, StateRecords
<1>3. Ids(book) = {}
  BY <1>2 DEF Ids
<1>4. config \in Accounts
  BY DEF OrdersInit
<1> QED BY <1>2, <1>3, <1>4 DEF OrdersInv, ChainsInv, Sound, Shaped, Paired, AllUnreached, AllCalm, ChainSound

LEMMA OrdersStep == ASSUME OrdersConstants, OrdersInv, [OrdersNext]_orderVars PROVE OrdersInv'
<1>1. CASE UNCHANGED orderVars
  <2>1. book' = book /\ config' = config
    BY <1>1 DEF orderVars
  <2> QED BY <2>1, OrdersInvIs DEF OrdersInv
<1>2. CASE OrdersNext
  <2>1. config' = config /\ \E s \in Advanced : \E t : Acts(s, t) /\ TransactOrders(t)
    BY <1>2, NextActs DEF Commanded
  <2>2. PICK s \in Advanced : \E t : Acts(s, t) /\ TransactOrders(t)
    BY <2>1
  <2>3. PICK t : Acts(s, t) /\ TransactOrders(t)
    BY <2>2
  <2>4. OrdersHold(book) /\ book \in StateRecords /\ config \in Accounts
    BY OrdersInvIs, HoldUpheld
  <2>5. Upheld(t) /\ Len(book.orders) <= Len(t.orders)
    BY <2>3, AdvancedUpheld DEF Acts, ChainKeeps
  <2> DEFINE d == Done(book, t)
  <2>6. Upheld(d) /\ Len(d.orders) <= IdBound /\ book' = Published(d)
    BY <2>3, <2>4, <2>5, DoneUpheld, TransactionIs
  <2> HIDE DEF d
  <2>7. OrdersHold(Published(d))
    BY <2>6, PublishedHolds
  <2> DEFINE z == Published(d)
  <2>8. OrdersHold(z) /\ book' = z /\ config' \in Accounts
    BY <2>1, <2>4, <2>6, <2>7
  <2> HIDE DEF z
  <2> QED BY <2>8 DEF OrdersHold, OrdersInv
<1> QED BY <1>1, <1>2

LEMMA ChainsStep == ASSUME OrdersConstants, OrdersInv, ChainsInv, [OrdersNext]_orderVars PROVE ChainsInv'
<1>1. CASE UNCHANGED orderVars
  <2>1. book' = book
    BY <1>1 DEF orderVars
  <2> QED BY <2>1 DEF ChainsInv
<1>2. CASE OrdersNext
  <2>1. PICK s \in Advanced : \E t : Acts(s, t) /\ TransactOrders(t)
    BY <1>2, NextActs DEF Commanded
  <2>2. PICK t : Acts(s, t) /\ TransactOrders(t)
    BY <2>1
  <2>3. OrdersHold(book) /\ book \in StateRecords /\ ChainsHold(book)
    BY OrdersInvIs, HoldUpheld DEF ChainsInv, ChainsHold
  <2>4. s = book
    <3>1. ASSUME NEW id \in DOMAIN book.orders PROVE ~WalkDue(book.orders[id])
      <4>1. book.orders[id].req.walk \in Walks
        BY <2>3, StateFields, OrderFields
      <4>2. book.orders[id].req.walk = None
        BY <4>1 DEF ChainsInv, Walks
      <4> QED BY <4>2 DEF WalkDue
    <3> QED BY <3>1 DEF Advanced
  <2>5. book' = Published(Done(book, t)) /\ ChainsHold(Published(Done(book, t)))
    BY <2>2, <2>3, <2>4, DoneCalm, TransactionIs
  <2> DEFINE z == Published(Done(book, t))
  <2>6. book' = z /\ ChainsHold(z)
    BY <2>5
  <2> HIDE DEF z
  <2> QED BY <2>6 DEF ChainsInv, ChainsHold
<1> QED BY <1>1, <1>2

-----------------------------------------------------------------------------
(* The theorems *)

(* Every reachable account is well formed: orders, links and exits have the forms above, what may *)
(* only close never asks for more than is held, of a pair one fills, and no trigger is passed     *)
(* over.                                                                                          *)
THEOREM OrdersStaySound == OrdersSpec => []OrdersInv
<1>1. OrdersInit => OrdersInv
  BY OrdersAssumption, InitState
<1>2. OrdersInv /\ [OrdersNext]_orderVars => OrdersInv'
  BY OrdersAssumption, OrdersStep
<1> QED BY <1>1, <1>2, PTL DEF OrdersSpec

(* "Cannot both open": once one order of a pair has filled at all, the other has not and is       *)
(* closed, however the two were placed, reached or changed (on_fill and place of session.cpp).    *)
THEOREM OfAPairOneFills == OrdersSpec => []PairFillsOnce
<1>1. OrdersInv => PairFillsOnce
  BY SoundState, StateFields DEF OrdersInv, Paired, PairHolds, PairFillsOnce, Orders, Numbers, Ids
<1> QED BY <1>1, OrdersStaySound, PTL

(* After every transaction no armed order has been reached and passed over, orders that the       *)
(* transaction added while it checked triggers included: only a stop exit that found no displayed *)
(* size stays armed at its level (check_triggers and end_ioc of session.cpp).                     *)
THEOREM TriggersAreNeverMissed == OrdersSpec => []NoTriggerMissed
<1>1. OrdersInv => NoTriggerMissed
  <2> SUFFICES ASSUME OrdersInv, NEW id \in Numbers, Orders[id].status = "Armed", Reached(book, Orders[id])
               PROVE  /\ Orders[id].role # "Normal" /\ Orders[id].req.ioc
                      /\ (IF Orders[id].req.side = "Sell" THEN book.bid ELSE book.ask) = 0
    BY DEF NoTriggerMissed
  <2>1. book \in StateRecords /\ id \in Ids(book) /\ Orders[id] = book.orders[id]
    BY SoundState, StateFields DEF OrdersInv, Orders, Numbers
  <2>2. Unreached(book, id)
    BY <2>1 DEF OrdersInv, AllUnreached
  <2>3. Orders[id].req.side \in Sides
    BY <2>1, StateFields, OrderFields
  <2> QED BY <2>1, <2>2, <2>3 DEF Unreached, Depth, Sides
<1> QED BY <1>1, OrdersStaySound, PTL

(* Where no order walks, a chained order is placed exactly when its order filled completely, only *)
(* once, and each names the other (place_chained of session.cpp).  A walk is what the program     *)
(* loses a chained order to: the run orders_walk.                                                 *)
THEOREM ChainsArePlacedOnce ==
  ASSUME \A r \in OrderRequests : r.walk = None
  PROVE  OrdersSpec => []ChainPlacedOnce
<1>1. OrdersInit => OrdersInv /\ ChainsInv
  BY OrdersAssumption, InitState
<1>2. OrdersInv /\ ChainsInv /\ [OrdersNext]_orderVars => (OrdersInv /\ ChainsInv)'
  BY OrdersAssumption, OrdersStep, ChainsStep
<1>3. OrdersInv /\ ChainsInv => ChainPlacedOnce
  <2>1. ASSUME OrdersInv PROVE Numbers = Ids(book)
    BY <2>1, SoundState, StateFields DEF OrdersInv, Numbers
  <2> QED BY <2>1 DEF ChainsInv, ChainSound, Placed, ChainPlacedOnce, Orders
<1> QED BY <1>1, <1>2, <1>3, PTL DEF OrdersSpec
=============================================================================
