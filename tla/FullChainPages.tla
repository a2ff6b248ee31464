--------------------------- MODULE FullChainPages ---------------------------
(***************************************************************************)
(* The competing chain of a fork, cut into pages, sent one connection each *)
(* and put together again (network/p2p.py: _paginar_bloques,               *)
(* _recibir_pagina_full_chain and the handlers that call them). Pages of   *)
(* several answers arrive in any order, some twice and some never.         *)
(***************************************************************************)
EXTENDS Naturals, FiniteSets, SequencesExt

CONSTANTS Servers,
          Served,         \* [base, tip] -> the blocks from base to tip
          Stands(_, _),   \* base and tip at which a server stands at a time
          SizeAt(_, _),   \* bytes of a block as a server writes it
          PageBytes,      \* FULL_CHAIN_PAGINA_BYTES
          PagesMax,       \* FULL_CHAIN_PAGES_MAX
          BufferMax,      \* FULL_CHAIN_BUFFER_MAX
          TTL,            \* FULL_CHAIN_TTL
          \* bounds: the clock, connections that fail, answers of one server
          MaxTime, MaxLost, MaxAnswers

Keys == DOMAIN Served

ASSUME PageConstants ==
  /\ IsFiniteSet(Servers)
  /\ \A s \in Servers, t \in 1..MaxTime : Stands(s, t) \in Keys
  /\ \A k \in Keys : /\ Served[k] \in Seq(ToSet(Served[k]))
                     /\ \A s \in Servers, b \in ToSet(Served[k]) : SizeAt(s, b) \in Nat
  /\ {PageBytes, PagesMax, BufferMax, MaxTime} \subseteq Nat \ {0}
  /\ {TTL, MaxLost, MaxAnswers} \subseteq Nat

VARIABLES
  msgs,       \* messages on their way to the node
  buffer,     \* self._full_chain_parcial
  now,        \* the clock
  lost,       \* connections that failed so far
  answers,    \* answers that each server has sent so far
  delivered,  \* what was handed to _procesar_full_chain
  begun,      \* history: when a set was last begun, 0 if never, and others since
  open,       \* history: sets that were begun and neither completed nor refused
  owed        \* history: answers that nothing has spoilt since they were sent

vars == <<msgs, buffer, now, lost, answers, delivered, begun, open, owed>>

------------------------------------------------------------------------
(* Cutting and joining                                                   *)

\* One block more: it opens a page when the current one would become too large
Put(s, cut, b) ==
  LET full == cut.page # <<>> /\ cut.bytes + SizeAt(s, b) > PageBytes
  IN [pages |-> IF full THEN Append(cut.pages, cut.page) ELSE cut.pages,
      page  |-> IF full THEN <<b>> ELSE Append(cut.page, b),
      bytes |-> IF full THEN SizeAt(s, b) ELSE cut.bytes + SizeAt(s, b)]

PaginateUnflushed(s, blocks) ==
  FoldLeft(LAMBDA cut, b : Put(s, cut, b), [pages |-> <<>>, page |-> <<>>, bytes |-> 0], blocks).pages
Paginate(s, blocks) ==
  LET cut == FoldLeft(LAMBDA acc, b : Put(s, acc, b),
                      [pages |-> <<>>, page |-> <<>>, bytes |-> 0], blocks)
  IN IF cut.page # <<>> \/ cut.pages = <<>> THEN Append(cut.pages, cut.page) ELSE cut.pages

Cuts == [s \in Servers |-> [k \in Keys |-> Paginate(s, Served[k])]]
Cut(s, k) == Cuts[s][k]

\* The blocks of all pages in the order of the pages
Joined(pages) == FlattenSeq(pages)

------------------------------------------------------------------------
(* Sending                                                               *)

\* The answers of a server are told apart by their number
FullChain(s, k, n) ==
  [type |-> "FULL_CHAIN", from |-> s, answer |-> n, key |-> k, blocks |-> Served[k]]

Page(s, k, n, i) ==
  [type |-> "FULL_CHAIN_PAGE", from |-> s, answer |-> n, key |-> k, page |-> i,
   pages |-> Len(Cut(s, k)), blocks |-> Cut(s, k)[i]]

Answer(s, k, n) ==
  IF Len(Cut(s, k)) = 1 THEN {FullChain(s, k, n)}
  ELSE {Page(s, k, n, i) : i \in 1..Len(Cut(s, k))}

\* REQUEST_FULL_CHAIN: whenever a block of the fork arrives at the node, and so also
\* while an earlier answer is on its way
Serve(s) ==
  LET n == answers[s] + 1
      k == Stands(s, now)
  IN /\ answers[s] < MaxAnswers
     /\ answers' = [answers EXCEPT ![s] = n]
     /\ msgs' = msgs \cup Answer(s, k, n)
     /\ owed' = owed \cup {[from |-> s, answer |-> n, key |-> k]}
     /\ UNCHANGED <<buffer, now, lost, delivered, begun, open>>

------------------------------------------------------------------------
(* Receiving                                                             *)

KeyByBase(m) == CHOOSE k \in Keys : k.base = m.key.base
KeyOf(m) == m.key

Deliver(m, blocks) ==
  delivered' = delivered \cup {[base |-> m.key.base, blocks |-> blocks]}

OnFullChain(m) ==
  /\ m.type = "FULL_CHAIN"
  /\ Deliver(m, m.blocks)
  /\ UNCHANGED <<buffer, begun, open, owed>>

Valid(m) == m.pages \in 1..PagesMax /\ m.page \in 1..m.pages

\* An incomplete set: its total, the pages at hand, the time of the first, and
\* the sets that stand before it in the dictionary
Set(pages, got, ts, after) == [pages |-> pages, got |-> got, ts |-> ts, after |-> after]

Only(b, S) == [k \in S |-> Set(b[k].pages, b[k].got, b[k].ts, b[k].after \cap S)]

\* Sets that were not completed in time are forgotten
Remembered == Only(buffer, {k \in DOMAIN buffer : now <= buffer[k].ts + TTL})

\* The set with the smallest time, the first of several: the clock does not run
\* back, so it is the first of the dictionary
Oldest(b) == {k \in DOMAIN b : b[k].after = {}}
Newest(b) == {k \in DOMAIN b : b[k].after = DOMAIN b \ {k}}

\* The sets that make room for a new one
EvictedNewest(b) == IF Cardinality(DOMAIN b) >= BufferMax THEN Newest(b) ELSE {}
EvictedNone(b) == {}
Evicted(b) == IF Cardinality(DOMAIN b) >= BufferMax THEN Oldest(b) ELSE {}

With(b, k, set) == [j \in DOMAIN b \cup {k} |-> IF j = k THEN set ELSE b[j]]

\* The page is stored, over an earlier copy, and a complete set handed on
StoreOnly(m, b, set) ==
  LET k == KeyOf(m)
      got == [i \in {m.page} |-> m.blocks]
  IN IF DOMAIN got = 1..m.pages
     THEN /\ buffer' = Only(b, DOMAIN b \ {k})
          /\ Deliver(m, Joined(got))
          /\ open' = open \ {k}
     ELSE /\ buffer' = With(b, k, Set(set.pages, got, set.ts, set.after))
          /\ open' = open \cup {k}
          /\ UNCHANGED delivered
Store(m, b, set) ==
  LET k == KeyOf(m)
      got == [i \in DOMAIN set.got \cup {m.page} |-> IF i = m.page THEN m.blocks ELSE set.got[i]]
  IN IF DOMAIN got = 1..m.pages
     THEN /\ buffer' = Only(b, DOMAIN b \ {k})
          /\ Deliver(m, Joined(got))
          /\ open' = open \ {k}
     ELSE /\ buffer' = With(b, k, Set(set.pages, got, set.ts, set.after))
          /\ open' = open \cup {k}
          /\ UNCHANGED delivered

\* The sets that may be missing: begun too long ago or with too many rivals since
Stale == {k \in open : now > begun[k].at + TTL}
Crowded == {k \in open : Cardinality(begun[k].since) >= BufferMax}

Spoil(S) == owed' = {a \in owed : a.key \notin S}

BeginSet(m) ==
  LET k == KeyOf(m)
      left == Only(Remembered, DOMAIN Remembered \ Evicted(Remembered))
  IN /\ k \notin DOMAIN Remembered
     /\ Store(m, left, Set(m.pages, <<>>, now, DOMAIN left))
     /\ begun' = [j \in Keys |-> IF j = k THEN [at |-> now, since |-> {}]
                                ELSE [at |-> begun[j].at, since |-> begun[j].since \cup {k}]]
     /\ Spoil(Stale \cup Crowded')

AddPage(m) ==
  /\ KeyOf(m) \in DOMAIN Remembered
  /\ Remembered[KeyOf(m)].pages = m.pages
  /\ Store(m, Remembered, Remembered[KeyOf(m)])
  /\ Spoil(Stale)
  /\ UNCHANGED begun

\* The total differs from that of the other pages: the set is given up
RefuseSet(m) ==
  /\ KeyOf(m) \in DOMAIN Remembered
  /\ Remembered[KeyOf(m)].pages # m.pages
  /\ buffer' = Only(Remembered, DOMAIN Remembered \ {KeyOf(m)})
  /\ open' = open \ {KeyOf(m)}
  /\ Spoil(Stale \cup {KeyOf(m)})
  /\ UNCHANGED <<delivered, begun>>

OnPage(m) ==
  /\ m.type = "FULL_CHAIN_PAGE"
  /\ IF Valid(m)
     THEN BeginSet(m) \/ AddPage(m) \/ RefuseSet(m)
     ELSE Spoil({KeyOf(m)}) /\ UNCHANGED <<buffer, delivered, begun, open>>

Receive(s) ==
  \E m \in msgs :
    /\ m.from = s
    /\ msgs' = msgs \ {m}
    /\ OnFullChain(m) \/ OnPage(m)
    /\ UNCHANGED <<now, lost, answers>>

------------------------------------------------------------------------
(* The world                                                             *)

Lose(m) ==
  /\ lost < MaxLost
  /\ lost' = lost + 1
  /\ msgs' = msgs \ {m}
  /\ owed' = owed \ {[from |-> m.from, answer |-> m.answer, key |-> m.key]}
  /\ UNCHANGED <<buffer, now, answers, delivered, begun, open>>

Tick ==
  /\ now < MaxTime
  /\ now' = now + 1
  /\ UNCHANGED <<msgs, buffer, lost, answers, delivered, begun, open, owed>>

Init ==
  /\ msgs = {} /\ buffer = <<>> /\ now = 1 /\ lost = 0
  /\ answers = [s \in Servers |-> 0] /\ delivered = {}
  /\ begun = [k \in Keys |-> [at |-> 0, since |-> {}]] /\ open = {} /\ owed = {}

Next ==
  \/ \E s \in Servers : Serve(s) \/ Receive(s)
  \/ \E m \in msgs : Lose(m)
  \/ Tick

Spec == Init /\ [][Next]_vars
=============================================================================
