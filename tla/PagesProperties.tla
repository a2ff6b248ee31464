--------------------------- MODULE PagesProperties ---------------------------
(***************************************************************************)
(* What cutting a chain into pages and joining them promises.              *)
(***************************************************************************)
EXTENDS FullChainPages

CONSTANT Samples      \* chains on which the cutting is checked

ASSUME SampleConstants ==
  \A blocks \in Samples : /\ blocks \in Seq(ToSet(blocks))
                          /\ \A s \in Servers, b \in ToSet(blocks) : SizeAt(s, b) \in Nat

\* Shapes and ranges: at most BufferMax sets (p2p.py:304-308), each with fewer
\* pages than it needs, at places the total allows.
TypeOK ==
  /\ IsFiniteSet(DOMAIN buffer) /\ Cardinality(DOMAIN buffer) <= BufferMax
  /\ \A k \in DOMAIN buffer :
       /\ k \in Keys
       /\ buffer[k].after \subseteq DOMAIN buffer \ {k}
       /\ buffer[k].pages \in 1..PagesMax /\ buffer[k].ts \in 1..now
       /\ DOMAIN buffer[k].got \subseteq 1..buffer[k].pages
       /\ DOMAIN buffer[k].got # 1..buffer[k].pages
  /\ now \in 1..MaxTime /\ lost \in 0..MaxLost
  /\ begun \in [Keys -> [at : 0..MaxTime, since : SUBSET Keys]] /\ open \subseteq Keys
  /\ answers \in [Servers -> 0..MaxAnswers]
  /\ owed \subseteq [from : Servers, answer : 1..MaxAnswers, key : Keys]

Bytes(s, page) == FoldLeft(LAMBDA sum, b : sum + SizeAt(s, b), 0, page)

\* p2p.py:263-277. Joined, the pages are the chain; each is within the budget or
\* a single block, and with the next block it would not have been; none is
\* empty unless the chain is.
IsPagination(s, blocks, pages) ==
  /\ Joined(pages) = blocks
  /\ <<>> \in ToSet(pages) => blocks = <<>> /\ Len(pages) = 1
  /\ \A i \in DOMAIN pages :
       /\ Bytes(s, pages[i]) <= PageBytes \/ Len(pages[i]) = 1
       /\ i > 1 => Bytes(s, pages[i - 1]) + SizeAt(s, pages[i][1]) > PageBytes

CutsWell == [s \in Servers |-> \A blocks \in Samples : IsPagination(s, blocks, Paginate(s, blocks))]

\* Who sends pages cuts every chain in this way.
CutsArePaginations ==
  \A m \in msgs : m.type = "FULL_CHAIN_PAGE" => CutsWell[m.from]

\* p2p.py:293-308. A set that was begun, is not older than the limit and has
\* fewer than BufferMax rivals begun since, is still there, whatever was
\* completed, refused, forgotten or begun again in between.
FreshSetsAreKept ==
  \A k \in open :
    /\ now <= begun[k].at + TTL
    /\ Cardinality(begun[k].since) < BufferMax
    => k \in DOMAIN buffer

\* "paginado debe dar la misma cadena candidata que un mensaje"
\* (tests/test_full_chain.py:111). Whatever is lost, late, repeated, evicted or
\* out of order, what is handed on is a chain some server serves, whole.
Whole == INSTANCE WholeDelivery
DeliversWhole == Whole!Spec

\* p2p.py:263-322, 756-799. An answer of which everything has arrived was handed on,
\* unless since it was sent a part of it was lost or a set of its chain became older
\* than the limit, had BufferMax rivals begun after it or met another total.
\* Interleaving, repetition, failures of other answers and leftovers are no reason.
AnswersComeThrough ==
  \A a \in owed :
    \/ \E m \in msgs : m.from = a.from /\ m.answer = a.answer
    \/ [base |-> a.key.base, blocks |-> Served[a.key]] \in delivered
=============================================================================
