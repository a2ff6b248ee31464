--------------------------- MODULE MempoolProofs ---------------------------
(***************************************************************************)
(* The pool of pending payments, with any number of threads, payments,     *)
(* deaths and rollbacks.                                                   *)
(*                                                                         *)
(* First the limit per sender: each thread but one can exceed it by one    *)
(* payment, and neither the file, a restart nor a list that is written     *)
(* late makes it more. Then what the pool, the file and the calls hold:    *)
(* times that are past and not before the payment could be accepted, and   *)
(* places that no two payments share; a payment leaves the pool of a       *)
(* running node only for a block or after its hour.                        *)
(***************************************************************************)
EXTENDS MempoolProperties, FiniteSetTheorems, TLAPS

------------------------------------------------------------------------
(* The inductive invariant                                               *)

\* The calls of one sender that have passed the count and not yet inserted
Counted(who) ==
  {t \in Threads : calls[t].pc \in {"validate", "insert"} /\ calls[t].tx.from = who}

Bound == SenderLimit + Cardinality(Threads) - 1

\* A call is a record of its three fields
CallShape ==
  /\ DOMAIN calls = Threads
  /\ calls = [t \in Threads |->
                [pc |-> calls[t].pc, tx |-> calls[t].tx, data |-> calls[t].data]]

\* No thread runs in a dead process
DeadIsIdle == ~up => \A t \in Threads : calls[t].pc = "idle"

\* A dictionary in which no sender has more payments than the bound
Bounded(p) ==
  /\ IsFiniteSet(DOMAIN p)
  /\ \A who \in Acct : Cardinality(From(p, who)) <= Bound

\* Each call that was counted has its place kept free in the bound
PlacesKept ==
  \A who \in Acct : Cardinality(OfSender(who)) + Cardinality(Counted(who)) <= Bound

IInv ==
  /\ CallShape /\ DeadIsIdle
  /\ IsFiniteSet(DOMAIN pool) /\ PlacesKept
  /\ Bounded(file)
  /\ \A t \in Threads : Bounded(calls[t].data)

------------------------------------------------------------------------
(* Lemmas                                                                *)

LEMMA ThreadsFinite ==
  /\ IsFiniteSet(Threads) /\ Cardinality(Threads) \in Nat \ {0} /\ Bound \in Nat
BY MempoolConstants, FS_CardinalityType, FS_EmptySet DEF MempoolConstants, Bound

\* The parts of a sender in a finite dictionary, and what a smaller one has
LEMMA FewerPayments ==
  ASSUME NEW p, NEW q, IsFiniteSet(DOMAIN p), DOMAIN q \subseteq DOMAIN p, NEW who
  PROVE  /\ IsFiniteSet(DOMAIN q)
         /\ Cardinality(From(p, who)) \in Nat
         /\ Cardinality(From(q, who)) \in Nat
         /\ Cardinality(From(q, who)) <= Cardinality(From(p, who))
<1>1. From(q, who) \subseteq From(p, who) /\ From(p, who) \subseteq DOMAIN p
  BY DEF From
<1>2. IsFiniteSet(From(p, who)) /\ IsFiniteSet(DOMAIN q)
  BY <1>1, FS_Subset
<1>3. QED
  BY <1>1, <1>2, FS_Subset, FS_CardinalityType

LEMMA CountedFinite ==
  ASSUME NEW who
  PROVE  /\ IsFiniteSet(Counted(who))
         /\ Cardinality(Counted(who)) \in Nat
         /\ Cardinality(Counted(who)) <= Cardinality(Threads)
<1>1. Counted(who) \subseteq Threads
  BY DEF Counted
<1>2. QED
  BY <1>1, ThreadsFinite, FS_Subset, FS_CardinalityType

\* A dictionary that is part of a bounded one is bounded
LEMMA PartIsBounded ==
  ASSUME NEW p, NEW q, Bounded(p), DOMAIN q \subseteq DOMAIN p
  PROVE  Bounded(q)
<1>1. IsFiniteSet(DOMAIN q)
  BY FewerPayments DEF Bounded
<1>2. ASSUME NEW who \in Acct PROVE Cardinality(From(q, who)) <= Bound
  <2>1. /\ Cardinality(From(p, who)) \in Nat
        /\ Cardinality(From(q, who)) \in Nat
        /\ Cardinality(From(q, who)) <= Cardinality(From(p, who))
    BY FewerPayments DEF Bounded
  <2>2. Cardinality(From(p, who)) <= Bound
    BY DEF Bounded
  <2>3. QED
    BY <2>1, <2>2, ThreadsFinite
<1>3. QED
  BY <1>1, <1>2 DEF Bounded

\* The pool itself is bounded, and so is the list of it that is written
LEMMA PoolIsBounded ==
  ASSUME IInv
  PROVE  /\ Bounded(pool)
         /\ \A s : Bounded(Contents(pool, s))
<1>1. Bounded(pool)
  <2>1. ASSUME NEW who \in Acct PROVE Cardinality(From(pool, who)) <= Bound
    <3>1. Cardinality(From(pool, who)) \in Nat
      BY FewerPayments DEF IInv
    <3>2. Cardinality(From(pool, who)) + Cardinality(Counted(who)) <= Bound
      BY DEF IInv, PlacesKept, OfSender
    <3>3. QED
      BY <3>1, <3>2, CountedFinite, ThreadsFinite
  <2>2. QED
    BY <2>1 DEF IInv, Bounded
<1>2. ASSUME NEW s PROVE Bounded(Contents(pool, s))
  <2>1. DOMAIN Contents(pool, s) = DOMAIN pool
    BY DEF Contents
  <2>2. QED
    BY <1>1, <2>1, PartIsBounded
<1>3. QED
  BY <1>1, <1>2

LEMMA EmptyIsBounded == Bounded(Empty)
<1>1. DOMAIN Empty = {}
  BY DEF Empty
<1>2. ASSUME NEW who \in Acct PROVE Cardinality(From(Empty, who)) <= Bound
  <2>1. From(Empty, who) = {}
    BY <1>1 DEF From
  <2>2. QED
    BY <2>1, FS_EmptySet, ThreadsFinite
<1>3. QED
  BY <1>1, <1>2, FS_EmptySet DEF Bounded

\* No payment enters the pool and no call is counted
LEMMA FewerKept ==
  ASSUME IInv, DOMAIN pool' \subseteq DOMAIN pool,
         \A who : Counted(who)' \subseteq Counted(who)
  PROVE  IsFiniteSet(DOMAIN pool)' /\ PlacesKept'
<1>1. IsFiniteSet(DOMAIN pool')
  BY FewerPayments DEF IInv
<1>2. ASSUME NEW who \in Acct
      PROVE  Cardinality(From(pool', who)) + Cardinality(Counted(who)') <= Bound
  <2>1. /\ Cardinality(From(pool, who)) \in Nat
        /\ Cardinality(From(pool', who)) \in Nat
        /\ Cardinality(From(pool', who)) <= Cardinality(From(pool, who))
    BY FewerPayments DEF IInv
  <2>2. /\ Cardinality(Counted(who)) \in Nat
        /\ Cardinality(Counted(who)') \in Nat
        /\ Cardinality(Counted(who)') <= Cardinality(Counted(who))
    BY CountedFinite, FS_Subset, FS_CardinalityType
  <2>3. Cardinality(From(pool, who)) + Cardinality(Counted(who)) <= Bound
    BY DEF IInv, PlacesKept, OfSender
  <2>4. QED
    BY <2>1, <2>2, <2>3, ThreadsFinite
<1>3. Bound' = Bound
  BY DEF Bound
<1>4. QED
  BY <1>1, <1>2, <1>3 DEF PlacesKept, OfSender

\* One thread goes on, and the others' calls stay as they are
LEMMA GotoShape ==
  ASSUME CallShape, NEW t \in Threads, NEW pc, Goto(t, pc)
  PROVE  /\ CallShape'
         /\ calls'[t] = [pc |-> pc, tx |-> calls[t].tx, data |-> calls[t].data]
         /\ \A u \in Threads \ {t} : calls'[u] = calls[u]
<1>1. calls' = [calls EXCEPT ![t].pc = pc]
  BY DEF Goto
<1>2. calls[t] = [pc |-> calls[t].pc, tx |-> calls[t].tx, data |-> calls[t].data]
  BY DEF CallShape
<1>3. calls'[t] = [pc |-> pc, tx |-> calls[t].tx, data |-> calls[t].data]
  BY <1>1, <1>2 DEF CallShape
<1>4. \A u \in Threads \ {t} : calls'[u] = calls[u]
  BY <1>1 DEF CallShape
<1>5. \A u \in Threads :
        calls'[u] = [pc |-> calls'[u].pc, tx |-> calls'[u].tx, data |-> calls'[u].data]
  BY <1>3, <1>4 DEF CallShape
<1>6. DOMAIN calls' = Threads /\ calls' = [u \in Threads |-> calls'[u]]
  BY <1>1 DEF CallShape
<1>7. QED
  BY <1>3, <1>4, <1>5, <1>6 DEF CallShape

LEMMA ReturnShape ==
  ASSUME CallShape, NEW t \in Threads, Return(t)
  PROVE  /\ CallShape'
         /\ calls'[t] = NoCall
         /\ \A u \in Threads \ {t} : calls'[u] = calls[u]
<1>1. calls' = [calls EXCEPT ![t] = NoCall]
  BY DEF Return
<1>2. /\ calls'[t] = NoCall
      /\ \A u \in Threads \ {t} : calls'[u] = calls[u]
      /\ DOMAIN calls' = Threads /\ calls' = [u \in Threads |-> calls'[u]]
  BY <1>1 DEF CallShape
<1>3. \A u \in Threads :
        calls'[u] = [pc |-> calls'[u].pc, tx |-> calls'[u].tx, data |-> calls'[u].data]
  BY <1>2 DEF CallShape, NoCall
<1>4. QED
  BY <1>2, <1>3 DEF CallShape

\* What a thread that goes on without writing leaves of the invariant
LEMMA ThreadRests ==
  ASSUME IInv, up' = up, UNCHANGED file, NEW t \in Threads, calls[t].pc # "idle",
         \A u \in Threads \ {t} : calls'[u] = calls[u],
         calls'[t].data \in {calls[t].data, Empty}
  PROVE  /\ DeadIsIdle'
         /\ Bounded(file)'
         /\ \A u \in Threads : Bounded(calls[u].data)'
<1>1. Bound' = Bound
  BY DEF Bound
<1>2. up
  BY DEF IInv, DeadIsIdle
<1>3. \A u \in Threads : Bounded(calls'[u].data)
  BY EmptyIsBounded DEF IInv
<1>4. QED
  BY <1>1, <1>2, <1>3 DEF IInv, DeadIsIdle, Bounded, From

------------------------------------------------------------------------
(* The steps of a thread                                                 *)

\* A call that passes the count found fewer payments than the limit
LEMMA CheckStep ==
  ASSUME IInv, NEW t \in Threads, Check(t)
  PROVE  IInv'
<1>1. calls[t].pc = "check" /\ UNCHANGED <<pool, file, up>>
  BY DEF Check, held
<1>2. CASE Return(t)
  <2>1. CallShape' /\ calls'[t] = NoCall /\ \A u \in Threads \ {t} : calls'[u] = calls[u]
    BY <1>2, ReturnShape DEF IInv
  <2>2. \A who : Counted(who)' \subseteq Counted(who)
    BY <2>1 DEF Counted, NoCall
  <2>3. QED
    BY <1>1, <2>1, <2>2, FewerKept, ThreadRests DEF IInv, NoCall
<1>3. CASE Goto(t, "validate") /\ Admissible(calls[t].tx)
  <2>1. /\ CallShape'
        /\ calls'[t] = [pc |-> "validate", tx |-> calls[t].tx, data |-> calls[t].data]
        /\ \A u \in Threads \ {t} : calls'[u] = calls[u]
    BY <1>3, GotoShape DEF IInv
  <2>2. ASSUME NEW who \in Acct
        PROVE  Cardinality(From(pool', who)) + Cardinality(Counted(who)') <= Bound
    <3>1. CASE who = calls[t].tx.from
      <4>1. Cardinality(From(pool, who)) < SenderLimit
        BY <1>3, <3>1 DEF Admissible, OfSender
      <4>2. Counted(who)' \subseteq Threads
        BY DEF Counted
      <4>3. Cardinality(Counted(who)') \in Nat /\ Cardinality(Counted(who)') <= Cardinality(Threads)
        BY <4>2, ThreadsFinite, FS_Subset, FS_CardinalityType
      <4>4. Cardinality(From(pool, who)) \in Nat /\ SenderLimit \in Nat
        BY FewerPayments, MempoolConstants DEF IInv, MempoolConstants
      <4>5. QED
        BY <1>1, <4>1, <4>3, <4>4, ThreadsFinite DEF Bound
    <3>2. CASE who # calls[t].tx.from
      <4>1. Counted(who)' = Counted(who)
        BY <2>1, <3>2 DEF Counted
      <4>2. QED
        BY <1>1, <4>1 DEF IInv, PlacesKept, OfSender
    <3>3. QED
      BY <3>1, <3>2
  <2>3. PlacesKept' /\ IsFiniteSet(DOMAIN pool)'
    BY <1>1, <2>2 DEF PlacesKept, OfSender, IInv, Bound
  <2>4. QED
    BY <1>1, <2>1, <2>3, ThreadRests DEF IInv
<1>4. QED
  BY <1>2, <1>3 DEF Check

LEMMA ValidateStep ==
  ASSUME IInv, NEW t \in Threads, Validate(t)
  PROVE  IInv'
<1>1. calls[t].pc = "validate" /\ UNCHANGED <<pool, file, up>>
  BY DEF Validate, held
<1>2. CASE Return(t)
  <2>1. CallShape' /\ calls'[t] = NoCall /\ \A u \in Threads \ {t} : calls'[u] = calls[u]
    BY <1>2, ReturnShape DEF IInv
  <2>2. \A who : Counted(who)' \subseteq Counted(who)
    BY <2>1 DEF Counted, NoCall
  <2>3. QED
    BY <1>1, <2>1, <2>2, FewerKept, ThreadRests DEF IInv, NoCall
<1>3. CASE Goto(t, "insert")
  <2>1. /\ CallShape'
        /\ calls'[t] = [pc |-> "insert", tx |-> calls[t].tx, data |-> calls[t].data]
        /\ \A u \in Threads \ {t} : calls'[u] = calls[u]
    BY <1>3, GotoShape DEF IInv
  <2>2. \A who : Counted(who)' \subseteq Counted(who)
    BY <1>1, <2>1 DEF Counted
  <2>3. QED
    BY <1>1, <2>1, <2>2, FewerKept, ThreadRests DEF IInv
<1>4. QED
  BY <1>2, <1>3 DEF Validate

\* The place that was kept for the call is taken by its payment
LEMMA InsertStep ==
  ASSUME IInv, NEW t \in Threads, Insert(t)
  PROVE  IInv'
<1> DEFINE tx == calls[t].tx
<1>1. /\ calls[t].pc = "insert" /\ UNCHANGED <<file, up>>
      /\ DOMAIN pool' = DOMAIN pool \cup {tx} /\ Goto(t, "stamp")
  BY DEF Insert, Put
<1>2. /\ CallShape'
      /\ calls'[t] = [pc |-> "stamp", tx |-> tx, data |-> calls[t].data]
      /\ \A u \in Threads \ {t} : calls'[u] = calls[u]
  BY <1>1, GotoShape DEF IInv
<1>3. IsFiniteSet(DOMAIN pool')
  BY <1>1, FS_AddElement DEF IInv
<1>4. ASSUME NEW who \in Acct
      PROVE  Cardinality(From(pool', who)) + Cardinality(Counted(who)') <= Bound
  <2>1. /\ Cardinality(From(pool, who)) \in Nat /\ Cardinality(Counted(who)) \in Nat
        /\ IsFiniteSet(From(pool, who)) /\ IsFiniteSet(Counted(who))
    <3>1. From(pool, who) \subseteq DOMAIN pool
      BY DEF From
    <3>2. QED
      BY <3>1, FS_Subset, FewerPayments, CountedFinite DEF IInv
  <2>2. Cardinality(From(pool, who)) + Cardinality(Counted(who)) <= Bound
    BY DEF IInv, PlacesKept, OfSender
  <2>3. CASE who = tx.from
    <3>1. From(pool', who) = From(pool, who) \cup {tx}
      BY <1>1, <2>3 DEF From
    <3>2. Counted(who)' = Counted(who) \ {t} /\ t \in Counted(who)
      BY <1>1, <1>2, <2>3 DEF Counted
    <3>3. Cardinality(From(pool', who)) \in {Cardinality(From(pool, who)),
                                             Cardinality(From(pool, who)) + 1}
      BY <2>1, <3>1, FS_AddElement
    <3>4. Cardinality(Counted(who)') = Cardinality(Counted(who)) - 1
      BY <2>1, <3>2, FS_RemoveElement
    <3>5. QED
      <4> DEFINE n == Cardinality(From(pool, who))
                 c == Cardinality(Counted(who))
      <4>1. n \in Nat /\ c \in Nat /\ n + c <= Bound /\ Bound \in Nat
        BY <2>1, <2>2, ThreadsFinite
      <4>2. Cardinality(From(pool', who)) \in {n, n + 1} /\ Cardinality(Counted(who)') = c - 1
        BY <3>3, <3>4
      <4> HIDE DEF n, c
      <4>3. QED
        BY <4>1, <4>2
  <2>4. CASE who # tx.from
    <3>1. From(pool', who) = From(pool, who)
      BY <1>1, <2>4 DEF From
    <3>2. Counted(who)' = Counted(who)
      BY <1>2, <2>4 DEF Counted
    <3>3. QED
      BY <2>2, <3>1, <3>2
  <2>5. QED
    BY <2>3, <2>4
<1>5. PlacesKept'
  BY <1>4 DEF PlacesKept, OfSender, Bound
<1>6. QED
  BY <1>1, <1>2, <1>3, <1>5, ThreadRests DEF IInv

LEMMA StampStep ==
  ASSUME IInv, NEW t \in Threads, Stamp(t)
  PROVE  IInv'
<1>1. calls[t].pc = "stamp" /\ UNCHANGED <<pool, file, up>> /\ Goto(t, "collect")
  BY DEF Stamp
<1>2. /\ CallShape'
      /\ calls'[t] = [pc |-> "collect", tx |-> calls[t].tx, data |-> calls[t].data]
      /\ \A u \in Threads \ {t} : calls'[u] = calls[u]
  BY <1>1, GotoShape DEF IInv
<1>3. \A who : Counted(who)' \subseteq Counted(who)
  BY <1>2 DEF Counted
<1>4. QED
  BY <1>1, <1>2, <1>3, FewerKept, ThreadRests DEF IInv

LEMMA CollectStep ==
  ASSUME IInv, NEW t \in Threads, Collect(t)
  PROVE  IInv'
<1> DEFINE data == Contents(pool, stamps)
<1>1. /\ calls[t].pc = "collect" /\ UNCHANGED <<pool, file, up>>
      /\ calls' = [calls EXCEPT ![t].pc = "write", ![t].data = data]
  BY DEF Collect, held
<1>2. /\ CallShape'
      /\ calls'[t] = [pc |-> "write", tx |-> calls[t].tx, data |-> data]
      /\ \A u \in Threads \ {t} : calls'[u] = calls[u]
  <2> HIDE DEF data
  <2>1. calls[t] = [pc |-> calls[t].pc, tx |-> calls[t].tx, data |-> calls[t].data]
    BY DEF IInv, CallShape
  <2>2. DOMAIN calls = Threads
    BY DEF IInv, CallShape
  <2>3. calls'[t] = [pc |-> "write", tx |-> calls[t].tx, data |-> data]
    BY <1>1, <2>1, <2>2
  <2>4. /\ \A u \in Threads \ {t} : calls'[u] = calls[u]
        /\ DOMAIN calls' = Threads /\ calls' = [u \in Threads |-> calls'[u]]
    BY <1>1, <2>2
  <2>5. \A u \in Threads :
          calls'[u] = [pc |-> calls'[u].pc, tx |-> calls'[u].tx, data |-> calls'[u].data]
    BY <2>3, <2>4 DEF IInv, CallShape
  <2>6. QED
    BY <2>3, <2>4, <2>5 DEF CallShape
<1>3. \A who : Counted(who)' \subseteq Counted(who)
  BY <1>2 DEF Counted
<1>4. \A u \in Threads : Bounded(calls'[u].data)
  <2>1. Bounded(data)
    BY PoolIsBounded
  <2>2. QED
    BY <1>2, <2>1 DEF IInv
<1>5. /\ \A u \in Threads : Bounded(calls[u].data)'
      /\ Bounded(file)'
  BY <1>1, <1>4 DEF IInv, Bounded, From, Bound
<1>6. DeadIsIdle'
  BY <1>1 DEF IInv, DeadIsIdle
<1>7. QED
  BY <1>1, <1>2, <1>3, <1>5, <1>6, FewerKept DEF IInv

LEMMA WriteStep ==
  ASSUME IInv, NEW t \in Threads, Write(t)
  PROVE  IInv'
<1>1. /\ calls[t].pc = "write" /\ UNCHANGED <<pool, up>> /\ Return(t)
      /\ file' \in {calls[t].data, Empty}
  BY DEF Write, Writes
<1>2. CallShape' /\ calls'[t] = NoCall /\ \A u \in Threads \ {t} : calls'[u] = calls[u]
  BY <1>1, ReturnShape DEF IInv
<1>3. \A who : Counted(who)' \subseteq Counted(who)
  BY <1>2 DEF Counted, NoCall
<1>4. /\ Bounded(file')
      /\ \A u \in Threads : Bounded(calls'[u].data)
  BY <1>1, <1>2, EmptyIsBounded DEF IInv, NoCall
<1>5. /\ Bounded(file)'
      /\ \A u \in Threads : Bounded(calls[u].data)'
  BY <1>4 DEF Bounded, From, Bound
<1>6. DeadIsIdle'
  BY <1>1 DEF IInv, DeadIsIdle
<1>7. QED
  BY <1>1, <1>2, <1>3, <1>5, <1>6, FewerKept DEF IInv

LEMMA SubmitStep ==
  ASSUME IInv, NEW t \in Threads, NEW tx \in Txs, Submit(t, tx)
  PROVE  IInv'
<1> DEFINE call == [pc |-> "check", tx |-> tx, data |-> Empty]
<1>1. up /\ UNCHANGED <<pool, file, up>> /\ calls' = [calls EXCEPT ![t] = call]
  BY DEF Submit, held
<1>2. /\ CallShape' /\ calls'[t] = call
      /\ \A u \in Threads \ {t} : calls'[u] = calls[u]
  <2>1. /\ calls'[t] = call
        /\ \A u \in Threads \ {t} : calls'[u] = calls[u]
        /\ DOMAIN calls' = Threads /\ calls' = [u \in Threads |-> calls'[u]]
    BY <1>1 DEF IInv, CallShape
  <2>2. \A u \in Threads :
          calls'[u] = [pc |-> calls'[u].pc, tx |-> calls'[u].tx, data |-> calls'[u].data]
    BY <2>1 DEF IInv, CallShape
  <2>3. QED
    BY <2>1, <2>2 DEF CallShape
<1>3. \A who : Counted(who)' \subseteq Counted(who)
  BY <1>2 DEF Counted
<1>4. \A u \in Threads : Bounded(calls'[u].data)
  BY <1>2, EmptyIsBounded DEF IInv
<1>5. /\ Bounded(file)'
      /\ \A u \in Threads : Bounded(calls[u].data)'
      /\ DeadIsIdle'
  BY <1>1, <1>4 DEF IInv, DeadIsIdle, Bounded, From, Bound
<1>6. QED
  BY <1>1, <1>2, <1>3, <1>5, FewerKept DEF IInv

------------------------------------------------------------------------
(* The event loop, death and restart                                     *)

\* A step of the event loop leaves the threads alone; the pool and the file
\* lose payments or stay as they are
LEMMA LoopStep ==
  ASSUME IInv, UNCHANGED <<calls, up>>,
         UNCHANGED <<pool, file>> \/ \E txs : Drop(txs)
  PROVE  IInv'
<1>1. DOMAIN pool' \subseteq DOMAIN pool
  BY DEF Drop, Without, Restrict
<1>2. Bounded(file)'
  <2>1. CASE UNCHANGED file
    BY <2>1 DEF IInv, Bounded, From, Bound
  <2>2. ASSUME NEW txs, Drop(txs) PROVE Bounded(file)'
    <3>1. DOMAIN file' \subseteq DOMAIN pool
      BY <2>2 DEF Drop, Writes, Without, Restrict, Contents, Empty
    <3>2. Bounded(file')
      BY <3>1, PoolIsBounded, PartIsBounded
    <3>3. QED
      BY <3>2 DEF Bounded, From, Bound
  <2>3. QED
    BY <2>1, <2>2
<1>3. \A who : Counted(who)' \subseteq Counted(who)
  BY DEF Counted
<1>4. CallShape' /\ DeadIsIdle' /\ \A t \in Threads : Bounded(calls[t].data)'
  BY DEF IInv, CallShape, DeadIsIdle, Bounded, From, Bound
<1>5. QED
  BY <1>1, <1>2, <1>3, <1>4, FewerKept DEF IInv

LEMMA DieStep ==
  ASSUME IInv, Die, file' \in {file, Empty}
  PROVE  IInv'
<1>1. /\ up' = FALSE /\ pool' = Empty /\ calls' = [t \in Threads |-> NoCall]
  BY DEF Die
<1>2. CallShape' /\ DeadIsIdle'
  BY <1>1 DEF CallShape, DeadIsIdle, NoCall
<1>3. \A who : Counted(who)' \subseteq Counted(who)
  BY <1>1 DEF Counted, NoCall
<1>4. DOMAIN pool' \subseteq DOMAIN pool
  BY <1>1 DEF Empty
<1>5. Bounded(file') /\ \A t \in Threads : Bounded(calls'[t].data)
  BY <1>1, EmptyIsBounded DEF IInv, NoCall
<1>6. Bounded(file)' /\ \A t \in Threads : Bounded(calls[t].data)'
  BY <1>5 DEF Bounded, From, Bound
<1>7. QED
  BY <1>2, <1>3, <1>4, <1>6, FewerKept DEF IInv

\* The file that is read back was bounded when it was written
LEMMA RestartStep ==
  ASSUME IInv, Restart
  PROVE  IInv'
<1>1. ~up /\ up' /\ UNCHANGED <<file, calls>> /\ DOMAIN pool' \subseteq DOMAIN file
  BY DEF Restart, Restored
<1>2. \A who : Counted(who)' = {}
  BY <1>1 DEF IInv, DeadIsIdle, Counted
<1>3. Bounded(pool')
  BY <1>1, PartIsBounded DEF IInv
<1>4. ASSUME NEW who \in Acct
      PROVE  Cardinality(From(pool', who)) + Cardinality(Counted(who)') <= Bound
  <2>1. Cardinality(From(pool', who)) \in Nat /\ Cardinality(From(pool', who)) <= Bound
    BY <1>3, FewerPayments DEF Bounded
  <2>2. Cardinality(Counted(who)') = 0
    BY <1>2, FS_EmptySet
  <2>3. QED
    BY <2>1, <2>2
<1>5. PlacesKept' /\ IsFiniteSet(DOMAIN pool)'
  BY <1>3, <1>4 DEF PlacesKept, OfSender, Bound, Bounded
<1>6. CallShape' /\ DeadIsIdle' /\ Bounded(file)' /\ \A t \in Threads : Bounded(calls[t].data)'
  BY <1>1 DEF IInv, CallShape, DeadIsIdle, Bounded, From, Bound
<1>7. QED
  BY <1>5, <1>6 DEF IInv

------------------------------------------------------------------------

LEMMA InitHolds == Init => IInv
<1> SUFFICES ASSUME Init PROVE IInv
  OBVIOUS
<1>1. CallShape /\ DeadIsIdle
  BY DEF Init, CallShape, DeadIsIdle, NoCall
<1>2. Bounded(pool) /\ Bounded(file) /\ \A t \in Threads : Bounded(calls[t].data)
  BY EmptyIsBounded DEF Init, NoCall
<1>3. ASSUME NEW who \in Acct PROVE Cardinality(OfSender(who)) + Cardinality(Counted(who)) <= Bound
  <2>1. Counted(who) = {}
    BY DEF Init, Counted, NoCall
  <2>2. Cardinality(OfSender(who)) \in Nat /\ Cardinality(OfSender(who)) <= Bound
    BY <1>2, FewerPayments DEF Bounded, OfSender
  <2>3. QED
    BY <2>1, <2>2, FS_EmptySet
<1>4. QED
  BY <1>1, <1>2, <1>3 DEF IInv, PlacesKept, Bounded

LEMMA ThreadStep ==
  ASSUME IInv, NEW t \in Threads, Step(t)
  PROVE  IInv'
BY CheckStep, ValidateStep, InsertStep, StampStep, CollectStep, WriteStep DEF Step

LEMMA EventStep ==
  ASSUME IInv,
         \/ Tick \/ Replay \/ FinishRollback \/ Forge \/ AddOwnBlock \/ GiveUpOwnBlock
         \/ \E b : PeerBlock(b)
         \/ \E n, blocks : StartRollback(n, blocks)
  PROVE  IInv'
<1>1. UNCHANGED <<calls, up>>
  BY DEF Tick, Replay, FinishRollback, Forge, AddOwnBlock, GiveUpOwnBlock, PeerBlock,
         StartRollback
<1>2. UNCHANGED <<pool, file>> \/ \E txs : Drop(txs)
  BY DEF Tick, Replay, FinishRollback, Forge, AddOwnBlock, GiveUpOwnBlock, PeerBlock,
         StartRollback, Extend, held
<1>3. QED
  BY <1>1, <1>2, LoopStep

LEMMA DeathStep ==
  ASSUME IInv, CleanupFails \/ Crash
  PROVE  IInv'
<1>1. Die /\ file' \in {file, Empty}
  BY DEF CleanupFails, Crash
<1>2. QED
  BY <1>1, DieStep

LEMMA StepKeeps ==
  ASSUME IInv, [Next]_vars
  PROVE  IInv'
<1>1. CASE UNCHANGED vars
  <2>1. UNCHANGED <<calls, up, pool, file>>
    BY <1>1 DEF vars, held
  <2>2. QED
    BY <2>1, LoopStep
<1>2. ASSUME NEW t \in Threads, Step(t) \/ \E tx \in Txs : Submit(t, tx) PROVE IInv'
  BY <1>2, ThreadStep, SubmitStep
<1>3. CASE \/ Tick \/ Replay \/ FinishRollback \/ Forge \/ AddOwnBlock \/ GiveUpOwnBlock
           \/ \E b \in PeerBlocks : PeerBlock(b)
           \/ \E n \in 0 .. Len(log) : \E blocks \in {<<>>} \cup {<<b>> : b \in PeerBlocks} :
                StartRollback(n, blocks)
  BY <1>3, EventStep
<1>4. CASE CleanupFails \/ Crash
  BY <1>4, DeathStep
<1>5. CASE Restart
  BY <1>5, RestartStep
<1>6. QED
  BY <1>1, <1>2, <1>3, <1>4, <1>5 DEF Next

\* mempool.py:81-111. The invariant of the pool's calls, for any numbers of
\* threads, payments, deaths and rollbacks.
THEOREM Inductive == Spec => []IInv
<1>1. Init => IInv
  BY InitHolds
<1>2. IInv /\ [Next]_vars => IInv'
  BY StepKeeps
<1>3. QED
  BY <1>1, <1>2, PTL DEF Spec

\* mempool.py:98-106. No sender has more payments pending than the limit and
\* one for each thread but one, whatever is submitted, mined, rolled back or
\* read back from the file.
THEOREM SenderIsBounded == Spec => []SenderBound
<1>1. IInv => SenderBound
  BY PoolIsBounded, ThreadsFinite DEF SenderBound, Bounded, OfSender, Bound
<1>2. QED
  BY <1>1, Inductive, PTL

------------------------------------------------------------------------
(* What the pool, the file, the calls and the chain hold                 *)

PaymentBlock == [slot : Nat, txs : Seq(Txs)]

\* A time that is past, and at which the payment was not too early
Since(tx, t, clock) == t \in Nat /\ t <= clock /\ tx.ts - Skew <= t

\* The pool: payments that were not too early, in an order
Pending(p, clock) ==
  /\ p \in [DOMAIN p -> Nat] /\ DOMAIN p \subseteq Txs /\ IsInjective(p)
  /\ \A tx \in DOMAIN p : tx.ts - Skew <= clock

Stamped(s, clock) ==
  DOMAIN s \subseteq Txs /\ \A tx \in DOMAIN s : Since(tx, s[tx], clock)

\* The file, or a list that is going to be one
Listed(p, clock) ==
  /\ DOMAIN p \subseteq Txs
  /\ \A tx \in DOMAIN p : p[tx].place \in Nat /\ Since(tx, p[tx].at, clock)
  /\ \A x, y \in DOMAIN p : p[x].place = p[y].place => x = y

\* A call that passed the validation was in time
Called(call, clock) ==
  /\ call.pc \in {"idle", "check", "validate", "insert", "stamp", "collect", "write"}
  /\ call.pc # "idle" => call.tx \in Txs
  /\ call.pc \in {"insert", "stamp", "collect", "write"} => call.tx.ts - Skew <= clock
  /\ Listed(call.data, clock)

Forged(own) == own = NoForge \/ (own.slot \in Nat /\ own.txs \in Seq(Txs))

Chained ==
  /\ log \in Seq(PaymentBlock) /\ branch \in Seq(PaymentBlock)
  /\ applied \in 0 .. Len(log) /\ confirmed \subseteq Txs

Books ==
  /\ now \in Nat
  /\ Pending(pool, now) /\ Stamped(stamps, now) /\ Listed(file, now)
  /\ \A t \in Threads : Called(calls[t], now)
  /\ Forged(forge) /\ Chained

------------------------------------------------------------------------
(* The place of a new payment, and the order of a block                  *)

PaidStep(r, tx, c) == Paid(r, tx)

Counting == INSTANCE FoldTheorems WITH Op <- PaidStep

\* A finite set of numbers has a greatest one.
LEMMA GreatestNumber ==
  ASSUME NEW S, S \subseteq Nat, S # {}, IsFiniteSet(S)
  PROVE  Max(S) \in S /\ \A x \in S : Max(S) >= x
<1> DEFINE T == {n \in Nat : \A U \in SUBSET Nat :
                   IsFiniteSet(U) /\ Cardinality(U) = n /\ U # {}
                     => \E m \in U : \A x \in U : m >= x}
<1>1. 0 \in T
  BY FS_EmptySet
<1>2. ASSUME NEW n \in T \cap Nat PROVE n + 1 \in T
  <2> SUFFICES ASSUME NEW U \in SUBSET Nat, IsFiniteSet(U), Cardinality(U) = n + 1, U # {}
               PROVE  \E m \in U : \A x \in U : m >= x
    OBVIOUS
  <2>1. PICK u \in U : TRUE
    OBVIOUS
  <2>2. IsFiniteSet(U \ {u}) /\ Cardinality(U \ {u}) = n
    <3>1. IsFiniteSet(U \ {u}) /\ Cardinality(U \ {u}) = Cardinality(U) - 1
      BY <2>1, FS_RemoveElement, Zenon
    <3>2. n \in Nat
      OBVIOUS
    <3>3. QED
      BY <3>1, <3>2
  <2>3. CASE U \ {u} = {}
    BY <2>1, <2>3
  <2>4. CASE U \ {u} # {}
    <3>1. PICK m \in U \ {u} : \A x \in U \ {u} : m >= x
      BY <2>2, <2>4
    <3>2. m \in Nat /\ u \in Nat /\ \A x \in U : x \in Nat
      BY <2>1, <3>1
    <3>3. CASE u >= m
      <4>1. \A x \in U : u >= x
        BY <3>1, <3>2, <3>3
      <4>2. QED
        BY <2>1, <4>1
    <3>4. CASE m >= u
      <4>1. \A x \in U : m >= x
        BY <3>1, <3>2, <3>4
      <4>2. QED
        BY <3>1, <4>1
    <3>5. QED
      BY <3>2, <3>3, <3>4
  <2>5. QED
    BY <2>3, <2>4
<1>3. Cardinality(S) \in Nat
  BY FS_CardinalityType
<1>4. Cardinality(S) \in T
  <2> HIDE DEF T
  <2>1. \A n \in Nat : n \in T
    BY <1>1, <1>2, Counting!SetInduction
  <2>2. QED
    BY <1>3, <2>1
<1>5. \E m \in S : \A x \in S : m >= x
  BY <1>4
<1>6. QED
  BY <1>5 DEF Max

\* The lower of two numbers
LEMMA LowerOfTwo ==
  ASSUME NEW a \in Nat, NEW b \in Nat
  PROVE  Min({a, b}) \in {a, b} /\ Min({a, b}) <= a /\ Min({a, b}) <= b
<1>1. \E x \in {a, b} : \A y \in {a, b} : x <= y
  <2>1. CASE a <= b
    BY <2>1
  <2>2. CASE b <= a
    BY <2>2
  <2>3. QED
    BY <2>1, <2>2
<1>2. Min({a, b}) \in {a, b} /\ \A y \in {a, b} : Min({a, b}) <= y
  BY <1>1 DEF Min
<1>3. QED
  BY <1>2

\* The new payment comes after all others.
LEMMA PutKeepsOrder ==
  ASSUME NEW p, NEW tx, NEW clock \in Nat, Pending(p, clock), IsFiniteSet(DOMAIN p),
         tx \in Txs, tx.ts - Skew <= clock
  PROVE  Pending(Put(p, tx), clock)
<1> DEFINE places == {0} \cup Range(p)
           next   == 1 + Max(places)
<1>1. p \in [DOMAIN p -> Nat] /\ DOMAIN p \subseteq Txs /\ IsInjective(p)
  BY DEF Pending
<1>2. Range(p) \subseteq Nat /\ \A x \in DOMAIN p : p[x] \in Range(p)
  BY <1>1 DEF Range
<1>3. IsFiniteSet(Range(p))
  <2>1. p \in Surjection(DOMAIN p, Range(p))
    BY <1>1, <1>2 DEF Surjection, Range
  <2>2. QED
    BY <2>1, FS_Surjection
<1>4. IsFiniteSet(places) /\ places \subseteq Nat /\ places # {}
  <2>1. IsFiniteSet(Range(p) \cup {0})
    BY <1>3, FS_AddElement
  <2>2. Range(p) \cup {0} = places
    OBVIOUS
  <2>3. places \subseteq Nat /\ places # {}
    BY <1>2
  <2> HIDE DEF places
  <2>4. QED
    BY <2>1, <2>2, <2>3
<1>5. Max(places) \in Nat /\ \A x \in places : x \in Nat /\ Max(places) >= x
  <2> HIDE DEF places
  <2>1. QED
    BY <1>4, GreatestNumber
<1>6. next \in Nat /\ \A x \in DOMAIN p : p[x] \in Nat /\ p[x] < next
  <2>1. \A x \in DOMAIN p : p[x] \in places
    BY <1>2
  <2> HIDE DEF places
  <2>2. QED
    BY <1>5, <2>1
<1> HIDE DEF places, next
<1>7. Put(p, tx) = [x \in DOMAIN p \cup {tx} |-> IF x \in DOMAIN p THEN p[x] ELSE next]
  BY DEF Put, next, places
<1>8. /\ DOMAIN Put(p, tx) = DOMAIN p \cup {tx}
      /\ \A x \in DOMAIN p : Put(p, tx)[x] = p[x]
      /\ tx \notin DOMAIN p => Put(p, tx)[tx] = next
  BY <1>7
<1>9. Put(p, tx) \in [DOMAIN p \cup {tx} -> Nat]
  BY <1>6, <1>7
<1>10. IsInjective(Put(p, tx))
  <2> SUFFICES ASSUME NEW x \in DOMAIN p \cup {tx}, NEW y \in DOMAIN p \cup {tx},
                      Put(p, tx)[x] = Put(p, tx)[y]
               PROVE  x = y
    BY <1>8 DEF IsInjective
  <2>1. CASE x \in DOMAIN p /\ y \in DOMAIN p
    BY <1>1, <1>8, <2>1 DEF IsInjective
  <2>2. CASE x \in DOMAIN p /\ y \notin DOMAIN p
    BY <1>6, <1>8, <2>2
  <2>3. CASE x \notin DOMAIN p /\ y \in DOMAIN p
    BY <1>6, <1>8, <2>3
  <2>4. QED
    BY <2>1, <2>2, <2>3
<1>11. QED
  BY <1>1, <1>8, <1>9, <1>10 DEF Pending

\* The payments ahead of one in a pool: as many as its place in the order
LEMMA AheadIsRank ==
  ASSUME NEW p, NEW clock, Pending(p, clock), IsFiniteSet(DOMAIN p)
  PROVE  \A i \in 1 .. Cardinality(DOMAIN p) :
            \E tx \in DOMAIN p : Cardinality(Ahead(p, tx)) = i - 1
<1> DEFINE D == DOMAIN p
           n == Cardinality(D)
           rank == [tx \in D |-> Cardinality(Ahead(p, tx))]
<1>1. n \in Nat
  BY FS_CardinalityType
<1>2. \A tx \in D : tx.fee \in Nat /\ p[tx] \in Nat
  BY MempoolConstants DEF Pending, MempoolConstants
<1>3. \A x, y \in D : x # y => Sooner(p, x, y) \/ Sooner(p, y, x)
  <2> SUFFICES ASSUME NEW x \in D, NEW y \in D, x # y
               PROVE  Sooner(p, x, y) \/ Sooner(p, y, x)
    OBVIOUS
  <2>1. p[x] # p[y]
    BY DEF Pending, IsInjective
  <2>2. x.fee \in Nat /\ y.fee \in Nat /\ p[x] \in Nat /\ p[y] \in Nat
    BY <1>2
  <2>3. QED
    BY <2>1, <2>2 DEF Sooner
<1>4. \A x, y, z \in D : Sooner(p, x, y) /\ Sooner(p, y, z) => Sooner(p, x, z)
  <2> SUFFICES ASSUME NEW x \in D, NEW y \in D, NEW z \in D, Sooner(p, x, y), Sooner(p, y, z)
               PROVE  Sooner(p, x, z)
    OBVIOUS
  <2>1. /\ x.fee \in Nat /\ y.fee \in Nat /\ z.fee \in Nat
        /\ p[x] \in Nat /\ p[y] \in Nat /\ p[z] \in Nat
    BY <1>2
  <2>2. QED
    BY <2>1 DEF Sooner
<1>5. \A x \in D : ~Sooner(p, x, x)
  <2> SUFFICES ASSUME NEW x \in D PROVE ~Sooner(p, x, x)
    OBVIOUS
  <2>1. x.fee \in Nat /\ p[x] \in Nat
    BY <1>2
  <2>2. QED
    BY <2>1 DEF Sooner
<1>6. \A x \in D : /\ Ahead(p, x) \subseteq D /\ x \notin Ahead(p, x)
                   /\ IsFiniteSet(Ahead(p, x)) /\ Cardinality(Ahead(p, x)) \in Nat
  <2> SUFFICES ASSUME NEW x \in D
               PROVE  /\ Ahead(p, x) \subseteq D /\ x \notin Ahead(p, x)
                      /\ IsFiniteSet(Ahead(p, x)) /\ Cardinality(Ahead(p, x)) \in Nat
    OBVIOUS
  <2>1. Ahead(p, x) \subseteq D /\ x \notin Ahead(p, x)
    BY <1>5 DEF Ahead
  <2>2. QED
    BY <2>1, FS_Subset, FS_CardinalityType
<1>7. \A x \in D, y \in D : Sooner(p, x, y) => rank[x] < rank[y]
  <2> SUFFICES ASSUME NEW x \in D, NEW y \in D, Sooner(p, x, y)
               PROVE  Cardinality(Ahead(p, x)) < Cardinality(Ahead(p, y))
    OBVIOUS
  <2>1. Ahead(p, x) \cup {x} \subseteq Ahead(p, y)
    BY <1>4, <1>6 DEF Ahead
  <2>2. Cardinality(Ahead(p, x) \cup {x}) = Cardinality(Ahead(p, x)) + 1
    BY <1>6, FS_AddElement
  <2>3. Cardinality(Ahead(p, x) \cup {x}) <= Cardinality(Ahead(p, y))
    BY <1>6, <2>1, FS_Subset
  <2>4. QED
    BY <1>6, <2>2, <2>3
<1>8. rank \in [D -> 0 .. n - 1]
  <2> SUFFICES ASSUME NEW x \in D PROVE Cardinality(Ahead(p, x)) \in 0 .. n - 1
    OBVIOUS
  <2>1. Cardinality(Ahead(p, x) \cup {x}) = Cardinality(Ahead(p, x)) + 1
    BY <1>6, FS_AddElement
  <2>2. Ahead(p, x) \cup {x} \subseteq D
    BY <1>6
  <2>3. Cardinality(Ahead(p, x) \cup {x}) <= n
    BY <2>2, FS_Subset
  <2>4. Cardinality(Ahead(p, x)) \in Nat
    BY <1>6
  <2> HIDE DEF n
  <2>5. QED
    BY <1>1, <2>1, <2>3, <2>4
<1> HIDE DEF rank, n
<1>9. \A x, y \in D : rank[x] = rank[y] => x = y
  <2> SUFFICES ASSUME NEW x \in D, NEW y \in D, rank[x] = rank[y], x # y PROVE FALSE
    OBVIOUS
  <2>1. rank[x] \in 0 .. n - 1 /\ rank[y] \in 0 .. n - 1
    BY <1>8
  <2>2. rank[x] < rank[y] \/ rank[y] < rank[x]
    BY <1>3, <1>7
  <2>3. QED
    BY <1>1, <2>1, <2>2
<1>10. rank \in Injection(D, 0 .. n - 1)
  BY <1>8, <1>9 DEF Injection, IsInjective
<1>11. IsFiniteSet(0 .. n - 1) /\ Cardinality(0 .. n - 1) = n
  <2>1. 0 \in Int /\ n - 1 \in Int
    BY <1>1
  <2>2. /\ IsFiniteSet(0 .. n - 1)
        /\ Cardinality(0 .. n - 1) = IF 0 > n - 1 THEN 0 ELSE (n - 1) - 0 + 1
    BY <2>1, FS_Interval, Zenon
  <2>3. QED
    BY <1>1, <2>2
<1>12. rank \in Surjection(D, 0 .. n - 1)
  <2>1. Cardinality(D) = Cardinality(0 .. n - 1)
    BY <1>11 DEF n
  <2>2. QED
    BY <1>10, <1>11, <2>1, FS_Injection, Zenon
<1>13. ASSUME NEW i \in 1 .. n PROVE \E tx \in D : Cardinality(Ahead(p, tx)) = i - 1
  <2>1. i - 1 \in 0 .. n - 1
    BY <1>1
  <2>2. PICK tx \in D : rank[tx] = i - 1
    BY <1>12, <2>1 DEF Surjection
  <2>3. QED
    BY <2>2 DEF rank
<1>14. QED
  BY <1>13 DEF n

\* A block is filled with payments of the pool.
LEMMA BatchIsPending ==
  ASSUME NEW p, NEW clock, Pending(p, clock), IsFiniteSet(DOMAIN p)
  PROVE  Batch(p) \in Seq(Txs)
<1> DEFINE n == Min({Cardinality(DOMAIN p), BlockLimit})
<1>1. n \in Nat /\ n <= Cardinality(DOMAIN p) /\ Cardinality(DOMAIN p) \in Nat
  <2>1. Cardinality(DOMAIN p) \in Nat /\ BlockLimit \in Nat
    BY FS_CardinalityType, MempoolConstants DEF MempoolConstants
  <2>2. QED
    BY <2>1, LowerOfTwo
<1>2. Batch(p) = [i \in 1 .. n |-> CHOOSE tx \in DOMAIN p : Cardinality(Ahead(p, tx)) = i - 1]
  BY DEF Batch
<1> HIDE DEF n
<1>3. ASSUME NEW i \in 1 .. n
      PROVE  (CHOOSE tx \in DOMAIN p : Cardinality(Ahead(p, tx)) = i - 1) \in Txs
  <2>1. i \in 1 .. Cardinality(DOMAIN p)
    BY <1>1
  <2>2. \E tx \in DOMAIN p : Cardinality(Ahead(p, tx)) = i - 1
    BY <2>1, AheadIsRank
  <2>3. (CHOOSE tx \in DOMAIN p : Cardinality(Ahead(p, tx)) = i - 1) \in DOMAIN p
    BY <2>2
  <2>4. QED
    BY <2>3 DEF Pending
<1>4. Batch(p) \in [1 .. n -> Txs]
  BY <1>2, <1>3
<1>5. QED
  BY <1>1, <1>4

------------------------------------------------------------------------
(* What the operators of the pool keep                                   *)

\* What was in time stays in time.
LEMMA LaterInTime ==
  ASSUME NEW clock \in Nat, NEW later \in Nat, clock <= later
  PROVE  /\ \A p : Pending(p, clock) => Pending(p, later)
         /\ \A s : Stamped(s, clock) => Stamped(s, later)
         /\ \A p : Listed(p, clock) => Listed(p, later)
         /\ \A call : Called(call, clock) => Called(call, later)
<1>1. \A tx \in Txs : tx.ts - Skew <= clock => tx.ts - Skew <= later
  BY MempoolConstants DEF MempoolConstants
<1>2. \A tx, t : Since(tx, t, clock) => Since(tx, t, later)
  BY DEF Since
<1>3. \A p : Pending(p, clock) => Pending(p, later)
  BY <1>1, Zenon DEF Pending
<1>4. \A s : Stamped(s, clock) => Stamped(s, later)
  BY <1>2, Zenon DEF Stamped
<1>5. \A p : Listed(p, clock) => Listed(p, later)
  BY <1>2, Zenon DEF Listed
<1>6. \A call : Called(call, clock) => Called(call, later)
  BY <1>1, <1>5, Zenon DEF Called
<1>7. QED
  BY <1>3, <1>4, <1>5, <1>6

LEMMA EmptyInTime ==
  ASSUME NEW clock \in Nat
  PROVE  /\ Pending(Empty, clock) /\ Stamped(Empty, clock) /\ Listed(Empty, clock)
         /\ Called(NoCall, clock)
<1>1. DOMAIN Empty = {} /\ Empty \in [DOMAIN Empty -> Nat]
  BY DEF Empty
<1>2. Pending(Empty, clock) /\ Stamped(Empty, clock) /\ Listed(Empty, clock)
  BY <1>1 DEF Pending, Stamped, Listed, IsInjective
<1>3. QED
  BY <1>2 DEF Called, NoCall

LEMMA WithoutInTime ==
  ASSUME NEW clock, NEW txs
  PROVE  /\ \A p : Pending(p, clock) => Pending(Without(p, txs), clock)
         /\ \A s : Stamped(s, clock) => Stamped(Without(s, txs), clock)
<1>1. ASSUME NEW p
      PROVE  /\ DOMAIN Without(p, txs) = DOMAIN p \ txs
             /\ \A x \in DOMAIN p \ txs : Without(p, txs)[x] = p[x]
             /\ Without(p, txs) = [x \in DOMAIN p \ txs |-> p[x]]
  BY DEF Without, Restrict
<1>2. ASSUME NEW p, Pending(p, clock) PROVE Pending(Without(p, txs), clock)
  <2>1. Without(p, txs) \in [DOMAIN p \ txs -> Nat]
    BY <1>1, <1>2 DEF Pending
  <2>2. QED
    BY <1>1, <1>2, <2>1 DEF Pending, IsInjective
<1>3. ASSUME NEW s, Stamped(s, clock) PROVE Stamped(Without(s, txs), clock)
  BY <1>1, <1>3 DEF Stamped
<1>4. QED
  BY <1>2, <1>3

\* What is written: the times there are, and the present one for the others
LEMMA ContentsInTime ==
  ASSUME now \in Nat
  PROVE  \A p, s : Pending(p, now) /\ Stamped(s, now) => Listed(Contents(p, s), now)
<1> SUFFICES ASSUME NEW p, NEW s, Pending(p, now), Stamped(s, now)
             PROVE  Listed(Contents(p, s), now)
  OBVIOUS
<1>1. /\ DOMAIN Contents(p, s) = DOMAIN p
      /\ \A tx \in DOMAIN p :
           /\ Contents(p, s)[tx].place = p[tx]
           /\ tx \in DOMAIN s => Contents(p, s)[tx].at = s[tx]
           /\ tx \notin DOMAIN s => Contents(p, s)[tx].at = now
  BY DEF Contents
<1>2. ASSUME NEW tx \in DOMAIN p
      PROVE  Contents(p, s)[tx].place \in Nat /\ Since(tx, Contents(p, s)[tx].at, now)
  <2>1. Contents(p, s)[tx].place \in Nat
    BY <1>1 DEF Pending
  <2>2. CASE tx \in DOMAIN s
    BY <1>1, <2>1, <2>2 DEF Stamped
  <2>3. CASE tx \notin DOMAIN s
    <3>1. Since(tx, now, now)
      BY DEF Since, Pending
    <3>2. QED
      BY <1>1, <2>1, <2>3, <3>1
  <2>4. QED
    BY <2>2, <2>3
<1>3. QED
  BY <1>1, <1>2 DEF Listed, Pending, IsInjective

\* What is read back
LEMMA RestoredInTime ==
  ASSUME NEW clock \in Nat, NEW p, Listed(p, clock), NEW txs, txs \subseteq DOMAIN p
  PROVE  /\ Pending([tx \in txs |-> p[tx].place], clock)
         /\ Stamped([tx \in txs |-> p[tx].at], clock)
<1>1. \A tx \in txs : /\ tx \in Txs /\ p[tx].place \in Nat
                      /\ Since(tx, p[tx].at, clock)
  BY DEF Listed
<1>2. \A tx \in txs : tx.ts - Skew <= clock
  <2> SUFFICES ASSUME NEW tx \in txs PROVE tx.ts - Skew <= clock
    OBVIOUS
  <2>1. tx.ts \in Nat /\ Skew \in Nat
    BY <1>1, MempoolConstants DEF MempoolConstants
  <2>2. QED
    BY <1>1, <2>1 DEF Since
<1>3. \A x, y \in txs : p[x].place = p[y].place => x = y
  BY DEF Listed
<1>4. QED
  BY <1>1, <1>2, <1>3 DEF Pending, Stamped, IsInjective

\* The pool after some payments left it
LEMMA DropInTime ==
  ASSUME Books, NEW txs, Drop(txs), UNCHANGED now
  PROVE  Pending(pool', now') /\ Stamped(stamps', now') /\ Listed(file', now')
<1> DEFINE p == Without(pool, txs)
           s == Without(stamps, txs \cap DOMAIN pool)
<1>1. pool' = p /\ stamps' = s /\ file' \in {Contents(p, s), Empty}
  BY DEF Drop, Writes
<1>2. Pending(p, now) /\ Stamped(s, now)
  BY WithoutInTime DEF Books
<1> HIDE DEF p, s
<1>3. Listed(Contents(p, s), now)
  BY <1>2, ContentsInTime DEF Books
<1>4. Listed(Empty, now)
  BY EmptyInTime DEF Books
<1>5. QED
  BY <1>1, <1>2, <1>3, <1>4

\* A step that leaves a part of the state alone
LEMMA HeldInTime ==
  ASSUME Books, UNCHANGED <<held, now>>
  PROVE  Pending(pool', now') /\ Stamped(stamps', now') /\ Listed(file', now')
BY DEF Books, held

LEMMA CallsInTime ==
  ASSUME Books, UNCHANGED <<calls, now>>
  PROVE  \A t \in Threads : Called(calls'[t], now')
BY DEF Books

LEMMA LedgerStays ==
  ASSUME Books, UNCHANGED ledger
  PROVE  Chained'
BY DEF Books, Chained, ledger

------------------------------------------------------------------------
(* The chain of payments                                                 *)

LEMMA TxsOfChain ==
  ASSUME NEW blocks \in Seq(PaymentBlock)
  PROVE  TxsOf(blocks) \subseteq Txs
<1>1. ASSUME NEW i \in DOMAIN blocks PROVE ToSet(blocks[i].txs) \subseteq Txs
  <2>1. blocks[i] \in PaymentBlock
    OBVIOUS
  <2>2. blocks[i].txs \in Seq(Txs)
    BY <2>1 DEF PaymentBlock
  <2>3. QED
    BY <2>2 DEF ToSet
<1>2. QED
  BY <1>1 DEF TxsOf

LEMMA PeerBlocksAreBlocks ==
  ASSUME Books, NEW b \in PeerBlocks
  PROVE  b \in PaymentBlock
<1>1. b \in [slot : (1 .. now) \ OwnSlots, txs : Batches]
  BY DEF PeerBlocks
<1>2. \A txs \in Batches : txs \in Seq(Txs)
  BY MempoolConstants DEF MempoolConstants
<1>3. b.slot \in Nat /\ b.txs \in Seq(Txs)
  BY <1>1, <1>2 DEF Books
<1>4. b = [slot |-> b.slot, txs |-> b.txs]
  BY <1>1
<1>5. QED
  BY <1>3, <1>4 DEF PaymentBlock

LEMMA ExtendChain ==
  ASSUME Books, NEW b \in PaymentBlock, Settled, Extend(b)
  PROVE  Chained'
<1>1. /\ log \in Seq(PaymentBlock) /\ branch \in Seq(PaymentBlock)
      /\ applied \in 0 .. Len(log) /\ confirmed \subseteq Txs
  BY DEF Books, Chained
<1>2. /\ log' = Append(log, b) /\ applied' = applied + 1 /\ branch' = branch
      /\ confirmed' = confirmed \cup ToSet(b.txs)
  BY DEF Extend
<1>3. log' \in Seq(PaymentBlock) /\ Len(log') = Len(log) + 1
  BY <1>1, <1>2
<1>4. applied' \in 0 .. Len(log')
  BY <1>1, <1>2, <1>3
<1>5. b.txs \in Seq(Txs)
  BY DEF PaymentBlock
<1>6. ToSet(b.txs) \subseteq Txs
  BY <1>5 DEF ToSet
<1>7. QED
  BY <1>1, <1>2, <1>3, <1>4, <1>6 DEF Chained

------------------------------------------------------------------------
(* The steps                                                             *)

\* A thread goes on: its payment stays the one of the call
LEMMA GotoInTime ==
  ASSUME IInv, Books, NEW t \in Threads, NEW pc, Goto(t, pc), calls[t].pc # "idle",
         pc \in {"validate", "insert", "stamp", "collect"}, UNCHANGED now,
         pc # "validate" => calls[t].tx.ts - Skew <= now
  PROVE  \A u \in Threads : Called(calls'[u], now')
<1>1. /\ calls'[t] = [pc |-> pc, tx |-> calls[t].tx, data |-> calls[t].data]
      /\ \A u \in Threads \ {t} : calls'[u] = calls[u]
  BY GotoShape DEF IInv
<1>2. calls[t].tx \in Txs /\ Listed(calls[t].data, now)
  BY DEF Books, Called
<1>3. Called(calls'[t], now')
  BY <1>1, <1>2 DEF Called
<1>4. QED
  BY <1>1, <1>3 DEF Books

LEMMA ReturnInTime ==
  ASSUME IInv, Books, NEW t \in Threads, Return(t), UNCHANGED now
  PROVE  \A u \in Threads : Called(calls'[u], now')
<1>1. calls'[t] = NoCall /\ \A u \in Threads \ {t} : calls'[u] = calls[u]
  BY ReturnShape DEF IInv
<1>2. Called(NoCall, now)
  BY EmptyInTime DEF Books
<1>3. QED
  BY <1>1, <1>2 DEF Books

\* The validation compares the payment with the clock.
LEMMA ThreadBooks ==
  ASSUME IInv, Books, NEW t \in Threads, Step(t)
  PROVE  Books'
<1>1. now \in Nat /\ Called(calls[t], now)
  BY DEF Books
<1>2. UNCHANGED <<ledger, miner, now>>
  BY DEF Step, Check, Validate, Insert, Stamp, Collect, Write
<1>3. Chained' /\ Forged(forge') /\ now' \in Nat
  BY <1>1, <1>2, LedgerStays DEF miner, Books
<1>4. CASE Check(t)
  <2>1. UNCHANGED <<held, now>> /\ calls[t].pc = "check"
    BY <1>4 DEF Check
  <2>2. \A u \in Threads : Called(calls'[u], now')
    <3>1. CASE Goto(t, "validate")
      BY <2>1, <3>1, GotoInTime
    <3>2. CASE Return(t)
      BY <2>1, <3>2, ReturnInTime
    <3>3. QED
      BY <1>4, <3>1, <3>2 DEF Check
  <2>3. QED
    BY <1>3, <2>1, <2>2, HeldInTime DEF Books
<1>5. CASE Validate(t)
  <2>1. UNCHANGED <<held, now>> /\ calls[t].pc = "validate"
    BY <1>5 DEF Validate
  <2>2. \A u \in Threads : Called(calls'[u], now')
    <3>1. CASE Goto(t, "insert") /\ Valid(calls[t].tx, Balances, now)
      <4>1. calls[t].tx \in Txs /\ calls[t].tx.ts <= now + Skew
        BY <1>1, <2>1, <3>1 DEF Valid, Fresh, Called
      <4>2. calls[t].tx.ts - Skew <= now
        <5>1. calls[t].tx.ts \in Nat /\ Skew \in Nat
          BY <4>1, MempoolConstants DEF MempoolConstants
        <5>2. QED
          BY <1>1, <4>1, <5>1
      <4>3. QED
        BY <2>1, <3>1, <4>2, GotoInTime
    <3>2. CASE Return(t)
      BY <2>1, <3>2, ReturnInTime
    <3>3. QED
      BY <1>5, <3>1, <3>2 DEF Validate
  <2>3. QED
    BY <1>3, <2>1, <2>2, HeldInTime DEF Books
<1>6. CASE Insert(t)
  <2>1. /\ calls[t].pc = "insert" /\ pool' = Put(pool, calls[t].tx) /\ Goto(t, "stamp")
        /\ UNCHANGED <<stamps, file, now>>
    BY <1>6 DEF Insert
  <2>2. calls[t].tx \in Txs /\ calls[t].tx.ts - Skew <= now
    BY <1>1, <2>1 DEF Called
  <2>3. Pending(Put(pool, calls[t].tx), now)
    BY <1>1, <2>2, PutKeepsOrder DEF Books, IInv
  <2>4. \A u \in Threads : Called(calls'[u], now')
    BY <2>1, <2>2, GotoInTime
  <2>5. QED
    BY <1>3, <2>1, <2>3, <2>4 DEF Books
<1>7. CASE Stamp(t)
  <2> DEFINE tx == calls[t].tx
  <2>1. /\ calls[t].pc = "stamp" /\ Goto(t, "collect") /\ UNCHANGED <<pool, file, now>>
        /\ stamps' = [x \in DOMAIN stamps \cup {tx} |-> IF x = tx THEN now ELSE stamps[x]]
    BY <1>7 DEF Stamp
  <2>2. tx \in Txs /\ tx.ts - Skew <= now
    BY <1>1, <2>1 DEF Called
  <2> HIDE DEF tx
  <2>3. Since(tx, now, now)
    BY <1>1, <2>2 DEF Since
  <2>4. Stamped(stamps', now)
    <3>1. /\ DOMAIN stamps' = DOMAIN stamps \cup {tx} /\ stamps'[tx] = now
          /\ \A x \in DOMAIN stamps : x # tx => stamps'[x] = stamps[x]
      BY <2>1
    <3>2. ASSUME NEW x \in DOMAIN stamps' PROVE x \in Txs /\ Since(x, stamps'[x], now)
      <4>1. CASE x = tx
        BY <2>2, <2>3, <3>1, <4>1
      <4>2. CASE x # tx
        <5>1. x \in DOMAIN stamps /\ stamps'[x] = stamps[x]
          BY <3>1, <4>2
        <5>2. QED
          BY <5>1 DEF Books, Stamped
      <4>3. QED
        BY <4>1, <4>2
    <3>3. QED
      BY <3>2 DEF Stamped
  <2>5. \A u \in Threads : Called(calls'[u], now')
    BY <2>1, <2>2, GotoInTime DEF tx
  <2>6. QED
    BY <1>3, <2>1, <2>4, <2>5 DEF Books
<1>8. CASE Collect(t)
  <2> DEFINE data == Contents(pool, stamps)
  <2>1. /\ calls[t].pc = "collect" /\ UNCHANGED <<held, now>>
        /\ calls' = [calls EXCEPT ![t].pc = "write", ![t].data = data]
    BY <1>8 DEF Collect
  <2>2. Listed(data, now)
    BY ContentsInTime DEF Books
  <2> HIDE DEF data
  <2>3. calls[t] = [pc |-> calls[t].pc, tx |-> calls[t].tx, data |-> calls[t].data]
    BY DEF IInv, CallShape
  <2>4. DOMAIN calls = Threads
    BY DEF IInv, CallShape
  <2>5. calls'[t] = [pc |-> "write", tx |-> calls[t].tx, data |-> data]
    BY <2>1, <2>3, <2>4
  <2>6. \A u \in Threads \ {t} : calls'[u] = calls[u]
    BY <2>1, <2>4
  <2>7. calls[t].tx \in Txs /\ calls[t].tx.ts - Skew <= now
    BY <1>1, <2>1 DEF Called
  <2>8. Called(calls'[t], now)
    BY <2>2, <2>5, <2>7 DEF Called
  <2>9. \A u \in Threads : Called(calls'[u], now')
    BY <2>1, <2>6, <2>8 DEF Books
  <2>10. QED
    BY <1>3, <2>1, <2>9, HeldInTime DEF Books
<1>9. CASE Write(t)
  <2>1. /\ Return(t) /\ UNCHANGED <<pool, stamps, now>>
        /\ file' = calls[t].data \/ file' = Empty
    BY <1>9 DEF Write, Writes
  <2>2. Listed(file', now)
    BY <1>1, <2>1, EmptyInTime DEF Called
  <2>3. \A u \in Threads : Called(calls'[u], now')
    BY <2>1, ReturnInTime
  <2>4. QED
    BY <1>3, <2>1, <2>2, <2>3 DEF Books
<1>10. QED
  BY <1>4, <1>5, <1>6, <1>7, <1>8, <1>9 DEF Step

LEMMA SubmitBooks ==
  ASSUME IInv, Books, NEW t \in Threads, NEW tx \in Txs, Submit(t, tx)
  PROVE  Books'
<1>1. /\ UNCHANGED <<ledger, held, miner, now>>
      /\ calls' = [calls EXCEPT ![t] = [pc |-> "check", tx |-> tx, data |-> Empty]]
  BY DEF Submit
<1>2. DOMAIN calls = Threads
  BY DEF IInv, CallShape
<1>3. /\ calls'[t] = [pc |-> "check", tx |-> tx, data |-> Empty]
      /\ \A u \in Threads \ {t} : calls'[u] = calls[u]
  BY <1>1, <1>2
<1>4. Listed(Empty, now)
  BY EmptyInTime DEF Books
<1>5. Called(calls'[t], now')
  BY <1>1, <1>3, <1>4 DEF Called
<1>6. \A u \in Threads : Called(calls'[u], now')
  BY <1>1, <1>3, <1>5 DEF Books
<1>7. QED
  BY <1>1, <1>6, HeldInTime, LedgerStays DEF Books, miner

LEMMA TickBooks ==
  ASSUME Books, Tick
  PROVE  Books'
<1>1. /\ UNCHANGED <<ledger, held, calls, miner>> /\ now \in Nat
      /\ now' = now + 1 /\ now' \in Nat /\ now <= now'
  BY DEF Tick, Books
<1>2. UNCHANGED <<pool, stamps, file, calls, forge>>
  BY <1>1 DEF held, miner
<1>3. /\ Pending(pool, now') /\ Stamped(stamps, now') /\ Listed(file, now')
      /\ \A t \in Threads : Called(calls[t], now')
  BY <1>1, LaterInTime DEF Books
<1>4. QED
  BY <1>1, <1>2, <1>3, LedgerStays DEF Books

LEMMA StartBooks ==
  ASSUME Books, NEW n \in 0 .. Len(log), NEW blocks \in {<<>>} \cup {<<b>> : b \in PeerBlocks},
         StartRollback(n, blocks)
  PROVE  Books'
<1>1. /\ log' = SubSeq(log, 1, n) /\ applied' = 0 /\ branch' = blocks
      /\ UNCHANGED <<confirmed, held, calls, miner, now>>
  BY DEF StartRollback
<1>2. log \in Seq(PaymentBlock) /\ confirmed \subseteq Txs
  BY DEF Books, Chained
<1>3. log' \in Seq(PaymentBlock) /\ 0 \in 0 .. Len(log')
  BY <1>1, <1>2
<1>4. blocks \in Seq(PaymentBlock)
  <2>1. CASE blocks = <<>>
    BY <2>1
  <2>2. ASSUME NEW b \in PeerBlocks, blocks = <<b>> PROVE blocks \in Seq(PaymentBlock)
    <3>1. b \in PaymentBlock
      BY PeerBlocksAreBlocks
    <3>2. QED
      BY <2>2, <3>1
  <2>3. QED
    BY <2>1, <2>2
<1>5. Chained'
  BY <1>1, <1>2, <1>3, <1>4 DEF Chained
<1>6. QED
  BY <1>1, <1>5, HeldInTime DEF Books, miner

LEMMA ReplayBooks ==
  ASSUME Books, Replay
  PROVE  Books'
<1>1. /\ applied < Len(log) /\ applied' = applied + 1
      /\ UNCHANGED <<log, confirmed, branch, held, calls, miner, now>>
  BY DEF Replay
<1>2. Chained'
  BY <1>1 DEF Books, Chained
<1>3. QED
  BY <1>1, <1>2, HeldInTime DEF Books, miner

LEMMA FinishBooks ==
  ASSUME Books, FinishRollback
  PROVE  Books'
<1>1. /\ log' = log \o branch /\ applied' = Len(log') /\ confirmed' = TxsOf(log')
      /\ branch' = <<>> /\ UNCHANGED <<calls, miner, now>>
      /\ UNCHANGED held \/ Drop(TxsOf(log'))
  BY DEF FinishRollback
<1>2. log \in Seq(PaymentBlock) /\ branch \in Seq(PaymentBlock)
  BY DEF Books, Chained
<1>3. log' \in Seq(PaymentBlock) /\ branch' \in Seq(PaymentBlock)
  BY <1>1, <1>2
<1>4. TxsOf(log') \subseteq Txs
  <2>1. \A blocks \in Seq(PaymentBlock) : TxsOf(blocks) \subseteq Txs
    BY TxsOfChain
  <2>2. QED
    BY <1>3, <2>1
<1>5. Chained'
  BY <1>1, <1>3, <1>4 DEF Chained
<1>6. Pending(pool', now') /\ Stamped(stamps', now') /\ Listed(file', now')
  <2>1. \A txs : Drop(txs) => Pending(pool', now') /\ Stamped(stamps', now') /\ Listed(file', now')
    BY <1>1, DropInTime
  <2>2. QED
    BY <1>1, <2>1, HeldInTime
<1>7. QED
  BY <1>1, <1>5, <1>6 DEF Books, miner

LEMMA ForgeBooks ==
  ASSUME IInv, Books, Forge
  PROVE  Books'
<1> DEFINE p == Without(pool, Expired(now))
<1>1. /\ forge' = [base |-> log, slot |-> now, txs |-> Batch(p)]
      /\ UNCHANGED held \/ Drop(Expired(now))
      /\ UNCHANGED <<ledger, calls, now>>
  BY DEF Forge
<1>2. Pending(p, now)
  BY WithoutInTime DEF Books
<1>3. DOMAIN p \subseteq DOMAIN pool
  BY DEF Without, Restrict
<1>4. IsFiniteSet(DOMAIN p)
  BY <1>3, FS_Subset DEF IInv
<1> HIDE DEF p
<1>5. Batch(p) \in Seq(Txs)
  BY <1>2, <1>4, BatchIsPending
<1>6. Forged(forge')
  BY <1>1, <1>5 DEF Forged, Books
<1>7. Pending(pool', now') /\ Stamped(stamps', now') /\ Listed(file', now')
  BY <1>1, DropInTime, HeldInTime
<1>8. QED
  BY <1>1, <1>6, <1>7, LedgerStays DEF Books

\* A block of a peer, or the own one
LEMMA ExtendBooks ==
  ASSUME Books, NEW b \in PaymentBlock, Settled, Extend(b), Forged(forge'), UNCHANGED <<calls, now>>
  PROVE  Books'
<1>1. Drop(ToSet(b.txs))
  BY DEF Extend
<1>2. Pending(pool', now') /\ Stamped(stamps', now') /\ Listed(file', now')
  BY <1>1, DropInTime
<1>3. QED
  BY <1>2, ExtendChain DEF Books

LEMMA OwnBlockBooks ==
  ASSUME Books, AddOwnBlock
  PROVE  Books'
<1>1. OwnBlock = [slot |-> forge.slot, txs |-> forge.txs] /\ forge # NoForge
  BY DEF AddOwnBlock, OwnBlock
<1>2. OwnBlock \in PaymentBlock
  BY <1>1 DEF Books, Forged, PaymentBlock
<1>3. /\ Settled /\ Extend(OwnBlock) /\ forge' = NoForge /\ UNCHANGED <<calls, now>>
  BY DEF AddOwnBlock
<1>4. Forged(forge')
  BY <1>3 DEF Forged
<1> HIDE DEF OwnBlock
<1>5. QED
  BY <1>2, <1>3, <1>4, ExtendBooks

LEMMA DieBooks ==
  ASSUME Books, Die, file' \in {file, Empty}, UNCHANGED now
  PROVE  Books'
<1>1. /\ log' = log /\ applied' = Len(log) /\ confirmed' = {} /\ branch' = <<>>
      /\ pool' = Empty /\ stamps' = Empty /\ forge' = NoForge
      /\ calls' = [t \in Threads |-> NoCall]
  BY DEF Die
<1>2. Chained'
  BY <1>1 DEF Books, Chained
<1>3. /\ Pending(pool', now) /\ Stamped(stamps', now) /\ Listed(file', now)
      /\ \A t \in Threads : Called(calls'[t], now)
  BY <1>1, EmptyInTime DEF Books
<1>4. QED
  BY <1>1, <1>2, <1>3 DEF Books, Forged

LEMMA RestartBooks ==
  ASSUME Books, Restart
  PROVE  Books'
<1> DEFINE txs == DOMAIN file \ TxsOf(log)
<1>1. /\ confirmed' = TxsOf(log) /\ UNCHANGED <<log, applied, branch, file, calls, miner, now>>
      /\ pool' = [tx \in txs |-> file[tx].place] /\ stamps' = [tx \in txs |-> file[tx].at]
  BY DEF Restart, Restored
<1>2. txs \subseteq DOMAIN file
  OBVIOUS
<1> HIDE DEF txs
<1>3. Pending(pool', now) /\ Stamped(stamps', now)
  BY <1>1, <1>2, RestoredInTime DEF Books
<1>4. TxsOf(log) \subseteq Txs
  BY TxsOfChain DEF Books, Chained
<1>5. Chained'
  BY <1>1, <1>4 DEF Books, Chained
<1>6. QED
  BY <1>1, <1>3, <1>5 DEF Books, miner

------------------------------------------------------------------------

LEMMA BooksStart == Init => Books
<1> SUFFICES ASSUME Init PROVE Books
  OBVIOUS
<1>1. now = 1 /\ now \in Nat
  BY DEF Init
<1>2. /\ Pending(Empty, now) /\ Stamped(Empty, now) /\ Listed(Empty, now)
      /\ Called(NoCall, now)
  BY <1>1, EmptyInTime
<1>3. \A t \in Threads : calls[t] = NoCall
  BY DEF Init
<1>4. Chained
  BY DEF Init, Chained
<1>5. QED
  BY <1>1, <1>2, <1>3, <1>4 DEF Init, Books, Forged

LEMMA StepBooks ==
  ASSUME IInv, Books, [Next]_vars
  PROVE  Books'
<1>1. ASSUME NEW t \in Threads, Step(t) \/ \E tx \in Txs : Submit(t, tx) PROVE Books'
  BY <1>1, ThreadBooks, SubmitBooks
<1>2. ASSUME NEW b \in PeerBlocks, PeerBlock(b) PROVE Books'
  <2>1. b \in PaymentBlock
    BY PeerBlocksAreBlocks
  <2>2. Settled /\ Extend(b) /\ UNCHANGED <<calls, miner, now>>
    BY <1>2 DEF PeerBlock
  <2>3. Forged(forge')
    BY <2>2 DEF miner, Books
  <2>4. QED
    BY <2>1, <2>2, <2>3, ExtendBooks
<1>3. ASSUME NEW n \in 0 .. Len(log), NEW blocks \in {<<>>} \cup {<<b>> : b \in PeerBlocks},
             StartRollback(n, blocks)
      PROVE  Books'
  BY <1>3, StartBooks
<1>4. CASE GiveUpOwnBlock
  <2>1. UNCHANGED <<ledger, held, calls, now>> /\ forge' = NoForge
    BY <1>4 DEF GiveUpOwnBlock
  <2>2. QED
    BY <2>1, HeldInTime, LedgerStays DEF Books, Forged
<1>5. CASE CleanupFails \/ Crash
  <2>1. Die /\ file' \in {file, Empty} /\ UNCHANGED now
    BY <1>5 DEF CleanupFails, Crash
  <2>2. QED
    BY <2>1, DieBooks
<1>6. CASE UNCHANGED vars
  <2>1. UNCHANGED <<ledger, held, calls, miner, now>>
    BY <1>6 DEF vars
  <2>2. QED
    BY <2>1, HeldInTime, LedgerStays DEF Books, miner
<1>7. QED
  BY <1>1, <1>2, <1>3, <1>4, <1>5, <1>6, TickBooks, ReplayBooks, FinishBooks, ForgeBooks,
     OwnBlockBooks, RestartBooks
     DEF Next

\* mempool.py:33-128. The times, places and payments that the pool, its file and the calls
\* hold, whatever the threads, deaths and rollbacks do.
THEOREM BooksHold == Spec => [](IInv /\ Books)
<1>1. Init => IInv /\ Books
  BY InitHolds, BooksStart
<1>2. IInv /\ Books /\ [Next]_vars => (IInv /\ Books)'
  BY StepKeeps, StepBooks
<1>3. QED
  BY <1>1, <1>2, PTL DEF Spec

\* mempool.py:33-128. No two payments share a place in the order of arrival, no time is in
\* the future, and the balances always belong to a prefix of the chain.
THEOREM PoolIsTyped == Spec => []TypeOK
<1>1. IInv /\ Books => TypeOK
  <2> SUFFICES ASSUME Books PROVE TypeOK
    OBVIOUS
  <2>1. \A tx \in DOMAIN stamps : stamps[tx] \in 0 .. now
    BY DEF Books, Stamped, Since
  <2>2. QED
    BY <2>1 DEF Books, TypeOK, Pending, Stamped, Called, Chained
<1>2. QED
  BY <1>1, BooksHold, PTL

\* A payment that leaves the pool of a running node is in a block or has expired.
LEMMA LeavesForAReason ==
  ASSUME Books, [Next]_vars, up, up', NEW tx \in DOMAIN pool \ DOMAIN pool'
  PROVE  tx \in confirmed' \/ now > tx.ts - Skew + PoolTTL
<1>1. ASSUME NEW txs, Drop(txs) PROVE tx \in txs
  BY <1>1 DEF Drop, Without, Restrict
<1>2. ASSUME NEW b, Extend(b) PROVE tx \in confirmed'
  <2>1. tx \in ToSet(b.txs)
    BY <1>1, <1>2 DEF Extend
  <2>2. QED
    BY <1>2, <2>1 DEF Extend
<1>3. CASE (\E b \in PeerBlocks : PeerBlock(b)) \/ AddOwnBlock
  <2>1. PICK b : Extend(b)
    BY <1>3 DEF PeerBlock, AddOwnBlock
  <2>2. QED
    BY <1>2, <2>1
<1>4. CASE FinishRollback
  <2>1. Drop(TxsOf(log')) /\ confirmed' = TxsOf(log')
    BY <1>4 DEF FinishRollback, held
  <2>2. \A txs : Drop(txs) => tx \in txs
    BY <1>1
  <2>3. QED
    BY <2>1, <2>2
<1>5. CASE Forge
  <2>1. Drop(Expired(now))
    BY <1>5 DEF Forge, held
  <2>2. tx \in DOMAIN stamps /\ now - stamps[tx] > PoolTTL
    BY <1>1, <2>1 DEF Expired
  <2>3. stamps[tx] \in Nat /\ tx.ts - Skew <= stamps[tx] /\ tx \in Txs
    BY <2>2 DEF Books, Stamped, Since
  <2>4. tx.ts \in Nat /\ Skew \in Nat /\ PoolTTL \in Nat /\ now \in Nat
    BY <2>3, MempoolConstants DEF MempoolConstants, Books
  <2>5. QED
    BY <2>2, <2>3, <2>4
<1>6. CASE \E t \in Threads : Step(t) \/ \E u \in Txs : Submit(t, u)
  <2>1. DOMAIN pool \subseteq DOMAIN pool'
    BY <1>6 DEF Step, Check, Validate, Insert, Put, Stamp, Collect, Write, Submit, held
  <2>2. QED
    BY <2>1
<1>7. CASE \/ Tick \/ Replay \/ GiveUpOwnBlock \/ UNCHANGED vars
           \/ \E n \in 0 .. Len(log) : \E blocks \in {<<>>} \cup {<<b>> : b \in PeerBlocks} :
                StartRollback(n, blocks)
  BY <1>7 DEF Tick, Replay, GiveUpOwnBlock, StartRollback, vars, held
<1>8. CASE CleanupFails \/ Crash \/ Restart
  BY <1>8 DEF CleanupFails, Crash, Die, Restart
<1>9. QED
  BY <1>3, <1>4, <1>5, <1>6, <1>7, <1>8 DEF Next

\* mempool.py:68-79, 107-109. A running node drops a pending payment only when it is in a
\* block, or an hour after it could first be accepted: neither a late list in the file, nor
\* a restart, nor a second submission moves its time back.
THEOREM AcceptedStays == Spec => AcceptedIsKept
<1>1. Books /\ [Next]_vars
        => (up /\ up' => \A tx \in DOMAIN pool \ DOMAIN pool' :
              tx \in confirmed' \/ now > tx.ts - Skew + PoolTTL)
  BY LeavesForAReason
<1>2. QED
  BY <1>1, BooksHold, PTL DEF AcceptedIsKept, Spec
=============================================================================
