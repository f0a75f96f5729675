----------------------------- MODULE QueryProofs -----------------------------
(* What becomes of the requests of a DNS or HTTP worker, for any number of     *)
(* them, however they overlap.                                                 *)
EXTENDS Query, SequenceTheorems, FiniteSetTheorems, TLAPS

(* The requests are numbered as they start; each waits at most once.           *)
QueryInv ==
    /\ started \in Nat /\ accepted \in Nat
    /\ IsFiniteSet(asking) /\ asking \subseteq 1 .. started
    /\ waiting \in Seq(1 .. started)
    /\ \A j, k \in 1 .. Len(waiting) : waiting[j] = waiting[k] => j = k
    /\ IsFiniteSet(Waiting)
    /\ main.at \in {"select", "stat"}
    /\ NoneLost

LEMMA QueryInit == Init => QueryInv
  <1> SUFFICES ASSUME Init PROVE QueryInv
    OBVIOUS
  <1>1. /\ started = 0 /\ asking = {} /\ waiting = <<>> /\ main.at = "select" /\ accepted = 0
    BY DEF Init, StatsInit
  <1>2. Waiting = {} /\ Len(waiting) = 0 /\ waiting \in Seq(1 .. started)
    BY <1>1 DEF Waiting
  <1>3. QED BY <1>1, <1>2, FS_EmptySet DEF QueryInv, NoneLost

(* The end of the queue, and its head. *)
LEMMA WaitingAppend ==
    ASSUME QueryInv, NEW query \in asking, waiting' = Append(waiting, query)
    PROVE  /\ Waiting' = Waiting \cup {query} /\ Len(waiting') = Len(waiting) + 1
           /\ waiting' \in Seq(1 .. started)
           /\ \A j, k \in 1 .. Len(waiting') : waiting'[j] = waiting'[k] => j = k
  <1>1. query \in 1 .. started /\ query \notin Waiting /\ waiting \in Seq(1 .. started)
    BY DEF QueryInv, NoneLost
  <1>2. /\ waiting' \in Seq(1 .. started) /\ Len(waiting') = Len(waiting) + 1 /\ Len(waiting) \in Nat
        /\ \A j \in 1 .. Len(waiting) : waiting'[j] = waiting[j]
        /\ waiting'[Len(waiting) + 1] = query
        /\ DOMAIN waiting' = 1 .. Len(waiting) + 1 /\ DOMAIN waiting = 1 .. Len(waiting)
    BY <1>1
  <1>3. Waiting' = Waiting \cup {query}
    BY <1>2 DEF Waiting
  <1>4. \A j \in 1 .. Len(waiting) : waiting[j] # query
    BY <1>1, <1>2 DEF Waiting
  <1>5. \A j, k \in 1 .. Len(waiting') : waiting'[j] = waiting'[k] => j = k
    BY <1>2, <1>4 DEF QueryInv
  <1>6. QED BY <1>2, <1>3, <1>5

LEMMA WaitingTail ==
    ASSUME QueryInv, waiting # <<>>, waiting' = Tail(waiting)
    PROVE  /\ Head(waiting) \in Waiting /\ Waiting' = Waiting \ {Head(waiting)}
           /\ Len(waiting') = Len(waiting) - 1 /\ Len(waiting) \in Nat
           /\ waiting' \in Seq(1 .. started)
           /\ \A j, k \in 1 .. Len(waiting') : waiting'[j] = waiting'[k] => j = k
  <1>1. waiting \in Seq(1 .. started)
    BY DEF QueryInv
  <1>2. /\ waiting' \in Seq(1 .. started) /\ Len(waiting') = Len(waiting) - 1
        /\ Len(waiting) \in Nat \ {0}
        /\ \A j \in 1 .. Len(waiting) - 1 : waiting'[j] = waiting[j + 1]
        /\ Head(waiting) = waiting[1]
        /\ DOMAIN waiting' = 1 .. Len(waiting) - 1 /\ DOMAIN waiting = 1 .. Len(waiting)
    BY <1>1
  <1>3. \A j, k \in 1 .. Len(waiting) : waiting[j] = waiting[k] => j = k
    BY DEF QueryInv
  <1>4. \A x : x \in Waiting' <=> x \in Waiting /\ x # waiting[1]
    <2>1. ASSUME NEW x, x \in Waiting' PROVE x \in Waiting /\ x # waiting[1]
      <3>1. PICK j \in 1 .. Len(waiting) - 1 : x = waiting[j + 1]
        BY <1>2, <2>1 DEF Waiting
      <3>2. j + 1 \in 1 .. Len(waiting) /\ 1 \in 1 .. Len(waiting) /\ j + 1 # 1
        BY <1>2
      <3>3. QED BY <1>2, <1>3, <3>1, <3>2 DEF Waiting
    <2>2. ASSUME NEW x, x \in Waiting, x # waiting[1] PROVE x \in Waiting'
      <3>1. PICK k \in 1 .. Len(waiting) : x = waiting[k]
        BY <1>2, <2>2 DEF Waiting
      <3>2. k - 1 \in 1 .. Len(waiting) - 1 /\ (k - 1) + 1 = k
        BY <1>2, <2>2, <3>1
      <3>3. x = waiting'[k - 1]
        BY <1>2, <3>1, <3>2
      <3>4. QED BY <1>2, <3>2, <3>3 DEF Waiting
    <2>3. QED BY <2>1, <2>2
  <1>5. \A j, k \in 1 .. Len(waiting') : waiting'[j] = waiting'[k] => j = k
    BY <1>2, <1>3
  <1>6. waiting[1] \in Waiting
    BY <1>2 DEF Waiting
  <1>7. QED BY <1>2, <1>4, <1>5, <1>6

LEMMA QueryNext == QueryInv /\ [Next]_(vars) => QueryInv'
  <1> SUFFICES ASSUME QueryInv, [Next]_(vars) PROVE QueryInv'
    OBVIOUS
  <1> DEFINE inHand == IF main.at = "stat" THEN 1 ELSE 0
  <1>1. /\ started \in Nat /\ accepted \in Nat /\ Len(waiting) \in Nat
        /\ IsFiniteSet(asking) /\ Cardinality(asking) \in Nat /\ asking \subseteq 1 .. started
        /\ waiting \in Seq(1 .. started) /\ IsFiniteSet(Waiting)
        /\ Waiting \subseteq 1 .. started
        /\ started = Cardinality(asking) + Len(waiting) + accepted + inHand
        /\ Cardinality(Waiting) = Len(waiting) /\ Waiting \cap asking = {}
    <2>1. /\ started \in Nat /\ accepted \in Nat /\ IsFiniteSet(asking) /\ IsFiniteSet(Waiting)
          /\ asking \subseteq 1 .. started /\ waiting \in Seq(1 .. started)
      BY DEF QueryInv
    <2>2. /\ started = Cardinality(asking) + Len(waiting) + accepted + inHand
          /\ Cardinality(Waiting) = Len(waiting) /\ Waiting \cap asking = {}
      BY DEF QueryInv, NoneLost
    <2>3. Waiting \subseteq 1 .. started
      BY <2>1 DEF Waiting
    <2>4. Len(waiting) \in Nat /\ Cardinality(asking) \in Nat
      BY <2>1, FS_CardinalityType
    <2>5. QED BY <2>1, <2>2, <2>3, <2>4
  <1>2. CASE Start
    <2>1. /\ started' = started + 1 /\ asking' = asking \cup {started + 1}
          /\ UNCHANGED <<waiting, main, accepted>>
      BY <1>2 DEF Start, statsVars
    <2>2. started + 1 \notin 1 .. started /\ 1 .. started \subseteq 1 .. started + 1
      BY <1>1
    <2>3. IsFiniteSet(asking') /\ Cardinality(asking') = Cardinality(asking) + 1
      BY <1>1, <2>1, <2>2, FS_AddElement
    <2>4. waiting' \in Seq(1 .. started')
      BY <1>1, <2>1, <2>2
    <2>5. Waiting' = Waiting
      BY <2>1 DEF Waiting
    <2>6. NoneLost'
      <3>1. started' = Cardinality(asking') + Len(waiting') + accepted' + inHand'
        BY <1>1, <2>1, <2>3
      <3>2. Waiting' \cap asking' = {} /\ Cardinality(Waiting') = Len(waiting')
        BY <1>1, <2>1, <2>2, <2>5
      <3>3. QED BY <3>1, <3>2 DEF NoneLost
    <2>7. started' \in Nat /\ asking' \subseteq 1 .. started'
      <3>1. started' \in Nat /\ started + 1 \in 1 .. started' /\ 1 .. started \subseteq 1 .. started'
        BY <1>1, <2>1, <2>2
      <3>2. QED BY <1>1, <2>1, <3>1
    <2>8. QED BY <1>1, <2>1, <2>3, <2>4, <2>5, <2>6, <2>7 DEF QueryInv
  <1>3. CASE TakeResult
    <2>1. /\ main.at = "select" /\ waiting # <<>> /\ waiting' = Tail(waiting)
          /\ main'.at = "stat" /\ UNCHANGED <<started, asking, accepted>>
      BY <1>3 DEF TakeResult, statsVars
    <2>2. /\ Head(waiting) \in Waiting /\ Waiting' = Waiting \ {Head(waiting)}
          /\ Len(waiting') = Len(waiting) - 1 /\ waiting' \in Seq(1 .. started)
          /\ \A j, k \in 1 .. Len(waiting') : waiting'[j] = waiting'[k] => j = k
      BY <2>1, WaitingTail
    <2>3. IsFiniteSet(Waiting') /\ Cardinality(Waiting') = Cardinality(Waiting) - 1
      BY <1>1, <2>2, FS_RemoveElement
    <2>4. NoneLost'
      <3>1. started' = Cardinality(asking') + Len(waiting') + accepted' + inHand'
        BY <1>1, <2>1, <2>2
      <3>2. Waiting' \cap asking' = {} /\ Cardinality(Waiting') = Len(waiting')
        BY <1>1, <2>1, <2>2, <2>3
      <3>3. QED BY <3>1, <3>2 DEF NoneLost
    <2>5. QED BY <1>1, <2>1, <2>2, <2>3, <2>4 DEF QueryInv
  <1>4. CASE SendStat
    <2>1. /\ main.at = "stat" /\ main'.at = "select" /\ accepted' = accepted + 1
          /\ UNCHANGED <<started, asking, waiting>>
      BY <1>4 DEF SendStat, Accept
    <2>2. Waiting' = Waiting
      BY <2>1 DEF Waiting
    <2>3. NoneLost'
      BY <1>1, <2>1, <2>2 DEF NoneLost
    <2>4. QED BY <1>1, <2>1, <2>2, <2>3 DEF QueryInv
  <1>5. ASSUME NEW query \in asking, Result(query) PROVE QueryInv'
    <2>1. /\ asking' = asking \ {query} /\ waiting' = Append(waiting, query)
          /\ UNCHANGED <<started, main, accepted>>
      BY <1>5 DEF Result, statsVars
    <2>2. /\ Waiting' = Waiting \cup {query} /\ Len(waiting') = Len(waiting) + 1
          /\ waiting' \in Seq(1 .. started)
          /\ \A j, k \in 1 .. Len(waiting') : waiting'[j] = waiting'[k] => j = k
      BY <2>1, WaitingAppend
    <2>3. /\ IsFiniteSet(asking') /\ Cardinality(asking') = Cardinality(asking) - 1
          /\ IsFiniteSet(Waiting') /\ Cardinality(Waiting') = Cardinality(Waiting) + 1
      BY <1>1, <2>1, <2>2, FS_RemoveElement, FS_AddElement
    <2>4. NoneLost'
      BY <1>1, <2>1, <2>2, <2>3 DEF NoneLost
    <2>5. QED BY <1>1, <2>1, <2>2, <2>3, <2>4 DEF QueryInv
  <1>6. CASE UNCHANGED <<started, asking, waiting, main, accepted>>
    <2>1. Waiting' = Waiting
      BY <1>6 DEF Waiting
    <2>2. NoneLost'
      BY <1>6, <2>1 DEF QueryInv, NoneLost
    <2>3. QED BY <1>6, <2>1, <2>2 DEF QueryInv
  <1>7. CASE RegisterEnds \/ TimerFires \/ UNCHANGED vars
    BY <1>6, <1>7 DEF RegisterEnds, TimerFires, vars, queryVars, statsVars
  <1>8. CASE StatsNext /\ UNCHANGED queryVars
    BY <1>6, <1>8
       DEF StatsNext, IntakeStep, HandOver, AwaitTick, Tick,
           WriterStep, Write, WriteFails, queryVars
  <1>9. QED BY <1>2, <1>3, <1>4, <1>5, <1>7, <1>8 DEF Next

(* However many requests of a DNS or HTTP worker overlap and however late they *)
(* end, each is under way, waiting, in the main loop or handed over, once.     *)
THEOREM NoQueryLost == Spec => []NoneLost
  <1>1. QueryInv => NoneLost
    BY DEF QueryInv
  <1>2. QED BY QueryInit, QueryNext, <1>1, PTL DEF Spec

=============================================================================
