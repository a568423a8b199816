---------------------------- MODULE StreamProofs ----------------------------
(***************************************************************************)
(* What the worker threads of one session share without a lock: its events *)
(* (EventStream) and the counters of its gate (GateThreads).               *)
(*                                                                         *)
(* However many runs of a session overlap, no card is published twice and  *)
(* no event three times; and a session used by one run at a time publishes *)
(* each of its events once.                                                *)
(*                                                                         *)
(* The first two rest on a budget: the publications of an event, done,     *)
(* queued or yet to come out of the outbox, a drain or an emit, never      *)
(* exceed one for a card and two for a streamed event.  The third on where *)
(* each event is while nothing overlaps: in one place only.                *)
(***************************************************************************)
EXTENDS EventStream, GateThreads, SequenceLemmas, FiniteSetTheorems

-----------------------------------------------------------------------------
(* Counting in sequences of sets.                                          *)

LEMMA CountOfNone == \A e : Count(<<>>, e) = 0
  <1>1. ASSUME NEW e PROVE {k \in DOMAIN <<>> : e \in <<>>[k]} = {}
    OBVIOUS
  <1>2. QED
    BY <1>1, FS_EmptySet DEF Count

LEMMA CountAppend ==
    ASSUME NEW q \in Seq(SUBSET Nat), NEW b \in SUBSET Nat, NEW e
    PROVE  /\ Count(q, e) \in Nat
           /\ e \in b => Count(Append(q, b), e) = Count(q, e) + 1
           /\ e \notin b => Count(Append(q, b), e) = Count(q, e)
  <1> DEFINE old == {k \in DOMAIN q : e \in q[k]}
             new == {k \in DOMAIN Append(q, b) : e \in Append(q, b)[k]}
             n == Len(q) + 1
  <1>1. IsFiniteSet(old) /\ Cardinality(old) \in Nat
    <2>1. Len(q) \in Nat /\ DOMAIN q = 1..Len(q)
      OBVIOUS
    <2>2. IsFiniteSet(1..Len(q))
      BY <2>1, FS_Interval
    <2>3. IsFiniteSet(old)
      BY <2>1, <2>2, FS_Subset
    <2>4. QED
      BY <2>3, FS_CardinalityType
  <1>2. n \notin old /\ new = IF e \in b THEN old \cup {n} ELSE old
    <2>1. /\ DOMAIN q = 1..Len(q) /\ Len(q) \in Nat
          /\ DOMAIN Append(q, b) = 1..n
          /\ Append(q, b)[n] = b
          /\ \A k \in 1..Len(q) : Append(q, b)[k] = q[k]
      OBVIOUS
    <2>2. \A k : k \in 1..n <=> k \in 1..Len(q) \/ k = n
      BY <2>1
    <2>3. n \notin 1..Len(q)
      BY <2>1
    <2> HIDE DEF n
    <2>4. QED
      BY <2>1, <2>2, <2>3
  <1> HIDE DEF old, new, n
  <1>3. Cardinality(new) = IF e \in b THEN Cardinality(old) + 1 ELSE Cardinality(old)
    <2>1. CASE e \in b
      BY <1>1, <1>2, <2>1, FS_AddElement
    <2>2. CASE e \notin b
      BY <1>1, <1>2, <2>2
    <2>3. QED
      BY <2>1, <2>2
  <1>4. QED
    BY <1>1, <1>3 DEF Count, old, new

-----------------------------------------------------------------------------
(* The budget.                                                             *)

DrainPlaces == {"filtered", "cleared"}
EmitPlaces == {"appended", "marked"}
Places == {"idle", "running", "returned"} \cup DrainPlaces \cup EmitPlaces

StreamType ==
    /\ made \in Nat
    /\ outbound \in SUBSET Events /\ streamed \in SUBSET Events /\ plain \in SUBSET Events
    /\ hand \in [Threads -> Nat] /\ \A t \in Threads : hand[t] <= made
    /\ taken \in [Threads -> SUBSET Events]
    /\ pc \in [Threads -> Places]
    /\ sink \in Threads \cup {NoSink} /\ prev \in [Threads -> Threads \cup {NoSink}]
    /\ published \in Seq(SUBSET Nat) /\ loop \in Seq(SUBSET Nat)

\* One drain runs at a time.  Its events are in the outbox until it is cleared.
DrainInv ==
    /\ \A t, u \in Threads : pc[t] \in DrainPlaces /\ pc[u] \in DrainPlaces => t = u
    /\ \A t \in Threads : pc[t] \notin DrainPlaces => taken[t] = {}
    /\ \A t \in Threads : pc[t] = "cleared" => taken[t] \cap outbound = {}

\* What a thread is emitting, it alone is emitting.
HandInv ==
    /\ \A t \in Threads : pc[t] \notin EmitPlaces <=> hand[t] = 0
    /\ \A t, u \in Threads : hand[t] = hand[u] /\ hand[t] # 0 => t = u

Taken(e) == \E t \in Threads : e \in taken[t]
Held(e) == \E t \in Threads : hand[t] = e

\* The event may still come out of the outbox, or out of a drain.
ToDrain(e) == IF e \in outbound \/ Taken(e) THEN 1 ELSE 0
ToSend(e) == IF Held(e) THEN 1 ELSE 0

BudgetInv ==
    /\ \A e \in Events :
          Times(e) + ToDrain(e) + ToSend(e) <= IF e \in plain THEN 1 ELSE 2
    /\ \A e \in Nat : e > made => Times(e) = 0

StreamInv == StreamType /\ DrainInv /\ HandInv /\ BudgetInv

LEMMA TimesInNat ==
    ASSUME published \in Seq(SUBSET Nat), loop \in Seq(SUBSET Nat)
    PROVE  \A e : Times(e) \in Nat
  <1>1. published \o loop \in Seq(SUBSET Nat)
    OBVIOUS
  <1>2. {} \in SUBSET Nat
    OBVIOUS
  <1>3. \A q \in Seq(SUBSET Nat) : \A e : Count(q, e) \in Nat
    BY <1>2, CountAppend, Zenon
  <1>4. QED
    BY <1>1, <1>3 DEF Times

LEMMA StreamInvInit == Init => StreamInv
  <1> SUFFICES ASSUME Init PROVE StreamInv
    OBVIOUS
  <1>1. StreamType
    BY DEF Init, StreamType, Events, Places, DrainPlaces, EmitPlaces
  <1>2. DrainInv /\ HandInv
    BY DEF Init, DrainInv, HandInv, DrainPlaces, EmitPlaces
  <1>3. \A e : Times(e) = 0
    BY CountOfNone DEF Init, Times
  <1>4. BudgetInv
    BY <1>3 DEF Init, BudgetInv, Events
  <1>5. QED
    BY <1>1, <1>2, <1>4 DEF StreamInv

(* A step that queues and publishes nothing leaves the count as it is;     *)
(* queueing a batch adds to it, and publishing one only moves it.          *)
LEMMA TimesKept ==
    ASSUME published' = published, loop' = loop
    PROVE  \A e : Times(e)' = Times(e)
  BY DEF Times

LEMMA TimesQueued ==
    ASSUME published \in Seq(SUBSET Nat), loop \in Seq(SUBSET Nat),
           NEW batch \in SUBSET Nat,
           published' = published, loop' = Append(loop, batch)
    PROVE  /\ loop' \in Seq(SUBSET Nat)
           /\ \A e : Times(e)' = IF e \in batch THEN Times(e) + 1 ELSE Times(e)
  <1>1. loop' \in Seq(SUBSET Nat) /\ published \o loop \in Seq(SUBSET Nat)
    OBVIOUS
  <1>2. published' \o loop' = Append(published \o loop, batch)
    BY AppendLast
  <1>3. \A q \in Seq(SUBSET Nat) : \A b \in SUBSET Nat : \A e :
          /\ e \in b => Count(Append(q, b), e) = Count(q, e) + 1
          /\ e \notin b => Count(Append(q, b), e) = Count(q, e)
    BY CountAppend, Zenon
  <1>4. \A e :
          /\ e \in batch => Count(Append(published \o loop, batch), e) = Count(published \o loop, e) + 1
          /\ e \notin batch => Count(Append(published \o loop, batch), e) = Count(published \o loop, e)
    BY <1>1, <1>3, Zenon
  <1>5. QED
    BY <1>1, <1>2, <1>4 DEF Times

LEMMA TimesPublished ==
    ASSUME published \in Seq(SUBSET Nat), loop \in Seq(SUBSET Nat), loop # <<>>,
           published' = Append(published, Head(loop)), loop' = Tail(loop)
    PROVE  /\ published' \in Seq(SUBSET Nat) /\ loop' \in Seq(SUBSET Nat)
           /\ \A e : Times(e)' = Times(e)
  <1>1. published' \in Seq(SUBSET Nat) /\ loop' \in Seq(SUBSET Nat)
    OBVIOUS
  <1>2. published' \o loop' = published \o loop
    BY HeadMoved
  <1>3. QED
    BY <1>1, <1>2 DEF Times

LEMMA QueuedIs ==
    ASSUME StreamType, DrainInv, NEW e
    PROVE  /\ Taken(e) => Queued(e) = 1
           /\ ~Taken(e) => Queued(e) = 0
  <1> DEFINE takers == {t \in Threads : e \in taken[t]}
  <1>1. CASE Taken(e)
    <2>1. PICK t \in Threads : e \in taken[t]
      BY <1>1 DEF Taken
    <2>2. \A u \in Threads : e \in taken[u] => u = t
      BY <2>1 DEF DrainInv
    <2>3. takers = {t}
      BY <2>1, <2>2
    <2>4. QED
      BY <1>1, <2>3, FS_Singleton DEF Queued
  <1>2. CASE ~Taken(e)
    <2>1. takers = {}
      BY <1>2 DEF Taken
    <2>2. QED
      BY <1>2, <2>1, FS_EmptySet DEF Queued
  <1>3. QED
    BY <1>1, <1>2

-----------------------------------------------------------------------------
(* One lemma for each part of the invariant, one step for each action.     *)

LEMMA TypeStep == StreamInv /\ [Next]_vars => StreamType'
  <1> SUFFICES ASSUME StreamInv, [Next]_vars PROVE StreamType'
    OBVIOUS
  <1> USE DEF StreamType, Events, Places, DrainPlaces, EmitPlaces
  <1>1. StreamType /\ HandInv
    BY DEF StreamInv
  <1>2. ASSUME NEW t \in Threads, Enter(t) \/ (\E drains \in BOOLEAN : Exit(t, drains))
        PROVE  StreamType'
    <2>1. /\ UNCHANGED <<made, outbound, streamed, plain, hand, taken, published, loop>>
          /\ \E place \in Places : pc' = [pc EXCEPT ![t] = place]
      BY <1>2 DEF Enter, Exit, Goto, collections
    <2>2. /\ sink' \in Threads \cup {NoSink}
          /\ prev' \in [Threads -> Threads \cup {NoSink}]
      BY <1>1, <1>2 DEF Enter, Exit
    <2>3. QED
      BY <1>1, <2>1, <2>2
  <1>3. ASSUME NEW t \in Threads, Note(t) PROVE StreamType'
    BY <1>1, <1>3 DEF Note
  <1>4. ASSUME NEW t \in Threads, EmitAppend(t) PROVE StreamType'
    BY <1>1, <1>4 DEF EmitAppend, Goto
  <1>5. ASSUME NEW t \in Threads, EmitMark(t) PROVE StreamType'
    <2>1. hand[t] \in 1..made
      BY <1>1, <1>5 DEF EmitMark, HandInv
    <2>2. /\ UNCHANGED <<made, outbound, plain, hand, taken, published, loop, sink, prev>>
          /\ streamed' = streamed \cup {hand[t]} /\ pc' = [pc EXCEPT ![t] = "marked"]
      BY <1>5 DEF EmitMark, Goto, observations
    <2>3. QED
      BY <1>1, <2>1, <2>2
  <1>6. ASSUME NEW t \in Threads, EmitSend(t) PROVE StreamType'
    <2>1. {hand[t]} \in SUBSET Nat
      BY <1>1
    <2>2. loop' \in Seq(SUBSET Nat)
      BY <1>1, <1>6, <2>1 DEF EmitSend
    <2>3. QED
      BY <1>1, <1>6, <2>2 DEF EmitSend, Goto, collections, observations
  <1>7. ASSUME NEW t \in Threads, DrainFilter(t) \/ DrainClear(t) PROVE StreamType'
    BY <1>1, <1>7 DEF DrainFilter, DrainClear, Goto, collections, observations
  <1>8. ASSUME NEW t \in Threads, DrainPublish(t) PROVE StreamType'
    <2>1. taken[t] \in SUBSET Nat
      BY <1>1
    <2>2. loop' \in Seq(SUBSET Nat)
      BY <1>1, <1>8, <2>1 DEF DrainPublish
    <2>3. QED
      BY <1>1, <1>8, <2>2 DEF DrainPublish, Goto, observations
  <1>9. CASE Publish
    <2>1. published' \in Seq(SUBSET Nat) /\ loop' \in Seq(SUBSET Nat)
      BY <1>1, <1>9, TimesPublished DEF Publish
    <2>2. QED
      BY <1>1, <1>9, <2>1 DEF Publish, collections
  <1>10. CASE UNCHANGED vars
    BY <1>1, <1>10 DEF vars, collections, observations
  <1>11. QED
    BY <1>2, <1>3, <1>4, <1>5, <1>6, <1>7, <1>8, <1>9, <1>10 DEF Next

LEMMA DrainStep == StreamInv /\ [Next]_vars => DrainInv'
  <1> SUFFICES ASSUME StreamInv, [Next]_vars PROVE DrainInv'
    OBVIOUS
  <1> USE DEF StreamType, DrainInv, Events, Places, DrainPlaces, EmitPlaces
  <1>1. StreamType /\ DrainInv
    BY DEF StreamInv
  <1>2. ASSUME NEW t \in Threads, Enter(t) \/ (\E drains \in BOOLEAN : Exit(t, drains))
        PROVE  DrainInv'
    BY <1>1, <1>2 DEF Enter, Exit, Goto, collections
  <1>3. ASSUME NEW t \in Threads, Note(t) \/ EmitAppend(t) PROVE DrainInv'
    <2>1. /\ outbound' = outbound \cup {made + 1} /\ taken' = taken
          /\ \A u \in Threads : made + 1 \notin taken[u]
          /\ \A u \in Threads : pc'[u] # pc[u] => pc'[u] = "appended" /\ pc[u] = "running"
      BY <1>1, <1>3 DEF Note, EmitAppend, Goto
    <2>2. QED
      BY <1>1, <2>1
  <1>4. ASSUME NEW t \in Threads, EmitMark(t) \/ EmitSend(t) PROVE DrainInv'
    BY <1>1, <1>4 DEF EmitMark, EmitSend, Goto, collections, observations
  <1>5. ASSUME NEW t \in Threads, DrainFilter(t) PROVE DrainInv'
    BY <1>1, <1>5 DEF DrainFilter, Goto, collections, LoopFree
  <1>6. ASSUME NEW t \in Threads, DrainClear(t) PROVE DrainInv'
    BY <1>1, <1>6 DEF DrainClear, Goto
  <1>7. ASSUME NEW t \in Threads, DrainPublish(t) PROVE DrainInv'
    BY <1>1, <1>7 DEF DrainPublish, Goto
  <1>8. CASE Publish
    BY <1>1, <1>8 DEF Publish, collections
  <1>9. CASE UNCHANGED vars
    BY <1>1, <1>9 DEF vars, collections
  <1>10. QED
    BY <1>2, <1>3, <1>4, <1>5, <1>6, <1>7, <1>8, <1>9 DEF Next

LEMMA HandStep == StreamInv /\ [Next]_vars => HandInv'
  <1> SUFFICES ASSUME StreamInv, [Next]_vars PROVE HandInv'
    OBVIOUS
  <1> USE DEF StreamType, HandInv, Places, DrainPlaces, EmitPlaces
  <1>1. StreamType /\ HandInv
    BY DEF StreamInv
  <1>2. ASSUME NEW t \in Threads, Enter(t) \/ (\E drains \in BOOLEAN : Exit(t, drains))
        PROVE  HandInv'
    BY <1>1, <1>2 DEF Enter, Exit, Goto
  <1>3. ASSUME NEW t \in Threads, EmitAppend(t) PROVE HandInv'
    <2>1. \A u \in Threads : hand[u] # made + 1
      BY <1>1
    <2>2. QED
      BY <1>1, <1>3, <2>1 DEF EmitAppend, Goto
  <1>4. ASSUME NEW t \in Threads, Note(t) \/ EmitMark(t) \/ EmitSend(t) PROVE HandInv'
    BY <1>1, <1>4 DEF Note, EmitMark, EmitSend, Goto
  <1>5. ASSUME NEW t \in Threads, DrainFilter(t) \/ DrainClear(t) \/ DrainPublish(t)
        PROVE  HandInv'
    BY <1>1, <1>5 DEF DrainFilter, DrainClear, DrainPublish, Goto
  <1>6. CASE Publish \/ UNCHANGED vars
    BY <1>1, <1>6 DEF Publish, vars
  <1>7. QED
    BY <1>2, <1>3, <1>4, <1>5, <1>6 DEF Next

LEMMA BudgetStep == StreamInv /\ [Next]_vars => BudgetInv'
  <1> SUFFICES ASSUME StreamInv, [Next]_vars PROVE BudgetInv'
    OBVIOUS
  <1> USE DEF ToDrain, ToSend, Taken, Held, Events
  <1>1. StreamType /\ DrainInv /\ HandInv /\ BudgetInv
    BY DEF StreamInv
  <1>2. \A e : Times(e) \in Nat
    BY <1>1, TimesInNat DEF StreamType
  \* Nothing new is made: what an event gains in one place it had in another.
  <1>3. ASSUME made' = made, plain' = plain,
               \A e \in 1..made : /\ Times(e)' \in Nat
                                  /\ Times(e)' + ToDrain(e)' + ToSend(e)'
                                       <= Times(e) + ToDrain(e) + ToSend(e),
               \A e \in Nat : e > made => Times(e)' = Times(e)
        PROVE  BudgetInv'
    <2>1. \A e \in 1..made : Times(e) + ToDrain(e) + ToSend(e) <= IF e \in plain THEN 1 ELSE 2
      BY <1>1 DEF BudgetInv
    <2>2. \A e \in 1..made : /\ ToDrain(e) \in 0..1 /\ ToSend(e) \in 0..1
                             /\ ToDrain(e)' \in 0..1 /\ ToSend(e)' \in 0..1
      OBVIOUS
    <2>3. \A e \in 1..made :
            Times(e)' + ToDrain(e)' + ToSend(e)' <= IF e \in plain THEN 1 ELSE 2
      <3>1. SUFFICES ASSUME NEW e \in 1..made
                     PROVE  Times(e)' + ToDrain(e)' + ToSend(e)' <= IF e \in plain THEN 1 ELSE 2
        OBVIOUS
      <3> HIDE DEF ToDrain, ToSend
      <3>2. QED
        BY <1>2, <1>3, <2>1, <2>2
    <2>4. \A e \in Nat : e > made => Times(e)' = 0
      BY <1>1, <1>3 DEF BudgetInv
    <2> HIDE DEF ToDrain, ToSend
    <2>5. QED
      BY <1>3, <2>3, <2>4 DEF BudgetInv
  \* One is made: nothing of it is in the way, and it goes to the outbox.
  <1>4. ASSUME NEW t \in Threads, Note(t) \/ EmitAppend(t) PROVE BudgetInv'
    <2>1. \A e : Times(e)' = Times(e)
      BY <1>4, TimesKept DEF Note, EmitAppend
    <2>2. ASSUME NEW e \in 1..made
          PROVE  /\ ToDrain(e)' = ToDrain(e) /\ ToSend(e)' = ToSend(e)
                 /\ e \in plain' <=> e \in plain
      <3>1. e # made + 1 /\ taken' = taken /\ outbound' = outbound \cup {made + 1}
        BY <1>1, <1>4 DEF Note, EmitAppend, StreamType
      <3>2. \A u \in Threads : hand'[u] = e <=> hand[u] = e
        BY <1>1, <1>4, <3>1 DEF Note, EmitAppend, StreamType, HandInv, EmitPlaces
      <3>3. QED
        BY <1>4, <3>1, <3>2 DEF Note, EmitAppend
    <2>3. PICK n : n = made + 1
      OBVIOUS
    <2>4. /\ Times(n) = 0
          /\ ToDrain(n)' \in 0..1 /\ ToSend(n)' \in 0..1
          /\ n \in plain' => ToSend(n)' = 0
      <3>1. Times(n) = 0
        BY <1>1, <2>3 DEF BudgetInv, StreamType
      <3>2. \A u \in Threads : hand[u] # n
        BY <1>1, <2>3 DEF StreamType
      <3>3. n \in plain' => hand' = hand
        BY <1>1, <1>4, <2>3 DEF Note, EmitAppend, StreamType
      <3>4. QED
        BY <3>1, <3>2, <3>3
    <2> HIDE DEF ToDrain, ToSend
    <2>5. made' = n
      BY <1>4, <2>3 DEF Note, EmitAppend
    <2>6. ASSUME NEW e \in 1..made'
          PROVE  Times(e)' + ToDrain(e)' + ToSend(e)' <= IF e \in plain' THEN 1 ELSE 2
      <3>1. CASE e \in 1..made
        <4>1. Times(e) + ToDrain(e) + ToSend(e) <= IF e \in plain THEN 1 ELSE 2
          BY <1>1, <3>1 DEF BudgetInv
        <4>2. QED
          BY <2>1, <2>2, <3>1, <4>1
      <3>2. CASE e = n
        BY <2>1, <2>4, <3>2
      <3>3. QED
        BY <1>1, <2>3, <2>5, <3>1, <3>2 DEF StreamType
    <2>7. \A e \in Nat : e > made' => Times(e)' = 0
      BY <1>1, <2>1, <2>3, <2>5 DEF BudgetInv, StreamType
    <2>8. QED
      BY <2>6, <2>7 DEF BudgetInv
  <1>5. ASSUME UNCHANGED <<made, plain, outbound, taken, hand, loop, published>>
        PROVE  BudgetInv'
    BY <1>2, <1>3, <1>5, TimesKept
  <1>6. ASSUME NEW t \in Threads,
               Enter(t) \/ EmitMark(t) \/ (\E drains \in BOOLEAN : Exit(t, drains))
        PROVE  BudgetInv'
    BY <1>5, <1>6 DEF Enter, EmitMark, Exit, collections, observations
  <1>7. ASSUME NEW t \in Threads, EmitSend(t) PROVE BudgetInv'
    <2>1. CASE sink = NoSink
      <3>1. \A e : Times(e)' = Times(e)
        BY <1>7, <2>1, TimesKept DEF EmitSend, observations
      <3>2. \A e \in 1..made : Held(e)' => Held(e)
        BY <1>1, <1>7 DEF EmitSend, StreamType
      <3>3. QED
        BY <1>2, <1>3, <1>7, <3>1, <3>2 DEF EmitSend, observations, collections
    <2>2. CASE sink # NoSink
      <3>1. {hand[t]} \in SUBSET Nat
        BY <1>1 DEF StreamType
      <3>2. \A e : Times(e)' = IF e = hand[t] THEN Times(e) + 1 ELSE Times(e)
        BY <1>1, <1>7, <2>2, <3>1, TimesQueued DEF EmitSend, observations, StreamType
      <3>3. hand[t] \in 1..made
        BY <1>1, <1>7 DEF EmitSend, HandInv, StreamType, EmitPlaces
      <3>4. \A e \in 1..made : /\ Held(e)' => Held(e)
                               /\ e = hand[t] => ~Held(e)'
        BY <1>1, <1>7, <3>3 DEF EmitSend, StreamType, HandInv
      <3>5. \A e \in 1..made : ToDrain(e)' = ToDrain(e)
        BY <1>7 DEF EmitSend, collections, observations
      <3>6. \A e \in 1..made : /\ ToDrain(e) \in 0..1
                               /\ ToSend(e)' + (IF e = hand[t] THEN 1 ELSE 0) <= ToSend(e)
        BY <1>7, <3>3, <3>4
      <3> HIDE DEF ToDrain, ToSend
      <3>7. made' = made /\ plain' = plain
        BY <1>7 DEF EmitSend, observations
      <3>8. \A e \in 1..made : ToSend(e) \in 0..1 /\ ToSend(e)' \in 0..1
        BY DEF ToSend
      <3>9. \A e \in 1..made : /\ Times(e)' \in Nat
                               /\ Times(e)' + ToDrain(e)' + ToSend(e)'
                                    <= Times(e) + ToDrain(e) + ToSend(e)
        <4>1. SUFFICES ASSUME NEW e \in 1..made
                       PROVE  /\ Times(e)' \in Nat
                              /\ Times(e)' + ToDrain(e)' + ToSend(e)'
                                   <= Times(e) + ToDrain(e) + ToSend(e)
          OBVIOUS
        <4>2. QED
          BY <1>2, <3>2, <3>5, <3>6, <3>8
      <3>10. \A e \in Nat : e > made => Times(e)' = Times(e)
        BY <1>1, <3>2, <3>3 DEF StreamType
      <3>11. QED
        BY <1>3, <3>7, <3>9, <3>10
    <2>3. QED
      BY <2>1, <2>2
  <1>8. ASSUME NEW t \in Threads, DrainFilter(t) \/ DrainClear(t) PROVE BudgetInv'
    <2>1. \A e : Times(e)' = Times(e)
      BY <1>8, TimesKept DEF DrainFilter, DrainClear, observations
    <2>2. \A e \in 1..made : e \in outbound' \/ Taken(e)' => e \in outbound \/ Taken(e)
      BY <1>1, <1>8 DEF DrainFilter, DrainClear, collections, StreamType
    <2>3. QED
      BY <1>2, <1>3, <1>8, <2>1, <2>2 DEF DrainFilter, DrainClear, observations
  <1>9. ASSUME NEW t \in Threads, DrainPublish(t) PROVE BudgetInv'
    <2>1. taken[t] \in SUBSET Nat /\ \A e \in taken[t] : e \in 1..made
      BY <1>1 DEF StreamType
    <2>2. \A e : Times(e)' = IF e \in taken[t] THEN Times(e) + 1 ELSE Times(e)
      <3>1. CASE taken[t] = {}
        BY <1>9, <3>1, TimesKept DEF DrainPublish, observations
      <3>2. CASE taken[t] # {}
        BY <1>1, <1>9, <2>1, <3>2, TimesQueued DEF DrainPublish, observations, StreamType
      <3>3. QED
        BY <3>1, <3>2
    <2>3. \A e \in taken[t] : e \notin outbound' /\ ~Taken(e)'
      BY <1>1, <1>9 DEF DrainPublish, DrainInv, DrainPlaces, StreamType
    <2>4. \A e \in 1..made : e \in outbound' \/ Taken(e)' => e \in outbound \/ Taken(e)
      BY <1>1, <1>9 DEF DrainPublish, StreamType
    <2>5. \A e \in 1..made : /\ ToSend(e)' = ToSend(e) /\ ToSend(e) \in 0..1
                             /\ ToDrain(e)' + (IF e \in taken[t] THEN 1 ELSE 0) <= ToDrain(e)
                             /\ ToDrain(e) \in 0..1 /\ ToDrain(e)' \in 0..1
      BY <1>9, <2>3, <2>4 DEF DrainPublish
    <2> HIDE DEF ToDrain, ToSend
    <2>6. made' = made /\ plain' = plain
      BY <1>9 DEF DrainPublish, observations
    <2>7. \A e \in 1..made : /\ Times(e)' \in Nat
                             /\ Times(e)' + ToDrain(e)' + ToSend(e)'
                                  <= Times(e) + ToDrain(e) + ToSend(e)
      <3>1. SUFFICES ASSUME NEW e \in 1..made
                     PROVE  /\ Times(e)' \in Nat
                            /\ Times(e)' + ToDrain(e)' + ToSend(e)'
                                 <= Times(e) + ToDrain(e) + ToSend(e)
        OBVIOUS
      <3>2. QED
        BY <1>2, <2>2, <2>5
    <2>8. \A e \in Nat : e > made => Times(e)' = Times(e)
      BY <1>1, <2>1, <2>2 DEF StreamType
    <2>9. QED
      BY <1>3, <2>6, <2>7, <2>8
  <1>10. CASE Publish
    <2>1. \A e : Times(e)' = Times(e)
      BY <1>1, <1>10, TimesPublished DEF Publish, StreamType
    <2>2. QED
      BY <1>2, <1>3, <1>10, <2>1 DEF Publish, collections
  <1>11. CASE UNCHANGED vars
    BY <1>5, <1>11 DEF vars, collections, observations
  <1>12. QED
    BY <1>4, <1>6, <1>7, <1>8, <1>9, <1>10, <1>11 DEF Next

LEMMA StreamInvHolds == Spec => []StreamInv
  <1>1. StreamInv /\ [Next]_vars => StreamInv'
    BY TypeStep, DrainStep, HandStep, BudgetStep DEF StreamInv
  <1>2. QED
    BY <1>1, StreamInvInit, PTL DEF Spec

(* A card goes out at most once (CardsOnce): its budget is one, and a       *)
(* drain that has taken it is part of it.                                  *)
THEOREM CardsAlwaysOnce == Spec => []CardsOnce
  <1>1. StreamInv => CardsOnce
    <2> SUFFICES ASSUME StreamInv, NEW e \in plain PROVE Times(e) + Queued(e) <= 1
      BY DEF CardsOnce
    <2>1. e \in Events /\ Times(e) \in Nat
      BY TimesInNat DEF StreamInv, StreamType
    <2>2. Times(e) + ToDrain(e) + ToSend(e) <= 1
      BY <2>1 DEF StreamInv, BudgetInv
    <2>3. ToDrain(e) \in Nat /\ ToSend(e) \in Nat /\ Queued(e) \in Nat /\ Queued(e) <= ToDrain(e)
      BY QueuedIs DEF ToDrain, ToSend, StreamInv
    <2>4. QED
      BY <2>1, <2>2, <2>3
  <1>2. QED
    BY <1>1, StreamInvHolds, PTL

(* Nothing is published a third time (AtMostTwice).                        *)
THEOREM NeverThreeTimes == Spec => []AtMostTwice
  <1>1. StreamInv => AtMostTwice
    <2> SUFFICES ASSUME StreamInv, NEW e \in Events PROVE Times(e) + Queued(e) <= 2
      BY DEF AtMostTwice
    <2>1. Times(e) \in Nat
      BY TimesInNat DEF StreamInv, StreamType
    <2>2. Times(e) + ToDrain(e) + ToSend(e) <= IF e \in plain THEN 1 ELSE 2
      BY DEF StreamInv, BudgetInv
    <2>3. ToDrain(e) \in Nat /\ ToSend(e) \in Nat /\ Queued(e) \in Nat /\ Queued(e) <= ToDrain(e)
      BY QueuedIs DEF ToDrain, ToSend, StreamInv
    <2>4. QED
      BY <2>1, <2>2, <2>3
  <1>2. QED
    BY <1>1, StreamInvHolds, PTL

-----------------------------------------------------------------------------
(* A session used by one run at a time.                                    *)

SinkPlaces == {"running"} \cup EmitPlaces

OneBusy == \A t, u \in Threads : pc[t] # "idle" /\ pc[u] # "idle" => t = u

\* The sink is that of the run that is executing, and there is no other to restore.
SinkInv ==
    /\ \A t \in Threads : pc[t] \in SinkPlaces => sink = t /\ prev[t] = NoSink
    /\ (\A t \in Threads : pc[t] \notin SinkPlaces) => sink = NoSink

\* What a drain has filtered out is what the outbox has besides the streamed.
FilterInv ==
    /\ \A t \in Threads : pc[t] = "filtered" => taken[t] = outbound \ streamed
    /\ \A t \in Threads : pc[t] = "cleared" => outbound = {}

Marked(e) == \E t \in Threads : hand[t] = e /\ pc[t] = "marked"

\* An event waits in the outbox, or has been sent, or is in a drain.
Waiting(e) == e \in outbound /\ Times(e) = 0 /\ (e \in streamed <=> Marked(e))
Sent(e) == Times(e) = 1 /\ ~Held(e) /\ ~Taken(e) /\ (e \in outbound => e \in streamed)
Draining(e) ==
    /\ Times(e) = 0 /\ e \notin outbound /\ ~Held(e)
    /\ \E t \in Threads : pc[t] = "cleared" /\ e \in taken[t]

OnePlace == \A e \in Events : Waiting(e) \/ Sent(e) \/ Draining(e)

\* Only a run that was not drained leaves something behind.
LeftInv == outbound # {} /\ (\A t \in Threads : pc[t] = "idle") => undrained

Alone == OneBusy /\ SinkInv /\ FilterInv /\ OnePlace /\ LeftInv
AloneInv == ~overlapped => Alone

LEMMA AloneInit == Init => AloneInv
  BY DEF Init, AloneInv, Alone, OneBusy, SinkInv, FilterInv, OnePlace, LeftInv, Events,
         SinkPlaces, EmitPlaces

\* Who is busy, and whose the sink is.
LEMMA SinkStep ==
    ASSUME StreamInv, Alone, [Next]_vars, ~overlapped'
    PROVE  OneBusy' /\ SinkInv'
  <1> USE DEF OneBusy, SinkInv, SinkPlaces, EmitPlaces
  <1>1. /\ pc \in [Threads -> Places] /\ prev \in [Threads -> Threads \cup {NoSink}]
        /\ OneBusy /\ SinkInv
    BY DEF StreamInv, StreamType, Alone
  <1>2. ASSUME NEW t \in Threads, Enter(t) PROVE OneBusy' /\ SinkInv'
    <2>1. \A u \in Threads : pc[u] = "idle"
      BY <1>2 DEF Enter
    <2>2. sink = NoSink
      BY <1>1, <2>1
    <2>3. QED
      BY <1>1, <1>2, <2>1, <2>2 DEF Enter, Goto
  <1>3. ASSUME NEW t \in Threads, \E drains \in BOOLEAN : Exit(t, drains)
        PROVE  OneBusy' /\ SinkInv'
    <2>1. pc[t] = "running" /\ sink' = NoSink /\ prev' = prev
      BY <1>1, <1>3 DEF Exit
    <2>2. \A u \in Threads : pc'[u] \in {"idle", "returned"}
      BY <1>1, <1>3, <2>1 DEF Exit, Goto
    <2>3. \A u \in Threads : u # t => pc'[u] = "idle"
      BY <1>1, <1>3, <2>1 DEF Exit, Goto
    <2>4. QED
      BY <2>1, <2>2, <2>3
  <1>4. ASSUME NEW t \in Threads, Note(t) \/ EmitAppend(t) \/ EmitMark(t) \/ EmitSend(t)
        PROVE  OneBusy' /\ SinkInv'
    <2>1. /\ pc[t] \in SinkPlaces /\ sink' = sink /\ prev' = prev
          /\ pc'[t] \in SinkPlaces /\ \A u \in Threads : u # t => pc'[u] = pc[u]
      BY <1>1, <1>4 DEF Note, EmitAppend, EmitMark, EmitSend, Goto
    <2>2. QED
      BY <1>1, <2>1
  <1>5. ASSUME NEW t \in Threads, DrainFilter(t) \/ DrainClear(t) \/ DrainPublish(t)
        PROVE  OneBusy' /\ SinkInv'
    <2>1. /\ pc[t] \in DrainPlaces \cup {"returned"} /\ sink' = sink /\ prev' = prev
          /\ pc'[t] \in DrainPlaces \cup {"idle"} /\ \A u \in Threads : u # t => pc'[u] = pc[u]
      BY <1>1, <1>5 DEF DrainFilter, DrainClear, DrainPublish, Goto, DrainPlaces
    <2>2. \A u \in Threads : pc[u] \notin SinkPlaces /\ pc'[u] \notin SinkPlaces
      BY <1>1, <2>1 DEF DrainPlaces
    <2>3. \A u \in Threads : u # t => pc'[u] = "idle"
      BY <1>1, <2>1 DEF DrainPlaces
    <2>4. QED
      BY <1>1, <2>1, <2>2, <2>3
  <1>6. CASE Publish \/ UNCHANGED vars
    BY <1>1, <1>6 DEF Publish, vars
  <1>7. QED
    BY <1>2, <1>3, <1>4, <1>5, <1>6 DEF Next

LEMMA FilterStep ==
    ASSUME StreamInv, Alone, [Next]_vars, ~overlapped'
    PROVE  FilterInv' /\ LeftInv'
  <1> USE DEF OneBusy, FilterInv, LeftInv
  <1>1. /\ pc \in [Threads -> Places] /\ taken \in [Threads -> SUBSET Events]
        /\ OneBusy /\ FilterInv /\ LeftInv
    BY DEF StreamInv, StreamType, Alone
  <1>2. ASSUME NEW t \in Threads, Enter(t) PROVE FilterInv' /\ LeftInv'
    BY <1>1, <1>2 DEF Enter, Goto, collections
  <1>3. ASSUME NEW t \in Threads, \E drains \in BOOLEAN : Exit(t, drains)
        PROVE  FilterInv' /\ LeftInv'
    BY <1>1, <1>3 DEF Exit, Goto, collections
  <1>4. ASSUME NEW t \in Threads, Note(t) \/ EmitAppend(t) \/ EmitMark(t) \/ EmitSend(t)
        PROVE  FilterInv' /\ LeftInv'
    <2>1. /\ pc[t] \in {"running", "appended", "marked"}
          /\ pc'[t] \in {"running", "appended", "marked"}
          /\ \A u \in Threads : u # t => pc'[u] = pc[u]
      BY <1>1, <1>4 DEF Note, EmitAppend, EmitMark, EmitSend, Goto
    <2>2. QED
      BY <1>1, <2>1
  <1>5. ASSUME NEW t \in Threads, DrainFilter(t) PROVE FilterInv' /\ LeftInv'
    BY <1>1, <1>5 DEF DrainFilter, Goto, collections
  <1>6. ASSUME NEW t \in Threads, DrainClear(t) PROVE FilterInv' /\ LeftInv'
    BY <1>1, <1>6 DEF DrainClear, Goto
  <1>7. ASSUME NEW t \in Threads, DrainPublish(t) PROVE FilterInv' /\ LeftInv'
    BY <1>1, <1>7 DEF DrainPublish, Goto
  <1>8. CASE Publish \/ UNCHANGED vars
    BY <1>1, <1>8 DEF Publish, vars, collections, observations
  <1>9. QED
    BY <1>2, <1>3, <1>4, <1>5, <1>6, <1>7, <1>8 DEF Next

\* Where each event is.
LEMMA PlaceStep ==
    ASSUME StreamInv, Alone, [Next]_vars, ~overlapped'
    PROVE  OnePlace'
  <1> USE DEF Events, Waiting, Sent, Draining, Held, Taken, Marked
  <1>1. StreamType /\ DrainInv /\ HandInv /\ BudgetInv /\ Alone
    BY DEF StreamInv
  <1>2. OneBusy /\ SinkInv /\ FilterInv
    BY DEF Alone
  <1>3. \A e \in 1..made : Waiting(e) \/ Sent(e) \/ Draining(e)
    BY DEF Alone, OnePlace
  <1>4. ASSUME \A e : Times(e)' = Times(e), made' = made,
               UNCHANGED <<outbound, streamed, taken, hand>>,
               \A u \in Threads : (pc'[u] = "marked" <=> pc[u] = "marked")
                                  /\ (pc'[u] = "cleared" <=> pc[u] = "cleared")
        PROVE  OnePlace'
    BY <1>3, <1>4 DEF OnePlace
  <1>5. ASSUME NEW t \in Threads, Enter(t) \/ (\E drains \in BOOLEAN : Exit(t, drains))
        PROVE  OnePlace'
    <2>1. \A e : Times(e)' = Times(e)
      BY <1>5, TimesKept DEF Enter, Exit
    <2>2. UNCHANGED <<outbound, streamed, taken, hand, made>>
      BY <1>5 DEF Enter, Exit, collections
    <2>3. \A u \in Threads : (pc'[u] = "marked" <=> pc[u] = "marked")
                             /\ (pc'[u] = "cleared" <=> pc[u] = "cleared")
      BY <1>1, <1>5 DEF Enter, Exit, Goto, StreamType
    <2>4. QED
      BY <1>4, <2>1, <2>2, <2>3
  <1>6. CASE Publish
    <2>1. \A e : Times(e)' = Times(e)
      BY <1>1, <1>6, TimesPublished DEF Publish, StreamType
    <2>2. QED
      BY <1>4, <1>6, <2>1 DEF Publish, collections
  <1>7. CASE UNCHANGED vars
    <2>1. \A e : Times(e)' = Times(e)
      BY <1>7, TimesKept DEF vars, observations
    <2>2. QED
      BY <1>4, <1>7, <2>1 DEF vars, collections, observations
  <1>8. ASSUME NEW t \in Threads, Note(t) \/ EmitAppend(t) PROVE OnePlace'
    <2>1. \A e : Times(e)' = Times(e)
      BY <1>8, TimesKept DEF Note, EmitAppend
    <2>2. PICK n : n = made + 1
      OBVIOUS
    <2>3. /\ made' = n /\ outbound' = outbound \cup {n} /\ streamed' = streamed /\ taken' = taken
          /\ pc[t] = "running" /\ pc'[t] # "marked"
          /\ \A u \in Threads : u # t => pc'[u] = pc[u] /\ hand'[u] = hand[u]
          /\ hand[t] = 0 /\ (hand'[t] = 0 \/ hand'[t] = n)
      BY <1>1, <1>8, <2>2 DEF Note, EmitAppend, Goto, StreamType, HandInv, EmitPlaces
    <2>4. \A u \in Threads : u # t => pc[u] = "idle"
      BY <1>2, <2>3 DEF OneBusy
    <2>5. Waiting(n)'
      <3>1. Times(n)' = 0 /\ n \notin streamed
        BY <1>1, <2>1, <2>2 DEF BudgetInv, StreamType
      <3>2. ~Marked(n)'
        BY <2>3, <2>4
      <3>3. QED
        BY <2>3, <3>1, <3>2
    <2>6. ASSUME NEW e \in 1..made PROVE Waiting(e)' \/ Sent(e)'
      <3>1. e # n /\ e # 0
        BY <1>1, <2>2 DEF StreamType
      <3>2. Waiting(e) \/ Sent(e)
        BY <1>3, <2>3, <2>4
      <3>3. ~Marked(e) /\ ~Marked(e)'
        BY <2>3, <2>4
      <3>4. Held(e)' => Held(e)
        BY <2>3, <3>1
      <3>5. QED
        BY <2>1, <2>3, <3>1, <3>2, <3>3, <3>4
    <2>7. made' = made + 1 /\ made \in Nat
      BY <1>1, <2>2, <2>3 DEF StreamType
    <2>8. QED
      BY <2>2, <2>5, <2>6, <2>7 DEF OnePlace
  <1>9. ASSUME NEW t \in Threads, EmitMark(t) PROVE OnePlace'
    <2>1. \A e : Times(e)' = Times(e)
      BY <1>9, TimesKept DEF EmitMark, observations
    <2>2. /\ UNCHANGED <<made, outbound, taken, hand>> /\ streamed' = streamed \cup {hand[t]}
          /\ pc[t] = "appended" /\ pc' = [pc EXCEPT ![t] = "marked"]
      BY <1>9 DEF EmitMark, Goto, observations
    <2>3. \A u \in Threads : u # t => pc[u] = "idle" /\ pc'[u] = "idle"
      BY <1>1, <1>2, <2>2 DEF OneBusy, StreamType
    <2>4. pc'[t] = "marked"
      BY <1>1, <2>2 DEF StreamType
    <2>5. ASSUME NEW e \in 1..made PROVE Waiting(e)' \/ Sent(e)'
      <3>1. Waiting(e) \/ Sent(e)
        BY <1>3, <2>2, <2>3
      <3>2. /\ Marked(e)' <=> e = hand[t]
            /\ ~Marked(e)
        BY <2>2, <2>3, <2>4
      <3>3. QED
        BY <2>1, <2>2, <3>1, <3>2
    <2>6. QED
      BY <2>2, <2>5 DEF OnePlace
  <1>10. ASSUME NEW t \in Threads, EmitSend(t) PROVE OnePlace'
    <2>1. /\ UNCHANGED <<made, outbound, streamed, taken>>
          /\ pc[t] = "marked" /\ pc' = [pc EXCEPT ![t] = "running"]
          /\ hand' = [hand EXCEPT ![t] = 0] /\ published' = published
      BY <1>10 DEF EmitSend, Goto, collections, observations
    <2>2. sink # NoSink
      BY <1>2, <2>1, StreamAssumption DEF SinkInv, SinkPlaces, EmitPlaces
    <2>3. {hand[t]} \in SUBSET Nat
      BY <1>1 DEF StreamType
    <2>4. \A e : Times(e)' = IF e = hand[t] THEN Times(e) + 1 ELSE Times(e)
      <3>1. published \in Seq(SUBSET Nat) /\ loop \in Seq(SUBSET Nat)
        BY <1>1 DEF StreamType
      <3>2. published' = published /\ loop' = Append(loop, {hand[t]})
        BY <1>10, <2>1, <2>2 DEF EmitSend
      <3>3. \A e : Times(e)' = IF e \in {hand[t]} THEN Times(e) + 1 ELSE Times(e)
        BY <2>3, <3>1, <3>2, TimesQueued
      <3>4. QED
        BY <3>3
    <2>5. \A u \in Threads : u # t => pc[u] = "idle" /\ pc'[u] = "idle"
      BY <1>1, <1>2, <2>1 DEF OneBusy, StreamType
    <2>6. pc'[t] = "running" /\ hand'[t] = 0
      BY <1>1, <2>1 DEF StreamType
    <2>7. \A u \in Threads : u # t => hand[u] = 0 /\ hand'[u] = 0
      BY <1>1, <2>1, <2>5 DEF HandInv, EmitPlaces, StreamType
    <2>8. ASSUME NEW e \in 1..made PROVE Waiting(e)' \/ Sent(e)'
      <3>1. Waiting(e) \/ Sent(e)
        BY <1>3, <2>1, <2>5
      <3>2. /\ ~Marked(e)' /\ ~Held(e)'
            /\ Marked(e) <=> e = hand[t]
        BY <2>1, <2>5, <2>6, <2>7
      <3>3. ~Taken(e) /\ ~Taken(e)'
        BY <1>1, <2>1, <2>5 DEF DrainInv, DrainPlaces
      <3>4. CASE e = hand[t]
        BY <2>1, <2>4, <3>1, <3>2, <3>3, <3>4
      <3>5. CASE e # hand[t]
        BY <2>1, <2>4, <3>1, <3>2, <3>3, <3>5
      <3>6. QED
        BY <3>4, <3>5
    <2>9. QED
      BY <2>1, <2>8 DEF OnePlace
  \* While a drain is under way nothing is held.
  <1>11. ASSUME NEW t \in Threads, pc[t] \in DrainPlaces \cup {"returned"}
         PROVE  \A e \in 1..made : ~Held(e) /\ ~Marked(e)
    <2>1. \A u \in Threads : hand[u] = 0
      BY <1>1, <1>2, <1>11 DEF OneBusy, HandInv, EmitPlaces, DrainPlaces
    <2>2. QED
      BY <2>1
  <1>12. ASSUME NEW t \in Threads, DrainFilter(t) PROVE OnePlace'
    <2>1. \A e : Times(e)' = Times(e)
      BY <1>12, TimesKept DEF DrainFilter, observations
    <2>2. /\ UNCHANGED <<made, outbound, streamed, hand>>
          /\ pc[t] = "returned" /\ pc'[t] \in {"idle", "filtered"}
          /\ \A u \in Threads : u # t => pc[u] = "idle" /\ pc'[u] = "idle" /\ taken'[u] = taken[u]
          /\ taken'[t] = taken[t] \/ taken'[t] = outbound \ streamed
      BY <1>1, <1>2, <1>12 DEF DrainFilter, Goto, collections, observations, OneBusy, StreamType
    <2>3. ASSUME NEW e \in 1..made PROVE Waiting(e)' \/ Sent(e)'
      <3>1. Waiting(e) \/ Sent(e)
        BY <1>3, <2>2
      <3>2. ~Held(e) /\ ~Marked(e) /\ ~Held(e)' /\ ~Marked(e)'
        BY <1>11, <2>2 DEF DrainPlaces
      <3>3. QED
        BY <2>1, <2>2, <3>1, <3>2
    <2>4. QED
      BY <2>2, <2>3 DEF OnePlace
  <1>13. ASSUME NEW t \in Threads, DrainClear(t) PROVE OnePlace'
    <2>1. \A e : Times(e)' = Times(e)
      BY <1>13, TimesKept DEF DrainClear, observations
    <2>2. /\ UNCHANGED <<made, taken, streamed, hand>> /\ outbound' = {}
          /\ pc[t] = "filtered" /\ pc'[t] = "cleared" /\ taken[t] = outbound \ streamed
          /\ \A u \in Threads : u # t => pc[u] = "idle" /\ pc'[u] = "idle"
      BY <1>1, <1>2, <1>13 DEF DrainClear, Goto, observations, OneBusy, StreamType, FilterInv
    <2>3. ASSUME NEW e \in 1..made PROVE Draining(e)' \/ Sent(e)'
      <3>1. Waiting(e) \/ Sent(e)
        BY <1>3, <2>2
      <3>2. ~Held(e) /\ ~Marked(e) /\ ~Held(e)'
        BY <1>11, <2>2 DEF DrainPlaces
      <3>3. QED
        BY <2>1, <2>2, <3>1, <3>2
    <2>4. QED
      BY <2>2, <2>3 DEF OnePlace
  <1>14. ASSUME NEW t \in Threads, DrainPublish(t) PROVE OnePlace'
    <2>1. taken[t] \in SUBSET Nat
      BY <1>1 DEF StreamType
    <2>2. \A e : Times(e)' = IF e \in taken[t] THEN Times(e) + 1 ELSE Times(e)
      <3>1. CASE taken[t] = {}
        BY <1>14, <3>1, TimesKept DEF DrainPublish, observations
      <3>2. CASE taken[t] # {}
        BY <1>1, <1>14, <2>1, <3>2, TimesQueued DEF DrainPublish, observations, StreamType
      <3>3. QED
        BY <3>1, <3>2
    <2>3. /\ UNCHANGED <<made, outbound, hand>> /\ outbound = {}
          /\ pc[t] = "cleared" /\ \A u \in Threads : taken'[u] = {}
          /\ \A u \in Threads : u # t => pc[u] = "idle"
      BY <1>1, <1>2, <1>14
         DEF DrainPublish, observations, OneBusy, StreamType, FilterInv, DrainInv, DrainPlaces
    <2>4. ASSUME NEW e \in 1..made PROVE Sent(e)'
      <3>1. Draining(e) \/ Sent(e)
        BY <1>3, <2>3
      <3>2. ~Held(e)' /\ ~Taken(e)' /\ e \notin outbound'
        BY <1>11, <2>3 DEF DrainPlaces
      <3>3. Times(e)' = 1
        <4>1. CASE Draining(e)
          BY <2>2, <2>3, <4>1
        <4>2. CASE Sent(e)
          BY <2>2, <4>2
        <4>3. QED
          BY <3>1, <4>1, <4>2
      <3>4. QED
        BY <3>2, <3>3
    <2>5. QED
      BY <2>3, <2>4 DEF OnePlace
  <1>15. QED
    BY <1>5, <1>6, <1>7, <1>8, <1>9, <1>10, <1>12, <1>13, <1>14 DEF Next

(* A session used by one run at a time publishes every event exactly once  *)
(* (OnceWhenAlone).                                                        *)
THEOREM AloneEachOnce == Spec => []OnceWhenAlone
  <1>1. StreamInv /\ AloneInv /\ [Next]_vars => AloneInv'
    <2> SUFFICES ASSUME StreamInv, AloneInv, [Next]_vars, ~overlapped'
                 PROVE  Alone'
      BY DEF AloneInv
    <2>1. ~overlapped
      BY DEF Next, Enter, Note, EmitAppend, EmitMark, EmitSend, Exit, DrainFilter, DrainClear,
             DrainPublish, Publish, vars, observations
    <2>2. Alone
      BY <2>1 DEF AloneInv
    <2>3. QED
      BY <2>2, SinkStep, FilterStep, PlaceStep DEF Alone
  <1>2. AloneInv => OnceWhenAlone
    <2> SUFFICES ASSUME AloneInv, Quiet, ~overlapped, NEW e \in Events
                 PROVE  Times(e) = 1 \/ (undrained /\ Times(e) = 0 /\ e \in outbound)
      BY DEF OnceWhenAlone
    <2>1. Waiting(e) \/ Sent(e) \/ Draining(e)
      BY DEF AloneInv, Alone, OnePlace
    <2>2. ~Draining(e)
      BY DEF Quiet, Draining
    <2>3. Waiting(e) => undrained
      BY DEF AloneInv, Alone, LeftInv, Quiet, Waiting
    <2>4. QED
      BY <2>1, <2>2, <2>3 DEF Waiting, Sent
  <1>3. QED
    BY <1>1, <1>2, AloneInit, StreamInvHolds, PTL DEF Spec

-----------------------------------------------------------------------------
(* GateThreads: the counters of the gate.                                  *)

GatePlaces == {"idle", "confirm", "card", "skip", "read", "stored"}

GateType ==
    /\ pending_count \in 0..MAX_PENDING
    /\ skip_counts \in [Sigs -> Nat]
    /\ pendingConfirmations \subseteq offered /\ offered \subseteq CardIds
    /\ at \in [Workers -> [pc: GatePlaces, sig: Sigs \cup {"none"}, read: Nat]]
    /\ \A w \in Workers : at[w].pc \in {"confirm", "card", "skip", "read", "stored"} => at[w].sig \in Sigs
    /\ skipped \in [Sigs -> Nat]
    /\ overwritten \in Nat

\* The workers that hold a card of the gate's count which is not open: one that
\* is still to be opened, or was popped and is still to be discounted.
Holding == {w \in Workers : at[w].pc \in {"card", "skip", "read", "stored"}}

OnCards == Cardinality(pendingConfirmations) + Cardinality(Holding)

\* The count covers the cards, and so does every value a record_skip has read.
CoverInv ==
    /\ OnCards <= pending_count + overwritten
    /\ \A w \in Workers : at[w].pc = "stored" =>
          OnCards <= at[w].read + overwritten /\ at[w].read <= MAX_PENDING

\* The workers with a skip of this step that is not stored yet.
Recording(s) == {w \in Workers : at[w].pc \in {"skip", "read"} /\ at[w].sig = s}

SkipInv ==
    \A s \in Sigs :
        /\ skip_counts[s] + Cardinality(Recording(s)) <= skipped[s]
        /\ \A w \in Recording(s) :
              at[w].pc = "read" => at[w].read + Cardinality(Recording(s)) <= skipped[s]

GateInv == GateType /\ CoverInv /\ SkipInv

LEMMA GateInvInit == GateInit => GateInv
  <1> SUFFICES ASSUME GateInit PROVE GateInv
    OBVIOUS
  <1>1. GateType
    BY DEF GateInit, GateType, GatePlaces, MAX_PENDING
  <1>2. \A w \in Workers : at[w].pc = "idle"
    BY DEF GateInit
  <1>3. Holding = {} /\ \A s \in Sigs : Recording(s) = {}
    BY <1>2 DEF Holding, Recording
  <1>4. CoverInv
    BY <1>2, <1>3, FS_EmptySet DEF GateInit, CoverInv, OnCards
  <1>5. SkipInv
    BY <1>3, FS_EmptySet DEF GateInit, SkipInv
  <1>6. QED
    BY <1>1, <1>4, <1>5 DEF GateInv

\* One worker goes elsewhere, the others stay.
Moved(w, place, s, value) ==
    /\ at' \in [Workers -> [pc: GatePlaces, sig: Sigs \cup {"none"}, read: Nat]]
    /\ \A v \in Workers :
          at'[v].pc \in {"confirm", "card", "skip", "read", "stored"} => at'[v].sig \in Sigs
    /\ at'[w].pc = place /\ at'[w].sig = s /\ at'[w].read = value
    /\ \A v \in Workers \ {w} : at'[v] = at[v]

LEMMA MovesMoved ==
    ASSUME GateType, NEW w \in Workers, NEW place \in GatePlaces, NEW s \in Sigs \cup {"none"},
           NEW value \in Nat, place \in {"confirm", "card", "skip", "read", "stored"} => s \in Sigs,
           Moves(w, place, s, value)
    PROVE  Moved(w, place, s, value)
  <1>1. PICK f : f = [pc |-> place, sig |-> s, read |-> value]
    OBVIOUS
  <1>2. at' = [at EXCEPT ![w] = f]
    BY <1>1 DEF Moves
  <1>3. f \in [pc: GatePlaces, sig: Sigs \cup {"none"}, read: Nat] /\ f.pc = place /\ f.sig = s /\ f.read = value
    BY <1>1
  <1>4. at'[w] = f /\ \A v \in Workers \ {w} : at'[v] = at[v]
    BY <1>2 DEF GateType
  <1>5. at' \in [Workers -> [pc: GatePlaces, sig: Sigs \cup {"none"}, read: Nat]]
    BY <1>2, <1>3 DEF GateType
  <1>6. \A v \in Workers :
           at'[v].pc \in {"confirm", "card", "skip", "read", "stored"} => at'[v].sig \in Sigs
    BY <1>3, <1>4 DEF GateType
  <1>7. QED
    BY <1>3, <1>4, <1>5, <1>6 DEF Moved

LEMMA Counting ==
    ASSUME GateType
    PROVE  /\ IsFiniteSet(pendingConfirmations) /\ Cardinality(pendingConfirmations) \in Nat
           /\ IsFiniteSet(Holding) /\ Cardinality(Holding) \in Nat
           /\ \A s \in Sigs : IsFiniteSet(Recording(s)) /\ Cardinality(Recording(s)) \in Nat
  <1>1. IsFiniteSet(pendingConfirmations)
    <2>1. pendingConfirmations \subseteq CardIds
      BY DEF GateType
    <2>2. QED
      BY <2>1, WorkersAssumption, FS_Subset
  <1>2. IsFiniteSet(Holding)
    <2>1. Holding \subseteq Workers
      BY DEF Holding
    <2>2. QED
      BY <2>1, WorkersAssumption, FS_Subset
  <1>3. ASSUME NEW s \in Sigs PROVE IsFiniteSet(Recording(s))
    <2>1. Recording(s) \subseteq Workers
      BY DEF Recording
    <2>2. QED
      BY <2>1, WorkersAssumption, FS_Subset
  <1>4. QED
    BY <1>1, <1>2, <1>3, FS_CardinalityType

(* Two sets that differ in at most one element.                            *)
LEMMA OneElement ==
    ASSUME NEW S, IsFiniteSet(S), NEW x, NEW T, \A v : v # x => (v \in T <=> v \in S)
    PROVE  Cardinality(T) = Cardinality(S) + (IF x \in T THEN 1 ELSE 0) - (IF x \in S THEN 1 ELSE 0)
  <1>0. Cardinality(S) \in Nat
    BY FS_CardinalityType
  <1>1. CASE x \in S /\ x \notin T
    <2>1. T = S \ {x}
      BY <1>1
    <2>2. Cardinality(S \ {x}) = Cardinality(S) - 1
      BY <1>1, FS_RemoveElement
    <2>3. QED
      BY <1>0, <1>1, <2>1, <2>2
  <1>2. CASE x \notin S /\ x \in T
    <2>1. T = S \cup {x}
      BY <1>2
    <2>2. Cardinality(S \cup {x}) = Cardinality(S) + 1
      BY <1>2, FS_AddElement
    <2>3. QED
      BY <1>0, <1>2, <2>1, <2>2
  <1>3. CASE x \in S <=> x \in T
    <2>1. T = S
      BY <1>3
    <2>2. QED
      BY <1>0, <1>3, <2>1
  <1>4. QED
    BY <1>1, <1>2, <1>3

(* A worker that takes its place among those that hold a card, or leaves.  *)
LEMMA HoldingMoved ==
    ASSUME GateType, NEW w \in Workers, NEW place, NEW s, NEW value, Moved(w, place, s, value)
    PROVE  LET h == {"card", "skip", "read", "stored"}
           IN  Cardinality(Holding)' = Cardinality(Holding)
                    + (IF place \in h THEN 1 ELSE 0) - (IF at[w].pc \in h THEN 1 ELSE 0)
  <1> DEFINE h == {"card", "skip", "read", "stored"}
  <1>1. /\ w \in Holding <=> at[w].pc \in h
        /\ w \in Holding' <=> place \in h
        /\ \A v \in Workers \ {w} : v \in Holding' <=> v \in Holding
    BY DEF Holding, Moved
  <1>2. Holding \subseteq Workers /\ Holding' \subseteq Workers
    BY DEF Holding
  <1>3. IsFiniteSet(Holding) /\ Cardinality(Holding) \in Nat
    BY Counting
  <1> HIDE DEF h
  <1>4. PICK old, new : old = Holding /\ new = Holding'
    OBVIOUS
  <1>5. Cardinality(new) = Cardinality(old) + (IF w \in new THEN 1 ELSE 0) - (IF w \in old THEN 1 ELSE 0)
    <2>1. \A v : v # w => (v \in new <=> v \in old)
      BY <1>1, <1>2, <1>4
    <2>2. IsFiniteSet(old)
      BY <1>3, <1>4
    <2>3. QED
      BY ONLY <2>1, <2>2, OneElement
  <1>6. Cardinality(Holding)' = Cardinality(new)
    BY <1>4
  <1>7. QED
    BY <1>1, <1>4, <1>5, <1>6 DEF h

(* The same for the workers that are recording a skip of r.                *)
LEMMA RecordingMoved ==
    ASSUME GateType, NEW w \in Workers, NEW place, NEW s, NEW value, Moved(w, place, s, value),
           NEW r \in Sigs
    PROVE  /\ \A v \in Workers \ {w} : v \in Recording(r)' <=> v \in Recording(r)
           /\ w \in Recording(r)' <=> place \in {"skip", "read"} /\ s = r
           /\ Cardinality(Recording(r))' = Cardinality(Recording(r))
                  + (IF w \in Recording(r)' THEN 1 ELSE 0) - (IF w \in Recording(r) THEN 1 ELSE 0)
           /\ Cardinality(Recording(r)) \in Nat
  <1>1. /\ w \in Recording(r)' <=> place \in {"skip", "read"} /\ s = r
        /\ \A v \in Workers \ {w} : v \in Recording(r)' <=> v \in Recording(r)
    BY DEF Recording, Moved
  <1>2. Recording(r) \subseteq Workers /\ Recording(r)' \subseteq Workers
    BY DEF Recording
  <1>3. IsFiniteSet(Recording(r)) /\ Cardinality(Recording(r)) \in Nat
    BY Counting
  <1>4. PICK old, new : old = Recording(r) /\ new = Recording(r)'
    OBVIOUS
  <1>5. Cardinality(new) = Cardinality(old) + (IF w \in new THEN 1 ELSE 0) - (IF w \in old THEN 1 ELSE 0)
    <2>1. \A v : v # w => (v \in new <=> v \in old)
      BY <1>1, <1>2, <1>4
    <2>2. IsFiniteSet(old)
      BY <1>3, <1>4
    <2>3. QED
      BY ONLY <2>1, <2>2, OneElement
  <1>6. Cardinality(Recording(r))' = Cardinality(new)
    BY <1>4
  <1>7. QED
    BY <1>1, <1>3, <1>4, <1>5, <1>6

(* What a step must see to for CoverInv to survive it.                     *)
LEMMA CoverKept ==
    ASSUME GateType, CoverInv, NEW w \in Workers, NEW place, NEW s, NEW value,
           Moved(w, place, s, value),
           OnCards \in Int, OnCards' \in Int, pending_count' \in Int, overwritten' \in Int,
           value \in Int,
           OnCards' <= pending_count' + overwritten',
           (\E v \in Workers : at[v].pc = "stored") => OnCards' - OnCards <= overwritten' - overwritten,
           place = "stored" => OnCards' <= value + overwritten' /\ value <= MAX_PENDING
    PROVE  CoverInv'
  <1>1. ASSUME NEW v \in Workers, at'[v].pc = "stored"
        PROVE  OnCards' <= at'[v].read + overwritten' /\ at'[v].read <= MAX_PENDING
    <2>1. CASE v = w
      BY <1>1, <2>1 DEF Moved
    <2>2. CASE v # w
      <3>1. at'[v] = at[v]
        BY <2>2 DEF Moved
      <3>2. /\ OnCards <= at[v].read + overwritten /\ at[v].read <= MAX_PENDING
            /\ OnCards' - OnCards <= overwritten' - overwritten
        BY <1>1, <3>1 DEF CoverInv
      <3>3. at[v].read \in Nat /\ overwritten \in Nat
        BY DEF GateType
      <3>4. OnCards' <= at[v].read + overwritten'
        <4>1. PICK a \in Int, b \in Int, c \in Int, d \in Int, e \in Int :
                 a = OnCards /\ b = OnCards' /\ c = overwritten /\ d = overwritten' /\ e = at[v].read
          BY <3>3
        <4>2. a <= e + c /\ b - a <= d - c
          BY <3>2, <4>1
        <4>3. b <= e + d
          BY ONLY <4>2, a \in Int, b \in Int, c \in Int, d \in Int, e \in Int
        <4>4. QED
          BY <4>1, <4>3
      <3>5. QED
        BY <3>1, <3>2, <3>4
    <2>3. QED
      BY <2>1, <2>2
  <1>2. QED
    BY <1>1 DEF CoverInv

(* The same for SkipInv: R is the set of workers recording a skip of r.    *)
LEMMA SkipKept ==
    ASSUME GateType, SkipInv, NEW w \in Workers, NEW place, NEW s, NEW value,
           Moved(w, place, s, value), NEW r \in Sigs,
           skipped'[r] \in Int, skip_counts'[r] \in Int,
           LET n == Cardinality(Recording(r))
               m == Cardinality(Recording(r))'
           IN  /\ skip_counts'[r] + m <= skipped'[r]
               /\ m - n <= skipped'[r] - skipped[r]
               /\ place = "read" /\ s = r => value + m <= skipped'[r]
    PROVE  /\ skip_counts'[r] + Cardinality(Recording(r))' <= skipped'[r]
           /\ \A v \in Recording(r)' :
                 at'[v].pc = "read" => at'[v].read + Cardinality(Recording(r))' <= skipped'[r]
  <1>1. PICK n, m : n = Cardinality(Recording(r)) /\ m = Cardinality(Recording(r))'
    OBVIOUS
  <1>2. n \in Nat /\ m \in Int
    BY <1>1, RecordingMoved
  <1>3. ASSUME NEW v \in Recording(r)', at'[v].pc = "read"
        PROVE  at'[v].read + m <= skipped'[r]
    <2>0. v \in Workers /\ at'[v].sig = r
      BY <1>3 DEF Recording
    <2>1. CASE v = w
      BY <1>1, <1>3, <2>0, <2>1 DEF Moved
    <2>2. CASE v # w
      <3>1. at'[v] = at[v] /\ v \in Recording(r)
        BY <1>3, <2>0, <2>2 DEF Moved, Recording
      <3>2. at[v].read + n <= skipped[r]
        BY <1>1, <1>3, <3>1 DEF SkipInv
      <3>3. at[v].read \in Nat /\ skipped[r] \in Nat
        BY <2>0 DEF GateType
      <3>4. m - n <= skipped'[r] - skipped[r]
        BY <1>1
      <3>5. at[v].read + m <= skipped'[r]
        BY ONLY <1>2, <3>2, <3>3, <3>4, skipped'[r] \in Int
      <3>6. QED
        BY <3>1, <3>5
    <2>3. QED
      BY <2>1, <2>2
  <1>4. QED
    BY <1>1, <1>3

(* OnCards changes by the worker that moves and by the card that opens or goes. *)
LEMMA HeldMoved ==
    ASSUME GateType, NEW w \in Workers, NEW place, NEW s, NEW value, Moved(w, place, s, value),
           NEW c, \A d : d # c => (d \in pendingConfirmations' <=> d \in pendingConfirmations)
    PROVE  LET h == {"card", "skip", "read", "stored"}
           IN  /\ OnCards \in Nat
               /\ OnCards' = OnCards + (IF place \in h THEN 1 ELSE 0) - (IF at[w].pc \in h THEN 1 ELSE 0)
                      + (IF c \in pendingConfirmations' THEN 1 ELSE 0)
                      - (IF c \in pendingConfirmations THEN 1 ELSE 0)
  <1>1. PICK a, b, x, y : /\ a = Cardinality(pendingConfirmations)
                          /\ b = Cardinality(pendingConfirmations')
                          /\ x = Cardinality(Holding) /\ y = Cardinality(Holding)'
    OBVIOUS
  <1>2. a \in Nat /\ x \in Nat /\ IsFiniteSet(pendingConfirmations)
    BY <1>1, Counting
  <1>3. b = a + (IF c \in pendingConfirmations' THEN 1 ELSE 0)
              - (IF c \in pendingConfirmations THEN 1 ELSE 0)
    BY <1>1, <1>2, OneElement
  <1>4. y = x + (IF place \in {"card", "skip", "read", "stored"} THEN 1 ELSE 0)
              - (IF at[w].pc \in {"card", "skip", "read", "stored"} THEN 1 ELSE 0)
    BY <1>1, HoldingMoved
  <1>5. OnCards = a + x /\ OnCards' = b + y
    BY <1>1 DEF OnCards
  <1>6. QED
    BY <1>2, <1>3, <1>4, <1>5

(* CoverInv and SkipInv after a step with given effects.                   *)
LEMMA GateKept ==
    ASSUME GateInv, GateType', NEW w \in Workers, NEW place, NEW s, NEW value \in Nat,
           Moved(w, place, s, value),
           OnCards \in Int, OnCards' \in Int,
           OnCards' <= pending_count' + overwritten',
           (\E v \in Workers : at[v].pc = "stored") => OnCards' - OnCards <= overwritten' - overwritten,
           place = "stored" => OnCards' <= value + overwritten' /\ value <= MAX_PENDING,
           \A r \in Sigs :
              LET n == Cardinality(Recording(r))
                  m == Cardinality(Recording(r))'
              IN  /\ skip_counts'[r] + m <= skipped'[r]
                  /\ m - n <= skipped'[r] - skipped[r]
                  /\ place = "read" /\ s = r => value + m <= skipped'[r]
    PROVE  GateInv'
  <1>1. CoverInv'
    <2>1. pending_count' \in Int /\ overwritten' \in Int
      BY DEF GateType
    <2>2. GateType /\ CoverInv /\ value \in Int
      BY DEF GateInv
    <2>3. QED
      BY <2>1, <2>2, CoverKept
  <1>2. SkipInv'
    <2>1. ASSUME NEW r \in Sigs
          PROVE  /\ skip_counts'[r] + Cardinality(Recording(r))' <= skipped'[r]
                 /\ \A v \in Recording(r)' :
                       at'[v].pc = "read" => at'[v].read + Cardinality(Recording(r))' <= skipped'[r]
      <3>1. skipped'[r] \in Int /\ skip_counts'[r] \in Int
        BY DEF GateType
      <3>2. QED
        BY <3>1, SkipKept DEF GateInv
    <2>2. QED
      BY <2>1 DEF SkipInv
  <1>3. QED
    BY <1>1, <1>2 DEF GateInv

(* Steps that leave skip_counts and skipped alone, and record no new skip.  *)
LEMMA SkipsAlone ==
    ASSUME GateInv, NEW w \in Workers, NEW place, NEW s, NEW value, Moved(w, place, s, value),
           place \notin {"skip", "read"}, UNCHANGED <<skip_counts, skipped>>,
           at[w].pc \notin {"skip", "read"}
    PROVE  \A r \in Sigs :
              LET n == Cardinality(Recording(r))
                  m == Cardinality(Recording(r))'
              IN  /\ skip_counts'[r] + m <= skipped'[r]
                  /\ m - n <= skipped'[r] - skipped[r]
                  /\ place = "read" /\ s = r => value + m <= skipped'[r]
  <1> SUFFICES ASSUME NEW r \in Sigs
               PROVE  LET n == Cardinality(Recording(r))
                          m == Cardinality(Recording(r))'
                      IN  /\ skip_counts'[r] + m <= skipped'[r]
                          /\ m - n <= skipped'[r] - skipped[r]
                          /\ place = "read" /\ s = r => value + m <= skipped'[r]
    OBVIOUS
  <1>1. PICK n, m : n = Cardinality(Recording(r)) /\ m = Cardinality(Recording(r))'
    OBVIOUS
  <1>2. w \notin Recording(r)
    BY DEF Recording
  <1>3. m = n /\ n \in Nat
    <2>1. n \in Nat /\ m = n + (IF w \in Recording(r)' THEN 1 ELSE 0) - (IF w \in Recording(r) THEN 1 ELSE 0)
      BY <1>1, RecordingMoved DEF GateInv
    <2>2. w \notin Recording(r)'
      BY RecordingMoved DEF GateInv
    <2>3. QED
      BY <1>2, <2>1, <2>2
  <1>4. skip_counts[r] + n <= skipped[r] /\ skipped[r] \in Nat
    BY <1>1 DEF GateInv, GateType, SkipInv
  <1>5. QED
    BY <1>1, <1>3, <1>4

\* The numbers that CoverInv relates, and what it says of them.
LEMMA Covered ==
    ASSUME GateInv
    PROVE  /\ OnCards \in Nat /\ pending_count \in Nat /\ overwritten \in Nat
           /\ pending_count <= MAX_PENDING
           /\ OnCards <= pending_count + overwritten
           /\ \A w \in Workers : /\ at[w].read \in Nat /\ at[w].pc \in GatePlaces
                                 /\ at[w].sig \in Sigs \cup {"none"}
                                 /\ at[w].pc = "stored" => /\ OnCards <= at[w].read + overwritten
                                                           /\ at[w].read <= MAX_PENDING
           /\ \A w \in Workers : at[w].pc \in {"confirm", "card", "skip", "read", "stored"}
                                    => at[w].sig \in Sigs
  <1>1. OnCards \in Nat
    BY Counting DEF OnCards, GateInv
  <1>2. GateType /\ CoverInv
    BY DEF GateInv
  <1>3. MAX_PENDING \in Nat
    BY DEF MAX_PENDING
  <1>4. QED
    BY <1>1, <1>2, <1>3 DEF GateType, CoverInv

(* Steps on the way to a card.                                             *)
LEMMA EvaluatesKeeps ==
    ASSUME GateInv, NEW w \in Workers, NEW s \in Sigs, Evaluates(w, s)
    PROVE  GateInv'
  <1>1. Moved(w, "confirm", s, 0)
    BY MovesMoved DEF Evaluates, GateInv, GatePlaces
  <1>2. GateType'
    BY <1>1 DEF GateInv, GateType, Evaluates, Moved
  <1>3. OnCards' = OnCards
    BY <1>1, HeldMoved, Covered DEF GateInv, Evaluates
  <1>4. UNCHANGED <<skip_counts, skipped, pending_count, overwritten>> /\ at[w].pc = "idle"
    BY DEF Evaluates
  <1>5. QED
    BY <1>1, <1>2, <1>3, <1>4, SkipsAlone, GateKept, Covered

LEMMA QueuesKeeps ==
    ASSUME GateInv, NEW w \in Workers, Queues(w)
    PROVE  GateInv'
  <1>1. Moved(w, "idle", "none", 0)
    BY MovesMoved DEF Queues, GateInv, GatePlaces
  <1>2. GateType'
    BY <1>1 DEF GateInv, GateType, Queues, Moved
  <1>3. OnCards' = OnCards
    BY <1>1, HeldMoved, Covered DEF GateInv, Queues
  <1>4. UNCHANGED <<skip_counts, skipped, pending_count, overwritten>> /\ at[w].pc = "confirm"
    BY DEF Queues
  <1>5. QED
    BY <1>1, <1>2, <1>3, <1>4, SkipsAlone, GateKept, Covered

(* The increment is counted twice where it will be lost: in the count that *)
(* is about to be overwritten, and in overwritten.                         *)
LEMMA ConfirmsKeeps ==
    ASSUME GateInv, NEW w \in Workers, Confirms(w)
    PROVE  GateInv'
  <1> DEFINE racing == \E v \in Workers : at[v].pc = "stored"
  <1>1. Moved(w, "card", at[w].sig, 0)
    BY MovesMoved, Covered DEF Confirms, GateInv, GatePlaces
  <1>2. /\ UNCHANGED <<skip_counts, skipped, pendingConfirmations>> /\ at[w].pc = "confirm"
        /\ pending_count < MAX_PENDING /\ pending_count' = pending_count + 1
        /\ overwritten' = IF racing THEN overwritten + 1 ELSE overwritten
    BY DEF Confirms
  <1>3. GateType'
    <2>1. pending_count' \in 0..MAX_PENDING /\ overwritten' \in Nat
      BY <1>2 DEF GateInv, GateType, MAX_PENDING
    <2>2. QED
      BY <1>1, <2>1 DEF GateInv, GateType, Confirms, Moved
  <1>4. OnCards' = OnCards + 1
    BY <1>1, <1>2, HeldMoved, Covered DEF GateInv
  <1> HIDE DEF racing
  <1>5. /\ OnCards' <= pending_count' + overwritten'
        /\ racing => OnCards' - OnCards <= overwritten' - overwritten
    BY <1>2, <1>4, Covered
  <1>6. \A r \in Sigs :
           LET n == Cardinality(Recording(r))
               m == Cardinality(Recording(r))'
           IN  /\ skip_counts'[r] + m <= skipped'[r]
               /\ m - n <= skipped'[r] - skipped[r]
               /\ "card" = "read" /\ at[w].sig = r => 0 + m <= skipped'[r]
    BY <1>1, <1>2, SkipsAlone
  <1>7. QED
    BY <1>1, <1>3, <1>4, <1>5, <1>6, GateKept, Covered DEF racing

LEMMA OpensCardKeeps ==
    ASSUME GateInv, NEW w \in Workers, NEW c \in CardIds, OpensCard(w, c)
    PROVE  GateInv'
  <1>1. Moved(w, "idle", "none", 0)
    BY MovesMoved DEF OpensCard, GateInv, GatePlaces
  <1>2. GateType'
    BY <1>1 DEF GateInv, GateType, OpensCard, Moved
  <1>3. /\ UNCHANGED <<skip_counts, skipped, pending_count, overwritten>> /\ at[w].pc = "card"
        /\ c \notin pendingConfirmations
        /\ pendingConfirmations' = pendingConfirmations \cup {c}
    BY DEF OpensCard, GateInv, GateType
  <1>4. OnCards' = OnCards
    <2>1. /\ \A d : d # c => (d \in pendingConfirmations' <=> d \in pendingConfirmations)
          /\ c \in pendingConfirmations'
      BY <1>3
    <2>2. QED
      BY <1>1, <1>3, <2>1, HeldMoved, Covered DEF GateInv
  <1>5. QED
    BY <1>1, <1>2, <1>3, <1>4, SkipsAlone, GateKept, Covered

(* A card that is approved stays counted.                                  *)
LEMMA SettlesKeeps ==
    ASSUME GateInv, NEW w \in Workers, NEW c \in CardIds, Settles(w, c)
    PROVE  GateInv'
  <1>1. Moved(w, "idle", at[w].sig, at[w].read)
    BY DEF Settles, GateInv, GateType, Moved
  <1>2. GateType'
    BY <1>1 DEF GateInv, GateType, Settles, Moved
  <1>3. /\ UNCHANGED <<skip_counts, skipped, pending_count, overwritten>> /\ at[w].pc = "idle"
        /\ c \in pendingConfirmations
        /\ pendingConfirmations' = pendingConfirmations \ {c}
    BY DEF Settles
  <1>4. OnCards' = OnCards - 1
    <2>1. /\ \A d : d # c => (d \in pendingConfirmations' <=> d \in pendingConfirmations)
          /\ c \notin pendingConfirmations'
      BY <1>3
    <2>2. QED
      BY <1>1, <1>3, <2>1, HeldMoved, Covered DEF GateInv
  <1>5. QED
    BY <1>1, <1>2, <1>3, <1>4, SkipsAlone, GateKept, Covered

(* A card that is skipped passes to the worker that will discount it.      *)
LEMMA SkipsKeeps ==
    ASSUME GateInv, NEW w \in Workers, NEW c \in CardIds, NEW s \in Sigs, Skips(w, c, s)
    PROVE  GateInv'
  <1>1. Moved(w, "skip", s, 0)
    BY MovesMoved DEF Skips, GateInv, GatePlaces
  <1>2. GateType'
    BY <1>1 DEF GateInv, GateType, Skips, Moved
  <1>3. /\ UNCHANGED <<skip_counts, pending_count, overwritten>> /\ at[w].pc = "idle"
        /\ skipped' = [skipped EXCEPT ![s] = @ + 1]
        /\ c \in pendingConfirmations
        /\ pendingConfirmations' = pendingConfirmations \ {c}
    BY DEF Skips
  <1>4. OnCards' = OnCards
    <2>1. /\ \A d : d # c => (d \in pendingConfirmations' <=> d \in pendingConfirmations)
          /\ c \notin pendingConfirmations'
      BY <1>3
    <2>2. QED
      BY <1>1, <1>3, <2>1, HeldMoved, Covered DEF GateInv
  <1>5. ASSUME NEW r \in Sigs
        PROVE  LET n == Cardinality(Recording(r))
                   m == Cardinality(Recording(r))'
               IN  /\ skip_counts'[r] + m <= skipped'[r]
                   /\ m - n <= skipped'[r] - skipped[r]
    <2>1. PICK n, m : n = Cardinality(Recording(r)) /\ m = Cardinality(Recording(r))'
      OBVIOUS
    <2>2. w \notin Recording(r)
      BY <1>3 DEF Recording
    <2>3. n \in Nat /\ m = n + (IF s = r THEN 1 ELSE 0)
      BY <1>1, <2>1, <2>2, RecordingMoved DEF GateInv
    <2>4. skip_counts[r] + n <= skipped[r] /\ skipped[r] \in Nat /\ skip_counts[r] \in Nat
      BY <2>1 DEF GateInv, GateType, SkipInv
    <2>5. skipped'[r] = skipped[r] + (IF s = r THEN 1 ELSE 0)
      BY <1>3 DEF GateInv, GateType
    <2>6. QED
      BY <1>3, <2>1, <2>3, <2>4, <2>5
  <1>6. QED
    BY <1>1, <1>2, <1>3, <1>4, <1>5, GateKept, Covered

(* What get reads, with this skip and the others under way, is covered.    *)
LEMMA ReadsSkipsKeeps ==
    ASSUME GateInv, NEW w \in Workers, ReadsSkips(w)
    PROVE  GateInv'
  <1>1. /\ UNCHANGED <<skip_counts, skipped, pending_count, overwritten, pendingConfirmations>>
        /\ at[w].pc = "skip"
    BY DEF ReadsSkips
  <1>2. PICK s \in Sigs, value \in Nat : s = at[w].sig /\ value = skip_counts[s]
    BY <1>1, Covered DEF GateInv, GateType
  <1>3. Moved(w, "read", s, value)
    BY <1>2, MovesMoved DEF ReadsSkips, GateInv, GatePlaces
  <1>4. GateType'
    BY <1>3 DEF GateInv, GateType, ReadsSkips, Moved
  <1>5. OnCards' = OnCards
    BY <1>1, <1>3, HeldMoved, Covered DEF GateInv
  <1>6. ASSUME NEW r \in Sigs
        PROVE  LET n == Cardinality(Recording(r))
                   m == Cardinality(Recording(r))'
               IN  /\ skip_counts'[r] + m <= skipped'[r]
                   /\ m - n <= skipped'[r] - skipped[r]
                   /\ s = r => value + m <= skipped'[r]
    <2>1. PICK n, m : n = Cardinality(Recording(r)) /\ m = Cardinality(Recording(r))'
      OBVIOUS
    <2>2. w \in Recording(r) <=> s = r
      BY <1>1, <1>2 DEF Recording
    <2>3. n \in Nat /\ m = n
      BY <1>3, <2>1, <2>2, RecordingMoved DEF GateInv
    <2>4. skip_counts[r] + n <= skipped[r] /\ skipped[r] \in Nat /\ skip_counts[r] \in Nat
      BY <2>1 DEF GateInv, GateType, SkipInv
    <2>5. QED
      BY <1>1, <1>2, <2>1, <2>3, <2>4
  <1>7. QED
    BY <1>1, <1>3, <1>4, <1>5, <1>6, GateKept, Covered

(* One skip more is stored by a worker that is no longer recording it, and *)
(* the count it reads covers the cards at this moment.                     *)
LEMMA StoresSkipsKeeps ==
    ASSUME GateInv, NEW w \in Workers, StoresSkips(w)
    PROVE  GateInv'
  <1>1. /\ UNCHANGED <<skipped, pending_count, overwritten, pendingConfirmations>>
        /\ at[w].pc = "read"
        /\ skip_counts' = [skip_counts EXCEPT ![at[w].sig] = at[w].read + 1]
    BY DEF StoresSkips
  <1>2. PICK s \in Sigs, value \in Nat : s = at[w].sig /\ value = at[w].read
    BY <1>1, Covered
  <1>3. Moved(w, "stored", s, pending_count)
    BY <1>2, MovesMoved, Covered DEF StoresSkips, GateInv, GatePlaces
  <1>4. GateType'
    <2>1. skip_counts' \in [Sigs -> Nat]
      BY <1>1, <1>2 DEF GateInv, GateType
    <2>2. QED
      BY <1>3, <2>1 DEF GateInv, GateType, StoresSkips, Moved
  <1>5. OnCards' = OnCards
    BY <1>1, <1>3, HeldMoved, Covered DEF GateInv
  <1>6. ASSUME NEW r \in Sigs
        PROVE  LET n == Cardinality(Recording(r))
                   m == Cardinality(Recording(r))'
               IN  /\ skip_counts'[r] + m <= skipped'[r]
                   /\ m - n <= skipped'[r] - skipped[r]
    <2>1. PICK n, m : n = Cardinality(Recording(r)) /\ m = Cardinality(Recording(r))'
      OBVIOUS
    <2>2. w \in Recording(r) <=> s = r
      BY <1>1, <1>2 DEF Recording
    <2>3. n \in Nat /\ m = n - (IF s = r THEN 1 ELSE 0)
      BY <1>3, <2>1, <2>2, RecordingMoved DEF GateInv
    <2>4. skip_counts[r] + n <= skipped[r] /\ skipped[r] \in Nat /\ skip_counts[r] \in Nat
      BY <2>1 DEF GateInv, GateType, SkipInv
    <2>5. s = r => value + n <= skipped[r]
      BY <1>1, <1>2, <2>1, <2>2 DEF GateInv, SkipInv
    <2>6. skip_counts'[r] = IF s = r THEN value + 1 ELSE skip_counts[r]
      BY <1>1, <1>2 DEF GateInv, GateType
    <2>7. QED
      BY <1>1, <1>2, <2>1, <2>3, <2>4, <2>5, <2>6
  <1>7. QED
    BY <1>1, <1>3, <1>4, <1>5, <1>6, GateKept, Covered

(* The value read covers the cards held now, so one less covers the rest.  *)
LEMMA StoresCountKeeps ==
    ASSUME GateInv, NEW w \in Workers, StoresCount(w)
    PROVE  GateInv'
  <1>1. /\ UNCHANGED <<skip_counts, skipped, overwritten, pendingConfirmations>>
        /\ at[w].pc = "stored"
        /\ pending_count' = IF at[w].read = 0 THEN 0 ELSE at[w].read - 1
    BY DEF StoresCount
  <1>2. Moved(w, "idle", "none", 0)
    BY MovesMoved DEF StoresCount, GateInv, GatePlaces
  <1>3. OnCards' = OnCards - 1
    BY <1>1, <1>2, HeldMoved, Covered DEF GateInv
  <1>4. GateType'
    <2>1. pending_count' \in 0..MAX_PENDING
      BY <1>1, Covered DEF GateInv, GateType, MAX_PENDING
    <2>2. QED
      BY <1>2, <2>1 DEF GateInv, GateType, StoresCount, Moved
  <1>5. OnCards' <= pending_count' + overwritten'
    BY <1>1, <1>3, Covered
  <1>6. QED
    BY <1>1, <1>2, <1>3, <1>4, <1>5, SkipsAlone, GateKept, Covered

LEMMA GateInvNext == GateInv /\ [GateNext]_gateVars => GateInv'
  <1> SUFFICES ASSUME GateInv, [GateNext]_gateVars PROVE GateInv'
    OBVIOUS
  <1>1. CASE UNCHANGED gateVars
    BY <1>1 DEF gateVars, GateInv, GateType, CoverInv, SkipInv, OnCards, Holding, Recording
  <1>2. ASSUME NEW w \in Workers, NEW s \in Sigs, Evaluates(w, s) PROVE GateInv'
    BY <1>2, EvaluatesKeeps
  <1>3. ASSUME NEW w \in Workers, Queues(w) PROVE GateInv'
    BY <1>3, QueuesKeeps
  <1>4. ASSUME NEW w \in Workers, Confirms(w) PROVE GateInv'
    BY <1>4, ConfirmsKeeps
  <1>5. ASSUME NEW w \in Workers, NEW c \in CardIds, OpensCard(w, c) PROVE GateInv'
    BY <1>5, OpensCardKeeps
  <1>6. ASSUME NEW w \in Workers, NEW c \in CardIds, Settles(w, c) PROVE GateInv'
    BY <1>6, SettlesKeeps
  <1>7. ASSUME NEW w \in Workers, NEW c \in CardIds, NEW s \in Sigs, Skips(w, c, s) PROVE GateInv'
    BY <1>7, SkipsKeeps
  <1>8. ASSUME NEW w \in Workers, ReadsSkips(w) PROVE GateInv'
    BY <1>8, ReadsSkipsKeeps
  <1>9. ASSUME NEW w \in Workers, StoresSkips(w) PROVE GateInv'
    BY <1>9, StoresSkipsKeeps
  <1>10. ASSUME NEW w \in Workers, StoresCount(w) PROVE GateInv'
    BY <1>10, StoresCountKeeps
  <1>11. Resumers \subseteq Workers
    BY WorkersAssumption
  <1>12. QED
    BY <1>1, <1>2, <1>3, <1>4, <1>5, <1>6, <1>7, <1>8, <1>9, <1>10, <1>11 DEF GateNext

(* For every number of threads and cards: the open cards exceed the gate's *)
(* count by no more than the increments a record_skip lost, and the count  *)
(* keeps to its limit (gate.py:220-226, :247).                             *)
THEOREM OpenAlwaysCovered == GateSpec => []OpenCovered
  <1>1. GateInv => OpenCovered
    <2> SUFFICES ASSUME GateInv PROVE OpenCovered
      OBVIOUS
    <2>1. PICK a \in Nat, b \in Nat : /\ a = Cardinality(pendingConfirmations)
                                      /\ b = Cardinality(Holding)
      BY Counting DEF GateInv
    <2>2. OnCards = a + b
      BY <2>1 DEF OnCards
    <2>3. QED
      BY <2>1, <2>2, Covered DEF OpenCovered
  <1>2. QED
    BY <1>1, GateInvInit, GateInvNext, PTL DEF GateSpec

(* For every number of threads and steps: no more skips of a step are on   *)
(* record than the operator sent (gate.py:116-118, :246).                  *)
THEOREM SkipsNeverInvented == GateSpec => []NoPhantomSkips
  <1>1. GateInv => NoPhantomSkips
    <2> SUFFICES ASSUME GateInv, NEW s \in Sigs PROVE skip_counts[s] <= skipped[s]
      BY DEF NoPhantomSkips
    <2>1. PICK n \in Nat : n = Cardinality(Recording(s))
      BY Counting DEF GateInv
    <2>2. skip_counts[s] + n <= skipped[s] /\ skip_counts[s] \in Nat /\ skipped[s] \in Nat
      BY <2>1 DEF GateInv, GateType, SkipInv
    <2>3. QED
      BY <2>2
  <1>2. QED
    BY <1>1, GateInvInit, GateInvNext, PTL DEF GateSpec
=============================================================================
