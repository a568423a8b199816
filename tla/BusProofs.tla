------------------------------ MODULE BusProofs ------------------------------
(***************************************************************************)
(* What a device and the observer are told: the invariants of ChatBus and  *)
(* of Observer, for any number of connections, sessions, messages and      *)
(* cards, any replay window and any cap.                                   *)
(*                                                                         *)
(* The argument has three parts.  The buffer is a selection of the log, in *)
(* the order of publication, so that counting its newest places bounds     *)
(* what the cap can evict (KeptInv).  A connection's wire is a replay in   *)
(* handshake order and then live frames, whose messages are the ones its   *)
(* session has seen (WireInv).  Whatever the observer has read is stored   *)
(* or failed (TapInv).                                                     *)
(***************************************************************************)
EXTENDS Observer, SequenceLemmas

Frames ==
    {ChannelList, ReplayDone}
    \cup {Live("ChatMessage", m) : m \in Msgs} \cup {Replayed("ChatMessage", m) : m \in Msgs}
    \cup {Live("ConfirmationRequest", call) : call \in Calls}
    \cup {Replayed("ConfirmationRequest", call) : call \in Calls}
    \cup {Presence(sid, state) : sid \in Sids, state \in {"online", "offline"}}

\* The rank of a frame in the handshake, as HandshakeFirst has it.
Rank(e) ==
    CASE e.kind = "ChannelList" -> 1 [] e.kind = "ChatMessage" -> 2
      [] e.kind = "ConfirmationRequest" -> 3 [] e.kind = "ReplayDone" -> 4 [] OTHER -> 5

InOrder(e, f, ts) ==
    \/ Rank(e) < Rank(f)
    \/ Rank(e) = 2 /\ Rank(f) = 2 /\ ts[e.id] <= ts[f.id]
    \/ Rank(e) = 3 /\ Rank(f) = 3

\* The first d frames of w are a replay.
Opened(w, d, ts) ==
    /\ d \in 2..Len(w)
    /\ w[1] = ChannelList /\ w[d] = ReplayDone
    /\ \A k \in 1..(d - 1) : w[k] # ReplayDone /\ InOrder(w[k], w[k + 1], ts)

\* After frame d, w has each message at most once, all of them in told.
Followed(w, d, told) ==
    /\ \A k \in (d + 1)..Len(w) : w[k].kind = "ChatMessage" => w[k].id \in told
    /\ \A j, k \in (d + 1)..Len(w) : j < k /\ w[j].kind = "ChatMessage" => w[j] # w[k]

\* The messages of w are of the set given.
Within(w, published) ==
    \A k \in 1..Len(w) : w[k].kind = "ChatMessage" => w[k].id \in published

\* The second sequence has what the first has, in the same order.
Selection(buf, whole) ==
    \E at \in [DOMAIN buf -> DOMAIN whole] :
        /\ \A j, k \in DOMAIN buf : j < k => at[j] < at[k]
        /\ \A k \in DOMAIN buf : buf[k] = whole[at[k]]

-----------------------------------------------------------------------------
(* The invariants of the bus.                                              *)

KeptInv ==
    /\ IsInjective(log)
    /\ \A m \in Msgs : made[m] >= 0 <=> m \in ToSet(log)
    /\ Selection(buffer, log)
    /\ RecentKept

SessionInv ==
    /\ IsFiniteSet(pending)
    /\ \A c \in Conns : handler[c] = "new" <=> wire[c] = <<>>
    /\ \A c \in Registered : handler[c] # "new"
    /\ \A c \in Conns : \A m \in seen[c] : Contains(wire[c], Live("ChatMessage", m))

WireInv ==
    /\ wire \in [Conns -> Seq(Frames)]
    /\ \A c \in Conns :
          /\ Within(wire[c], ToSet(log))
          /\ wire[c] # <<>> => \E d \in 2..Len(wire[c]) :
                                  Opened(wire[c], d, made) /\ Followed(wire[c], d, seen[c])

BusInv == TypeOK /\ KeptInv /\ SessionInv /\ WireInv /\ NoGap

\* The invariant of the observer.
KeptFrames == {e \in Frames : e.kind \notin DropKinds}

TableRows ==
    (UNION {{table[k] : k \in DOMAIN table} : table \in LegacyRows})
    \cup {normalize(e) : e \in KeptFrames}

TapInv ==
    /\ rows \in Seq(TableRows)
    /\ read \in [Conns -> Nat]
    /\ \A c \in Conns :
          /\ read[c] <= Len(wire[c])
          /\ \A k \in 1..read[c] : LET key == dedup_key(wire[c][k])
                                   IN  key # <<>> => Stored(key) \/ key \in failed
    /\ OneRowEach

ObserverInv == BusInv /\ TapInv

-----------------------------------------------------------------------------
(* The buffer.                                                             *)

(* A selection from a selection, of what it has, once.                     *)
LEMMA SelectionOf ==
    ASSUME NEW T, NEW a \in Seq(T), NEW b \in Seq(T), NEW c \in Seq(T),
           Selection(a, b), Selection(b, c)
    PROVE  Selection(a, c)
  <1>1. PICK f \in [DOMAIN a -> DOMAIN b] :
           /\ \A j, k \in DOMAIN a : j < k => f[j] < f[k]
           /\ \A k \in DOMAIN a : a[k] = b[f[k]]
    BY DEF Selection
  <1>2. PICK g \in [DOMAIN b -> DOMAIN c] :
           /\ \A j, k \in DOMAIN b : j < k => g[j] < g[k]
           /\ \A k \in DOMAIN b : b[k] = c[g[k]]
    BY DEF Selection
  <1> DEFINE h == [k \in DOMAIN a |-> g[f[k]]]
  <1>3. h \in [DOMAIN a -> DOMAIN c]
    BY <1>1, <1>2
  <1>4. /\ \A j, k \in DOMAIN a : j < k => h[j] < h[k]
        /\ \A k \in DOMAIN a : a[k] = c[h[k]]
    BY <1>1, <1>2
  <1> HIDE DEF h
  <1>5. QED
    BY <1>3, <1>4 DEF Selection

(* Both may grow by the same element.                                      *)
LEMMA SelectionGrows ==
    ASSUME NEW T, NEW a \in Seq(T), NEW b \in Seq(T), NEW m \in T, Selection(a, b)
    PROVE  Selection(Append(a, m), Append(b, m))
  <1>1. PICK f \in [DOMAIN a -> DOMAIN b] :
           /\ \A j, k \in DOMAIN a : j < k => f[j] < f[k]
           /\ \A k \in DOMAIN a : a[k] = b[f[k]]
    BY DEF Selection
  <1> DEFINE n == Len(a)
             h == [k \in 1..(n + 1) |-> IF k = n + 1 THEN Len(b) + 1 ELSE f[k]]
  <1>2. /\ DOMAIN a = 1..n /\ DOMAIN b = 1..Len(b) /\ n \in Nat /\ Len(b) \in Nat
        /\ DOMAIN Append(a, m) = 1..(n + 1) /\ DOMAIN Append(b, m) = 1..(Len(b) + 1)
    OBVIOUS
  <1>3. \A k \in 1..n : f[k] \in 1..Len(b)
    BY <1>1, <1>2
  <1>4. h \in [1..(n + 1) -> 1..(Len(b) + 1)]
    BY <1>2, <1>3
  <1>5. \A j, k \in 1..(n + 1) : j < k => h[j] < h[k]
    <2>1. SUFFICES ASSUME NEW j \in 1..(n + 1), NEW k \in 1..(n + 1), j < k
                   PROVE  h[j] < h[k]
      OBVIOUS
    <2>2. j \in 1..n /\ h[j] = f[j]
      BY <1>2, <2>1
    <2>3. CASE k = n + 1
      BY <1>2, <1>3, <2>2, <2>3
    <2>4. CASE k \in 1..n
      <3>1. h[k] = f[k]
        BY <1>2, <2>4
      <3>2. QED
        BY <1>1, <1>2, <2>1, <2>2, <2>4, <3>1
    <2>5. QED
      BY <1>2, <2>3, <2>4
  <1>6. \A k \in 1..(n + 1) : Append(a, m)[k] = Append(b, m)[h[k]]
    BY <1>1, <1>2, <1>3
  <1> HIDE DEF h, n
  <1>7. QED
    BY <1>2, <1>4, <1>5, <1>6 DEF Selection

(* What is selected from a sequence without repetitions has none.          *)
LEMMA SelectionOnce ==
    ASSUME NEW T, NEW a \in Seq(T), NEW b \in Seq(T), Selection(a, b)
    PROVE  /\ ToSet(a) \subseteq ToSet(b)
           /\ IsInjective(b) => IsInjective(a)
  <1>1. PICK f \in [DOMAIN a -> DOMAIN b] :
           /\ \A j, k \in DOMAIN a : j < k => f[j] < f[k]
           /\ \A k \in DOMAIN a : a[k] = b[f[k]]
    BY DEF Selection
  <1>2. ToSet(a) \subseteq ToSet(b)
    BY <1>1 DEF ToSet
  <1>3. ASSUME IsInjective(b), NEW j \in DOMAIN a, NEW k \in DOMAIN a, a[j] = a[k]
        PROVE  j = k
    <2>1. f[j] = f[k]
      BY <1>1, <1>3 DEF IsInjective
    <2>2. j \in Nat /\ k \in Nat /\ f[j] \in Nat
      BY <1>1
    <2>3. QED
      BY <1>1, <2>1, <2>2
  <1>4. QED
    BY <1>2, <1>3 DEF IsInjective

(* _evict_buffer: a selection of at most REPLAY_MAX messages, with every   *)
(* fresh one that has fewer than REPLAY_MAX fresh ones after it.           *)
LEMMA EvictedIs ==
    ASSUME NEW T, NEW buf \in Seq(T), NEW ts, REPLAY_MAX \in Nat
    PROVE  /\ Evicted(buf, ts) \in Seq(T) /\ Len(Evicted(buf, ts)) <= REPLAY_MAX
           /\ Selection(Evicted(buf, ts), buf)
           /\ \A k \in Fresh(buf, ts) :
                Cardinality({j \in Fresh(buf, ts) : k <= j}) <= REPLAY_MAX
                  => Contains(Evicted(buf, ts), buf[k])
  <1> DEFINE fresh == Fresh(buf, ts)
             after(k) == {j \in fresh : k <= j}
             kept == {k \in fresh : Cardinality(after(k)) <= REPLAY_MAX}
             res == Evicted(buf, ts)
             n == Cardinality(kept)
  <1>1. fresh \subseteq DOMAIN buf /\ kept \subseteq DOMAIN buf /\ DOMAIN buf \subseteq Nat
    BY DEF Fresh
  <1>2. IsFiniteSet(fresh)
    <2> HIDE DEF fresh
    <2>1. QED
      BY <1>1, PickedPlaces
  <1>3. res = Picked(buf, kept)
    BY DEF Evicted
  <1>4. /\ n \in Nat /\ res \in Seq(T) /\ Len(res) = n
        /\ \E at \in Bijection(1..n, kept) :
              /\ \A j, k \in 1..n : j < k => at[j] < at[k]
              /\ \A k \in 1..n : res[k] = buf[at[k]]
    <2> DEFINE picked == Picked(buf, kept)
    <2> HIDE DEF kept
    <2>1. /\ Cardinality(kept) \in Nat /\ picked \in Seq(T) /\ Len(picked) = Cardinality(kept)
          /\ \E at \in Bijection(1..Cardinality(kept), kept) :
                /\ \A j, k \in 1..Cardinality(kept) : j < k => at[j] < at[k]
                /\ \A k \in 1..Cardinality(kept) : picked[k] = buf[at[k]]
      BY <1>1, PickedPlaces
    <2>2. res = picked
      BY <1>3
    <2> HIDE DEF picked, res
    <2>3. QED
      BY <2>1, <2>2
  <1>5. n <= REPLAY_MAX
    <2>1. CASE kept = {}
      <3>1. n = 0
        BY <2>1, FS_EmptySet
      <3>2. QED
        BY <3>1
    <2>2. CASE kept # {}
      <3>1. kept \subseteq Nat
        BY <1>1
      <3> HIDE DEF kept
      <3>2. PICK x \in kept : \A y \in kept : x <= y
        BY <2>2, <3>1, Smallest
      <3> USE DEF kept
      <3>3. kept \subseteq after(x) /\ after(x) \subseteq fresh
        BY <3>2
      <3>4. Cardinality(after(x)) <= REPLAY_MAX
        BY <3>2
      <3> HIDE DEF kept, after, fresh
      <3>5. IsFiniteSet(after(x)) /\ Cardinality(after(x)) \in Nat
        BY <1>2, <3>3, FS_Subset, FS_CardinalityType
      <3>6. n <= Cardinality(after(x))
        BY <3>3, <3>5, FS_Subset
      <3>7. QED
        BY <1>4, <3>4, <3>5, <3>6
    <2>3. QED
      BY <2>1, <2>2
  <1>6. PICK at \in Bijection(1..n, kept) :
              /\ \A j, k \in 1..n : j < k => at[j] < at[k]
              /\ \A k \in 1..n : res[k] = buf[at[k]]
    BY <1>4
  <1>7. /\ at \in [1..n -> kept]
        /\ \A k \in kept : \E i \in 1..n : at[i] = k
    BY <1>6 DEF Bijection, Injection, Surjection
  <1>8. Selection(res, buf)
    <2> HIDE DEF res, kept, n
    <2>1. at \in [DOMAIN res -> DOMAIN buf] /\ DOMAIN res = 1..n
      BY <1>1, <1>4, <1>7
    <2>2. QED
      BY <1>6, <2>1 DEF Selection
  <1>9. ASSUME NEW k \in fresh, Cardinality(after(k)) <= REPLAY_MAX
        PROVE  Contains(res, buf[k])
    <2>1. k \in kept
      BY <1>9
    <2> HIDE DEF res, kept, n
    <2>2. PICK i \in 1..n : at[i] = k
      BY <1>7, <2>1
    <2>3. res[i] = buf[k] /\ i \in 1..Len(res)
      BY <1>4, <1>6, <2>2
    <2>4. QED
      BY <2>3 DEF Contains
  <1>10. QED
    BY <1>4, <1>5, <1>8, <1>9

(* What RecentKept says of a buffer and a log.                             *)
Keeps(buf, whole, ts) ==
    \A k \in 1..Len(whole) :
        k > Len(whole) - REPLAY_MAX /\ ts[whole[k]] >= now - REPLAY_WINDOW
          => Contains(buf, whole[k])

(* Evicting forgets nothing too early: the messages after one of the last  *)
(* REPLAY_MAX of the log are fewer than the cap.                           *)
LEMMA EvictedKeeps ==
    ASSUME NEW T, NEW buf \in Seq(T), NEW whole \in Seq(T), NEW ts, REPLAY_MAX \in Nat,
           IsInjective(whole), Selection(buf, whole), Keeps(buf, whole, ts)
    PROVE  Keeps(Evicted(buf, ts), whole, ts)
  <1>1. PICK f \in [DOMAIN buf -> DOMAIN whole] :
           /\ \A j, k \in DOMAIN buf : j < k => f[j] < f[k]
           /\ \A k \in DOMAIN buf : buf[k] = whole[f[k]]
    BY DEF Selection
  <1>2. SUFFICES ASSUME NEW i \in 1..Len(whole), i > Len(whole) - REPLAY_MAX,
                        ts[whole[i]] >= now - REPLAY_WINDOW
                 PROVE  Contains(Evicted(buf, ts), whole[i])
    BY DEF Keeps
  <1>3. PICK k \in DOMAIN buf : buf[k] = whole[i]
    BY <1>2 DEF Keeps, Contains
  <1>4. k \in Fresh(buf, ts)
    BY <1>2, <1>3 DEF Fresh
  <1> DEFINE after == {j \in Fresh(buf, ts) : k <= j}
             later == i..Len(whole)
             g == [j \in after |-> f[j]]
  <1>5. f[k] = i
    BY <1>1, <1>3 DEF IsInjective
  <1>6. after \subseteq DOMAIN buf /\ DOMAIN buf \subseteq Nat
    BY DEF Fresh
  <1>7. \A j \in after : f[j] \in later
    <2>1. SUFFICES ASSUME NEW j \in after PROVE f[j] \in later
      OBVIOUS
    <2>2. k = j \/ k < j
      BY <1>6
    <2>3. f[j] \in 1..Len(whole) /\ Len(whole) \in Nat
      BY <1>1, <1>6
    <2>4. QED
      BY <1>1, <1>5, <1>6, <2>2, <2>3
  <1>8. \A j, l \in after : f[j] = f[l] => j = l
    <2>1. SUFFICES ASSUME NEW j \in after, NEW l \in after, f[j] = f[l], j # l PROVE FALSE
      OBVIOUS
    <2>2. j < l \/ l < j
      BY <1>6, <2>1
    <2>3. f[j] \in Nat /\ f[l] \in Nat
      BY <1>1, <1>6
    <2>4. QED
      BY <1>1, <1>6, <2>1, <2>2, <2>3
  <1>9. g \in Injection(after, later)
    BY <1>7, <1>8 DEF Injection, IsInjective
  <1>10. IsFiniteSet(later) /\ Cardinality(later) = Len(whole) - i + 1
    BY FS_Interval
  <1>11. Cardinality(after) <= Cardinality(later)
    <2> HIDE DEF after, later, g
    <2>1. QED
      BY <1>9, <1>10, FS_Injection
  <1>12. Cardinality(after) \in Nat
    <2> HIDE DEF after, later, g
    <2>1. IsFiniteSet(after)
      BY <1>9, <1>10, FS_Injection
    <2>2. QED
      BY <2>1, FS_CardinalityType
  <1>13. Cardinality(after) <= REPLAY_MAX
    <2> HIDE DEF after, later, g
    <2>1. QED
      BY <1>2, <1>10, <1>11, <1>12
  <1>14. QED
    BY <1>3, <1>4, <1>13, EvictedIs

-----------------------------------------------------------------------------
(* The wire.                                                               *)

(* The frames of the five kinds, told apart by their kind.                 *)
LEMMA FrameKinds ==
    /\ ChannelList \in Frames /\ ReplayDone \in Frames
    /\ ChannelList.kind = "ChannelList" /\ ReplayDone.kind = "ReplayDone"
    /\ \A m \in Msgs : /\ Live("ChatMessage", m) \in Frames
                       /\ Replayed("ChatMessage", m) \in Frames
    /\ \A call \in Calls : /\ Live("ConfirmationRequest", call) \in Frames
                           /\ Replayed("ConfirmationRequest", call) \in Frames
    /\ \A sid \in Sids : /\ Presence(sid, "online") \in Frames
                         /\ Presence(sid, "offline") \in Frames
    /\ \A kind, id : /\ Live(kind, id).kind = kind /\ Live(kind, id).id = id
                     /\ Replayed(kind, id).kind = kind /\ Replayed(kind, id).id = id
                     /\ Presence(id, kind).kind = "Presence"
  <1>1. ChannelList \in Frames /\ ReplayDone \in Frames
    BY DEF Frames
  <1>2. ChannelList.kind = "ChannelList" /\ ReplayDone.kind = "ReplayDone"
    BY DEF ChannelList, ReplayDone
  <1>3. \A m \in Msgs : Live("ChatMessage", m) \in Frames /\ Replayed("ChatMessage", m) \in Frames
    BY DEF Frames
  <1>4. \A call \in Calls : /\ Live("ConfirmationRequest", call) \in Frames
                            /\ Replayed("ConfirmationRequest", call) \in Frames
    BY DEF Frames
  <1>5. ASSUME NEW sid \in Sids, NEW state \in {"online", "offline"}
        PROVE  Presence(sid, state) \in Frames
    <2> DEFINE all == {Presence(i, s) : i \in Sids, s \in {"online", "offline"}}
    <2>1. Presence(sid, state) \in all
      OBVIOUS
    <2>2. all \subseteq Frames
      BY DEF Frames
    <2> HIDE DEF all
    <2>3. QED
      BY <2>1, <2>2
  <1>6. \A kind, id : /\ Live(kind, id).kind = kind /\ Live(kind, id).id = id
                      /\ Replayed(kind, id).kind = kind /\ Replayed(kind, id).id = id
                      /\ Presence(id, kind).kind = "Presence"
    BY DEF Live, Replayed, Presence
  <1>7. \A sid \in Sids : Presence(sid, "online") \in Frames /\ Presence(sid, "offline") \in Frames
    BY <1>5
  <1>8. QED
    BY <1>1, <1>2, <1>3, <1>4, <1>6, <1>7, Zenon

(* A wire that has opened goes on.                                         *)
LEMMA OpenedGrows ==
    ASSUME NEW w \in Seq(Frames), NEW d \in 2..Len(w), NEW ts, NEW e \in Frames,
           Opened(w, d, ts)
    PROVE  Opened(Append(w, e), d, ts)
  <1>1. /\ Len(Append(w, e)) = Len(w) + 1
        /\ \A k \in 1..Len(w) : Append(w, e)[k] = w[k]
    OBVIOUS
  <1>2. \A k \in 1..(d - 1) : k \in 1..Len(w) /\ (k + 1) \in 1..Len(w)
    OBVIOUS
  <1>3. 1 \in 1..Len(w) /\ d \in 1..Len(w) /\ d \in 2..(Len(w) + 1)
    OBVIOUS
  <1>4. QED
    BY <1>1, <1>2, <1>3 DEF Opened

(* The order of a replay depends on the timestamps of its messages only.   *)
LEMMA OpenedStays ==
    ASSUME NEW w \in Seq(Frames), NEW d \in 2..Len(w), NEW ts, NEW later, NEW published,
           Opened(w, d, ts), Within(w, published), \A m \in published : later[m] = ts[m]
    PROVE  Opened(w, d, later)
  <1>1. ASSUME NEW k \in 1..(d - 1) PROVE InOrder(w[k], w[k + 1], later)
    <2>1. k \in 1..Len(w) /\ (k + 1) \in 1..Len(w)
      OBVIOUS
    <2>2. InOrder(w[k], w[k + 1], ts)
      BY DEF Opened
    <2>3. ASSUME NEW j \in 1..Len(w), Rank(w[j]) = 2 PROVE w[j].kind = "ChatMessage"
      BY <2>3 DEF Rank
    <2>4. ASSUME Rank(w[k]) = 2, Rank(w[k + 1]) = 2
          PROVE  later[w[k].id] = ts[w[k].id] /\ later[w[k + 1].id] = ts[w[k + 1].id]
      BY <2>1, <2>3, <2>4 DEF Within
    <2>5. QED
      BY <2>2, <2>4 DEF InOrder
  <1>2. QED
    BY <1>1 DEF Opened

(* A frame that is no message follows.                                     *)
LEMMA FollowedByOther ==
    ASSUME NEW w \in Seq(Frames), NEW d \in 2..Len(w), NEW told, NEW e \in Frames,
           Followed(w, d, told), e.kind # "ChatMessage"
    PROVE  Followed(Append(w, e), d, told)
  <1> DEFINE n == Len(w)
             v == Append(w, e)
  <1>1. n \in Nat /\ Len(v) = n + 1 /\ v[n + 1] = e /\ \A k \in 1..n : v[k] = w[k]
    OBVIOUS
  <1> HIDE DEF v, n
  <1>2. /\ \A k \in (d + 1)..n : w[k].kind = "ChatMessage" => w[k].id \in told
        /\ \A j, k \in (d + 1)..n : j < k /\ w[j].kind = "ChatMessage" => w[j] # w[k]
    BY DEF Followed, n
  <1>3. ASSUME NEW k \in (d + 1)..(n + 1), v[k].kind = "ChatMessage"
        PROVE  k \in 1..n /\ k \in (d + 1)..n /\ v[k] = w[k]
    BY <1>1, <1>3
  <1>4. \A k \in (d + 1)..(n + 1) : v[k].kind = "ChatMessage" => v[k].id \in told
    BY <1>2, <1>3
  <1>5. ASSUME NEW j \in (d + 1)..(n + 1), NEW k \in (d + 1)..(n + 1),
               j < k, v[j].kind = "ChatMessage", v[j] = v[k]
        PROVE  FALSE
    <2>1. j \in (d + 1)..n /\ v[j] = w[j]
      BY <1>3, <1>5
    <2>2. k \in (d + 1)..n /\ v[k] = w[k]
      BY <1>3, <1>5
    <2>3. QED
      BY <1>2, <1>5, <2>1, <2>2
  <1>6. QED
    BY <1>1, <1>4, <1>5 DEF Followed, v

(* A message the session has not seen follows.                             *)
LEMMA FollowedByNews ==
    ASSUME NEW w \in Seq(Frames), NEW d \in 2..Len(w), NEW told, NEW m \in Msgs,
           Followed(w, d, told), m \notin told
    PROVE  Followed(Append(w, Live("ChatMessage", m)), d, told \cup {m})
  <1> DEFINE n == Len(w)
             e == Live("ChatMessage", m)
             v == Append(w, e)
  <1>1. e \in Frames /\ e.kind = "ChatMessage" /\ e.id = m
    BY FrameKinds
  <1> HIDE DEF e
  <1>2. n \in Nat /\ Len(v) = n + 1 /\ v[n + 1] = e /\ \A k \in 1..n : v[k] = w[k]
    BY <1>1
  <1>3. \A k \in (d + 1)..(n + 1) : k = n + 1 \/ (k \in 1..n /\ k \in (d + 1)..n)
    OBVIOUS
  <1> HIDE DEF v, n
  <1>4. /\ \A k \in (d + 1)..n : w[k].kind = "ChatMessage" => w[k].id \in told
        /\ \A j, k \in (d + 1)..n : j < k /\ w[j].kind = "ChatMessage" => w[j] # w[k]
    BY DEF Followed, n
  <1>5. \A k \in (d + 1)..(n + 1) : v[k].kind = "ChatMessage" => v[k].id \in told \cup {m}
    BY <1>1, <1>2, <1>3, <1>4
  <1>6. ASSUME NEW j \in (d + 1)..(n + 1), NEW k \in (d + 1)..(n + 1),
               j < k, v[j].kind = "ChatMessage", v[j] = v[k]
        PROVE  FALSE
    <2>1. j \in 1..n /\ j \in (d + 1)..n
      BY <1>2, <1>3, <1>6
    <2>2. v[j] = w[j] /\ w[j].id \in told
      BY <1>2, <1>4, <1>6, <2>1
    <2>3. CASE k = n + 1
      BY <1>1, <1>2, <1>6, <2>2, <2>3
    <2>4. CASE k \in 1..n /\ k \in (d + 1)..n
      BY <1>2, <1>4, <1>6, <2>1, <2>2, <2>4
    <2>5. QED
      BY <1>3, <2>3, <2>4
  <1>7. QED
    BY <1>2, <1>5, <1>6 DEF Followed, v, e

(* sorted by ts: the same messages, none before an older one.              *)
LEMMA ByTsIs ==
    ASSUME NEW buf \in Seq(Msgs), made \in [Msgs -> Int]
    PROVE  /\ ByTs(buf) \in Seq(Msgs) /\ Len(ByTs(buf)) = Len(buf)
           /\ \A k \in 1..Len(buf) : /\ \E j \in 1..Len(buf) : ByTs(buf)[j] = buf[k]
                                     /\ \E j \in 1..Len(buf) : ByTs(buf)[k] = buf[j]
           /\ \A j, k \in 1..Len(buf) : j < k => made[ByTs(buf)[j]] <= made[ByTs(buf)[k]]
  <1> DEFINE S == DOMAIN buf
             n == Len(buf)
             before == {p \in S \X S : \/ made[buf[p[1]]] < made[buf[p[2]]]
                                       \/ made[buf[p[1]]] = made[buf[p[2]]] /\ p[1] < p[2]}
             at == Listed(S, before)
             res == ByTs(buf)
  <1>1. n \in Nat /\ S = 1..n /\ IsFiniteSet(S) /\ Cardinality(S) = n
    <2>1. n \in Nat /\ S = 1..n
      OBVIOUS
    <2> HIDE DEF n, S
    <2>2. IsFiniteSet(1..n) /\ Cardinality(1..n) = n
      BY <2>1, FS_Interval
    <2>3. QED
      BY <2>1, <2>2
  <1>2. \A k \in S : buf[k] \in Msgs /\ made[buf[k]] \in Int
    OBVIOUS
  <1>3. Orders(before, S)
    <2>1. \A j, k \in S : <<j, k>> \in before <=>
             \/ made[buf[j]] < made[buf[k]]
             \/ made[buf[j]] = made[buf[k]] /\ j < k
      OBVIOUS
    <2> HIDE DEF before, S
    <2>2. QED
      BY <1>1, <1>2, <2>1 DEF Orders
  <1>4. /\ at \in Bijection(1..n, S)
        /\ \A j, k \in 1..n : j < k => <<at[j], at[k]>> \in before
    <2> HIDE DEF before, S
    <2>1. QED
      BY <1>1, <1>3, ListedOnce
  <1>5. res = [k \in DOMAIN at |-> buf[at[k]]]
    BY DEF ByTs
  <1> HIDE DEF at, res
  <1>6. at \in [1..n -> 1..n] /\ \A k \in 1..n : \E j \in 1..n : at[j] = k
    BY <1>1, <1>4 DEF Bijection, Injection, Surjection
  <1>7. res = [k \in 1..n |-> buf[at[k]]]
    BY <1>5, <1>6
  <1>8. res \in Seq(Msgs) /\ Len(res) = n
    <2>1. \A k \in 1..n : buf[at[k]] \in Msgs
      BY <1>1, <1>2, <1>6
    <2>2. QED
      BY <1>1, <1>7, <2>1
  <1>9. \A k \in 1..n : /\ \E j \in 1..n : res[j] = buf[k]
                        /\ \E j \in 1..n : res[k] = buf[j]
    BY <1>6, <1>7
  <1>10. ASSUME NEW j \in 1..n, NEW k \in 1..n, j < k
         PROVE  made[res[j]] <= made[res[k]]
    <2>1. <<at[j], at[k]>> \in before
      BY <1>4, <1>10
    <2>2. at[j] \in S /\ at[k] \in S
      BY <1>1, <1>6, <1>10
    <2>3. \/ made[buf[at[j]]] < made[buf[at[k]]]
          \/ made[buf[at[j]]] = made[buf[at[k]]]
      BY <2>1
    <2> HIDE DEF before, S
    <2>4. made[buf[at[j]]] <= made[buf[at[k]]]
      BY <1>2, <2>2, <2>3
    <2>5. QED
      BY <1>7, <1>10, <2>4
  <1>11. QED
    BY <1>8, <1>9, <1>10 DEF res

(* The open cards, in some order.                                          *)
LEMMA CardsListed ==
    ASSUME NEW S, IsFiniteSet(S)
    PROVE  /\ SetToSeq(S) \in Seq(S)
           /\ \A x \in S : \E k \in 1..Len(SetToSeq(S)) : SetToSeq(S)[k] = x
  <1> DEFINE n == Cardinality(S)
             f == SetToSeq(S)
  <1>1. n \in Nat
    BY FS_CardinalityType
  <1>2. IsFiniteSet(1..n) /\ Cardinality(1..n) = n
    BY <1>1, FS_Interval
  <1>3. \E g \in [1..n -> S] : IsInjective(g)
    <2>1. ExistsBijection(1..n, S)
      BY <1>2, FS_SameCardinalityBij
    <2>2. QED
      BY <2>1 DEF ExistsBijection, Bijection, Injection
  <1>4. f \in [1..n -> S] /\ IsInjective(f)
    BY <1>3 DEF SetToSeq
  <1> HIDE DEF f, n
  <1>5. f \in Injection(1..n, S)
    BY <1>4 DEF Injection
  <1>6. f \in Surjection(1..n, S)
    BY <1>2, <1>5, FS_Injection DEF n
  <1>7. f \in Seq(S) /\ Len(f) = n
    BY <1>1, <1>4
  <1>8. QED
    BY <1>6, <1>7 DEF Surjection, f

\* The frames of a replay.
Handshake(ms, cs) ==
    <<ChannelList>> \o [k \in DOMAIN ms |-> Replayed("ChatMessage", ms[k])]
      \o [k \in DOMAIN cs |-> Replayed("ConfirmationRequest", cs[k])] \o <<ReplayDone>>

(* Frame by frame: the channels, the messages, the cards, the end.         *)
LEMMA HandshakePlaces ==
    ASSUME NEW ms \in Seq(Msgs), NEW cs \in Seq(Calls)
    PROVE  /\ Handshake(ms, cs) \in Seq(Frames)
           /\ Len(Handshake(ms, cs)) = Len(ms) + Len(cs) + 2
           /\ Handshake(ms, cs)[1] = ChannelList
           /\ \A k \in 1..Len(ms) : Handshake(ms, cs)[1 + k] = Replayed("ChatMessage", ms[k])
           /\ \A k \in 1..Len(cs) :
                Handshake(ms, cs)[1 + Len(ms) + k] = Replayed("ConfirmationRequest", cs[k])
           /\ Handshake(ms, cs)[Len(ms) + Len(cs) + 2] = ReplayDone
  <1> DEFINE a == [k \in DOMAIN ms |-> Replayed("ChatMessage", ms[k])]
             b == [k \in DOMAIN cs |-> Replayed("ConfirmationRequest", cs[k])]
             n == Len(ms)
             p == Len(cs)
  <1>1. n \in Nat /\ p \in Nat /\ DOMAIN ms = 1..n /\ DOMAIN cs = 1..p
    OBVIOUS
  <1>2. a \in Seq(Frames) /\ Len(a) = n /\ \A k \in 1..n : a[k] = Replayed("ChatMessage", ms[k])
    <2>1. \A k \in 1..n : ms[k] \in Msgs
      OBVIOUS
    <2>2. \A k \in 1..n : Replayed("ChatMessage", ms[k]) \in Frames
      BY <2>1, FrameKinds
    <2> HIDE DEF n
    <2>3. QED
      BY <1>1, <2>2
  <1>3. /\ b \in Seq(Frames) /\ Len(b) = p
        /\ \A k \in 1..p : b[k] = Replayed("ConfirmationRequest", cs[k])
    <2>1. \A k \in 1..p : cs[k] \in Calls
      OBVIOUS
    <2>2. \A k \in 1..p : Replayed("ConfirmationRequest", cs[k]) \in Frames
      BY <2>1, FrameKinds
    <2> HIDE DEF p
    <2>3. QED
      BY <1>1, <2>2
  <1>4. <<ChannelList>> \in Seq(Frames) /\ <<ReplayDone>> \in Seq(Frames)
    BY FrameKinds
  <1>5. Handshake(ms, cs) = <<ChannelList>> \o a \o b \o <<ReplayDone>>
    BY DEF Handshake
  <1> HIDE DEF a, b, n, p
  <1>6. /\ <<ChannelList>> \o a \in Seq(Frames) /\ Len(<<ChannelList>> \o a) = n + 1
        /\ (<<ChannelList>> \o a)[1] = ChannelList
        /\ \A k \in 1..n : (<<ChannelList>> \o a)[1 + k] = a[k]
    BY <1>1, <1>2, <1>4
  <1> DEFINE u == <<ChannelList>> \o a
  <1> HIDE DEF u
  <1>7. /\ u \o b \in Seq(Frames) /\ Len(u \o b) = n + p + 1
        /\ \A k \in 1..(n + 1) : (u \o b)[k] = u[k]
        /\ \A k \in 1..p : (u \o b)[1 + n + k] = b[k]
    <2>1. u \in Seq(Frames) /\ Len(u) = n + 1
      BY <1>6 DEF u
    <2>2. u \o b \in Seq(Frames) /\ Len(u \o b) = n + p + 1
      BY <1>1, <1>3, <2>1
    <2>3. \A k \in 1..(n + 1) : (u \o b)[k] = u[k]
      BY <1>1, <1>3, <2>1
    <2>4. \A k \in 1..p : (u \o b)[1 + n + k] = b[k]
      <3>1. SUFFICES ASSUME NEW k \in 1..p PROVE (u \o b)[1 + n + k] = b[k]
        OBVIOUS
      <3> DEFINE i == 1 + n + k
      <3>2. i \in 1..(Len(u) + Len(b)) /\ i > Len(u) /\ i - Len(u) = k
        BY <1>1, <1>3, <2>1
      <3> HIDE DEF i
      <3>3. (u \o b)[i] = b[i - Len(u)]
        BY <1>3, <2>1, <3>2
      <3>4. QED
        BY <3>2, <3>3 DEF i
    <2>5. QED
      BY <2>2, <2>3, <2>4
  <1> DEFINE v == u \o b
  <1> HIDE DEF v
  <1>8. /\ v \o <<ReplayDone>> \in Seq(Frames) /\ Len(v \o <<ReplayDone>>) = n + p + 2
        /\ \A k \in 1..(n + p + 1) : (v \o <<ReplayDone>>)[k] = v[k]
        /\ (v \o <<ReplayDone>>)[n + p + 2] = ReplayDone
    <2>1. v \in Seq(Frames) /\ Len(v) = n + p + 1
      BY <1>7 DEF v
    <2>2. QED
      BY <1>1, <1>4, <2>1
  <1> DEFINE r == v \o <<ReplayDone>>
  <1> HIDE DEF r
  <1>9. Handshake(ms, cs) = r
    BY <1>5 DEF r, v, u
  <1>10. /\ r \in Seq(Frames) /\ Len(r) = n + p + 2 /\ r[n + p + 2] = ReplayDone
         /\ \A k \in 1..(n + p + 1) : r[k] = v[k]
    BY <1>8 DEF r
  <1>11. /\ \A k \in 1..(n + 1) : v[k] = u[k]
         /\ \A k \in 1..p : v[1 + n + k] = b[k]
    BY <1>7 DEF v
  <1>12. u[1] = ChannelList /\ \A k \in 1..n : u[1 + k] = a[k]
    BY <1>6 DEF u
  <1>13. r[1] = ChannelList
    BY <1>1, <1>10, <1>11, <1>12
  <1>14. \A k \in 1..n : r[1 + k] = Replayed("ChatMessage", ms[k])
    <2>1. \A k \in 1..n : (1 + k) \in 1..(n + 1) /\ (1 + k) \in 1..(n + p + 1)
      BY <1>1
    <2>2. QED
      BY <1>2, <1>10, <1>11, <1>12, <2>1
  <1>15. \A k \in 1..p : r[1 + n + k] = Replayed("ConfirmationRequest", cs[k])
    <2>1. \A k \in 1..p : (1 + n + k) \in 1..(n + p + 1)
      BY <1>1
    <2>2. QED
      BY <1>3, <1>10, <1>11, <2>1
  <1>16. QED
    BY <1>9, <1>10, <1>13, <1>14, <1>15 DEF n, p

(* A replay opens a wire, and has every message and every card.            *)
LEMMA HandshakeOpens ==
    ASSUME NEW ms \in Seq(Msgs), NEW cs \in Seq(Calls), NEW ts, NEW told,
           \A j, k \in 1..Len(ms) : j < k => ts[ms[j]] <= ts[ms[k]]
    PROVE  LET r == Handshake(ms, cs)
           IN  /\ r \in Seq(Frames) /\ Len(r) \in 2..Len(r)
               /\ Opened(r, Len(r), ts)
               /\ Followed(r, Len(r), told)
               /\ Within(r, ToSet(ms))
               /\ \A k \in 1..Len(ms) : Contains(r, Replayed("ChatMessage", ms[k]))
               /\ \A k \in 1..Len(cs) : Contains(r, Replayed("ConfirmationRequest", cs[k]))
  <1> DEFINE r == Handshake(ms, cs)
             n == Len(ms)
             p == Len(cs)
             d == n + p + 2
  <1>1. /\ r \in Seq(Frames) /\ Len(r) = d
        /\ r[1] = ChannelList /\ r[d] = ReplayDone
        /\ \A k \in 1..n : r[1 + k] = Replayed("ChatMessage", ms[k])
        /\ \A k \in 1..p : r[1 + n + k] = Replayed("ConfirmationRequest", cs[k])
    BY HandshakePlaces, Zenon
  <1>2. n \in Nat /\ p \in Nat /\ d \in 2..d
    OBVIOUS
  <1> HIDE DEF r
  <1>3. /\ r[1].kind = "ChannelList" /\ r[d].kind = "ReplayDone"
        /\ \A k \in 1..n : /\ r[1 + k].kind = "ChatMessage" /\ r[1 + k].id = ms[k]
        /\ \A k \in 1..p : r[1 + n + k].kind = "ConfirmationRequest"
    BY <1>1, FrameKinds
  <1> HIDE DEF n, p, d
  <1>4. ASSUME NEW k \in 1..d
        PROVE  \/ k = 1
               \/ \E i \in 1..n : k = 1 + i
               \/ \E i \in 1..p : k = 1 + n + i
               \/ k = d
    <2>1. k = 1 \/ (k - 1) \in 1..n \/ (k - 1 - n) \in 1..p \/ k = d
      BY <1>2 DEF d
    <2>2. k = 1 + (k - 1) /\ k = 1 + n + (k - 1 - n)
      BY <1>2
    <2>3. QED
      BY <2>1, <2>2
  <1>5. /\ Rank(r[1]) = 1 /\ Rank(r[d]) = 4
        /\ \A k \in 1..n : Rank(r[1 + k]) = 2
        /\ \A k \in 1..p : Rank(r[1 + n + k]) = 3
    BY <1>3 DEF Rank
  <1>6. ASSUME NEW k \in 1..(d - 1)
        PROVE  r[k] # ReplayDone /\ InOrder(r[k], r[k + 1], ts)
    <2>1. k \in 1..d /\ (k + 1) \in 1..d /\ k # d
      BY <1>2 DEF d
    <2>2. r[k] # ReplayDone
      BY <1>3, <1>4, <2>1, FrameKinds
    <2>3. CASE k = 1
      <3>1. Rank(r[k + 1]) \in 2..4
        <4>1. k + 1 # 1
          BY <2>3
        <4>2. QED
          BY <1>4, <1>5, <2>1, <4>1
      <3>2. QED
        BY <1>5, <2>2, <2>3, <3>1 DEF InOrder
    <2>4. CASE \E i \in 1..n : k = 1 + i
      <3>1. PICK i \in 1..n : k = 1 + i
        BY <2>4
      <3>2. Rank(r[k]) = 2 /\ r[k].id = ms[i]
        BY <1>3, <1>5, <3>1
      <3>3. CASE i < n
        <4>1. (i + 1) \in 1..n /\ k + 1 = 1 + (i + 1) /\ i < i + 1
          BY <1>2, <3>1, <3>3
        <4>2. Rank(r[k + 1]) = 2 /\ r[k + 1].id = ms[i + 1]
          BY <1>3, <1>5, <4>1
        <4>3. ts[ms[i]] <= ts[ms[i + 1]]
          BY <4>1 DEF n
        <4>4. QED
          BY <2>2, <3>2, <4>2, <4>3 DEF InOrder
      <3>4. CASE i = n
        <4>1. Rank(r[k + 1]) \in 3..4
          <5>1. k + 1 # 1 /\ \A j \in 1..n : k + 1 # 1 + j
            BY <1>2, <3>1, <3>4
          <5>2. QED
            BY <1>4, <1>5, <2>1, <5>1
        <4>2. QED
          BY <2>2, <3>2, <4>1 DEF InOrder
      <3>5. QED
        BY <1>2, <3>1, <3>3, <3>4
    <2>5. CASE \E i \in 1..p : k = 1 + n + i
      <3>1. PICK i \in 1..p : k = 1 + n + i
        BY <2>5
      <3>2. Rank(r[k]) = 3
        BY <1>5, <3>1
      <3>3. Rank(r[k + 1]) \in 3..4
        <4>1. k + 1 # 1 /\ \A j \in 1..n : k + 1 # 1 + j
          BY <1>2, <3>1
        <4>2. QED
          BY <1>4, <1>5, <2>1, <4>1
      <3>4. QED
        BY <2>2, <3>2, <3>3 DEF InOrder
    <2>6. QED
      BY <1>4, <2>1, <2>2, <2>3, <2>4, <2>5
  <1>7. Opened(r, d, ts)
    BY <1>1, <1>2, <1>6 DEF Opened
  <1>8. Followed(r, d, told)
    BY <1>1, <1>2 DEF Followed
  <1>9. Within(r, ToSet(ms))
    <2>1. \A k \in 1..n : ms[k] \in ToSet(ms)
      BY DEF ToSet, n
    <2>2. QED
      BY <1>1, <1>3, <1>4, <2>1 DEF Within
  <1>10. \A k \in 1..n : (1 + k) \in 1..d
    BY <1>2 DEF d
  <1>11. \A k \in 1..p : (1 + n + k) \in 1..d
    BY <1>2 DEF d
  <1>12. /\ \A k \in 1..n : Contains(r, Replayed("ChatMessage", ms[k]))
         /\ \A k \in 1..p : Contains(r, Replayed("ConfirmationRequest", cs[k]))
    BY <1>1, <1>10, <1>11 DEF Contains
  <1>13. QED
    BY <1>1, <1>2, <1>7, <1>8, <1>9, <1>12 DEF r, n, p

(* replay: the buffer as it is after eviction, by ts, and the open cards.  *)
LEMMA ReplayIs ==
    ASSUME buffer \in Seq(Msgs), made \in [Msgs -> Int], REPLAY_MAX \in Nat,
           pending \subseteq Calls, IsFiniteSet(pending), NEW told
    PROVE  /\ Replay \in Seq(Frames) /\ Len(Replay) \in 2..Len(Replay)
           /\ Opened(Replay, Len(Replay), made)
           /\ Followed(Replay, Len(Replay), told)
           /\ Within(Replay, ToSet(buffer))
           /\ \A m \in ToSet(Evicted(buffer, made)) : Contains(Replay, Replayed("ChatMessage", m))
           /\ \A call \in pending : Contains(Replay, Replayed("ConfirmationRequest", call))
  <1> DEFINE buf == Evicted(buffer, made)
             ms == ByTs(buf)
             cs == SetToSeq(pending)
             r == Replay
  <1>1. r = Handshake(ms, cs)
    BY DEF Replay, Handshake
  <1>2. buf \in Seq(Msgs) /\ Selection(buf, buffer)
    BY EvictedIs
  <1>3. ToSet(buf) \subseteq ToSet(buffer)
    BY <1>2, SelectionOnce
  <1> HIDE DEF buf, r
  <1>4. /\ ms \in Seq(Msgs) /\ Len(ms) = Len(buf)
        /\ \A k \in 1..Len(buf) : /\ \E j \in 1..Len(buf) : ms[j] = buf[k]
                                  /\ \E j \in 1..Len(buf) : ms[k] = buf[j]
        /\ \A j, k \in 1..Len(buf) : j < k => made[ms[j]] <= made[ms[k]]
    BY <1>2, ByTsIs
  <1>5. cs \in Seq(Calls) /\ \A x \in pending : \E k \in 1..Len(cs) : cs[k] = x
    <2>1. cs \in Seq(pending) /\ \A x \in pending : \E k \in 1..Len(cs) : cs[k] = x
      BY CardsListed
    <2> HIDE DEF cs
    <2>2. QED
      BY <2>1
  <1> HIDE DEF ms, cs
  <1>6. /\ r \in Seq(Frames) /\ Len(r) \in 2..Len(r)
        /\ Opened(r, Len(r), made)
        /\ Followed(r, Len(r), told)
        /\ Within(r, ToSet(ms))
        /\ \A k \in 1..Len(ms) : Contains(r, Replayed("ChatMessage", ms[k]))
        /\ \A k \in 1..Len(cs) : Contains(r, Replayed("ConfirmationRequest", cs[k]))
    <2>1. \A j, k \in 1..Len(ms) : j < k => made[ms[j]] <= made[ms[k]]
      BY <1>4
    <2>2. QED
      BY <1>1, <1>4, <1>5, <2>1, HandshakeOpens
  <1>7. ToSet(ms) = ToSet(buf)
    <2>1. DOMAIN ms = 1..Len(buf) /\ DOMAIN buf = 1..Len(buf)
      BY <1>2, <1>4
    <2>2. ToSet(ms) = {ms[k] : k \in 1..Len(buf)} /\ ToSet(buf) = {buf[k] : k \in 1..Len(buf)}
      BY <2>1 DEF ToSet
    <2>3. ASSUME NEW m \in ToSet(ms) PROVE m \in ToSet(buf)
      <3>1. PICK k \in 1..Len(buf) : m = ms[k]
        BY <2>2
      <3>2. PICK j \in 1..Len(buf) : ms[k] = buf[j]
        BY <1>4
      <3>3. QED
        BY <2>2, <3>1, <3>2
    <2>4. ASSUME NEW m \in ToSet(buf) PROVE m \in ToSet(ms)
      <3>1. PICK k \in 1..Len(buf) : m = buf[k]
        BY <2>2
      <3>2. PICK j \in 1..Len(buf) : ms[j] = buf[k]
        BY <1>4
      <3>3. QED
        BY <2>2, <3>1, <3>2
    <2>5. QED
      BY <2>3, <2>4
  <1>8. Within(r, ToSet(buffer))
    BY <1>3, <1>6, <1>7 DEF Within
  <1>9. \A m \in ToSet(buf) : Contains(r, Replayed("ChatMessage", m))
    <2>1. SUFFICES ASSUME NEW m \in ToSet(buf) PROVE Contains(r, Replayed("ChatMessage", m))
      OBVIOUS
    <2>2. PICK k \in 1..Len(ms) : ms[k] = m
      <3>1. m \in ToSet(ms) /\ DOMAIN ms = 1..Len(ms)
        BY <1>4, <1>7
      <3>2. QED
        BY <3>1 DEF ToSet
    <2>3. QED
      BY <1>6, <2>2
  <1>10. \A call \in pending : Contains(r, Replayed("ConfirmationRequest", call))
    <2>1. SUFFICES ASSUME NEW call \in pending
                   PROVE  Contains(r, Replayed("ConfirmationRequest", call))
      OBVIOUS
    <2>2. PICK k \in 1..Len(cs) : cs[k] = call
      BY <1>5
    <2>3. QED
      BY <1>6, <2>2
  <1>11. QED
    BY <1>6, <1>8, <1>9, <1>10 DEF r, buf

-----------------------------------------------------------------------------
(* What a step does to the log and to the wires.                           *)

LEMMA ContainsIs ==
    ASSUME NEW T, NEW seq \in Seq(T), NEW e
    PROVE  Contains(seq, e) <=> e \in ToSet(seq)
  BY DEF Contains, ToSet

LEMMA AppendHas ==
    ASSUME NEW T, NEW seq \in Seq(T), NEW e \in T
    PROVE  /\ Append(seq, e) \in Seq(T)
           /\ Contains(Append(seq, e), e)
           /\ \A f : Contains(seq, f) => Contains(Append(seq, e), f)
           /\ ToSet(Append(seq, e)) = ToSet(seq) \cup {e}
  <1>1. /\ Len(seq) \in Nat /\ Len(Append(seq, e)) = Len(seq) + 1
        /\ DOMAIN seq = 1..Len(seq) /\ DOMAIN Append(seq, e) = 1..(Len(seq) + 1)
        /\ Append(seq, e)[Len(seq) + 1] = e
        /\ \A k \in 1..Len(seq) : Append(seq, e)[k] = seq[k]
    OBVIOUS
  <1>2. 1..(Len(seq) + 1) = 1..Len(seq) \cup {Len(seq) + 1}
    BY <1>1
  <1>3. QED
    BY <1>1, <1>2 DEF Contains, ToSet

(* What was published stays published, with its timestamp.                 *)
LEMMA LogGrows ==
    ASSUME BusInv, [Next]_vars
    PROVE  /\ ToSet(log) \subseteq ToSet(log')
           /\ \A m \in ToSet(log) : made'[m] = made[m]
  <1> USE DEF BusInv, TypeOK
  <1>1. ASSUME NEW m \in Msgs, NEW ts \in 0..MaxNow, PublishMessage(m, ts)
        PROVE  /\ ToSet(log) \subseteq ToSet(log')
               /\ \A l \in ToSet(log) : made'[l] = made[l]
    <2>1. Contains(log, m) <=> m \in ToSet(log)
      BY ContainsIs
    <2>2. \A l \in ToSet(log) : l \in Msgs
      BY DEF ToSet
    <2>3. CASE Contains(log, m)
      BY <1>1, <2>1, <2>2, <2>3 DEF PublishMessage
    <2>4. CASE ~ Contains(log, m)
      <3>1. log' = Append(log, m) /\ made' = [made EXCEPT ![m] = ts]
        BY <1>1, <2>4 DEF PublishMessage
      <3>2. ToSet(log') = ToSet(log) \cup {m}
        BY <3>1, AppendHas
      <3>3. QED
        BY <2>1, <2>2, <2>4, <3>1, <3>2
    <2>5. QED
      BY <2>3, <2>4
  <1>2. ASSUME UNCHANGED <<log, made>>
        PROVE  /\ ToSet(log) \subseteq ToSet(log')
               /\ \A l \in ToSet(log) : made'[l] = made[l]
    BY <1>2
  <1>3. CASE \E m \in Msgs, ts \in 0..MaxNow : PublishMessage(m, ts)
    BY <1>1, <1>3
  <1>4. CASE \E call \in Calls : PublishRequest(call) \/ Resolve(call)
    BY <1>2, <1>4 DEF PublishRequest, Resolve
  <1>5. CASE \E c \in Conns : Connect(c) \/ LinkLost(c) \/ Finish(c)
    BY <1>2, <1>5 DEF Connect, LinkLost, Finish
  <1>6. CASE Tick \/ UNCHANGED vars
    BY <1>2, <1>6 DEF Tick, vars
  <1>7. QED
    BY <1>3, <1>4, <1>5, <1>6 DEF Next

(* A step leaves a wire alone, opens it with a replay, or appends to it:   *)
(* a message its session has not seen, or a frame that is no message.      *)
Moved(c) ==
    \/ /\ wire'[c] = wire[c] /\ seen'[c] = seen[c]
       /\ handler'[c] = "new" <=> handler[c] = "new"
    \/ /\ c \in Registered /\ seen'[c] = seen[c] /\ handler'[c] = handler[c]
       /\ \E e \in Frames : e.kind # "ChatMessage" /\ wire'[c] = Append(wire[c], e)
    \/ /\ c \in Registered /\ handler'[c] = handler[c]
       /\ \E m \in Msgs : /\ m \notin seen[c] /\ m \in ToSet(log')
                          /\ wire'[c] = Append(wire[c], Live("ChatMessage", m))
                          /\ seen'[c] = seen[c] \cup {m}
    \/ /\ handler[c] = "new" /\ handler'[c] = "serving"
       /\ wire'[c] = Replay /\ seen'[c] = seen[c]

LEMMA WireMoves ==
    ASSUME BusInv, [Next]_vars, NEW c \in Conns
    PROVE  Moved(c)
  <1> USE BusAssumption
  <1>0. /\ handler \in [Conns -> {"new", "serving", "lost", "closed"}]
        /\ seen \in [Conns -> SUBSET Msgs] /\ log \in Seq(Msgs)
        /\ wire \in [Conns -> Seq(Frames)]
        /\ \A d \in Registered : handler[d] # "new"
    BY DEF BusInv, TypeOK, SessionInv, WireInv
  <1>1. ASSUME NEW m \in Msgs, NEW ts \in 0..MaxNow, PublishMessage(m, ts)
        PROVE  Moved(c)
    <2>1. /\ wire'[c] = IF c \in Registered /\ m \notin seen[c]
                        THEN Append(wire[c], Live("ChatMessage", m)) ELSE wire[c]
          /\ seen'[c] = IF c \in Registered THEN seen[c] \cup {m} ELSE seen[c]
          /\ handler' = handler
      BY <1>1 DEF PublishMessage, FanOutMessage
    <2>2. m \in ToSet(log')
      <3>1. Contains(log, m) <=> m \in ToSet(log)
        BY <1>0, ContainsIs
      <3>2. ToSet(Append(log, m)) = ToSet(log) \cup {m}
        BY <1>0, AppendHas
      <3>3. log' = IF Contains(log, m) THEN log ELSE Append(log, m)
        BY <1>1 DEF PublishMessage
      <3>4. QED
        BY <3>1, <3>2, <3>3
    <2>3. CASE c \in Registered /\ m \notin seen[c]
      BY <2>1, <2>2, <2>3 DEF Moved
    <2>4. CASE c \in Registered /\ m \in seen[c]
      BY <2>1, <2>4 DEF Moved
    <2>5. CASE c \notin Registered
      BY <2>1, <2>5 DEF Moved
    <2>6. QED
      BY <2>3, <2>4, <2>5
  <1>2. ASSUME NEW call \in Calls, PublishRequest(call)
        PROVE  Moved(c)
    <2> DEFINE e == Live("ConfirmationRequest", call)
    <2>1. wire'[c] = IF c \in Registered THEN Append(wire[c], e) ELSE wire[c]
      BY <1>2 DEF PublishRequest, FanOut
    <2>2. e \in Frames /\ e.kind # "ChatMessage"
      BY FrameKinds
    <2>3. handler' = handler /\ seen' = seen
      BY <1>2 DEF PublishRequest
    <2> HIDE DEF e
    <2>4. QED
      BY <2>1, <2>2, <2>3 DEF Moved
  <1>3. ASSUME NEW d \in Conns, Connect(d)
        PROVE  Moved(c)
    <2> DEFINE e == Presence(SidOf[d], "online")
    <2>1. /\ wire'[c] = IF c = d THEN Replay
                        ELSE IF c \in Registered /\ SidOf[c] # SidOf[d]
                        THEN Append(wire[c], e) ELSE wire[c]
          /\ seen' = seen
          /\ handler[d] = "new" /\ handler' = [handler EXCEPT ![d] = "serving"]
      BY <1>3 DEF Connect
    <2>2. e \in Frames /\ e.kind # "ChatMessage"
      <3>1. SidOf[d] \in Sids
        BY BusAssumption
      <3>2. QED
        BY <3>1, FrameKinds
    <2> HIDE DEF e
    <2>3. CASE c = d
      BY <1>0, <2>1, <2>3 DEF Moved
    <2>4. CASE c # d
      BY <1>0, <2>1, <2>2, <2>4 DEF Moved
    <2>5. QED
      BY <2>3, <2>4
  <1>4. ASSUME NEW d \in Conns, LinkLost(d)
        PROVE  Moved(c)
    BY <1>0, <1>4 DEF LinkLost, Moved
  <1>5. ASSUME NEW d \in Conns, Finish(d)
        PROVE  Moved(c)
    <2> DEFINE e == Presence(SidOf[d], "offline")
    <2>1. e \in Frames /\ e.kind # "ChatMessage"
      <3>1. SidOf[d] \in Sids
        BY BusAssumption
      <3>2. QED
        BY <3>1, FrameKinds
    <2>2. seen' = seen /\ handler[d] = "lost" /\ handler' = [handler EXCEPT ![d] = "closed"]
      BY <1>5 DEF Finish
    <2> DEFINE told == {f \in Registered : SidOf[f] # SidOf[d]}
    <2>3. wire' = wire \/ wire'[c] = IF c \in told THEN Append(wire[c], e) ELSE wire[c]
      BY <1>5 DEF Finish, FanOut
    <2>4. c \in told => c \in Registered /\ c # d
      OBVIOUS
    <2> HIDE DEF e, told
    <2>5. QED
      BY <1>0, <2>1, <2>2, <2>3, <2>4 DEF Moved
  <1>6. ASSUME UNCHANGED <<wire, seen, handler>>
        PROVE  Moved(c)
    BY <1>6 DEF Moved
  <1>7. CASE \E m \in Msgs, ts \in 0..MaxNow : PublishMessage(m, ts)
    BY <1>1, <1>7
  <1>8. CASE \E call \in Calls : PublishRequest(call) \/ Resolve(call)
    BY <1>2, <1>6, <1>8 DEF Resolve
  <1>9. CASE \E d \in Conns : Connect(d) \/ LinkLost(d) \/ Finish(d)
    BY <1>3, <1>4, <1>5, <1>9
  <1>10. CASE Tick \/ UNCHANGED vars
    BY <1>6, <1>10 DEF Tick, vars
  <1>11. QED
    BY <1>7, <1>8, <1>9, <1>10 DEF Next

-----------------------------------------------------------------------------
(* The invariant of the bus.                                               *)

LEMMA BusInit ==
    ASSUME Init
    PROVE  BusInv
  <1> USE BusAssumption
  <1>1. TypeOK
    <2>1. /\ sessions \in [Sids -> Conns \cup {NoConn}]
          /\ \A sid \in Sids : sessions[sid] = NoConn
      BY DEF Init
    <2>2. buffer \in Seq(Msgs) /\ Len(buffer) <= REPLAY_MAX /\ log \in Seq(Msgs)
      BY DEF Init
    <2>3. ToSet(buffer) \subseteq ToSet(log)
      BY DEF Init, ToSet
    <2>4. made \in [Msgs -> -1..MaxNow] /\ now \in 0..MaxNow
      BY DEF Init
    <2>5. QED
      BY <2>1, <2>2, <2>3, <2>4 DEF TypeOK, Init
  <1>2. Registered = {}
    BY DEF Registered, Init
  <1>3. KeptInv
    <2>1. IsInjective(log) /\ IsInjective(buffer) /\ ToSet(log) = {}
      BY DEF Init, IsInjective, ToSet
    <2>2. Selection(buffer, log)
      <3>1. DOMAIN buffer = {} /\ DOMAIN log = {}
        BY DEF Init
      <3>2. [k \in {} |-> k] \in [DOMAIN buffer -> DOMAIN log]
        BY <3>1
      <3>3. QED
        BY <3>1, <3>2 DEF Selection
    <2>3. Len(log) = 0
      BY DEF Init
    <2>4. \A m \in Msgs : ~ (made[m] >= 0)
      BY DEF Init
    <2>5. QED
      BY <2>1, <2>2, <2>3, <2>4 DEF KeptInv, RecentKept
  <1>4. SessionInv
    <2>1. IsFiniteSet(pending)
      BY FS_EmptySet DEF Init
    <2>2. QED
      BY <1>2, <2>1 DEF SessionInv, Init
  <1>5. WireInv
    BY DEF WireInv, Init, Within
  <1>6. NoGap
    BY <1>2 DEF NoGap
  <1>7. QED
    BY <1>1, <1>3, <1>4, <1>5, <1>6 DEF BusInv

\* A buffer that suits a log.
Suits(buf, whole, ts) ==
    /\ buf \in Seq(Msgs) /\ Len(buf) <= REPLAY_MAX
    /\ Selection(buf, whole) /\ Keeps(buf, whole, ts)

(* Publishing a message for the first time.                                *)
LEMMA RecordedSuits ==
    ASSUME NEW buf \in Seq(Msgs), NEW whole \in Seq(Msgs), NEW m \in Msgs, NEW ts, NEW later,
           REPLAY_MAX \in Nat, IsInjective(whole), m \notin ToSet(whole),
           Selection(buf, whole), Keeps(buf, whole, ts),
           \A l \in ToSet(whole) : later[l] = ts[l]
    PROVE  /\ Suits(Evicted(Append(buf, m), later), Append(whole, m), later)
           /\ IsInjective(Append(whole, m))
           /\ ToSet(Append(whole, m)) = ToSet(whole) \cup {m}
  <1> DEFINE b == Append(buf, m)
             w == Append(whole, m)
             n == Len(whole)
  <1>1. /\ b \in Seq(Msgs) /\ w \in Seq(Msgs) /\ n \in Nat /\ Len(w) = n + 1
        /\ w[n + 1] = m /\ DOMAIN w = 1..(n + 1) /\ DOMAIN whole = 1..n
        /\ \A k \in 1..n : w[k] = whole[k]
    OBVIOUS
  <1>2. ToSet(w) = ToSet(whole) \cup {m}
    BY AppendHas
  <1>3. \A k \in 1..n : whole[k] \in ToSet(whole)
    BY <1>1 DEF ToSet
  <1>4. Selection(b, w)
    BY SelectionGrows
  <1>5. Contains(b, m) /\ \A f : Contains(buf, f) => Contains(b, f)
    BY AppendHas
  <1> HIDE DEF b, w, n
  <1>6. IsInjective(w)
    <2>1. ASSUME NEW j \in 1..(n + 1), NEW k \in 1..(n + 1), w[j] = w[k] PROVE j = k
      <3>1. \A i \in 1..(n + 1) : i = n + 1 \/ i \in 1..n
        BY <1>1
      <3>2. CASE j \in 1..n /\ k \in 1..n
        <4>1. whole[j] = whole[k]
          BY <1>1, <2>1, <3>2
        <4>2. QED
          BY <1>1, <3>2, <4>1 DEF IsInjective
      <3>3. CASE j = n + 1 /\ k \in 1..n
        BY <1>1, <1>3, <2>1, <3>3
      <3>4. CASE j \in 1..n /\ k = n + 1
        BY <1>1, <1>3, <2>1, <3>4
      <3>5. QED
        BY <3>1, <3>2, <3>3, <3>4
    <2>2. QED
      BY <1>1, <2>1 DEF IsInjective
  <1>7. Keeps(b, w, later)
    <2>1. SUFFICES ASSUME NEW k \in 1..(n + 1), k > (n + 1) - REPLAY_MAX,
                          later[w[k]] >= now - REPLAY_WINDOW
                   PROVE  Contains(b, w[k])
      BY <1>1 DEF Keeps
    <2>2. CASE k = n + 1
      BY <1>1, <1>5, <2>2
    <2>3. CASE k \in 1..n
      <3>1. w[k] = whole[k] /\ later[whole[k]] = ts[whole[k]]
        BY <1>1, <1>3, <2>3
      <3>2. k > n - REPLAY_MAX
        BY <1>1, <2>1
      <3>3. Contains(buf, whole[k])
        BY <2>1, <2>3, <3>1, <3>2 DEF Keeps, n
      <3>4. QED
        BY <1>5, <3>1, <3>3
    <2>4. QED
      BY <1>1, <2>2, <2>3
  <1>8. /\ Evicted(b, later) \in Seq(Msgs) /\ Len(Evicted(b, later)) <= REPLAY_MAX
        /\ Selection(Evicted(b, later), b)
    BY <1>1, EvictedIs
  <1>9. Selection(Evicted(b, later), w)
    BY <1>1, <1>4, <1>8, SelectionOf
  <1>10. Keeps(Evicted(b, later), w, later)
    BY <1>1, <1>4, <1>6, <1>7, EvictedKeeps
  <1>11. QED
    BY <1>2, <1>6, <1>8, <1>9, <1>10 DEF Suits, b, w

(* The buffer and the log after a step.                                    *)
LEMMA KeptStep ==
    ASSUME BusInv, [Next]_vars
    PROVE  /\ KeptInv'
           /\ buffer' \in Seq(Msgs) /\ Len(buffer') <= REPLAY_MAX
           /\ log' \in Seq(Msgs) /\ ToSet(buffer') \subseteq ToSet(log')
           /\ made' \in [Msgs -> -1..MaxNow] /\ now' \in 0..MaxNow
           /\ ToSet(buffer') \subseteq ToSet(buffer) \/ \E m \in Msgs :
                 /\ \E ts \in 0..MaxNow : PublishMessage(m, ts)
                 /\ ToSet(buffer') \subseteq ToSet(buffer) \cup {m}
  <1> USE BusAssumption
  <1>0. /\ buffer \in Seq(Msgs) /\ Len(buffer) <= REPLAY_MAX /\ log \in Seq(Msgs)
        /\ made \in [Msgs -> -1..MaxNow] /\ now \in 0..MaxNow
        /\ IsInjective(log) /\ Selection(buffer, log) /\ RecentKept
        /\ \A m \in Msgs : made[m] >= 0 <=> m \in ToSet(log)
    BY DEF BusInv, TypeOK, KeptInv
  <1>1. Keeps(buffer, log, made)
    BY <1>0 DEF RecentKept, Keeps
  <1> DEFINE Goal == /\ KeptInv'
                     /\ buffer' \in Seq(Msgs) /\ Len(buffer') <= REPLAY_MAX
                     /\ log' \in Seq(Msgs) /\ ToSet(buffer') \subseteq ToSet(log')
                     /\ made' \in [Msgs -> -1..MaxNow] /\ now' \in 0..MaxNow
  <1>2. ASSUME NEW b, NEW w, NEW ts,
               b = buffer', w = log', ts = made', now' = now,
               Suits(b, w, ts), w \in Seq(Msgs), IsInjective(w), ts \in [Msgs -> -1..MaxNow],
               \A m \in Msgs : ts[m] >= 0 <=> m \in ToSet(w)
        PROVE  Goal
    <2>1. ToSet(b) \subseteq ToSet(w) /\ IsInjective(b)
      BY <1>2, SelectionOnce DEF Suits
    <2>2. RecentKept'
      BY <1>2, <2>1 DEF RecentKept, Suits, Keeps
    <2>3. KeptInv'
      BY <1>2, <2>2 DEF KeptInv, Suits
    <2>4. QED
      BY <1>0, <1>2, <2>1, <2>3 DEF Suits
  <1>3. ASSUME NEW m \in Msgs, NEW t \in 0..MaxNow, PublishMessage(m, t)
        PROVE  Goal /\ ToSet(buffer') \subseteq ToSet(buffer) \cup {m}
    <2>1. PICK ts : ts = made'
      OBVIOUS
    <2>2. /\ ts = [made EXCEPT ![m] = t] /\ now' = now
          /\ Contains(log, m) => t = made[m] /\ Contains(buffer, m)
          /\ log' = IF Contains(log, m) THEN log ELSE Append(log, m)
          /\ buffer' = IF Contains(buffer, m) THEN buffer ELSE Evicted(Append(buffer, m), ts)
      BY <1>3, <2>1 DEF PublishMessage, Recorded
    <2>3. ts \in [Msgs -> -1..MaxNow] /\ ts[m] >= 0 /\ \A l \in Msgs : l # m => ts[l] = made[l]
      BY <1>0, <2>2
    <2>4. Contains(log, m) <=> m \in ToSet(log)
      BY <1>0, ContainsIs
    <2>5. Contains(buffer, m) => m \in ToSet(log)
      <3>1. ToSet(buffer) \subseteq ToSet(log)
        BY <1>0, SelectionOnce
      <3>2. Contains(buffer, m) <=> m \in ToSet(buffer)
        BY <1>0, ContainsIs
      <3>3. QED
        BY <3>1, <3>2
    <2>6. CASE m \in ToSet(log)
      <3>1. ts = made /\ log' = log /\ buffer' = buffer
        BY <1>0, <2>2, <2>4, <2>6
      <3>2. Suits(buffer, log, made)
        BY <1>0, <1>1 DEF Suits
      <3>3. Goal
        BY <1>0, <1>2, <2>1, <2>2, <3>1, <3>2
      <3>4. QED
        BY <3>1, <3>3
    <2>7. CASE m \notin ToSet(log)
      <3>1. PICK b, w : b = Evicted(Append(buffer, m), ts) /\ w = Append(log, m)
        OBVIOUS
      <3>2. b = buffer' /\ w = log'
        BY <2>2, <2>4, <2>5, <2>7, <3>1
      <3>3. \A l \in ToSet(log) : ts[l] = made[l]
        <4>1. \A l \in ToSet(log) : l \in Msgs
          BY <1>0 DEF ToSet
        <4>2. QED
          BY <2>3, <2>7, <4>1
      <3>4. /\ Suits(b, w, ts) /\ IsInjective(w) /\ ToSet(w) = ToSet(log) \cup {m}
        BY <1>0, <1>1, <2>7, <3>1, <3>3, RecordedSuits
      <3>5. w \in Seq(Msgs)
        BY <1>0, <3>1
      <3>6. \A l \in Msgs : ts[l] >= 0 <=> l \in ToSet(w)
        BY <1>0, <2>3, <3>4
      <3>7. Goal
        <4> HIDE DEF Goal
        <4>1. QED
          BY <1>2, <2>1, <2>2, <2>3, <3>2, <3>4, <3>5, <3>6
      <3>8. ToSet(b) \subseteq ToSet(buffer) \cup {m}
        <4>1. Append(buffer, m) \in Seq(Msgs) /\ ToSet(Append(buffer, m)) = ToSet(buffer) \cup {m}
          BY <1>0, AppendHas
        <4>2. b \in Seq(Msgs) /\ Selection(b, Append(buffer, m))
          BY <3>1, <4>1, EvictedIs
        <4>3. QED
          BY <4>1, <4>2, SelectionOnce
      <3>9. QED
        BY <3>2, <3>7, <3>8
    <2>8. QED
      BY <2>6, <2>7
  <1>4. ASSUME NEW c \in Conns, Connect(c)
        PROVE  Goal /\ ToSet(buffer') \subseteq ToSet(buffer)
    <2>1. PICK b : b = Evicted(buffer, made)
      OBVIOUS
    <2>2. buffer' = b /\ UNCHANGED <<made, log, now>>
      BY <1>4, <2>1 DEF Connect
    <2>3. b \in Seq(Msgs) /\ Len(b) <= REPLAY_MAX /\ Selection(b, buffer)
      BY <1>0, <2>1, EvictedIs
    <2>4. Selection(b, log)
      BY <1>0, <2>3, SelectionOf
    <2>5. Keeps(b, log, made)
      BY <1>0, <1>1, <2>1, EvictedKeeps
    <2>6. Suits(b, log, made)
      BY <2>3, <2>4, <2>5 DEF Suits
    <2>7. ToSet(b) \subseteq ToSet(buffer)
      BY <1>0, <2>3, SelectionOnce
    <2>8. Goal
      <3> HIDE DEF Goal
      <3>1. QED
        BY <1>0, <1>2, <2>2, <2>6
    <2>9. QED
      BY <2>2, <2>7, <2>8
  <1>5. ASSUME UNCHANGED <<buffer, log, made>>, now' \in 0..MaxNow, now' >= now
        PROVE  Goal /\ ToSet(buffer') \subseteq ToSet(buffer)
    <2>1. \A k \in 1..Len(log) : made[log[k]] \in Int
      BY <1>0
    <2>2. RecentKept'
      BY <1>0, <1>5, <2>1 DEF RecentKept
    <2>3. KeptInv'
      BY <1>0, <1>5, <2>2 DEF KeptInv
    <2>4. ToSet(buffer) \subseteq ToSet(log)
      BY <1>0, SelectionOnce
    <2>5. QED
      BY <1>0, <1>5, <2>3, <2>4
  <1> HIDE DEF Goal
  <1>6. CASE \E m \in Msgs, ts \in 0..MaxNow : PublishMessage(m, ts)
    BY <1>3, <1>6 DEF Goal
  <1>7. CASE \E call \in Calls : PublishRequest(call) \/ Resolve(call)
    BY <1>0, <1>5, <1>7 DEF PublishRequest, Resolve, Goal
  <1>8. CASE \E c \in Conns : Connect(c) \/ LinkLost(c) \/ Finish(c)
    BY <1>0, <1>4, <1>5, <1>8 DEF LinkLost, Finish, Goal
  <1>9. CASE Tick \/ UNCHANGED vars
    BY <1>0, <1>5, <1>9 DEF Tick, vars, Goal
  <1>10. QED
    BY <1>6, <1>7, <1>8, <1>9 DEF Next

(* The connections and their sessions after a step.                        *)
LEMMA SessionStep ==
    ASSUME BusInv, [Next]_vars
    PROVE  /\ sessions' \in [Sids -> Conns \cup {NoConn}]
           /\ \A sid \in Sids : sessions'[sid] # NoConn => SidOf[sessions'[sid]] = sid
           /\ handler' \in [Conns -> {"new", "serving", "lost", "closed"}]
           /\ pending' \subseteq offered' /\ offered' \subseteq Calls /\ IsFiniteSet(pending')
           /\ seen' \in [Conns -> SUBSET Msgs]
           /\ \A c \in Registered' : handler'[c] # "new"
           /\ \A c \in Registered' : c \in Registered \/ Connect(c)
  <1> USE BusAssumption
  <1>0. /\ sessions \in [Sids -> Conns \cup {NoConn}]
        /\ \A sid \in Sids : sessions[sid] # NoConn => SidOf[sessions[sid]] = sid
        /\ handler \in [Conns -> {"new", "serving", "lost", "closed"}]
        /\ pending \subseteq offered /\ offered \subseteq Calls /\ IsFiniteSet(pending)
        /\ seen \in [Conns -> SUBSET Msgs]
        /\ \A c \in Registered : handler[c] # "new"
    BY DEF BusInv, TypeOK, SessionInv
  <1> DEFINE Cards == pending' \subseteq offered' /\ offered' \subseteq Calls /\ IsFiniteSet(pending')
             Serving == /\ sessions' \in [Sids -> Conns \cup {NoConn}]
                        /\ \A sid \in Sids : sessions'[sid] # NoConn => SidOf[sessions'[sid]] = sid
                        /\ handler' \in [Conns -> {"new", "serving", "lost", "closed"}]
                        /\ \A c \in Registered' : handler'[c] # "new"
                        /\ \A c \in Registered' : c \in Registered \/ Connect(c)
             Seen == seen' \in [Conns -> SUBSET Msgs]
  <1>1. UNCHANGED <<pending, offered>> => Cards
    BY <1>0
  <1>2. UNCHANGED <<sessions, handler>> => Serving
    BY <1>0 DEF Registered
  <1>3. UNCHANGED seen => Seen
    BY <1>0
  <1>4. ASSUME NEW m \in Msgs, NEW ts \in 0..MaxNow, PublishMessage(m, ts)
        PROVE  Seen
    <2>1. seen' = [c \in Conns |-> IF c \in Registered THEN seen[c] \cup {m} ELSE seen[c]]
      BY <1>4 DEF PublishMessage, FanOutMessage
    <2>2. \A c \in Conns : seen'[c] \in SUBSET Msgs
      BY <1>0, <2>1
    <2>3. QED
      BY <2>1, <2>2
  <1>5. ASSUME NEW call \in Calls, PublishRequest(call)
        PROVE  Cards
    <2>1. pending' = pending \cup {call} /\ offered' = offered \cup {call}
      BY <1>5 DEF PublishRequest
    <2>2. IsFiniteSet(pending')
      BY <1>0, <2>1, FS_AddElement
    <2>3. QED
      BY <1>0, <2>1, <2>2
  <1>6. ASSUME NEW call \in Calls, Resolve(call)
        PROVE  Cards
    <2>1. pending' = pending \ {call} /\ offered' = offered
      BY <1>6 DEF Resolve
    <2>2. IsFiniteSet(pending')
      BY <1>0, <2>1, FS_RemoveElement
    <2>3. QED
      BY <1>0, <2>1, <2>2
  <1>7. ASSUME NEW c \in Conns, Connect(c)
        PROVE  Serving
    <2>1. /\ handler[c] = "new" /\ handler' = [handler EXCEPT ![c] = "serving"]
          /\ sessions' = [sessions EXCEPT ![SidOf[c]] = c]
          /\ SidOf[c] \in Sids
      BY <1>7 DEF Connect
    <2>2. \A d \in Registered' : d \in Registered \/ d = c
      BY <1>0, <2>1 DEF Registered
    <2>3. Registered \subseteq Conns
      BY <1>0 DEF Registered
    <2>4. QED
      BY <1>0, <1>7, <2>1, <2>2, <2>3
  <1>8. ASSUME NEW c \in Conns, LinkLost(c)
        PROVE  Serving
    <2>1. sessions' = sessions /\ handler' = [handler EXCEPT ![c] = "lost"]
      BY <1>8 DEF LinkLost
    <2>2. Registered' = Registered /\ Registered \subseteq Conns
      BY <1>0, <2>1 DEF Registered
    <2>3. QED
      BY <1>0, <2>1, <2>2
  <1>9. ASSUME NEW c \in Conns, Finish(c)
        PROVE  Serving
    <2>1. /\ handler' = [handler EXCEPT ![c] = "closed"]
          /\ sessions' = [sessions EXCEPT ![SidOf[c]] = NoConn]
      BY <1>9 DEF Finish
    <2>2. Registered' \subseteq Registered /\ Registered \subseteq Conns
      BY <1>0, <2>1 DEF Registered
    <2>3. QED
      BY <1>0, <2>1, <2>2
  <1> DEFINE Goal == Cards /\ Serving /\ Seen
  <1> HIDE DEF Cards, Serving, Seen
  <1>10. CASE \E m \in Msgs, ts \in 0..MaxNow : PublishMessage(m, ts)
    <2>1. Goal
      BY <1>1, <1>2, <1>4, <1>10 DEF PublishMessage
    <2>2. QED
      BY <2>1 DEF Cards, Serving, Seen
  <1>11. CASE \E call \in Calls : PublishRequest(call) \/ Resolve(call)
    <2>1. Goal
      BY <1>2, <1>3, <1>5, <1>6, <1>11 DEF PublishRequest, Resolve
    <2>2. QED
      BY <2>1 DEF Cards, Serving, Seen
  <1>12. CASE \E c \in Conns : Connect(c) \/ LinkLost(c) \/ Finish(c)
    <2>1. Goal
      BY <1>1, <1>3, <1>7, <1>8, <1>9, <1>12 DEF Connect, LinkLost, Finish
    <2>2. QED
      BY <2>1 DEF Cards, Serving, Seen
  <1>13. CASE Tick \/ UNCHANGED vars
    <2>1. Goal
      BY <1>1, <1>2, <1>3, <1>13 DEF Tick, vars
    <2>2. QED
      BY <2>1 DEF Cards, Serving, Seen
  <1>14. QED
    BY <1>10, <1>11, <1>12, <1>13 DEF Next

(* The wires after a step.                                                 *)
LEMMA WireStep ==
    ASSUME BusInv, [Next]_vars
    PROVE  /\ WireInv'
           /\ \A c \in Conns : handler'[c] = "new" <=> wire'[c] = <<>>
           /\ \A c \in Conns : \A m \in seen'[c] : Contains(wire'[c], Live("ChatMessage", m))
           /\ \A c \in Conns : \A e : Contains(wire[c], e) => Contains(wire'[c], e)
  <1> USE BusAssumption
  <1>0. /\ wire \in [Conns -> Seq(Frames)] /\ seen \in [Conns -> SUBSET Msgs]
        /\ buffer \in Seq(Msgs) /\ log \in Seq(Msgs) /\ ToSet(buffer) \subseteq ToSet(log)
        /\ made \in [Msgs -> Int] /\ REPLAY_MAX \in Nat
        /\ pending \subseteq Calls /\ IsFiniteSet(pending)
    BY DEF BusInv, TypeOK, WireInv, SessionInv
  <1>1. /\ ToSet(log) \subseteq ToSet(log')
        /\ \A m \in ToSet(log) : made'[m] = made[m]
    BY LogGrows
  <1> DEFINE Opens(w, ts, told) == \E d \in 2..Len(w) : Opened(w, d, ts) /\ Followed(w, d, told)
             Good(c, w, told) ==
                /\ w \in Seq(Frames) /\ Within(w, ToSet(log'))
                /\ handler'[c] = "new" <=> w = <<>>
                /\ w # <<>> => Opens(w, made', told)
                /\ \A m \in told : Contains(w, Live("ChatMessage", m))
                /\ \A e : Contains(wire[c], e) => Contains(w, e)
  <1>2. ASSUME NEW c \in Conns PROVE Good(c, wire'[c], seen'[c])
    <2>1. PICK w, told, ts : w = wire[c] /\ told = seen[c] /\ ts = made'
      OBVIOUS
    <2>2. /\ w \in Seq(Frames) /\ Within(w, ToSet(log)) /\ told \subseteq Msgs
          /\ handler[c] = "new" <=> w = <<>>
          /\ w # <<>> => Opens(w, made, told)
          /\ \A m \in told : Contains(w, Live("ChatMessage", m))
          /\ c \in Registered => handler[c] # "new"
      BY <1>0, <2>1 DEF BusInv, WireInv, SessionInv
    <2>3. Within(w, ToSet(log'))
      BY <1>1, <2>2 DEF Within
    <2>4. w # <<>> => Opens(w, ts, told)
      <3>1. SUFFICES ASSUME w # <<>> PROVE Opens(w, ts, told)
        OBVIOUS
      <3>2. PICK d \in 2..Len(w) : Opened(w, d, made) /\ Followed(w, d, told)
        BY <2>2, <3>1
      <3>3. Opened(w, d, ts)
        BY <1>1, <2>1, <2>2, <3>2, OpenedStays
      <3>4. QED
        BY <3>2, <3>3
    <2>5. CASE /\ wire'[c] = wire[c] /\ seen'[c] = seen[c]
               /\ handler'[c] = "new" <=> handler[c] = "new"
      BY <2>1, <2>2, <2>3, <2>4, <2>5
    <2>6. ASSUME NEW e \in Frames, NEW now_told, c \in Registered, handler'[c] = handler[c],
                 wire'[c] = Append(wire[c], e), seen'[c] = now_told,
                 e.kind = "ChatMessage" => e.id \in ToSet(log'),
                 \A d \in 2..Len(w) : Followed(w, d, told) => Followed(Append(w, e), d, now_told),
                 \A m \in now_told : m \in told \/ e = Live("ChatMessage", m)
          PROVE  Good(c, wire'[c], seen'[c])
      <3>1. PICK v : v = Append(w, e)
        OBVIOUS
      <3>2. /\ v \in Seq(Frames) /\ Len(v) = Len(w) + 1 /\ Len(w) \in Nat
            /\ v[Len(w) + 1] = e /\ \A k \in 1..Len(w) : v[k] = w[k]
        BY <2>2, <3>1
      <3>3. Contains(v, e) /\ \A f : Contains(w, f) => Contains(v, f)
        BY <2>2, <3>1, AppendHas
      <3>4. Within(v, ToSet(log'))
        <4>1. \A k \in 1..Len(v) : k = Len(w) + 1 \/ k \in 1..Len(w)
          BY <3>2
        <4>2. QED
          BY <2>3, <2>6, <3>2, <4>1 DEF Within
      <3>5. v # <<>> /\ w # <<>> /\ handler'[c] # "new"
        BY <2>2, <2>6, <3>2
      <3>6. Opens(v, ts, now_told)
        <4>1. PICK d \in 2..Len(w) : Opened(w, d, ts) /\ Followed(w, d, told)
          BY <2>4, <3>5
        <4>2. Opened(v, d, ts)
          BY <2>2, <3>1, <4>1, OpenedGrows
        <4>3. Followed(v, d, now_told) /\ d \in 2..Len(v)
          BY <2>6, <3>1, <3>2, <4>1
        <4>4. QED
          BY <4>2, <4>3
      <3>7. \A m \in now_told : Contains(v, Live("ChatMessage", m))
        BY <2>2, <2>6, <3>3
      <3> HIDE DEF Opens
      <3>8. QED
        BY <2>1, <2>6, <3>1, <3>2, <3>3, <3>4, <3>5, <3>6, <3>7
    <2>7. CASE /\ c \in Registered /\ seen'[c] = seen[c] /\ handler'[c] = handler[c]
               /\ \E e \in Frames : e.kind # "ChatMessage" /\ wire'[c] = Append(wire[c], e)
      <3>1. PICK e \in Frames : e.kind # "ChatMessage" /\ wire'[c] = Append(wire[c], e)
        BY <2>7
      <3>2. \A d \in 2..Len(w) : Followed(w, d, told) => Followed(Append(w, e), d, told)
        BY <2>2, <3>1, FollowedByOther
      <3> HIDE DEF Good
      <3>3. QED
        BY <2>1, <2>6, <2>7, <3>1, <3>2
    <2>8. CASE /\ c \in Registered /\ handler'[c] = handler[c]
               /\ \E m \in Msgs : /\ m \notin seen[c] /\ m \in ToSet(log')
                                  /\ wire'[c] = Append(wire[c], Live("ChatMessage", m))
                                  /\ seen'[c] = seen[c] \cup {m}
      <3>1. PICK m \in Msgs : /\ m \notin seen[c] /\ m \in ToSet(log')
                              /\ wire'[c] = Append(wire[c], Live("ChatMessage", m))
                              /\ seen'[c] = seen[c] \cup {m}
        BY <2>8
      <3>2. PICK e : e = Live("ChatMessage", m)
        OBVIOUS
      <3>3. e \in Frames /\ e.kind = "ChatMessage" /\ e.id = m
        BY <3>2, FrameKinds
      <3>4. \A d \in 2..Len(w) : Followed(w, d, told) => Followed(Append(w, e), d, told \cup {m})
        BY <2>1, <2>2, <3>1, <3>2, FollowedByNews
      <3>5. \A l \in told \cup {m} : l \in told \/ e = Live("ChatMessage", l)
        BY <3>2
      <3> HIDE DEF Good
      <3>6. QED
        BY <2>1, <2>6, <2>8, <3>1, <3>2, <3>3, <3>4, <3>5
    <2>9. CASE /\ handler[c] = "new" /\ handler'[c] = "serving"
               /\ wire'[c] = Replay /\ seen'[c] = seen[c]
      <3>1. PICK r : r = Replay
        OBVIOUS
      <3>2. /\ r \in Seq(Frames) /\ Len(r) \in 2..Len(r)
            /\ Opened(r, Len(r), made) /\ Followed(r, Len(r), told) /\ Within(r, ToSet(buffer))
        BY <1>0, <3>1, ReplayIs
      <3>3. Within(r, ToSet(log))
        BY <1>0, <3>2 DEF Within
      <3>4. Within(r, ToSet(log'))
        BY <1>1, <3>3 DEF Within
      <3>5. Opened(r, Len(r), ts)
        BY <1>1, <2>1, <3>2, <3>3, OpenedStays
      <3>6. w = <<>> /\ told = {} /\ r # <<>>
        <4>1. w = <<>>
          BY <2>2, <2>9
        <4>2. \A e : ~ Contains(w, e)
          BY <4>1 DEF Contains
        <4>3. Len(r) # 0
          BY <3>2
        <4>4. QED
          BY <2>2, <4>1, <4>2, <4>3
      <3>7. \A e : ~ Contains(w, e)
        BY <3>6 DEF Contains
      <3>8. QED
        BY <2>1, <2>9, <3>1, <3>2, <3>4, <3>5, <3>6, <3>7
    <2> HIDE DEF Good
    <2>10. QED
      BY <2>5, <2>7, <2>8, <2>9, WireMoves DEF Moved
  <1>3. wire' \in [Conns -> Seq(Frames)]
    <2>1. wire' = [c \in Conns |-> wire'[c]]
      <3>1. CASE \E m \in Msgs, ts \in 0..MaxNow : PublishMessage(m, ts)
        BY <3>1 DEF PublishMessage, FanOutMessage
      <3>2. CASE \E call \in Calls : PublishRequest(call) \/ Resolve(call)
        BY <1>0, <3>2 DEF PublishRequest, FanOut, Resolve
      <3>3. CASE \E c \in Conns : Connect(c) \/ LinkLost(c) \/ Finish(c)
        BY <1>0, <3>3 DEF Connect, LinkLost, Finish, FanOut
      <3>4. CASE Tick \/ UNCHANGED vars
        BY <1>0, <3>4 DEF Tick, vars
      <3>5. QED
        BY <3>1, <3>2, <3>3, <3>4 DEF Next
    <2>2. QED
      BY <1>2, <2>1
  <1>4. WireInv'
    BY <1>2, <1>3 DEF WireInv
  <1>5. QED
    BY <1>2, <1>4

(* Whoever is registered has been sent whatever is held.                   *)
LEMMA GapStep ==
    ASSUME BusInv, [Next]_vars
    PROVE  NoGap'
  <1> USE BusAssumption
  <1>0. /\ wire \in [Conns -> Seq(Frames)]
        /\ sessions \in [Sids -> Conns \cup {NoConn}]
        /\ buffer \in Seq(Msgs) /\ made \in [Msgs -> Int] /\ REPLAY_MAX \in Nat
        /\ pending \subseteq Calls /\ IsFiniteSet(pending)
        /\ NoGap
    BY DEF BusInv, TypeOK, WireInv, SessionInv
  <1>1. /\ \A c \in Registered' : c \in Registered \/ Connect(c)
        /\ sessions' \in [Sids -> Conns \cup {NoConn}]
    BY SessionStep
  <1>2. Registered' \subseteq Conns
    BY <1>1 DEF Registered
  <1>3. /\ \A c \in Conns : \A e : Contains(wire[c], e) => Contains(wire'[c], e)
        /\ \A c \in Conns : \A m \in seen'[c] : Contains(wire'[c], Live("ChatMessage", m))
    BY WireStep
  <1> DEFINE Got(c, kind, id) == \/ Contains(wire'[c], Live(kind, id))
                                 \/ Contains(wire'[c], Replayed(kind, id))
  <1>4. ASSUME NEW c \in Conns, NEW kind, NEW id, Sent(c, kind, id)
        PROVE  Got(c, kind, id)
    BY <1>3, <1>4 DEF Sent
  <1>5. ASSUME NEW c \in Registered', NEW m \in ToSet(buffer')
        PROVE  Got(c, "ChatMessage", m)
    <2>1. c \in Conns
      BY <1>2
    <2>2. CASE Connect(c)
      <3>1. wire'[c] = Replay /\ buffer' = Evicted(buffer, made)
        BY <2>1, <2>2 DEF Connect
      <3>2. \A l \in ToSet(Evicted(buffer, made)) : Contains(Replay, Replayed("ChatMessage", l))
        BY <1>0, ReplayIs
      <3>3. QED
        BY <1>5, <3>1, <3>2
    <2>3. CASE c \in Registered /\ m \in ToSet(buffer)
      <3>1. Sent(c, "ChatMessage", m)
        BY <1>0, <2>3 DEF NoGap
      <3>2. QED
        BY <1>4, <2>1, <3>1
    <2>4. CASE c \in Registered /\ \E ts \in 0..MaxNow : PublishMessage(m, ts)
      <3>1. m \in seen'[c]
        BY <2>1, <2>4 DEF PublishMessage, FanOutMessage
      <3>2. QED
        BY <1>3, <2>1, <3>1
    <2>5. \/ ToSet(buffer') \subseteq ToSet(buffer)
          \/ \E l \in Msgs : /\ \E ts \in 0..MaxNow : PublishMessage(l, ts)
                             /\ ToSet(buffer') \subseteq ToSet(buffer) \cup {l}
      BY KeptStep
    <2>6. QED
      BY <1>1, <1>5, <2>2, <2>3, <2>4, <2>5
  <1>6. ASSUME NEW c \in Registered', NEW call \in pending'
        PROVE  Got(c, "ConfirmationRequest", call)
    <2>1. c \in Conns
      BY <1>2
    <2>2. CASE Connect(c)
      <3>1. wire'[c] = Replay /\ pending' = pending
        BY <2>1, <2>2 DEF Connect
      <3>2. \A k \in pending : Contains(Replay, Replayed("ConfirmationRequest", k))
        BY <1>0, ReplayIs
      <3>3. QED
        BY <1>6, <3>1, <3>2
    <2>3. CASE c \in Registered /\ call \in pending
      <3>1. Sent(c, "ConfirmationRequest", call)
        BY <1>0, <2>3 DEF NoGap
      <3>2. QED
        BY <1>4, <2>1, <3>1
    <2>4. CASE c \in Registered /\ call \in Calls /\ PublishRequest(call)
      <3>1. wire'[c] = Append(wire[c], Live("ConfirmationRequest", call))
        BY <2>1, <2>4 DEF PublishRequest, FanOut
      <3>2. Live("ConfirmationRequest", call) \in Frames /\ wire[c] \in Seq(Frames)
        BY <1>0, <2>1, <2>4, FrameKinds
      <3>3. QED
        BY <3>1, <3>2, AppendHas
    <2>5. \/ pending' \subseteq pending
          \/ \E k \in Calls : PublishRequest(k) /\ pending' = pending \cup {k}
      <3>1. CASE \E m \in Msgs, ts \in 0..MaxNow : PublishMessage(m, ts)
        BY <3>1 DEF PublishMessage
      <3>2. CASE \E k \in Calls : PublishRequest(k) \/ Resolve(k)
        BY <3>2 DEF PublishRequest, Resolve
      <3>3. CASE \E d \in Conns : Connect(d) \/ LinkLost(d) \/ Finish(d)
        BY <3>3 DEF Connect, LinkLost, Finish
      <3>4. CASE Tick \/ UNCHANGED vars
        BY <3>4 DEF Tick, vars
      <3>5. QED
        BY <3>1, <3>2, <3>3, <3>4 DEF Next
    <2>6. QED
      BY <1>1, <1>6, <2>2, <2>3, <2>4, <2>5
  <1>7. QED
    BY <1>5, <1>6 DEF NoGap, Sent

LEMMA BusStepKeeps ==
    ASSUME BusInv, [Next]_vars
    PROVE  BusInv'
  <1>1. TypeOK'
    BY KeptStep, SessionStep DEF TypeOK
  <1>2. KeptInv'
    BY KeptStep
  <1>3. SessionInv'
    BY SessionStep, WireStep DEF SessionInv
  <1>4. WireInv'
    BY WireStep
  <1>5. NoGap'
    BY GapStep
  <1>6. QED
    BY <1>1, <1>2, <1>3, <1>4, <1>5 DEF BusInv

LEMMA BusInvariant == Spec => []BusInv
  <1>1. Init => BusInv
    BY BusInit
  <1>2. BusInv /\ [Next]_vars => BusInv'
    BY BusStepKeeps
  <1>3. QED
    BY <1>1, <1>2, PTL DEF Spec

-----------------------------------------------------------------------------
(* What follows for the devices.                                           *)

(* The bus's tables, buffer and clock are what their types say; the buffer *)
(* is within its cap and a sessionId is registered by a connection of its  *)
(* own (bus.py subscribe, _evict_buffer).                                  *)
THEOREM BusTypeCorrect == Spec => []TypeOK
  <1>1. BusInv => TypeOK
    BY DEF BusInv
  <1>2. QED
    BY <1>1, BusInvariant, PTL

(* A registered device has been sent every message the replay buffer holds *)
(* and every open card, whatever came before, during and between its       *)
(* connections (bus.py publish, replay).                                   *)
THEOREM SubscribersMissNothing == Spec => []NoGap
  <1>1. BusInv => NoGap
    BY DEF BusInv
  <1>2. QED
    BY <1>1, BusInvariant, PTL

(* Each of the last REPLAY_MAX messages published is in the buffer, once,  *)
(* until it leaves the time window (bus.py _evict_buffer).                 *)
THEOREM BufferKeepsRecent == Spec => []RecentKept
  <1>1. BusInv => RecentKept
    BY DEF BusInv, KeptInv
  <1>2. QED
    BY <1>1, BusInvariant, PTL

(* The first ReplayDone of a wire that has opened is where it opened.      *)
LEMMA DoneIs ==
    ASSUME NEW c \in Conns, wire[c] \in Seq(Frames), NEW d \in 2..Len(wire[c]),
           Opened(wire[c], d, made)
    PROVE  DoneAt(c) = d
  <1> DEFINE at == {k \in 1..Len(wire[c]) : wire[c][k] = ReplayDone}
  <1>1. d \in at /\ \A k \in at : d <= k
    BY DEF Opened
  <1>2. DoneAt(c) = Min(at)
    BY <1>1 DEF DoneAt, SelectInSeq
  <1> HIDE DEF at
  <1>3. at \subseteq Nat
    BY DEF at
  <1>4. Min(at) = d
    <2>1. Min(at) \in at /\ \A k \in at : Min(at) <= k
      BY <1>1 DEF Min
    <2> DEFINE x == Min(at)
    <2> HIDE DEF x
    <2>2. x \in at /\ x <= d /\ d <= x
      BY <1>1, <2>1 DEF x
    <2>3. x = d
      BY <1>3, <2>2
    <2>4. QED
      BY <2>3 DEF x
  <1>5. QED
    BY <1>2, <1>4

(* After its replay a connection is sent a message at most once, although  *)
(* the graph streams and drains it (bus.py Session.enqueue).               *)
THEOREM MessagesLiveOnce == Spec => []LiveOnce
  <1>1. ASSUME BusInv PROVE LiveOnce
    <2>1. SUFFICES ASSUME NEW c \in Conns,
                          NEW j \in (DoneAt(c) + 1)..Len(wire[c]),
                          NEW k \in (DoneAt(c) + 1)..Len(wire[c]),
                          j < k, wire[c][j].kind = "ChatMessage"
                   PROVE  wire[c][j] # wire[c][k]
      BY DEF LiveOnce
    <2>2. wire[c] \in Seq(Frames)
      BY <1>1 DEF BusInv, WireInv
    <2>3. CASE wire[c] = <<>>
      <3>1. DoneAt(c) = 0
        BY <2>3 DEF DoneAt, SelectInSeq
      <3>2. QED
        BY <2>1, <2>3, <3>1
    <2>4. CASE wire[c] # <<>>
      <3>1. PICK d \in 2..Len(wire[c]) : Opened(wire[c], d, made) /\ Followed(wire[c], d, seen[c])
        BY <1>1, <2>4 DEF BusInv, WireInv
      <3>2. DoneAt(c) = d
        BY <2>2, <3>1, DoneIs
      <3>3. QED
        BY <2>1, <3>1, <3>2 DEF Followed
    <2>5. QED
      BY <2>3, <2>4
  <1>2. QED
    BY <1>1, BusInvariant, PTL

(* Every connection opens with ChannelList, then messages by ts, then      *)
(* cards, then ReplayDone, and nothing else before it (bus.py replay).     *)
THEOREM HandshakeComesFirst == Spec => []HandshakeFirst
  <1>1. ASSUME BusInv PROVE HandshakeFirst
    <2> DEFINE head(c) == SubSeq(wire[c], 1, DoneAt(c))
    <2>1. ASSUME NEW c \in Conns, wire[c] # <<>>
          PROVE  /\ head(c) # <<>> /\ head(c)[1] = ChannelList
                 /\ \A k \in 1..(Len(head(c)) - 1) :
                       \/ Rank(head(c)[k]) < Rank(head(c)[k + 1])
                       \/ Rank(head(c)[k]) = 2 /\ Rank(head(c)[k + 1]) = 2
                            /\ made[head(c)[k].id] <= made[head(c)[k + 1].id]
                       \/ Rank(head(c)[k]) = 3 /\ Rank(head(c)[k + 1]) = 3
      <3>1. PICK w : w = wire[c]
        OBVIOUS
      <3>2. w \in Seq(Frames)
        BY <1>1, <3>1 DEF BusInv, WireInv
      <3>3. PICK d \in 2..Len(w) : Opened(w, d, made)
        BY <1>1, <2>1, <3>1 DEF BusInv, WireInv
      <3>4. DoneAt(c) = d
        BY <3>1, <3>2, <3>3, DoneIs
      <3>5. PICK h : h = SubSeq(w, 1, d)
        OBVIOUS
      <3>6. head(c) = h
        BY <3>1, <3>4, <3>5
      <3>7. Len(h) = d /\ \A k \in 1..d : h[k] = w[k]
        BY <3>2, <3>3, <3>5
      <3>8. \A k \in 1..(d - 1) : k \in 1..d /\ (k + 1) \in 1..d
        BY <3>3
      <3>9. h # <<>> /\ h[1] = ChannelList
        BY <3>3, <3>7 DEF Opened
      <3>10. \A k \in 1..(d - 1) : InOrder(h[k], h[k + 1], made)
        BY <3>3, <3>7, <3>8 DEF Opened
      <3> HIDE DEF head
      <3>11. QED
        BY <3>6, <3>7, <3>9, <3>10 DEF InOrder
    <2>2. QED
      BY <2>1 DEF HandshakeFirst, Rank
  <1>2. QED
    BY <1>1, BusInvariant, PTL

-----------------------------------------------------------------------------
(* The observer.                                                           *)

(* Of the rows an older observer left, one stays for each key.             *)
LEMMA MigratedOnce ==
    ASSUME NEW table \in LegacyRows
    PROVE  /\ Migrated(table) \in Seq({table[k] : k \in DOMAIN table})
           /\ \A j, k \in DOMAIN Migrated(table) :
                j < k /\ Migrated(table)[j].key # <<>>
                  => Migrated(table)[j].key # Migrated(table)[k].key
  <1> DEFINE T == {table[k] : k \in DOMAIN table}
             places == {k \in DOMAIN table : \/ table[k].key = <<>>
                                             \/ \A j \in 1..(k - 1) : table[j].key # table[k].key}
             n == Cardinality(places)
             res == Migrated(table)
  <1>1. table \in Seq(T)
    BY ObserverAssumption
  <1>2. res = Picked(table, places)
    BY DEF Migrated
  <1>3. places \subseteq DOMAIN table
    OBVIOUS
  <1> DEFINE picked == Picked(table, places)
  <1> HIDE DEF places, T
  <1>4. /\ Cardinality(places) \in Nat /\ picked \in Seq(T) /\ Len(picked) = Cardinality(places)
        /\ \E at \in Bijection(1..Cardinality(places), places) :
              /\ \A j, k \in 1..Cardinality(places) : j < k => at[j] < at[k]
              /\ \A k \in 1..Cardinality(places) : picked[k] = table[at[k]]
    BY <1>1, <1>3, PickedPlaces
  <1> HIDE DEF res, picked
  <1>5. res = picked
    BY <1>2 DEF picked
  <1>6. PICK at \in Bijection(1..n, places) :
              /\ \A j, k \in 1..n : j < k => at[j] < at[k]
              /\ \A k \in 1..n : picked[k] = table[at[k]]
    BY <1>4
  <1>7. at \in [1..n -> places] /\ DOMAIN res = 1..n
    BY <1>4, <1>5, <1>6 DEF Bijection, Injection
  <1>8. places \subseteq Nat \ {0}
    <2>1. DOMAIN table \subseteq Nat \ {0}
      BY <1>1
    <2>2. QED
      BY <1>3, <2>1
  <1> HIDE DEF n
  <1>9. ASSUME NEW j \in 1..n, NEW k \in 1..n, j < k, res[j].key # <<>>
        PROVE  res[j].key # res[k].key
    <2>1. /\ at[j] \in places /\ at[k] \in places /\ at[j] < at[k]
          /\ res[j] = table[at[j]] /\ res[k] = table[at[k]]
      BY <1>5, <1>6, <1>7, <1>9
    <2>2. at[j] \in 1..(at[k] - 1)
      <3>1. at[j] \in Nat \ {0} /\ at[k] \in Nat \ {0}
        BY <1>8, <2>1
      <3>2. QED
        BY <2>1, <3>1
    <2>3. CASE table[at[k]].key = <<>>
      BY <1>9, <2>1, <2>3
    <2>4. CASE \A i \in 1..(at[k] - 1) : table[i].key # table[at[k]].key
      BY <2>1, <2>2, <2>4
    <2>5. QED
      BY <2>1, <2>3, <2>4 DEF places
  <1>10. QED
    BY <1>4, <1>5, <1>7, <1>9 DEF res, T

HasKey(table, key) == \E k \in DOMAIN table : table[k].key = key

KeyedOnce(table) ==
    \A j, k \in DOMAIN table : j < k /\ table[j].key # <<>> => table[j].key # table[k].key

(* INSERT OR IGNORE: the table stays a table, keeps what it has and gains  *)
(* the key it was given, no key twice.                                     *)
LEMMA InsertOnce ==
    ASSUME NEW T, NEW table \in Seq(T), NEW row \in T, KeyedOnce(table)
    PROVE  /\ insert_event(table, row) \in Seq(T)
           /\ KeyedOnce(insert_event(table, row))
           /\ HasKey(insert_event(table, row), row.key)
           /\ \A key : HasKey(table, key) => HasKey(insert_event(table, row), key)
  <1> DEFINE held == row.key # <<>> /\ \E k \in DOMAIN table : table[k].key = row.key
  <1>1. CASE held
    <2>1. insert_event(table, row) = table
      BY <1>1 DEF insert_event
    <2>2. QED
      BY <1>1, <2>1 DEF HasKey
  <1>2. CASE ~ held
    <2>1. PICK t : t = Append(table, row)
      OBVIOUS
    <2>2. insert_event(table, row) = t
      BY <1>2, <2>1 DEF insert_event
    <2>3. PICK n \in Nat : n = Len(table)
      OBVIOUS
    <2>4. /\ t \in Seq(T) /\ DOMAIN t = 1..(n + 1) /\ DOMAIN table = 1..n
          /\ t[n + 1] = row /\ \A k \in 1..n : t[k] = table[k]
      BY <2>1, <2>3
    <2>5. 1..(n + 1) = 1..n \cup {n + 1}
      OBVIOUS
    <2>6. ASSUME NEW j \in 1..(n + 1), NEW k \in 1..(n + 1), j < k, t[j].key # <<>>
          PROVE  t[j].key # t[k].key
      <3>1. j \in 1..n
        BY <2>6
      <3>2. CASE k \in 1..n
        BY <2>4, <2>6, <3>1, <3>2 DEF KeyedOnce
      <3>3. CASE k = n + 1
        BY <1>2, <2>4, <2>6, <3>1, <3>3
      <3>4. QED
        BY <2>5, <3>2, <3>3
    <2>7. QED
      BY <2>2, <2>4, <2>5, <2>6 DEF HasKey, KeyedOnce
  <1>3. QED
    BY <1>1, <1>2

LEMMA TapInit ==
    ASSUME ObserverInit
    PROVE  ObserverInv
  <1>1. BusInv
    BY BusInit DEF ObserverInit
  <1>2. PICK table \in LegacyRows : rows = Migrated(table)
    BY DEF ObserverInit
  <1>3. rows \in Seq({table[k] : k \in DOMAIN table}) /\ OneRowEach
    BY <1>2, MigratedOnce DEF OneRowEach
  <1>4. rows \in Seq(TableRows)
    <2> DEFINE T == {table[k] : k \in DOMAIN table}
    <2>1. T \subseteq TableRows
      BY DEF TableRows
    <2>2. rows \in Seq(T)
      BY <1>3
    <2> HIDE DEF T
    <2>3. QED
      BY <2>1, <2>2
  <1>5. /\ read \in [Conns -> Nat] /\ \A c \in Conns : read[c] = 0
        /\ \A c \in Conns : Len(wire[c]) = 0
    BY DEF ObserverInit, Init
  <1>6. \A c \in Conns : read[c] <= Len(wire[c]) /\ 1..read[c] = {}
    BY <1>5
  <1>7. TapInv
    BY <1>3, <1>4, <1>5, <1>6 DEF TapInv
  <1>8. QED
    BY <1>1, <1>7 DEF ObserverInv

(* What has been read of a wire stays as it was.                           *)
LEMMA ReadStays ==
    ASSUME BusInv, [Next]_vars, NEW c \in Conns, NEW n \in Nat, n <= Len(wire[c])
    PROVE  n <= Len(wire'[c]) /\ \A k \in 1..n : wire'[c][k] = wire[c][k]
  <1>1. PICK w : w = wire[c]
    OBVIOUS
  <1>2. w \in Seq(Frames) /\ (handler[c] = "new" <=> w = <<>>)
    BY <1>1 DEF BusInv, WireInv, SessionInv
  <1>3. ASSUME NEW e \in Frames, wire'[c] = Append(w, e)
        PROVE  n <= Len(wire'[c]) /\ \A k \in 1..n : wire'[c][k] = w[k]
    <2>1. PICK v : v = Append(w, e)
      OBVIOUS
    <2>2. Len(v) = Len(w) + 1 /\ Len(w) \in Nat /\ \A k \in 1..Len(w) : v[k] = w[k]
      BY <1>2, <2>1
    <2>3. QED
      BY <1>1, <1>3, <2>1, <2>2
  <1>4. CASE w = <<>>
    <2>1. n = 0
      BY <1>1, <1>4
    <2>2. Len(wire'[c]) \in Nat
      <3>1. wire'[c] \in Seq(Frames)
        BY WireStep DEF WireInv
      <3>2. QED
        BY <3>1
    <2>3. QED
      BY <2>1, <2>2
  <1>5. CASE w # <<>>
    <2>1. handler[c] # "new"
      BY <1>2, <1>5
    <2>2. wire'[c] = w \/ \E e \in Frames : wire'[c] = Append(w, e)
      <3>1. \A m \in Msgs : Live("ChatMessage", m) \in Frames
        BY FrameKinds
      <3>2. QED
        BY <1>1, <2>1, <3>1, WireMoves DEF Moved
    <2>3. QED
      BY <1>1, <1>3, <2>2
  <1>6. QED
    BY <1>1, <1>4, <1>5

(* The bus moves, the observer does not.                                   *)
LEMMA TapRests ==
    ASSUME ObserverInv, [Next]_vars, UNCHANGED observerVars
    PROVE  ObserverInv'
  <1>1. BusInv'
    BY BusStepKeeps DEF ObserverInv
  <1>2. UNCHANGED <<rows, read, failed>>
    BY DEF observerVars
  <1>3. ASSUME NEW c \in Conns
        PROVE  /\ read[c] <= Len(wire'[c])
               /\ \A k \in 1..read[c] : LET key == dedup_key(wire'[c][k])
                                        IN  key # <<>> => Stored(key) \/ key \in failed
    <2>1. /\ read[c] \in Nat /\ read[c] <= Len(wire[c])
          /\ \A k \in 1..read[c] : LET key == dedup_key(wire[c][k])
                                   IN  key # <<>> => Stored(key) \/ key \in failed
      BY DEF ObserverInv, TapInv
    <2>2. read[c] <= Len(wire'[c]) /\ \A k \in 1..read[c] : wire'[c][k] = wire[c][k]
      BY <2>1, ReadStays DEF ObserverInv
    <2>3. QED
      BY <2>1, <2>2
  <1>4. /\ rows' \in Seq(TableRows) /\ read' \in [Conns -> Nat] /\ OneRowEach'
    BY <1>2 DEF ObserverInv, TapInv, OneRowEach
  <1>5. TapInv'
    <2>1. \A key : Stored(key)' <=> Stored(key)
      BY <1>2 DEF Stored
    <2>2. QED
      BY <1>2, <1>3, <1>4 DEF TapInv, Stored
  <1>6. QED
    BY <1>1, <1>5 DEF ObserverInv

(* The frame read next is stored, dropped or lost.                         *)
LEMMA TapReads ==
    ASSUME ObserverInv, NEW c \in Taps, Ingest(c) \/ IngestFails(c)
    PROVE  ObserverInv'
  <1> USE ObserverAssumption
  <1> DEFINE e == NextFrame(c)
             key == dedup_key(e)
             Has(k) == \E i \in DOMAIN rows' : rows'[i].key = k
  <1>1. /\ c \in Conns /\ read[c] \in Nat /\ read[c] < Len(wire[c]) /\ UNCHANGED vars
        /\ read' = [read EXCEPT ![c] = @ + 1]
    BY DEF ObserverInv, TapInv, Ingest, IngestFails, Unread
  <1>2. e \in Frames
    <2>1. wire[c] \in Seq(Frames)
      BY <1>1 DEF ObserverInv, BusInv, WireInv
    <2>2. (read[c] + 1) \in 1..Len(wire[c])
      BY <1>1, <2>1
    <2>3. QED
      BY <2>1, <2>2 DEF NextFrame
  <1>3. BusInv'
    <2>1. [Next]_vars
      BY <1>1
    <2>2. QED
      BY <2>1, BusStepKeeps DEF ObserverInv
  <1>4. /\ rows' \in Seq(TableRows) /\ OneRowEach'
        /\ \A k : Stored(k) => Has(k)
        /\ failed \subseteq failed'
        /\ key # <<>> => Has(key) \/ key \in failed'
    <2>0. rows \in Seq(TableRows) /\ KeyedOnce(rows)
      BY DEF ObserverInv, TapInv, OneRowEach, KeyedOnce
    <2>1. CASE Ingest(c) /\ e.kind \in DropKinds
      <3>1. UNCHANGED <<rows, failed>>
        BY <2>1 DEF Ingest
      <3>2. key = <<>>
        BY <2>1 DEF dedup_key, DropKinds
      <3>3. QED
        BY <2>0, <3>1, <3>2 DEF OneRowEach, KeyedOnce, Stored
    <2>2. CASE Ingest(c) /\ e.kind \notin DropKinds
      <3>1. PICK row, t : row = normalize(e) /\ t = insert_event(rows, row)
        OBVIOUS
      <3>2. rows' = t /\ failed' = failed
        BY <2>2, <3>1 DEF Ingest
      <3>3. row \in TableRows
        <4>1. e \in KeptFrames
          BY <1>2, <2>2 DEF KeptFrames
        <4> HIDE DEF e
        <4>2. QED
          BY <3>1, <4>1 DEF TableRows
      <3>4. row.key = key
        <4> HIDE DEF e
        <4>1. QED
          BY <3>1 DEF normalize
      <3>5. /\ t \in Seq(TableRows) /\ KeyedOnce(t) /\ HasKey(t, row.key)
            /\ \A k : HasKey(rows, k) => HasKey(t, k)
        BY <2>0, <3>1, <3>3, InsertOnce
      <3> HIDE DEF key
      <3>6. QED
        BY <3>2, <3>4, <3>5 DEF OneRowEach, KeyedOnce, HasKey, Stored
    <2>3. CASE IngestFails(c)
      <3>1. UNCHANGED rows /\ failed' = failed \cup {key}
        BY <2>3 DEF IngestFails
      <3>2. QED
        BY <2>0, <3>1 DEF OneRowEach, KeyedOnce, Stored
    <2>4. QED
      BY <2>1, <2>2, <2>3
  <1>5. ASSUME NEW d \in Conns
        PROVE  /\ read'[d] <= Len(wire'[d])
               /\ \A k \in 1..read'[d] : dedup_key(wire'[d][k]) # <<>> =>
                     \/ Has(dedup_key(wire'[d][k]))
                     \/ dedup_key(wire'[d][k]) \in failed'
    <2>1. wire' = wire
      BY <1>1 DEF vars
    <2>2. /\ read \in [Conns -> Nat] /\ read[d] <= Len(wire[d])
          /\ \A k \in 1..read[d] : dedup_key(wire[d][k]) # <<>> =>
                Stored(dedup_key(wire[d][k])) \/ dedup_key(wire[d][k]) \in failed
      BY DEF ObserverInv, TapInv
    <2>3. CASE d # c
      <3>1. read'[d] = read[d]
        BY <1>1, <2>2, <2>3
      <3> HIDE DEF Has
      <3>2. QED
        BY <1>4, <2>1, <2>2, <3>1
    <2>4. CASE d = c
      <3>1. read'[d] = read[d] + 1
        BY <1>1, <2>2, <2>4
      <3>2. \A k \in 1..read'[d] : k \in 1..read[d] \/ k = read[d] + 1
        BY <1>1, <2>4, <3>1
      <3>3. read'[d] <= Len(wire[d])
        <4>1. wire[d] \in Seq(Frames)
          BY DEF ObserverInv, BusInv, WireInv
        <4>2. QED
          BY <1>1, <2>4, <3>1, <4>1
      <3>4. wire[d][read[d] + 1] = e
        BY <2>4 DEF NextFrame
      <3> HIDE DEF e, Has
      <3>5. QED
        BY <1>4, <2>1, <2>2, <3>1, <3>2, <3>3, <3>4
    <2>5. QED
      BY <2>3, <2>4
  <1>6. read' \in [Conns -> Nat]
    BY <1>1 DEF ObserverInv, TapInv
  <1> HIDE DEF e, key
  <1>7. TapInv'
    BY <1>4, <1>5, <1>6 DEF TapInv, Stored
  <1>8. QED
    BY <1>3, <1>7 DEF ObserverInv

LEMMA ObserverInvariant == ObserverSpec => []ObserverInv
  <1>1. ObserverInit => ObserverInv
    BY TapInit
  <1>2. ASSUME ObserverInv, [ObserverNext]_allVars
        PROVE  ObserverInv'
    <2> USE ObserverAssumption
    <2>1. CASE BusStep
      <3>1. Next /\ UNCHANGED observerVars
        BY <2>1 DEF BusStep, Next
      <3>2. QED
        BY <1>2, <3>1, TapRests
    <2>2. CASE \E c \in Taps : TapConnect(c)
      <3>1. Next /\ UNCHANGED observerVars
        BY <2>2 DEF TapConnect, Next
      <3>2. QED
        BY <1>2, <3>1, TapRests
    <2>3. CASE \E c \in Taps : Ingest(c) \/ IngestFails(c)
      BY <1>2, <2>3, TapReads
    <2>4. CASE UNCHANGED allVars
      <3>1. UNCHANGED vars /\ UNCHANGED observerVars
        BY <2>4 DEF allVars
      <3>2. QED
        BY <1>2, <3>1, TapRests
    <2>5. QED
      BY <1>2, <2>1, <2>2, <2>3, <2>4 DEF ObserverNext
  <1>3. QED
    BY <1>1, <1>2, PTL DEF ObserverSpec

(* However often a message or a card was streamed, drained and replayed,   *)
(* it has one row, in a migrated database too (store.py insert_event,      *)
(* _migrate).                                                              *)
THEOREM CountsNeverInflated == ObserverSpec => []OneRowEach
  <1>1. ObserverInv => OneRowEach
    BY DEF ObserverInv, TapInv
  <1>2. QED
    BY <1>1, ObserverInvariant, PTL

(* An observer that has read all its connection was sent knows everything  *)
(* the bus holds, but for what it failed to store (ingest.py ingest_loop). *)
THEOREM ObserverCatchesUp == ObserverSpec => []CaughtUpKnowsAll
  <1>1. ASSUME ObserverInv PROVE CaughtUpKnowsAll
    <2>1. ASSUME NEW c \in Taps \cap Registered, read[c] = Len(wire[c]),
                 NEW kind \in {"ChatMessage", "ConfirmationRequest"}, NEW id, Sent(c, kind, id)
          PROVE  Stored(<<kind, id>>) \/ <<kind, id>> \in failed
      <3>1. PICK e : (e = Live(kind, id) \/ e = Replayed(kind, id)) /\ Contains(wire[c], e)
        BY <2>1 DEF Sent
      <3>2. PICK k \in 1..Len(wire[c]) : wire[c][k] = e
        BY <3>1 DEF Contains
      <3>3. e.kind = kind /\ e.id = id
        BY <3>1, FrameKinds
      <3>4. dedup_key(e) = <<kind, id>> /\ <<kind, id>> # <<>>
        BY <3>3 DEF dedup_key
      <3>5. c \in Conns
        BY ObserverAssumption
      <3>6. \A i \in 1..read[c] : LET key == dedup_key(wire[c][i])
                                  IN  key # <<>> => Stored(key) \/ key \in failed
        BY <1>1, <3>5 DEF ObserverInv, TapInv
      <3>7. QED
        BY <2>1, <3>2, <3>4, <3>6
    <2>2. NoGap
      BY <1>1 DEF ObserverInv, BusInv
    <2>3. QED
      BY <2>1, <2>2 DEF CaughtUpKnowsAll, NoGap
  <1>2. QED
    BY <1>1, ObserverInvariant, PTL
=============================================================================
