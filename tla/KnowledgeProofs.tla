--------------------------- MODULE KnowledgeProofs ---------------------------
(***************************************************************************)
(* For every set of boards, names, threads and schematics: no schematic    *)
(* that is ever parsed makes, changes or hides a documented limit, or the  *)
(* datasheet a snapshot is grounded in.                                    *)
(*                                                                         *)
(* The invariant behind it: the profile is the documented one with entries *)
(* appended that name no datasheet and no limit.  Lookups take the first   *)
(* entry that fits, so that a documented one always wins and an appended   *)
(* one answers what no entry at all would.                                 *)
(*                                                                         *)
(* Then: a FrameRef shows its own still, one board is served at a time, a  *)
(* schematic parsed again adds nothing, what is served has been merged, a  *)
(* cut list of passages is the head of the ranking, what a datasheet       *)
(* lookup quotes is the documented limit, and a designator asked of the    *)
(* BOM finds its own item first.                                           *)
(***************************************************************************)
EXTENDS BenchLookups, WellFoundedInduction, SequenceLemmas, TLAPS

\* doc with parts appended that have no datasheet.
PartsKept(doc, cur) ==
    /\ \E S : doc \in Seq(S) /\ cur \in Seq(S)
    /\ Len(doc) <= Len(cur)
    /\ \A i \in 1..Len(doc) : cur[i] = doc[i]
    /\ \A i \in 1..Len(cur) : i > Len(doc) => cur[i].datasheet = None

\* doc with nets appended that have no limits.
NetsKept(doc, cur) ==
    /\ \E S : doc \in Seq(S) /\ cur \in Seq(S)
    /\ Len(doc) <= Len(cur)
    /\ \A i \in 1..Len(doc) : cur[i] = doc[i]
    /\ \A i \in 1..Len(cur) : i > Len(doc) => cur[i].maxV = None /\ cur[i].maxI = None

Kept(doc, cur) ==
    /\ PartsKept(doc.parts, cur.parts)
    /\ NetsKept(doc.nets, cur.nets)
    /\ cur.rails = doc.rails

-----------------------------------------------------------------------------
(* The CHOOSE of FirstOf is the least of its set.                           *)
Least(T) == CHOOSE i \in T : \A j \in T : i <= j

LEMMA LeastIs ==
    ASSUME NEW T, T \subseteq Nat, NEW x \in T, \A y \in T : x <= y
    PROVE  Least(T) = x
  <1>1. Least(T) \in T /\ \A y \in T : Least(T) <= y
    BY Zenon DEF Least
  <1>2. Least(T) \in Nat /\ x \in Nat /\ x <= Least(T) /\ Least(T) <= x
    BY <1>1, Zenon
  <1> QED
    BY <1>2

\* The hits low of doc are the first hits of the longer list cur.
Heads(doc, cur, low, hits) ==
    /\ hits \subseteq Nat /\ low \subseteq hits /\ low # {}
    /\ \A i \in hits : \A j \in low : i \in low \/ j <= i
    /\ \A i \in low : cur[i] = doc[i]

(* The first of the hits in a longer list is the first of the hits in its  *)
(* head, if there is one (BoardProfile.net, rail and part).                *)
LEMMA FirstInHead ==
    ASSUME NEW doc, NEW cur, NEW low, NEW hits, Heads(doc, cur, low, hits)
    PROVE  FirstOf(cur, hits) = FirstOf(doc, low)
  <1>0. low \subseteq Nat /\ hits \subseteq Nat /\ low # {}
    BY DEF Heads
  <1>1. PICK x \in low : \A y \in low : x <= y
    BY <1>0, Smallest, Zenon
  <1>2. x \in hits /\ \A y \in hits : x <= y
    BY <1>1 DEF Heads
  <1>3. Least(low) = x /\ Least(hits) = x
    BY <1>0, <1>1, <1>2, LeastIs, Zenon
  <1>4. cur[x] = doc[x]
    BY <1>1 DEF Heads
  <1>5. QED
    BY <1>3, <1>4 DEF FirstOf, Least

LEMMA FirstIsHit ==
    ASSUME NEW cur, NEW hits, hits \subseteq Nat, hits # {}
    PROVE  \E i \in hits : FirstOf(cur, hits) = cur[i]
  <1>1. PICK x \in hits : \A y \in hits : x <= y
    BY Smallest, Zenon
  <1>2. Least(hits) = x
    BY <1>1, LeastIs, Zenon
  <1>3. QED
    BY <1>1, <1>2 DEF FirstOf, Least

-----------------------------------------------------------------------------
(* What a part's name leads to is what the documented parts lead to.       *)
LEMMA SheetKept ==
    ASSUME NEW doc, NEW cur, NEW target, PartsKept(doc.parts, cur.parts)
    PROVE  SheetOf(cur, target) = SheetOf(doc, target)
  <1> DEFINE hits == PartHits(cur, target)
             low == PartHits(doc, target)
             n == Len(doc.parts)
  <1>1. /\ n \in Nat /\ hits \subseteq Nat
        /\ DOMAIN doc.parts = 1..n /\ DOMAIN cur.parts = 1..Len(cur.parts)
        /\ Len(cur.parts) \in Nat /\ n <= Len(cur.parts)
    BY DEF PartsKept, PartHits
  <1>2. low \subseteq hits /\ \A i \in hits : \A j \in low : i \in low \/ j <= i
    <2>1. low \subseteq hits
      BY <1>1 DEF PartsKept, PartHits
    <2>2. \A i \in hits : i <= n => i \in low
      BY <1>1 DEF PartsKept, PartHits
    <2>3. \A j \in low : j \in 1..n
      BY <1>1 DEF PartHits
    <2> HIDE DEF hits, low, n
    <2>4. ASSUME NEW i \in hits, NEW j \in low, i \notin low
          PROVE  j <= i
      <3>1. i \in Nat /\ n \in Nat /\ j \in 1..n
        BY <1>1, <2>3
      <3>2. ~ (i <= n)
        BY <2>2, <2>4
      <3>3. QED
        BY ONLY <3>1, <3>2
    <2>5. QED
      BY <2>1, <2>4
  <1>3. \A i \in low : cur.parts[i] = doc.parts[i]
    BY <1>1 DEF PartsKept, PartHits
  <1>4. \A i \in hits : i \notin low => cur.parts[i].datasheet = None
    BY <1>1, <1>2 DEF PartsKept, PartHits
  <1>5. SheetOf(cur, target) = IF hits = {} THEN None ELSE FirstOf(cur.parts, hits).datasheet
    BY DEF SheetOf
  <1>6. SheetOf(doc, target) = IF low = {} THEN None ELSE FirstOf(doc.parts, low).datasheet
    BY DEF SheetOf
  <1> HIDE DEF hits, low, n
  <1>7. CASE low # {}
    <2>0. Heads(doc.parts, cur.parts, low, hits)
      BY <1>1, <1>2, <1>3, <1>7 DEF Heads
    <2>1. FirstOf(cur.parts, hits) = FirstOf(doc.parts, low)
      BY <2>0, FirstInHead
    <2>2. hits # {}
      BY <1>2, <1>7
    <2> QED
      BY <2>1, <2>2, <1>5, <1>6, <1>7
  <1>8. CASE low = {}
    <2>1. CASE hits = {}
      BY <2>1, <1>5, <1>6, <1>8
    <2>2. CASE hits # {}
      <3>1. PICK i \in hits : FirstOf(cur.parts, hits) = cur.parts[i]
        BY <1>1, <2>2, FirstIsHit
      <3> QED
        BY <3>1, <2>2, <1>4, <1>5, <1>6, <1>8
    <2> QED
      BY <2>1, <2>2
  <1>9. QED
    BY <1>7, <1>8

LEMMA NetKept ==
    ASSUME NEW doc, NEW cur, NEW target, NetsKept(doc.nets, cur.nets)
    PROVE  from_net(cur, target) = from_net(doc, target)
  <1> DEFINE hits == NetHits(cur, target)
             low == NetHits(doc, target)
             n == Len(doc.nets)
             Found(net) == IF net.maxV = None /\ net.maxI = None THEN NotFound
                           ELSE FoundLimit(net.maxV, net.maxI, <<"nets", target>>)
  <1>1. /\ n \in Nat /\ hits \subseteq Nat
        /\ DOMAIN doc.nets = 1..n /\ DOMAIN cur.nets = 1..Len(cur.nets)
        /\ Len(cur.nets) \in Nat /\ n <= Len(cur.nets)
    BY DEF NetsKept, NetHits
  <1>2. low \subseteq hits /\ \A i \in hits : \A j \in low : i \in low \/ j <= i
    BY <1>1 DEF NetsKept, NetHits
  <1>3. \A i \in low : cur.nets[i] = doc.nets[i]
    BY <1>1 DEF NetsKept, NetHits
  <1>4. \A i \in hits : i \notin low => cur.nets[i].maxV = None /\ cur.nets[i].maxI = None
    BY <1>1, <1>2 DEF NetsKept, NetHits
  <1>5. from_net(cur, target) = IF hits = {} THEN NotFound ELSE Found(FirstOf(cur.nets, hits))
    BY DEF from_net
  <1>6. from_net(doc, target) = IF low = {} THEN NotFound ELSE Found(FirstOf(doc.nets, low))
    BY DEF from_net
  <1>7. \A net : net.maxV = None /\ net.maxI = None => Found(net) = NotFound
    OBVIOUS
  <1> HIDE DEF hits, low, n, Found
  <1>8. CASE low # {}
    <2>0. Heads(doc.nets, cur.nets, low, hits)
      BY <1>1, <1>2, <1>3, <1>8 DEF Heads
    <2>1. FirstOf(cur.nets, hits) = FirstOf(doc.nets, low)
      BY <2>0, FirstInHead
    <2>2. hits # {}
      BY <1>2, <1>8
    <2> QED
      BY <2>1, <2>2, <1>5, <1>6, <1>8
  <1>9. CASE low = {}
    <2>1. CASE hits = {}
      BY <2>1, <1>5, <1>6, <1>9
    <2>2. CASE hits # {}
      <3>1. PICK i \in hits : FirstOf(cur.nets, hits) = cur.nets[i]
        BY <1>1, <2>2, FirstIsHit
      <3>2. Found(FirstOf(cur.nets, hits)) = NotFound
        BY <3>1, <1>4, <1>7, <1>9
      <3> QED
        BY <3>2, <2>2, <1>5, <1>6, <1>9
    <2> QED
      BY <2>1, <2>2
  <1>10. QED
    BY <1>8, <1>9

LEMMA PartLimitKept ==
    ASSUME NEW doc, NEW cur, NEW target, PartsKept(doc.parts, cur.parts)
    PROVE  from_part(cur, target) = from_part(doc, target)
  <1>1. \A t : SheetOf(cur, t) = SheetOf(doc, t)
    BY SheetKept
  <1>2. \A t : normalize_part(cur, t) = normalize_part(doc, t)
    BY <1>1 DEF normalize_part
  <1>3. QED
    BY <1>1, <1>2 DEF from_part

LEMMA ResolveKept ==
    ASSUME NEW doc, NEW cur, NEW target, NEW kind, Kept(doc, cur)
    PROVE  resolve(cur, target, kind) = resolve(doc, target, kind)
  <1>1. from_net(cur, target) = from_net(doc, target)
    BY NetKept DEF Kept
  <1>2. from_part(cur, target) = from_part(doc, target)
    BY PartLimitKept DEF Kept
  <1>3. from_rail(cur, target) = from_rail(doc, target)
    BY DEF Kept, from_rail, RailHits
  <1>4. QED
    BY <1>1, <1>2, <1>3 DEF resolve

(* The words of a note choose among the documented parts (analyzer._ground). *)
LEMMA GroundKept ==
    ASSUME NEW doc, NEW cur, NEW words, PartsKept(doc.parts, cur.parts)
    PROVE  ground(cur, words, None) = ground(doc, words, None)
  <1>1. Sheeted(cur) = Sheeted(doc) /\ Sheeted(doc) \subseteq Nat
    BY DEF PartsKept, Sheeted
  <1>2. \A i \in Sheeted(doc) : cur.parts[i] = doc.parts[i]
    BY DEF PartsKept, Sheeted
  <1>3. Named(cur, words) = Named(doc, words) /\ Named(doc, words) \subseteq Sheeted(doc)
    BY <1>1, <1>2 DEF Named
  <1>4. ASSUME NEW hits, hits \subseteq Sheeted(doc), hits # {}
        PROVE  FirstOf(cur.parts, hits) = FirstOf(doc.parts, hits)
    <2>1. Heads(doc.parts, cur.parts, hits, hits)
      BY <1>1, <1>2, <1>4 DEF Heads
    <2>2. QED
      BY <2>1, FirstInHead
  <1>5. QED
    BY <1>1, <1>3, <1>4 DEF ground

-----------------------------------------------------------------------------
(* What merge_schematic appends.                                           *)
Extends(doc, cur, x, new) ==
    /\ \E T : doc \in Seq(T) /\ new \in Seq(T)
    /\ Len(new) = Len(cur) + 1
    /\ \A i \in 1..Len(cur) : new[i] = cur[i]
    /\ new[Len(cur) + 1] = x

LEMMA Grown ==
    ASSUME NEW doc, NEW cur, NEW x, NEW S, doc \in Seq(S), cur \in Seq(S)
    PROVE  Extends(doc, cur, x, Append(cur, x))
  <1>1. doc \in Seq(S \cup {x}) /\ cur \in Seq(S \cup {x})
    OBVIOUS
  <1>2. Append(cur, x) \in Seq(S \cup {x})
    BY <1>1
  <1>3. QED
    BY <1>1, <1>2 DEF Extends

LEMMA PartAdded ==
    ASSUME NEW doc, NEW cur, NEW part, PartsKept(doc, cur), part.datasheet = None
    PROVE  PartsKept(doc, Append(cur, part))
  <1>1. PICK S : doc \in Seq(S) /\ cur \in Seq(S)
    BY DEF PartsKept
  <1> DEFINE new == Append(cur, part)
  <1>2. Extends(doc, cur, part, new)
    BY <1>1, Grown
  <1>3. Len(doc) \in Nat /\ Len(cur) \in Nat
    BY <1>1
  <1> HIDE DEF new
  <1>4. \A i \in 1..Len(new) : i > Len(doc) => new[i].datasheet = None
    <2>1. \A i \in 1..Len(cur) : i > Len(doc) => cur[i].datasheet = None
      BY DEF PartsKept
    <2>2. \A i \in 1..Len(new) : i = Len(cur) + 1 \/ i \in 1..Len(cur)
      BY <1>2, <1>3 DEF Extends
    <2>3. QED
      BY <1>2, <2>1, <2>2 DEF Extends
  <1>5. PartsKept(doc, new)
    BY <1>2, <1>3, <1>4 DEF PartsKept, Extends
  <1>6. QED
    BY <1>5 DEF new

LEMMA NetAdded ==
    ASSUME NEW doc, NEW cur, NEW net, NetsKept(doc, cur), net.maxV = None, net.maxI = None
    PROVE  NetsKept(doc, Append(cur, net))
  <1>1. PICK S : doc \in Seq(S) /\ cur \in Seq(S)
    BY DEF NetsKept
  <1> DEFINE new == Append(cur, net)
  <1>2. Extends(doc, cur, net, new)
    BY <1>1, Grown
  <1>3. Len(doc) \in Nat /\ Len(cur) \in Nat
    BY <1>1
  <1> HIDE DEF new
  <1>4. \A i \in 1..Len(new) : i > Len(doc) => new[i].maxV = None /\ new[i].maxI = None
    <2>1. \A i \in 1..Len(cur) : i > Len(doc) => cur[i].maxV = None /\ cur[i].maxI = None
      BY DEF NetsKept
    <2>2. \A i \in 1..Len(new) : i = Len(cur) + 1 \/ i \in 1..Len(cur)
      BY <1>2, <1>3 DEF Extends
    <2>3. QED
      BY <1>2, <2>1, <2>2 DEF Extends
  <1>5. NetsKept(doc, new)
    BY <1>2, <1>3, <1>4 DEF NetsKept, Extends
  <1>6. QED
    BY <1>5 DEF new

-----------------------------------------------------------------------------
(* A board's file names parts, rails and nets; nothing has been added yet. *)
LEMMA KeptAtFirst ==
    ASSUME NEW p \in Profiles
    PROVE  Kept(p, p) /\ p = [parts |-> p.parts, rails |-> p.rails, nets |-> p.nets]
  <1>1. PartsKept(p.parts, p.parts)
    BY DEF Profiles, PartsKept
  <1>2. NetsKept(p.nets, p.nets)
    BY DEF Profiles, NetsKept
  <1>3. QED
    BY <1>1, <1>2 DEF Profiles, Kept

LEMMA DocumentedIsProfile ==
    ASSUME env \in Started
    PROVE  Documented \in Profiles
  <1>1. profile_board(env) = "custom" \/ profile_board(env) \in DOMAIN Boards
    BY BoardsAssumption DEF profile_board, Shortcut
  <1>2. QED
    BY <1>1, BoardsAssumption DEF Documented, ProfileOf

-----------------------------------------------------------------------------
ProfileInv ==
    /\ env \in Started
    /\ profile = [parts |-> profile.parts, rails |-> profile.rails, nets |-> profile.nets]
    /\ Kept(Documented, profile)

\* What is cached and what was answered is what the file documents.
LimitsInv ==
    /\ resolver = [generation |-> resolver.generation, cache |-> resolver.cache]
    /\ \A key \in DOMAIN resolver.cache :
          resolver.cache[key] = resolve(Documented, key[1], key[2])
    /\ answer.limit = resolve(Documented, answer.asked[1], answer.asked[2])

Inv == ProfileInv /\ LimitsInv

LEMMA InvInit == Init => Inv
  <1> SUFFICES ASSUME Init PROVE Inv
    OBVIOUS
  <1>1. Documented \in Profiles
    BY DocumentedIsProfile DEF Init
  <1>2. ProfileInv
    BY <1>1, KeptAtFirst DEF Init, ProfileInv
  <1>3. resolve(Documented, None, "other") = NotFound
    BY DEF resolve
  <1>4. LimitsInv
    BY <1>3 DEF Init, LimitsInv
  <1>5. QED
    BY <1>2, <1>4 DEF Inv

\* The documented profile never changes, for the environment does not.
LEMMA DocumentedStays ==
    ASSUME env' = env
    PROVE  Documented' = Documented
  BY DEF Documented

\* A step that leaves the profile alone.
LEMMA ProfileUnchanged ==
    ASSUME ProfileInv, env' = env, profile' = profile
    PROVE  ProfileInv'
  BY DocumentedStays DEF ProfileInv

LEMMA LimitsUnchanged ==
    ASSUME LimitsInv, env' = env, resolver' = resolver, answer' = answer
    PROVE  LimitsInv'
  BY DocumentedStays DEF LimitsInv

LEMMA PartMinted ==
    ASSUME NEW comp, ProfileInv, env' = env,
           profile' = [profile EXCEPT !.parts = Added(@, MintedPart(comp))]
    PROVE  ProfileInv'
  <1>1. /\ profile'.parts = Append(profile.parts, MintedPart(comp))
        /\ profile'.rails = profile.rails /\ profile'.nets = profile.nets
        /\ profile' = [parts |-> profile'.parts, rails |-> profile'.rails, nets |-> profile'.nets]
    BY DEF ProfileInv, Added
  <1>2. MintedPart(comp).datasheet = None
    BY DEF MintedPart
  <1>3. PartsKept(Documented.parts, profile'.parts)
    <2> DEFINE minted == MintedPart(comp)
    <2>1. PartsKept(Documented.parts, profile.parts)
      BY DEF ProfileInv, Kept
    <2> HIDE DEF minted
    <2>2. PartsKept(Documented.parts, Append(profile.parts, minted))
      BY <1>2, <2>1, PartAdded DEF minted
    <2>3. QED
      BY <1>1, <2>2 DEF minted
  <1>4. Kept(Documented, profile')
    BY <1>1, <1>3 DEF ProfileInv, Kept
  <1>5. QED
    BY <1>1, <1>4, DocumentedStays DEF ProfileInv

LEMMA NetMinted ==
    ASSUME NEW net, ProfileInv, env' = env,
           profile' = [profile EXCEPT !.nets = Added(@, MintedNet(net))]
    PROVE  ProfileInv'
  <1>1. /\ profile'.nets = Append(profile.nets, MintedNet(net))
        /\ profile'.rails = profile.rails /\ profile'.parts = profile.parts
        /\ profile' = [parts |-> profile'.parts, rails |-> profile'.rails, nets |-> profile'.nets]
    BY DEF ProfileInv, Added
  <1>2. MintedNet(net).maxV = None /\ MintedNet(net).maxI = None
    BY DEF MintedNet
  <1>3. NetsKept(Documented.nets, profile'.nets)
    <2> DEFINE minted == MintedNet(net)
    <2>1. NetsKept(Documented.nets, profile.nets)
      BY DEF ProfileInv, Kept
    <2> HIDE DEF minted
    <2>2. NetsKept(Documented.nets, Append(profile.nets, minted))
      BY <1>2, <2>1, NetAdded DEF minted
    <2>3. QED
      BY <1>1, <2>2 DEF minted
  <1>4. Kept(Documented, profile')
    BY <1>1, <1>3 DEF ProfileInv, Kept
  <1>5. QED
    BY <1>1, <1>4, DocumentedStays DEF ProfileInv

LEMMA ResolvedIsDocumented ==
    ASSUME ProfileInv, NEW target, NEW kind
    PROVE  resolve(profile, target, kind) = resolve(Documented, target, kind)
  BY ResolveKept DEF ProfileInv

\* A limit that was not cached is resolved, answered and perhaps cached.
LEMMA LimitAdded ==
    ASSUME NEW c, Inv, LimitResolved(c)
    PROVE  LimitsInv'
  <1> DEFINE work == job[c]
             limit == resolve(profile, work.target, work.kind)
             added == [key \in DOMAIN resolver.cache \cup CacheKey(work) |->
                          IF key \in CacheKey(work) THEN limit ELSE resolver.cache[key]]
  <1>1. limit = resolve(Documented, work.target, work.kind)
    BY ResolvedIsDocumented DEF Inv
  <1>2. /\ env' = env
        /\ answer' = [asked |-> <<work.target, work.kind>>, limit |-> limit]
        /\ resolver' = resolver \/ resolver' = [resolver EXCEPT !.cache = added]
    BY DEF LimitResolved
  <1>3. \A key \in DOMAIN added :
           \/ key \in DOMAIN resolver.cache /\ added[key] = resolver.cache[key]
           \/ key = <<work.target, work.kind>> /\ added[key] = limit
    BY DEF CacheKey
  <1> HIDE DEF limit, work, added
  <1>4. \A key \in DOMAIN added : added[key] = resolve(Documented, key[1], key[2])
    BY <1>1, <1>3 DEF Inv, LimitsInv
  <1>5. answer'.limit = resolve(Documented, answer'.asked[1], answer'.asked[2])
    BY <1>1, <1>2
  <1>6. /\ resolver' = [generation |-> resolver'.generation, cache |-> resolver'.cache]
        /\ resolver'.cache = resolver.cache \/ resolver'.cache = added
    BY <1>2 DEF Inv, LimitsInv
  <1>7. \A key \in DOMAIN resolver'.cache :
           resolver'.cache[key] = resolve(Documented, key[1], key[2])
    BY <1>4, <1>6 DEF Inv, LimitsInv
  <1>8. QED
    BY <1>2, <1>5, <1>6, <1>7, DocumentedStays DEF LimitsInv

LEMMA InvNext == Inv /\ [Next]_vars => Inv'
  <1> SUFFICES ASSUME Inv, [Next]_vars PROVE Inv'
    OBVIOUS
  <1>1. CASE TakeSnapshot
    BY <1>1, ProfileUnchanged, LimitsUnchanged DEF Inv, TakeSnapshot
  <1>2. ASSUME NEW c \in Callers, IngestStep(c)
        PROVE  Inv'
    <2>1. CASE CacheSchematic(c)
      BY <2>1, ProfileUnchanged, LimitsUnchanged DEF Inv, CacheSchematic
    <2>2. CASE MergeScan(c)
      BY <2>2, ProfileUnchanged, LimitsUnchanged DEF Inv, MergeScan
    <2>3. CASE MergeComponent(c)
      <3>1. env' = env /\ resolver' = resolver /\ answer' = answer
        BY <2>3 DEF MergeComponent
      <3>2. \/ profile' = profile
            \/ \E comp : profile' = [profile EXCEPT !.parts = Added(@, MintedPart(comp))]
        BY <2>3 DEF MergeComponent
      <3>3. ProfileInv'
        BY <3>1, <3>2, ProfileUnchanged, PartMinted DEF Inv
      <3>4. QED
        BY <3>1, <3>3, LimitsUnchanged DEF Inv
    <2>4. CASE MergeNet(c)
      <3>1. env' = env /\ resolver' = resolver /\ answer' = answer
        BY <2>4 DEF MergeNet
      <3>2. \/ profile' = profile
            \/ \E net : profile' = [profile EXCEPT !.nets = Added(@, MintedNet(net))]
        BY <2>4 DEF MergeNet
      <3>3. ProfileInv'
        BY <3>1, <3>2, ProfileUnchanged, NetMinted DEF Inv
      <3>4. QED
        BY <3>1, <3>3, LimitsUnchanged DEF Inv
    <2>5. CASE NewResolver(c)
      <3>1. /\ env' = env /\ profile' = profile /\ answer' = answer
            /\ resolver' = [generation |-> resolver.generation + 1, cache |-> <<>>]
        BY <2>5 DEF NewResolver
      <3>2. ProfileInv'
        BY <3>1, ProfileUnchanged DEF Inv
      <3>3. DOMAIN resolver'.cache = {}
        BY <3>1
      <3>4. LimitsInv'
        BY <3>1, <3>3, DocumentedStays DEF Inv, LimitsInv
      <3>5. QED
        BY <3>2, <3>4 DEF Inv
    <2>6. QED
      BY <1>2, <2>1, <2>2, <2>3, <2>4, <2>5 DEF IngestStep
  <1>3. ASSUME NEW c \in Threads, VisionAnswers(c)
        PROVE  Inv'
    BY <1>3, ProfileUnchanged, LimitsUnchanged DEF Inv, VisionAnswers
  <1>4. ASSUME NEW c \in Threads, LimitResolved(c)
        PROVE  Inv'
    <2>1. env' = env /\ profile' = profile
      BY <1>4 DEF LimitResolved
    <2>2. ProfileInv'
      BY <2>1, ProfileUnchanged DEF Inv
    <2>3. LimitsInv'
      BY <1>4, LimitAdded
    <2>4. QED
      BY <2>2, <2>3 DEF Inv
  <1>5. ASSUME NEW c \in Threads, NEW uri \in 1..MaxFrames, ParseTool(c, uri)
        PROVE  Inv'
    BY <1>5, ProfileUnchanged, LimitsUnchanged DEF Inv, ParseTool
  <1>6. ASSUME NEW c \in Threads, NEW asked \in Asked, LimitCached(c, asked)
        PROVE  Inv'
    <2>1. /\ env' = env /\ profile' = profile /\ resolver' = resolver
          /\ asked \in DOMAIN resolver.cache
          /\ answer' = [asked |-> asked, limit |-> resolver.cache[asked]]
      BY <1>6 DEF LimitCached
    <2>2. ProfileInv'
      BY <2>1, ProfileUnchanged DEF Inv
    <2>3. answer'.limit = resolve(Documented, answer'.asked[1], answer'.asked[2])
      BY <2>1 DEF Inv, LimitsInv
    <2>4. LimitsInv'
      BY <2>1, <2>3, DocumentedStays DEF Inv, LimitsInv
    <2>5. QED
      BY <2>2, <2>4 DEF Inv
  <1>7. ASSUME NEW c \in Threads, NEW asked \in Asked, LimitMissed(c, asked)
        PROVE  Inv'
    BY <1>7, ProfileUnchanged, LimitsUnchanged DEF Inv, LimitMissed
  <1>8. CASE UNCHANGED vars
    BY <1>8, ProfileUnchanged, LimitsUnchanged DEF Inv, vars
  <1>9. QED
    BY <1>1, <1>2, <1>3, <1>4, <1>5, <1>6, <1>7, <1>8 DEF Next

LEMMA Invariance == Spec => []Inv
  BY InvInit, InvNext, PTL DEF Spec

-----------------------------------------------------------------------------
(* No parsed schematic ever makes, changes or hides a documented limit, in *)
(* the profile, in the resolver's cache or in an answer, however the       *)
(* threads' ingests and lookups overlap (board_profile.py:117-123).        *)
THEOREM LimitsAlwaysDocumented == Spec => []IngestPreservesLimits
  <1>1. Inv => IngestPreservesLimits
    BY ResolvedIsDocumented DEF Inv, LimitsInv, IngestPreservesLimits
  <1>2. QED
    BY <1>1, Invariance, PTL

(* Nor does it ever change the datasheet a snapshot is grounded in         *)
(* (analyzer.py:32-51).                                                    *)
THEOREM EvidenceAlwaysDocumented == Spec => []EvidenceIsDocumented
  <1>1. Inv => EvidenceIsDocumented
    BY GroundKept DEF Inv, ProfileInv, Kept, EvidenceIsDocumented
  <1>2. QED
    BY <1>1, Invariance, PTL

-----------------------------------------------------------------------------
(* The stills.                                                             *)

\* The n-th still is handed out under the n-th uri, and stored under no other.
FramesInv ==
    /\ handed \in Seq(Nat)
    /\ \A n \in DOMAIN handed : handed[n] = n
    /\ \A u \in DOMAIN blobs : blobs[u] = u

(* A FrameRef shows the still it was given out for or nothing, whatever    *)
(* the store's capacity and however many stills came after it              *)
(* (frame_store.py:43-50, genai_seams.py:715-719).                         *)
THEOREM FrameRefsAlwaysStable == Spec => []FrameRefsStable
  <1>1. Init => FramesInv
    BY DEF Init, FramesInv
  <1>2. FramesInv /\ [Next]_vars => FramesInv'
    <2> SUFFICES ASSUME FramesInv, [Next]_vars PROVE FramesInv'
      OBVIOUS
    <2>1. CASE TakeSnapshot
      <3>1. /\ handed' = Append(handed, frame_uri)
            /\ \A u \in DOMAIN blobs' :
                  blobs'[u] = IF u = frame_uri THEN Len(handed) + 1 ELSE blobs[u]
            /\ \A u \in DOMAIN blobs' : u = frame_uri \/ u \in DOMAIN blobs
        BY <2>1 DEF TakeSnapshot
      <3>2. frame_uri = Len(handed) + 1 /\ Len(handed) \in Nat
        BY DEF FramesInv, frame_uri
      <3>3. \A u \in DOMAIN blobs' : blobs'[u] = u
        BY <3>1, <3>2 DEF FramesInv
      <3>4. handed' \in Seq(Nat) /\ \A n \in DOMAIN handed' : handed'[n] = n
        BY <3>1, <3>2 DEF FramesInv
      <3>5. QED
        BY <3>3, <3>4 DEF FramesInv
    <2>2. CASE UNCHANGED <<blobs, handed>>
      BY <2>2 DEF FramesInv
    <2>3. ASSUME NEW c \in Callers, IngestStep(c)
          PROVE  UNCHANGED <<blobs, handed>>
      BY <2>3, Zenon DEF IngestStep, CacheSchematic, MergeScan, MergeComponent, MergeNet,
            NewResolver
    <2>4. ASSUME NEW c \in Threads, VisionAnswers(c) \/ LimitResolved(c)
          PROVE  UNCHANGED <<blobs, handed>>
      BY <2>4, Zenon DEF VisionAnswers, LimitResolved
    <2>5. ASSUME NEW c \in Threads, NEW uri \in 1..MaxFrames, ParseTool(c, uri)
          PROVE  UNCHANGED <<blobs, handed>>
      BY <2>5, Zenon DEF ParseTool
    <2>6. ASSUME NEW c \in Threads, NEW asked \in Asked,
                 LimitCached(c, asked) \/ LimitMissed(c, asked)
          PROVE  UNCHANGED <<blobs, handed>>
      BY <2>6, Zenon DEF LimitCached, LimitMissed
    <2>7. QED
      BY <2>1, <2>2, <2>3, <2>4, <2>5, <2>6, Zenon DEF Next, vars
  <1>3. FramesInv => FrameRefsStable
    BY DEF FramesInv, FrameRefsStable
  <1>4. QED
    BY <1>1, <1>2, <1>3, PTL DEF Spec

-----------------------------------------------------------------------------
(* What the callers are working on.                                        *)

IsWork(w) ==
    w = [sch |-> w.sch, components |-> w.components, nets |-> w.nets, refs |-> w.refs,
         ids |-> w.ids, target |-> w.target, kind |-> w.kind, generation |-> w.generation]

JobsInv ==
    /\ pc = [c \in Callers |-> pc[c]] /\ job = [c \in Callers |-> job[c]]
    /\ \A c \in Callers : IsWork(job[c])

LEMMA IngestIsWork ==
    ASSUME NEW sch
    PROVE  IsWork(Ingest(sch)) /\ Ingest(sch).sch = sch
  BY DEF Ingest, IsWork

LEMMA Went ==
    ASSUME NEW c \in Callers, JobsInv, NEW label, NEW work, IsWork(work), Goto(c, label, work)
    PROVE  /\ JobsInv'
           /\ pc'[c] = label /\ job'[c] = work
           /\ \A d \in Callers : d # c => pc'[d] = pc[d] /\ job'[d] = job[d]
  BY DEF JobsInv, Goto, IsWork

(* What is about to be, or was, taken for the board's schematic is one     *)
(* that comes with the profile, if it is a bundled one.                    *)
Belongs(sch) ==
    sch.origin = "bundled" =>
        \E name \in DOMAIN Boards : /\ sch = Boards[name].schematic
                                    /\ Documented = Boards[name].profile

BoardInv ==
    /\ env \in Started
    /\ Belongs(schematic)
    /\ \A c \in Callers : Belongs(job[c].sch)

LEMMA BoardInvInit == Init => JobsInv /\ BoardInv
  <1> SUFFICES ASSUME Init PROVE JobsInv /\ BoardInv
    OBVIOUS
  <1>1. NoSchematic.origin = "none"
    BY DEF NoSchematic, Stub
  <1>2. Belongs(NoSchematic)
    BY <1>1 DEF Belongs
  <1>3. Belongs(Bundled)
    <2>1. CASE schematic_board(env) = None
      BY <1>2, <2>1 DEF Bundled
    <2>2. CASE schematic_board(env) # None
      <3>1. /\ schematic_board(env) = Shortcut(env) /\ profile_board(env) = Shortcut(env)
        BY <2>2 DEF schematic_board, profile_board
      <3>2. Shortcut(env) \in DOMAIN Boards /\ Shortcut(env) # "custom"
        BY BoardsAssumption DEF Shortcut
      <3>3. /\ Bundled = Boards[Shortcut(env)].schematic
            /\ Documented = Boards[Shortcut(env)].profile
        BY <2>2, <3>1, <3>2 DEF Bundled, Documented, ProfileOf
      <3>4. QED
        BY <3>2, <3>3 DEF Belongs
    <2>3. QED
      BY <2>1, <2>2
  <1>4. \A c \in Callers : job[c] = Ingest(IF c = Boot THEN Bundled ELSE NoSchematic)
    BY DEF Init, NoJob
  <1>5. \A c \in Callers : IsWork(job[c]) /\ Belongs(job[c].sch)
    BY <1>2, <1>3, <1>4, IngestIsWork
  <1>6. pc = [c \in Callers |-> pc[c]] /\ job = [c \in Callers |-> job[c]]
    BY DEF Init
  <1>7. QED
    BY <1>2, <1>5, <1>6 DEF Init, JobsInv, BoardInv

\* A caller goes on with the schematic it has, or with one that belongs.
LEMMA WentOn ==
    ASSUME JobsInv, BoardInv, env' = env,
           NEW c \in Callers, NEW label, NEW work, Goto(c, label, work),
           IsWork(work), Belongs(work.sch), schematic' \in {schematic, job[c].sch}
    PROVE  JobsInv' /\ BoardInv'
  <1>1. /\ JobsInv'
        /\ job'[c] = work
        /\ \A d \in Callers : d # c => job'[d] = job[d]
    BY Went
  <1>2. Documented' = Documented
    BY DocumentedStays
  <1>3. \A d \in Callers : Belongs(job'[d].sch)
    BY <1>1 DEF BoardInv
  <1>4. Belongs(schematic')
    BY DEF BoardInv
  <1>5. QED
    BY <1>1, <1>2, <1>3, <1>4 DEF BoardInv, Belongs

LEMMA BoardInvStep ==
    ASSUME JobsInv, BoardInv, [Next]_vars
    PROVE  JobsInv' /\ BoardInv'
  <1>1. Belongs(NoSchematic) /\ Belongs(Stub) /\ \A sch \in Schematics : Belongs(Normalized(sch))
    <2>1. NoSchematic.origin = "none" /\ Stub.origin = "stub"
      BY DEF NoSchematic, Stub
    <2>2. \A sch \in Schematics : Normalized(sch).origin = "model"
      BY BoardsAssumption DEF Normalized, SchematicsFrom
    <2>3. QED
      BY <2>1, <2>2 DEF Belongs
  <1>2. IsWork(NoJob) /\ NoJob.sch = NoSchematic
    BY IngestIsWork DEF NoJob
  <1>3. ASSUME NEW c \in Callers, IngestStep(c)
        PROVE  JobsInv' /\ BoardInv'
    <2>1. IsWork(job[c]) /\ Belongs(job[c].sch)
      BY DEF JobsInv, BoardInv
    <2>2. CASE CacheSchematic(c)
      BY <2>1, <2>2, WentOn DEF CacheSchematic
    <2>3. CASE MergeScan(c)
      <3>1. PICK work : work =
              [job[c] EXCEPT !.components = job[c].sch.components, !.nets = job[c].sch.nets,
                             !.refs = PartKeys(profile), !.ids = NetKeys(profile)]
        OBVIOUS
      <3>2. IsWork(work) /\ work.sch = job[c].sch
        <4>1. PICK w : w = job[c] /\ IsWork(w)
          BY <2>1
        <4>2. work = [w EXCEPT !.components = w.sch.components, !.nets = w.sch.nets,
                               !.refs = PartKeys(profile), !.ids = NetKeys(profile)]
          BY <3>1, <4>1
        <4>3. work = [sch |-> w.sch, components |-> w.sch.components, nets |-> w.sch.nets,
                      refs |-> PartKeys(profile), ids |-> NetKeys(profile),
                      target |-> w.target, kind |-> w.kind, generation |-> w.generation]
          BY <4>1, <4>2 DEF IsWork
        <4>4. QED
          BY <4>1, <4>3 DEF IsWork
      <3>3. Goto(c, "merge", work) /\ env' = env /\ schematic' = schematic
        BY <2>3, <3>1 DEF MergeScan
      <3>4. QED
        BY <2>1, <3>2, <3>3, WentOn
    <2>4. CASE MergeComponent(c)
      <3>1. PICK comp : comp = Head(job[c].components)
        OBVIOUS
      <3>2. PICK rest : rest = [job[c] EXCEPT !.components = Tail(@)]
        OBVIOUS
      <3>3. PICK keys : keys = rest.refs \cup {Fold[comp.ref]}
        OBVIOUS
      <3>a. PICK added : added = [rest EXCEPT !.refs = keys]
        OBVIOUS
      <3>4. /\ Goto(c, "merge", rest) \/ Goto(c, "merge", added)
            /\ env' = env /\ schematic' = schematic
        BY <2>4, <3>1, <3>2, <3>3, <3>a DEF MergeComponent
      <3>5. IsWork(rest) /\ rest.sch = job[c].sch
        BY <2>1, <3>2 DEF IsWork
      <3>6. IsWork(added) /\ added.sch = job[c].sch
        BY <3>a, <3>5 DEF IsWork
      <3>7. QED
        BY <2>1, <3>4, <3>5, <3>6, WentOn
    <2>5. CASE MergeNet(c)
      <3>1. PICK net : net = Head(job[c].nets)
        OBVIOUS
      <3>2. PICK rest : rest = [job[c] EXCEPT !.nets = Tail(@)]
        OBVIOUS
      <3>3. PICK keys : keys = rest.ids \cup {Fold[net.id]}
        OBVIOUS
      <3>a. PICK added : added = [rest EXCEPT !.ids = keys]
        OBVIOUS
      <3>4. /\ Goto(c, "merge", rest) \/ Goto(c, "merge", added)
            /\ env' = env /\ schematic' = schematic
        BY <2>5, <3>1, <3>2, <3>3, <3>a DEF MergeNet
      <3>5. IsWork(rest) /\ rest.sch = job[c].sch
        BY <2>1, <3>2 DEF IsWork
      <3>6. IsWork(added) /\ added.sch = job[c].sch
        BY <3>a, <3>5 DEF IsWork
      <3>7. QED
        BY <2>1, <3>4, <3>5, <3>6, WentOn
    <2>6. CASE NewResolver(c)
      BY <1>1, <1>2, <2>6, WentOn DEF NewResolver
    <2>7. QED
      BY <1>3, <2>2, <2>3, <2>4, <2>5, <2>6 DEF IngestStep
  <1>4. ASSUME NEW c \in Threads, VisionAnswers(c)
        PROVE  JobsInv' /\ BoardInv'
    <2>1. c \in Callers /\ env' = env /\ schematic' = schematic
      BY <1>4 DEF VisionAnswers, Callers
    <2>2. \/ \E sch \in Schematics : Goto(c, "ingest", Ingest(Normalized(sch)))
          \/ Goto(c, "ingest", Ingest(Stub))
          \/ Goto(c, "retry", NoJob)
      BY <1>4 DEF VisionAnswers
    <2>3. CASE \E sch \in Schematics : Goto(c, "ingest", Ingest(Normalized(sch)))
      BY <1>1, <2>1, <2>3, IngestIsWork, WentOn
    <2>4. CASE Goto(c, "ingest", Ingest(Stub))
      BY <1>1, <2>1, <2>4, IngestIsWork, WentOn
    <2>5. CASE Goto(c, "retry", NoJob)
      BY <1>1, <1>2, <2>1, <2>5, WentOn
    <2>6. QED
      BY <2>2, <2>3, <2>4, <2>5
  <1>5. ASSUME NEW c \in Threads, LimitResolved(c)
        PROVE  JobsInv' /\ BoardInv'
    <2>1. c \in Callers /\ env' = env /\ schematic' = schematic /\ Goto(c, "idle", NoJob)
      BY <1>5 DEF LimitResolved, Callers
    <2>2. QED
      BY <1>1, <1>2, <2>1, WentOn
  <1>6. ASSUME UNCHANGED <<env, schematic, pc, job>>
        PROVE  JobsInv' /\ BoardInv'
    BY <1>6, DocumentedStays DEF JobsInv, BoardInv, Belongs
  <1>7. ASSUME NEW c \in Threads, NEW uri \in 1..MaxFrames, ParseTool(c, uri)
        PROVE  JobsInv' /\ BoardInv'
    <2>1. c \in Callers /\ env' = env /\ schematic' = schematic
      BY <1>7 DEF ParseTool, Callers
    <2>2. Goto(c, "call", NoJob) \/ UNCHANGED <<pc, job>>
      BY <1>7 DEF ParseTool
    <2>3. QED
      BY <1>1, <1>2, <1>6, <2>1, <2>2, WentOn
  <1>8. ASSUME NEW c \in Threads, NEW asked \in Asked, LimitMissed(c, asked)
        PROVE  JobsInv' /\ BoardInv'
    <2>1. c \in Callers /\ env' = env /\ schematic' = schematic
      BY <1>8 DEF LimitMissed, Callers
    <2>2. PICK work : work = [NoJob EXCEPT !.target = asked[1], !.kind = asked[2],
                                           !.generation = resolver.generation]
      OBVIOUS
    <2>3. Goto(c, "resolve", work)
      BY <1>8, <2>2 DEF LimitMissed
    <2>4. IsWork(work) /\ work.sch = NoSchematic
      <3>1. work = [sch |-> NoSchematic, components |-> <<>>, nets |-> <<>>, refs |-> {},
                    ids |-> {}, target |-> asked[1], kind |-> asked[2],
                    generation |-> resolver.generation]
        BY <2>2 DEF NoJob, Ingest
      <3>2. QED
        BY <3>1 DEF IsWork
    <2>5. QED
      BY <1>1, <2>1, <2>3, <2>4, WentOn
  <1>9. ASSUME NEW c \in Threads, NEW asked \in Asked, LimitCached(c, asked)
        PROVE  JobsInv' /\ BoardInv'
    BY <1>6, <1>9 DEF LimitCached
  <1>10. CASE TakeSnapshot \/ UNCHANGED vars
    BY <1>6, <1>10, Zenon DEF TakeSnapshot, vars
  <1>11. QED
    BY <1>3, <1>4, <1>5, <1>7, <1>8, <1>9, <1>10, Zenon DEF Next

(* A server never answers from the schematic of one bundled board and the  *)
(* profile or bill of materials of another, whatever it was started with   *)
(* and whatever is parsed (knowledge/__init__.py:67-80, bom.py:99-110).    *)
THEOREM AlwaysOneBoard == Spec => []OneBoard
  <1>1. BoardInv => OneBoard
    <2> SUFFICES ASSUME BoardInv PROVE OneBoard
      OBVIOUS
    <2>1. schematic.origin = "bundled" =>
            \E name \in DOMAIN Boards : /\ schematic = Boards[name].schematic
                                        /\ Documented = Boards[name].profile
      BY DEF BoardInv, Belongs
    <2>2. env.BOM_FILE = None /\ env.path = None /\ env.BOARD_PROFILE = None =>
            bom_board(env) = profile_board(env)
      BY DEF bom_board, profile_board
    <2>3. QED
      BY <2>1, <2>2 DEF OneBoard
  <1>2. JobsInv /\ BoardInv /\ [Next]_vars => (JobsInv /\ BoardInv)'
    BY BoardInvStep
  <1>3. QED
    BY BoardInvInit, <1>1, <1>2, PTL DEF Spec

-----------------------------------------------------------------------------
(* Merges that do not overlap add nothing twice: the one that runs knows   *)
(* every ref and every net id of the profile.                              *)

Merging(c) == pc[c] = "merge"

Knows(c) == job[c].refs = PartKeys(profile) /\ job[c].ids = NetKeys(profile)

AloneInv ==
    /\ IdempotentAlone
    /\ ~overlapped =>
          /\ \A c, d \in Callers : Merging(c) /\ Merging(d) => c = d
          /\ \A c \in Callers : Merging(c) => Knows(c)

RefsOf(parts) == {Fold[parts[i].ref] : i \in DOMAIN parts}
IdsOf(nets) == {Fold[nets[i].id] : i \in DOMAIN nets}

Lists(doc, cur) == \E S : doc \in Seq(S) /\ cur \in Seq(S)

\* No entry after the n-th has the name of an earlier one.
NoTwinParts(parts, n) ==
    \A i, j \in DOMAIN parts : i < j /\ Fold[parts[i].ref] = Fold[parts[j].ref] => j <= n
NoTwinNets(nets, n) ==
    \A i, j \in DOMAIN nets : i < j /\ Fold[nets[i].id] = Fold[nets[j].id] => j <= n

\* A part, or a net, whose name is new is the twin of none before it.
LEMMA NoTwinPart ==
    ASSUME NEW doc, NEW cur, NEW part, Lists(doc, cur), NoTwinParts(cur, Len(doc)),
           Fold[part.ref] \notin RefsOf(cur)
    PROVE  /\ NoTwinParts(Append(cur, part), Len(doc))
           /\ RefsOf(Append(cur, part)) = RefsOf(cur) \cup {Fold[part.ref]}
  <1> DEFINE new == Append(cur, part)
  <1>0. \A i \in DOMAIN cur : Fold[cur[i].ref] # Fold[part.ref]
    BY DEF RefsOf
  <1>1. Extends(doc, cur, part, new)
    BY Grown DEF Lists
  <1> HIDE DEF new
  <1>2. /\ Len(doc) \in Nat /\ Len(cur) \in Nat
        /\ DOMAIN cur = 1..Len(cur) /\ DOMAIN new = 1..(Len(cur) + 1)
    BY <1>1 DEF Extends
  <1>3. /\ \A i \in DOMAIN cur : i \in DOMAIN new /\ new[i] = cur[i] /\ i <= Len(cur)
        /\ Len(cur) + 1 \in DOMAIN new /\ new[Len(cur) + 1] = part
        /\ \A i \in DOMAIN new : i \in DOMAIN cur \/ i = Len(cur) + 1
    BY <1>1, <1>2 DEF Extends
  <1>4. ASSUME NEW i \in DOMAIN new, NEW j \in DOMAIN new,
               i < j, Fold[new[i].ref] = Fold[new[j].ref]
        PROVE  j <= Len(doc)
    <2>1. i \in DOMAIN cur /\ new[i] = cur[i]
      BY <1>2, <1>3, <1>4
    <2>2. j \in DOMAIN cur /\ new[j] = cur[j]
      BY <1>0, <1>3, <1>4, <2>1
    <2>3. QED
      BY <1>4, <2>1, <2>2 DEF NoTwinParts
  <1>5. RefsOf(new) = RefsOf(cur) \cup {Fold[part.ref]}
    BY <1>3 DEF RefsOf
  <1>6. QED
    BY <1>4, <1>5 DEF NoTwinParts, new

LEMMA NoTwinNet ==
    ASSUME NEW doc, NEW cur, NEW net, Lists(doc, cur), NoTwinNets(cur, Len(doc)),
           Fold[net.id] \notin IdsOf(cur)
    PROVE  /\ NoTwinNets(Append(cur, net), Len(doc))
           /\ IdsOf(Append(cur, net)) = IdsOf(cur) \cup {Fold[net.id]}
  <1> DEFINE new == Append(cur, net)
  <1>0. \A i \in DOMAIN cur : Fold[cur[i].id] # Fold[net.id]
    BY DEF IdsOf
  <1>1. Extends(doc, cur, net, new)
    BY Grown DEF Lists
  <1> HIDE DEF new
  <1>2. /\ Len(doc) \in Nat /\ Len(cur) \in Nat
        /\ DOMAIN cur = 1..Len(cur) /\ DOMAIN new = 1..(Len(cur) + 1)
    BY <1>1 DEF Extends
  <1>3. /\ \A i \in DOMAIN cur : i \in DOMAIN new /\ new[i] = cur[i] /\ i <= Len(cur)
        /\ Len(cur) + 1 \in DOMAIN new /\ new[Len(cur) + 1] = net
        /\ \A i \in DOMAIN new : i \in DOMAIN cur \/ i = Len(cur) + 1
    BY <1>1, <1>2 DEF Extends
  <1>4. ASSUME NEW i \in DOMAIN new, NEW j \in DOMAIN new,
               i < j, Fold[new[i].id] = Fold[new[j].id]
        PROVE  j <= Len(doc)
    <2>1. i \in DOMAIN cur /\ new[i] = cur[i]
      BY <1>2, <1>3, <1>4
    <2>2. j \in DOMAIN cur /\ new[j] = cur[j]
      BY <1>0, <1>3, <1>4, <2>1
    <2>3. QED
      BY <1>4, <2>1, <2>2 DEF NoTwinNets
  <1>5. IdsOf(new) = IdsOf(cur) \cup {Fold[net.id]}
    BY <1>3 DEF IdsOf
  <1>6. QED
    BY <1>4, <1>5 DEF NoTwinNets, new

\* A step that adds nothing and begins no merge.
LEMMA CalmStep ==
    ASSUME AloneInv, env' = env, profile' = profile, overlapped' = overlapped,
           \A c \in Callers : pc'[c] = "merge" =>
              Merging(c) /\ job'[c].refs = job[c].refs /\ job'[c].ids = job[c].ids
    PROVE  AloneInv'
  <1>1. Documented' = Documented
    BY DocumentedStays
  <1>2. IdempotentAlone'
    BY <1>1 DEF AloneInv, IdempotentAlone
  <1>3. PartKeys(profile)' = PartKeys(profile) /\ NetKeys(profile)' = NetKeys(profile)
    BY DEF PartKeys, NetKeys
  <1>4. QED
    BY <1>2, <1>3 DEF AloneInv, Merging, Knows

LEMMA AloneInvInit == Init => AloneInv
  <1> SUFFICES ASSUME Init PROVE AloneInv
    OBVIOUS
  <1>1. profile = Documented /\ profile \in Profiles
    BY DocumentedIsProfile DEF Init
  <1>2. IdempotentAlone
    BY <1>1 DEF Profiles, IdempotentAlone
  <1>3. \A c \in Callers : ~Merging(c)
    BY DEF Init, Merging
  <1>4. QED
    BY <1>2, <1>3 DEF AloneInv

LEMMA ScanAlone ==
    ASSUME NEW c \in Callers, JobsInv, AloneInv, MergeScan(c)
    PROVE  AloneInv'
  <1>1. PICK w : w = job[c] /\ IsWork(w)
    BY DEF JobsInv
  <1>2. PICK work : work =
          [w EXCEPT !.components = w.sch.components, !.nets = w.sch.nets,
                    !.refs = PartKeys(profile), !.ids = NetKeys(profile)]
    OBVIOUS
  <1>3. work = [sch |-> w.sch, components |-> w.sch.components, nets |-> w.sch.nets,
                refs |-> PartKeys(profile), ids |-> NetKeys(profile),
                target |-> w.target, kind |-> w.kind, generation |-> w.generation]
    BY <1>1, <1>2 DEF IsWork
  <1>4. /\ Goto(c, "merge", work) /\ IsWork(work)
        /\ work.refs = PartKeys(profile) /\ work.ids = NetKeys(profile)
        /\ env' = env /\ profile' = profile
        /\ overlapped' = (overlapped \/ \E d \in Callers : Merging(d))
    BY <1>1, <1>2, <1>3 DEF MergeScan, Merging, IsWork
  <1>5. /\ pc'[c] = "merge" /\ job'[c] = work
        /\ \A d \in Callers : d # c => pc'[d] = pc[d]
    BY <1>4, Went
  <1>6. IdempotentAlone'
    BY <1>4, DocumentedStays DEF AloneInv, IdempotentAlone
  <1>7. ASSUME ~overlapped'
        PROVE  \A d \in Callers : pc'[d] = "merge" => d = c
    BY <1>4, <1>5, <1>7 DEF Merging
  <1>8. job'[c].refs = PartKeys(profile') /\ job'[c].ids = NetKeys(profile')
    BY <1>4, <1>5
  <1>9. QED
    BY <1>6, <1>7, <1>8 DEF AloneInv, Merging, Knows, PartKeys, NetKeys

LEMMA ComponentAlone ==
    ASSUME NEW c \in Callers, ProfileInv, JobsInv, AloneInv, MergeComponent(c)
    PROVE  AloneInv'
  <1>1. PICK comp : comp = Head(job[c].components)
    OBVIOUS
  <1>2. PICK rest : rest = [job[c] EXCEPT !.components = Tail(@)]
    OBVIOUS
  <1>3. PICK refs : refs = rest.refs \cup {Fold[comp.ref]}
    OBVIOUS
  <1>4. PICK added : added = [rest EXCEPT !.refs = refs]
    OBVIOUS
  <1>5. IsWork(job[c]) /\ Merging(c) /\ env' = env /\ overlapped' = overlapped
    BY DEF JobsInv, MergeComponent, Merging
  <1>6. IsWork(rest) /\ rest.refs = job[c].refs /\ rest.ids = job[c].ids
    BY <1>2, <1>5 DEF IsWork
  <1>7. IsWork(added) /\ added.refs = refs /\ added.ids = job[c].ids
    BY <1>4, <1>6 DEF IsWork
  <1>8. CASE Goto(c, "merge", rest) /\ profile' = profile
    <2>1. /\ job'[c] = rest
          /\ \A d \in Callers : d # c => pc'[d] = pc[d] /\ job'[d] = job[d]
      BY <1>6, <1>8, Went
    <2>2. \A d \in Callers : pc'[d] = "merge" =>
             Merging(d) /\ job'[d].refs = job[d].refs /\ job'[d].ids = job[d].ids
      BY <1>5, <1>6, <2>1 DEF Merging
    <2>3. QED
      BY <1>5, <1>8, <2>2, CalmStep
  <1>9. CASE /\ Fold[comp.ref] \notin job[c].refs
             /\ profile' = [profile EXCEPT !.parts = Added(@, MintedPart(comp))]
             /\ Goto(c, "merge", added)
    <2>1. /\ pc'[c] = "merge" /\ job'[c] = added
          /\ \A d \in Callers : d # c => pc'[d] = pc[d] /\ job'[d] = job[d]
      BY <1>7, <1>9, Went
    <2>2. PICK part : part = MintedPart(comp) /\ part.ref = comp.ref
      <3>1. MintedPart(comp).ref = comp.ref
        BY DEF MintedPart
      <3>2. QED
        BY <3>1
    <2>3. /\ profile'.parts = Append(profile.parts, part) /\ profile'.nets = profile.nets
      BY <1>9, <2>2 DEF ProfileInv, Added
    <2>4. CASE overlapped
      BY <1>5, <2>4 DEF AloneInv, IdempotentAlone
    <2>5. CASE ~overlapped
      <3>1. /\ Knows(c)
            /\ \A d \in Callers : Merging(d) => d = c
            /\ \A i, j \in DOMAIN profile.parts :
                  i < j /\ Fold[profile.parts[i].ref] = Fold[profile.parts[j].ref] =>
                      j <= Len(Documented.parts)
            /\ \A i, j \in DOMAIN profile.nets :
                  i < j /\ Fold[profile.nets[i].id] = Fold[profile.nets[j].id] =>
                      j <= Len(Documented.nets)
        BY <1>5, <2>5 DEF AloneInv, IdempotentAlone
      <3>2. Lists(Documented.parts, profile.parts)
        BY DEF ProfileInv, Kept, PartsKept, NetsKept, Lists
      <3>3. /\ NoTwinParts(profile.parts, Len(Documented.parts))
            /\ Fold[part.ref] \notin RefsOf(profile.parts)
        BY <1>9, <2>2, <3>1 DEF Knows, PartKeys, RefsOf, NoTwinParts
      <3>4. /\ NoTwinParts(profile'.parts, Len(Documented.parts))
            /\ RefsOf(profile'.parts) = RefsOf(profile.parts) \cup {Fold[part.ref]}
        BY <2>3, <3>2, <3>3, NoTwinPart
      <3>5. PartKeys(profile)' = PartKeys(profile) \cup {Fold[comp.ref]}
        BY <2>2, <3>4 DEF PartKeys, RefsOf
      <3>6. NetKeys(profile)' = NetKeys(profile)
        BY <2>3 DEF NetKeys
      <3>7. Knows(c)'
        BY <1>3, <1>6, <1>7, <2>1, <3>1, <3>5, <3>6 DEF Knows
      <3>8. \A d \in Callers : pc'[d] = "merge" => d = c
        BY <2>1, <3>1 DEF Merging
      <3>9. IdempotentAlone'
        BY <1>5, <2>3, <3>1, <3>4, DocumentedStays DEF IdempotentAlone, NoTwinParts
      <3>10. QED
        BY <3>7, <3>8, <3>9 DEF AloneInv, Merging, Knows
    <2>6. QED
      BY <2>4, <2>5
  <1>10. QED
    BY <1>1, <1>2, <1>3, <1>4, <1>6, <1>8, <1>9 DEF MergeComponent

LEMMA NetAlone ==
    ASSUME NEW c \in Callers, ProfileInv, JobsInv, AloneInv, MergeNet(c)
    PROVE  AloneInv'
  <1>1. PICK net : net = Head(job[c].nets)
    OBVIOUS
  <1>2. PICK rest : rest = [job[c] EXCEPT !.nets = Tail(@)]
    OBVIOUS
  <1>3. PICK ids : ids = rest.ids \cup {Fold[net.id]}
    OBVIOUS
  <1>4. PICK added : added = [rest EXCEPT !.ids = ids]
    OBVIOUS
  <1>5. IsWork(job[c]) /\ Merging(c) /\ env' = env /\ overlapped' = overlapped
    BY DEF JobsInv, MergeNet, Merging
  <1>6. IsWork(rest) /\ rest.refs = job[c].refs /\ rest.ids = job[c].ids
    BY <1>2, <1>5 DEF IsWork
  <1>7. IsWork(added) /\ added.ids = ids /\ added.refs = job[c].refs
    BY <1>4, <1>6 DEF IsWork
  <1>8. CASE Goto(c, "merge", rest) /\ profile' = profile
    <2>1. /\ job'[c] = rest
          /\ \A d \in Callers : d # c => pc'[d] = pc[d] /\ job'[d] = job[d]
      BY <1>6, <1>8, Went
    <2>2. \A d \in Callers : pc'[d] = "merge" =>
             Merging(d) /\ job'[d].refs = job[d].refs /\ job'[d].ids = job[d].ids
      BY <1>5, <1>6, <2>1 DEF Merging
    <2>3. QED
      BY <1>5, <1>8, <2>2, CalmStep
  <1>9. CASE /\ Fold[net.id] \notin job[c].ids
             /\ profile' = [profile EXCEPT !.nets = Added(@, MintedNet(net))]
             /\ Goto(c, "merge", added)
    <2>1. /\ pc'[c] = "merge" /\ job'[c] = added
          /\ \A d \in Callers : d # c => pc'[d] = pc[d] /\ job'[d] = job[d]
      BY <1>7, <1>9, Went
    <2>2. PICK minted : minted = MintedNet(net) /\ minted.id = net.id
      <3>1. MintedNet(net).id = net.id
        BY DEF MintedNet
      <3>2. QED
        BY <3>1
    <2>3. /\ profile'.nets = Append(profile.nets, minted) /\ profile'.parts = profile.parts
      BY <1>9, <2>2 DEF ProfileInv, Added
    <2>4. CASE overlapped
      BY <1>5, <2>4 DEF AloneInv, IdempotentAlone
    <2>5. CASE ~overlapped
      <3>1. /\ Knows(c)
            /\ \A d \in Callers : Merging(d) => d = c
            /\ \A i, j \in DOMAIN profile.parts :
                  i < j /\ Fold[profile.parts[i].ref] = Fold[profile.parts[j].ref] =>
                      j <= Len(Documented.parts)
            /\ \A i, j \in DOMAIN profile.nets :
                  i < j /\ Fold[profile.nets[i].id] = Fold[profile.nets[j].id] =>
                      j <= Len(Documented.nets)
        BY <1>5, <2>5 DEF AloneInv, IdempotentAlone
      <3>2. Lists(Documented.nets, profile.nets)
        BY DEF ProfileInv, Kept, PartsKept, NetsKept, Lists
      <3>3. /\ NoTwinNets(profile.nets, Len(Documented.nets))
            /\ Fold[minted.id] \notin IdsOf(profile.nets)
        BY <1>9, <2>2, <3>1 DEF Knows, NetKeys, IdsOf, NoTwinNets
      <3>4. /\ NoTwinNets(profile'.nets, Len(Documented.nets))
            /\ IdsOf(profile'.nets) = IdsOf(profile.nets) \cup {Fold[minted.id]}
        BY <2>3, <3>2, <3>3, NoTwinNet
      <3>5. NetKeys(profile)' = NetKeys(profile) \cup {Fold[net.id]}
        BY <2>2, <3>4 DEF NetKeys, IdsOf
      <3>6. PartKeys(profile)' = PartKeys(profile)
        BY <2>3 DEF PartKeys
      <3>7. Knows(c)'
        BY <1>3, <1>6, <1>7, <2>1, <3>1, <3>5, <3>6 DEF Knows
      <3>8. \A d \in Callers : pc'[d] = "merge" => d = c
        BY <2>1, <3>1 DEF Merging
      <3>9. IdempotentAlone'
        BY <1>5, <2>3, <3>1, <3>4, DocumentedStays DEF IdempotentAlone, NoTwinNets
      <3>10. QED
        BY <3>7, <3>8, <3>9 DEF AloneInv, Merging, Knows
    <2>6. QED
      BY <2>4, <2>5
  <1>10. QED
    BY <1>1, <1>2, <1>3, <1>4, <1>6, <1>8, <1>9 DEF MergeNet

\* The other steps: whoever moves is not merging afterwards.
LEMMA AloneInvStep ==
    ASSUME ProfileInv, JobsInv, AloneInv, [Next]_vars
    PROVE  AloneInv'
  <1>1. ASSUME NEW c \in Callers, NEW label, NEW work, Goto(c, label, work), label # "merge",
               UNCHANGED <<env, profile, overlapped>>
        PROVE  AloneInv'
    <2>1. \A d \in Callers : pc'[d] = "merge" => Merging(d) /\ job'[d] = job[d]
      BY <1>1 DEF JobsInv, Goto, Merging
    <2>2. QED
      BY <1>1, <2>1, CalmStep
  <1>2. ASSUME UNCHANGED <<env, profile, overlapped, pc, job>>
        PROVE  AloneInv'
    BY <1>2, CalmStep DEF Merging
  <1>3. ASSUME NEW c \in Callers, IngestStep(c)
        PROVE  AloneInv'
    <2>1. CASE CacheSchematic(c)
      <3>1. Goto(c, "scan", job[c]) /\ UNCHANGED <<env, profile, overlapped>>
        BY <2>1 DEF CacheSchematic
      <3>2. QED
        BY <1>1, <3>1
    <2>2. CASE NewResolver(c)
      <3>1. Goto(c, "idle", NoJob) /\ UNCHANGED <<env, profile, overlapped>>
        BY <2>2 DEF NewResolver
      <3>2. QED
        BY <1>1, <3>1
    <2>3. QED
      BY <1>3, <2>1, <2>2, ScanAlone, ComponentAlone, NetAlone DEF IngestStep
  <1>4. ASSUME NEW c \in Threads, VisionAnswers(c) \/ LimitResolved(c)
        PROVE  AloneInv'
    <2>1. c \in Callers /\ UNCHANGED <<env, profile, overlapped>>
      BY <1>4 DEF VisionAnswers, LimitResolved, Callers
    <2>2. \E label \in {"ingest", "retry", "idle"} : \E work : Goto(c, label, work)
      BY <1>4, Zenon DEF VisionAnswers, LimitResolved
    <2>3. QED
      BY <1>1, <2>1, <2>2
  <1>5. ASSUME NEW c \in Threads, NEW uri \in 1..MaxFrames, ParseTool(c, uri)
        PROVE  AloneInv'
    <2>1. c \in Callers /\ UNCHANGED <<env, profile, overlapped>>
      BY <1>5 DEF ParseTool, Callers
    <2>2. Goto(c, "call", NoJob) \/ UNCHANGED <<pc, job>>
      BY <1>5 DEF ParseTool
    <2>3. QED
      BY <1>1, <1>2, <2>1, <2>2
  <1>6. ASSUME NEW c \in Threads, NEW asked \in Asked, LimitMissed(c, asked)
        PROVE  AloneInv'
    <2>1. c \in Callers /\ UNCHANGED <<env, profile, overlapped>>
      BY <1>6 DEF LimitMissed, Callers
    <2>2. \E work : Goto(c, "resolve", work)
      BY <1>6, Zenon DEF LimitMissed
    <2>3. QED
      BY <1>1, <2>1, <2>2
  <1>7. ASSUME NEW c \in Threads, NEW asked \in Asked, LimitCached(c, asked)
        PROVE  AloneInv'
    BY <1>2, <1>7 DEF LimitCached
  <1>8. CASE TakeSnapshot \/ UNCHANGED vars
    BY <1>2, <1>8, Zenon DEF TakeSnapshot, vars
  <1>9. QED
    BY <1>3, <1>4, <1>5, <1>6, <1>7, <1>8, Zenon DEF Next

(* As long as no two merges have run at once, a schematic adds nothing to  *)
(* the profile that the profile has already, in whatever case, however     *)
(* often and by however many threads it is parsed (board_profile.py:124).  *)
THEOREM IngestAddsOnce == Spec => []IdempotentAlone
  <1>1. AloneInv => IdempotentAlone
    BY DEF AloneInv
  <1>2. /\ Inv /\ JobsInv /\ BoardInv /\ AloneInv
        /\ [Next]_vars
        => (Inv /\ JobsInv /\ BoardInv /\ AloneInv)'
    BY InvNext, BoardInvStep, AloneInvStep DEF Inv
  <1>3. QED
    BY InvInit, BoardInvInit, AloneInvInit, <1>1, <1>2, PTL DEF Spec

-----------------------------------------------------------------------------
(* What was parsed last is in the profile, or on its way into it.           *)

RefKeys(components) ==
    {Fold[components[i].ref] : i \in {k \in DOMAIN components : components[k].ref # None}}
IdKeys(nets) == {Fold[nets[i].id] : i \in {k \in DOMAIN nets : nets[k].id # None}}

\* Lists of a schematic, with names where the parse has any.
Refs(components) ==
    /\ \E S : components \in Seq(S)
    /\ \A i \in DOMAIN components : components[i].ref \in Names \cup {None}
Ids(nets) ==
    /\ \E S : nets \in Seq(S)
    /\ \A i \in DOMAIN nets : nets[i].id \in Names \cup {None}

Readable(sch) == Refs(sch.components) /\ Ids(sch.nets)

Held(sch) ==
    /\ RefKeys(sch.components) \subseteq PartKeys(profile)
    /\ IdKeys(sch.nets) \subseteq NetKeys(profile)

\* A merge takes for known only what the profile names; what it has been
\* through is in the profile.
Merges(work) ==
    /\ Refs(work.components) /\ Ids(work.nets)
    /\ work.refs \subseteq PartKeys(profile) /\ work.ids \subseteq NetKeys(profile)
    /\ RefKeys(work.sch.components) \subseteq PartKeys(profile) \cup RefKeys(work.components)
    /\ IdKeys(work.sch.nets) \subseteq NetKeys(profile) \cup IdKeys(work.nets)

NamedProfile ==
    /\ \E S : profile.parts \in Seq(S)
    /\ \E S : profile.nets \in Seq(S)
    /\ \A i \in DOMAIN profile.parts : profile.parts[i].ref \in Names
    /\ \A i \in DOMAIN profile.nets : profile.nets[i].id \in Names

Ingesting == {"scan", "merge"}

ServedInv ==
    \/ Held(schematic)
    \/ \E c \in Callers : pc[c] \in Ingesting /\ job[c].sch = schematic

MergeInv ==
    /\ NamedProfile
    /\ Readable(schematic)
    /\ \A c \in Callers : Readable(job[c].sch)
    /\ \A c \in Callers : Merging(c) => Merges(job[c])
    /\ ServedInv

Grew ==
    /\ PartKeys(profile) \subseteq PartKeys(profile)'
    /\ NetKeys(profile) \subseteq NetKeys(profile)'

LEMMA RefsTail ==
    ASSUME NEW s, Refs(s), s # <<>>
    PROVE  /\ Refs(Tail(s))
           /\ Head(s).ref \in Names \cup {None}
           /\ \A key \in RefKeys(s) :
                 key \in RefKeys(Tail(s)) \/ (Head(s).ref # None /\ key = Fold[Head(s).ref])
  <1>1. PICK S : s \in Seq(S)
    BY DEF Refs
  <1> DEFINE t == Tail(s)
  <1>2. /\ t \in Seq(S) /\ DOMAIN t = 1..(Len(s) - 1) /\ DOMAIN s = 1..Len(s) /\ Len(s) \in Nat \ {0}
        /\ Head(s) = s[1] /\ \A i \in 1..(Len(s) - 1) : t[i] = s[i + 1]
    BY <1>1
  <1> HIDE DEF t
  <1>3. \A i \in DOMAIN t : i + 1 \in DOMAIN s /\ t[i] = s[i + 1]
    BY <1>2
  <1>4. 1 \in DOMAIN s /\ \A i \in DOMAIN s : i = 1 \/ (i - 1 \in DOMAIN t /\ t[i - 1] = s[i])
    <2>1. 1 \in DOMAIN s
      BY <1>2
    <2>2. ASSUME NEW i \in DOMAIN s, i # 1 PROVE i - 1 \in DOMAIN t /\ t[i - 1] = s[i]
      <3>1. i - 1 \in 1..(Len(s) - 1) /\ (i - 1) + 1 = i
        BY <1>2, <2>2
      <3>2. QED
        BY <1>2, <3>1
    <2>3. QED
      BY <2>1, <2>2
  <1>5. Refs(t) /\ Head(s).ref \in Names \cup {None}
    BY <1>2, <1>3, <1>4 DEF Refs
  <1>6. ASSUME NEW key \in RefKeys(s)
        PROVE  key \in RefKeys(t) \/ (Head(s).ref # None /\ key = Fold[Head(s).ref])
    <2>1. PICK i \in DOMAIN s : s[i].ref # None /\ key = Fold[s[i].ref]
      BY <1>6 DEF RefKeys
    <2>2. CASE i = 1
      BY <1>2, <2>1, <2>2
    <2>3. CASE i # 1
      BY <1>4, <2>1, <2>3 DEF RefKeys
    <2>4. QED
      BY <2>2, <2>3
  <1>7. QED
    BY <1>5, <1>6 DEF t

LEMMA IdsTail ==
    ASSUME NEW s, Ids(s), s # <<>>
    PROVE  /\ Ids(Tail(s))
           /\ Head(s).id \in Names \cup {None}
           /\ \A key \in IdKeys(s) :
                 key \in IdKeys(Tail(s)) \/ (Head(s).id # None /\ key = Fold[Head(s).id])
  <1>1. PICK S : s \in Seq(S)
    BY DEF Ids
  <1> DEFINE t == Tail(s)
  <1>2. /\ t \in Seq(S) /\ DOMAIN t = 1..(Len(s) - 1) /\ DOMAIN s = 1..Len(s) /\ Len(s) \in Nat \ {0}
        /\ Head(s) = s[1] /\ \A i \in 1..(Len(s) - 1) : t[i] = s[i + 1]
    BY <1>1
  <1> HIDE DEF t
  <1>3. \A i \in DOMAIN t : i + 1 \in DOMAIN s /\ t[i] = s[i + 1]
    BY <1>2
  <1>4. 1 \in DOMAIN s /\ \A i \in DOMAIN s : i = 1 \/ (i - 1 \in DOMAIN t /\ t[i - 1] = s[i])
    <2>1. 1 \in DOMAIN s
      BY <1>2
    <2>2. ASSUME NEW i \in DOMAIN s, i # 1 PROVE i - 1 \in DOMAIN t /\ t[i - 1] = s[i]
      <3>1. i - 1 \in 1..(Len(s) - 1) /\ (i - 1) + 1 = i
        BY <1>2, <2>2
      <3>2. QED
        BY <1>2, <3>1
    <2>3. QED
      BY <2>1, <2>2
  <1>5. Ids(t) /\ Head(s).id \in Names \cup {None}
    BY <1>2, <1>3, <1>4 DEF Ids
  <1>6. ASSUME NEW key \in IdKeys(s)
        PROVE  key \in IdKeys(t) \/ (Head(s).id # None /\ key = Fold[Head(s).id])
    <2>1. PICK i \in DOMAIN s : s[i].id # None /\ key = Fold[s[i].id]
      BY <1>6 DEF IdKeys
    <2>2. CASE i = 1
      BY <1>2, <2>1, <2>2
    <2>3. CASE i # 1
      BY <1>4, <2>1, <2>3 DEF IdKeys
    <2>4. QED
      BY <2>2, <2>3
  <1>7. QED
    BY <1>5, <1>6 DEF t

\* An entry at the end of a list: its places are the old ones and one more.
LEMMA OneMore ==
    ASSUME NEW S, NEW cur \in Seq(S), NEW x, NEW new, new = Append(cur, x)
    PROVE  /\ \E T : new \in Seq(T)
           /\ \A i \in DOMAIN cur : i \in DOMAIN new /\ new[i] = cur[i]
           /\ \E n \in DOMAIN new : new[n] = x
           /\ \A i \in DOMAIN new : new[i] = x \/ (i \in DOMAIN cur /\ new[i] = cur[i])
  <1>1. Extends(cur, cur, x, new)
    BY Grown
  <1>2. /\ DOMAIN cur = 1..Len(cur) /\ Len(cur) \in Nat /\ DOMAIN new = 1..(Len(cur) + 1)
    BY <1>1 DEF Extends
  <1>3. \A i \in DOMAIN new : i = Len(cur) + 1 \/ i \in DOMAIN cur
    BY <1>2
  <1>4. Len(cur) + 1 \in DOMAIN new /\ \A i \in DOMAIN cur : i \in DOMAIN new
    BY <1>2
  <1>5. QED
    BY <1>1, <1>2, <1>3, <1>4 DEF Extends

(* A caller goes on, and what it or another merge has to do is still so.    *)
LEMMA MergeGoes ==
    ASSUME JobsInv, MergeInv, NEW c \in Callers, NEW label, NEW work,
           IsWork(work), Goto(c, label, work), Readable(work.sch),
           Grew, NamedProfile', schematic' \in {schematic, job[c].sch},
           label = "merge" => Merges(work)', ServedInv'
    PROVE  MergeInv'
  <1>1. /\ pc'[c] = label /\ job'[c] = work
        /\ \A d \in Callers : d # c => pc'[d] = pc[d] /\ job'[d] = job[d]
    BY Went
  <1>2. Readable(schematic)'
    BY DEF MergeInv, Readable
  <1>3. \A d \in Callers : Readable(job[d].sch)'
    BY <1>1 DEF MergeInv, Readable
  <1>4. ASSUME NEW d \in Callers, Merging(d)' PROVE Merges(job[d])'
    <2>1. CASE d = c
      BY <1>1, <1>4, <2>1 DEF Merging, Merges
    <2>2. CASE d # c
      <3>1. Merges(job[d]) /\ job'[d] = job[d]
        BY <1>1, <1>4, <2>2 DEF MergeInv, Merging
      <3>2. QED
        BY <3>1 DEF Grew, Merges
    <2>3. QED
      BY <2>1, <2>2
  <1>5. QED
    BY <1>2, <1>3, <1>4 DEF MergeInv

\* The schematic that is served stays held, or in the hands of who ingests it.
LEMMA ServedStays ==
    ASSUME JobsInv, MergeInv, NEW c \in Callers, NEW label, NEW work,
           IsWork(work), Goto(c, label, work), Grew, schematic' = schematic,
           pc[c] \in Ingesting =>
              \/ label \in Ingesting /\ work.sch = job[c].sch
              \/ Held(job[c].sch)
    PROVE  ServedInv'
  <1>1. /\ pc'[c] = label /\ job'[c] = work
        /\ \A d \in Callers : d # c => pc'[d] = pc[d] /\ job'[d] = job[d]
    BY Went
  <1>2. CASE Held(schematic)
    BY <1>2 DEF ServedInv, Held, Grew
  <1>3. CASE \E d \in Callers : pc[d] \in Ingesting /\ job[d].sch = schematic
    <2>1. PICK d \in Callers : pc[d] \in Ingesting /\ job[d].sch = schematic
      BY <1>3
    <2>2. CASE d # c
      BY <1>1, <2>1, <2>2 DEF ServedInv
    <2>3. CASE d = c /\ label \in Ingesting /\ work.sch = job[c].sch
      BY <1>1, <2>1, <2>3 DEF ServedInv
    <2>4. CASE d = c /\ Held(job[c].sch)
      BY <1>2, <2>1, <2>4
    <2>5. QED
      BY <2>1, <2>2, <2>3, <2>4
  <1>4. QED
    BY <1>2, <1>3 DEF MergeInv, ServedInv

LEMMA ReadableOnes ==
    /\ Readable(NoSchematic) /\ Readable(Stub)
    /\ \A sch \in Schematics : Readable(Normalized(sch))
    /\ \A board \in DOMAIN Boards : Readable(Boards[board].schematic)
  <1>1. Readable(NoSchematic) /\ Readable(Stub)
    <2>1. <<>> \in Seq({}) /\ DOMAIN <<>> = {}
      OBVIOUS
    <2>2. \A sch : sch.components = <<>> /\ sch.nets = <<>> => Readable(sch)
      BY <2>1 DEF Readable, Refs, Ids
    <2>3. /\ Stub.components = <<>> /\ Stub.nets = <<>>
          /\ NoSchematic.components = <<>> /\ NoSchematic.nets = <<>>
      BY DEF NoSchematic, Stub
    <2>4. QED
      BY ONLY <2>2, <2>3
  <1> DEFINE Comps == [ref: Names \cup {None}, part: Names \cup {None}, type: STRING]
             Wires == [id: Names \cup {None}, guess: STRING]
  <1>2. ASSUME NEW origins, NEW sch \in SchematicsFrom(origins)
        PROVE  /\ sch.components \in Seq(Comps) /\ sch.nets \in Seq(Wires)
               /\ sch = [components |-> sch.components, nets |-> sch.nets, origin |-> sch.origin]
               /\ Readable(sch)
    <2>1. /\ sch.components \in Seq(Comps) /\ sch.nets \in Seq(Wires)
          /\ sch = [components |-> sch.components, nets |-> sch.nets, origin |-> sch.origin]
      BY <1>2 DEF SchematicsFrom
    <2>2. \A comp \in Comps : comp.ref \in Names \cup {None}
      OBVIOUS
    <2>3. \A net \in Wires : net.id \in Names \cup {None}
      OBVIOUS
    <2> HIDE DEF Comps, Wires
    <2>4. \A i \in DOMAIN sch.components : sch.components[i] \in Comps
      BY <2>1
    <2>5. \A i \in DOMAIN sch.nets : sch.nets[i] \in Wires
      BY <2>1
    <2>6. QED
      BY <2>1, <2>2, <2>3, <2>4, <2>5 DEF Readable, Refs, Ids
  <1>3. ASSUME NEW sch \in Schematics PROVE Readable(Normalized(sch))
    <2>1. sch \in SchematicsFrom({"model"})
      BY BoardsAssumption
    <2>2. /\ Readable(sch) /\ sch.components \in Seq(Comps)
          /\ sch = [components |-> sch.components, nets |-> sch.nets, origin |-> sch.origin]
      BY <1>2, <2>1
    <2>3. PICK typed : typed = [i \in DOMAIN sch.components |-> Typed(sch.components[i])]
      OBVIOUS
    <2>4. Normalized(sch).components = typed /\ Normalized(sch).nets = sch.nets
      BY <2>2, <2>3 DEF Normalized
    <2>5. \A i \in DOMAIN typed : typed[i].ref = sch.components[i].ref
      <3>1. ASSUME NEW comp \in Comps PROVE Typed(comp).ref = comp.ref
        BY DEF Typed
      <3> HIDE DEF Comps
      <3>2. \A i \in DOMAIN sch.components : sch.components[i] \in Comps
        BY <2>2
      <3>3. QED
        BY <2>3, <3>1, <3>2
    <2>6. \E S : typed \in Seq(S)
      <3>1. PICK S : S = {typed[i] : i \in DOMAIN typed}
        OBVIOUS
      <3>2. DOMAIN typed = 1..Len(sch.components) /\ Len(sch.components) \in Nat
        BY <2>2, <2>3
      <3>3. typed = [i \in 1..Len(sch.components) |-> typed[i]]
        BY <2>3, <3>2
      <3>4. typed \in [1..Len(sch.components) -> S]
        BY <3>1, <3>2, <3>3
      <3>5. typed \in Seq(S)
        BY <3>2, <3>4
      <3>6. QED
        BY <3>5
    <2>7. QED
      BY <2>2, <2>3, <2>4, <2>5, <2>6 DEF Readable, Refs
  <1>4. QED
    BY <1>1, <1>2, <1>3, BoardsAssumption

LEMMA MergeInvInit == Init => MergeInv
  <1> SUFFICES ASSUME Init PROVE MergeInv
    OBVIOUS
  <1>1. NamedProfile
    <2>1. profile \in Profiles
      BY DocumentedIsProfile DEF Init
    <2> DEFINE Parts == [ref: Names, part: Names, datasheet: Names \cup {None}]
               Wires == [id: Names, maxV: STRING, maxI: STRING]
    <2>2. profile.parts \in Seq(Parts) /\ profile.nets \in Seq(Wires)
      BY <2>1 DEF Profiles
    <2>3. (\A part \in Parts : part.ref \in Names) /\ \A net \in Wires : net.id \in Names
      OBVIOUS
    <2> HIDE DEF Parts, Wires
    <2>4. /\ \A i \in DOMAIN profile.parts : profile.parts[i] \in Parts
          /\ \A i \in DOMAIN profile.nets : profile.nets[i] \in Wires
      BY <2>2
    <2>5. QED
      BY <2>2, <2>3, <2>4 DEF NamedProfile
  <1>2. Readable(schematic)
    BY ReadableOnes DEF Init
  <1>3. Readable(Bundled)
    <2>1. CASE schematic_board(env) = None
      BY <2>1, ReadableOnes DEF Bundled
    <2>2. CASE schematic_board(env) # None
      <3>1. schematic_board(env) \in DOMAIN Boards
        BY <2>2, BoardsAssumption DEF schematic_board, Shortcut
      <3>2. QED
        BY <2>2, <3>1, ReadableOnes DEF Bundled
    <2>3. QED
      BY <2>1, <2>2
  <1>4. \A c \in Callers : Readable(job[c].sch)
    <2>1. \A c \in Callers : job[c] = Ingest(IF c = Boot THEN Bundled ELSE NoSchematic)
      BY DEF Init, NoJob
    <2>2. QED
      BY <1>3, <2>1, ReadableOnes, IngestIsWork
  <1>5. \A c \in Callers : ~Merging(c)
    BY DEF Init, Merging
  <1>6. Held(schematic)
    BY DEF Init, Held, NoSchematic, Stub, RefKeys, IdKeys
  <1>7. QED
    BY <1>1, <1>2, <1>4, <1>5, <1>6 DEF MergeInv, ServedInv

\* A profile that stays.
LEMMA ProfileStays ==
    ASSUME MergeInv, profile' = profile
    PROVE  NamedProfile' /\ Grew /\ \A sch : Held(sch)' <=> Held(sch)
  BY DEF MergeInv, NamedProfile, Grew, PartKeys, NetKeys, Held

LEMMA ScanHolds ==
    ASSUME NEW c \in Callers, JobsInv, MergeInv, MergeScan(c)
    PROVE  MergeInv'
  <1>1. PICK w : w = job[c] /\ IsWork(w)
    BY DEF JobsInv
  <1>2. PICK work : work =
          [w EXCEPT !.components = w.sch.components, !.nets = w.sch.nets,
                    !.refs = PartKeys(profile), !.ids = NetKeys(profile)]
    OBVIOUS
  <1>3. work = [sch |-> w.sch, components |-> w.sch.components, nets |-> w.sch.nets,
                refs |-> PartKeys(profile), ids |-> NetKeys(profile),
                target |-> w.target, kind |-> w.kind, generation |-> w.generation]
    BY <1>1, <1>2 DEF IsWork
  <1>4. /\ Goto(c, "merge", work) /\ IsWork(work) /\ work.sch = job[c].sch
        /\ work.refs = PartKeys(profile) /\ work.ids = NetKeys(profile)
        /\ work.components = work.sch.components /\ work.nets = work.sch.nets
        /\ profile' = profile /\ schematic' = schematic
    <2>1. Goto(c, "merge", work) /\ profile' = profile /\ schematic' = schematic
      BY <1>1, <1>2 DEF MergeScan
    <2>2. work.sch = job[c].sch
      BY <1>1, <1>3
    <2>3. QED
      BY <1>1, <1>3, <2>1, <2>2 DEF IsWork
  <1>5. Readable(work.sch)
    BY <1>4 DEF MergeInv
  <1>6. NamedProfile' /\ Grew
    BY <1>4, ProfileStays
  <1>7. Merges(work)'
    BY <1>4, <1>5, <1>6 DEF Merges, Readable, Grew
  <1>8. ServedInv'
    BY <1>4, <1>6, ServedStays DEF Ingesting
  <1>9. QED
    BY <1>4, <1>5, <1>6, <1>7, <1>8, MergeGoes

LEMMA ComponentHolds ==
    ASSUME NEW c \in Callers, ProfileInv, JobsInv, MergeInv, MergeComponent(c)
    PROVE  MergeInv'
  <1>1. PICK comp : comp = Head(job[c].components)
    OBVIOUS
  <1>2. PICK rest : rest = [job[c] EXCEPT !.components = Tail(@)]
    OBVIOUS
  <1>3. PICK refs : refs = rest.refs \cup {Fold[comp.ref]}
    OBVIOUS
  <1>4. PICK added : added = [rest EXCEPT !.refs = refs]
    OBVIOUS
  <1>5. IsWork(job[c]) /\ Merging(c) /\ schematic' = schematic /\ job[c].components # <<>>
    BY DEF JobsInv, MergeComponent, Merging
  <1>6. /\ IsWork(rest) /\ rest.refs = job[c].refs /\ rest.ids = job[c].ids
        /\ rest.sch = job[c].sch /\ rest.nets = job[c].nets
        /\ rest.components = Tail(job[c].components)
    BY <1>2, <1>5 DEF IsWork
  <1>7. /\ IsWork(added) /\ added.refs = refs /\ added.ids = job[c].ids
        /\ added.sch = job[c].sch /\ added.nets = job[c].nets
        /\ added.components = Tail(job[c].components)
    BY <1>4, <1>6 DEF IsWork
  <1>8. Readable(job[c].sch) /\ Merges(job[c])
    BY <1>5 DEF MergeInv
  <1>9. /\ Refs(Tail(job[c].components)) /\ comp.ref \in Names \cup {None}
        /\ \A key \in RefKeys(job[c].components) :
              \/ key \in RefKeys(Tail(job[c].components))
              \/ comp.ref # None /\ key = Fold[comp.ref]
    BY <1>1, <1>5, <1>8, RefsTail DEF Merges
  <1>10. CASE /\ comp.ref = None \/ Fold[comp.ref] \in job[c].refs
              /\ Goto(c, "merge", rest) /\ profile' = profile
    <2>1. NamedProfile' /\ Grew
      BY <1>10, ProfileStays
    <2>2. Merges(rest)
      BY <1>6, <1>8, <1>9, <1>10 DEF Merges
    <2>3. Merges(rest)'
      BY <1>10, <2>2 DEF Merges, PartKeys, NetKeys
    <2>4. ServedInv'
      BY <1>5, <1>6, <1>10, <2>1, ServedStays DEF Ingesting
    <2>5. QED
      BY <1>5, <1>6, <1>8, <1>10, <2>1, <2>3, <2>4, MergeGoes
  <1>11. CASE /\ comp.ref # None
              /\ profile' = [profile EXCEPT !.parts = Added(@, MintedPart(comp))]
              /\ Goto(c, "merge", added)
    <2>1. PICK part : part = MintedPart(comp) /\ part.ref = comp.ref
      <3>1. MintedPart(comp).ref = comp.ref
        BY DEF MintedPart
      <3>2. QED
        BY <3>1
    <2>2. profile'.parts = Append(profile.parts, part) /\ profile'.nets = profile.nets
      BY <1>11, <2>1 DEF ProfileInv, Added
    <2>3. /\ \E T : profile'.parts \in Seq(T)
          /\ \A i \in DOMAIN profile.parts :
                i \in DOMAIN profile'.parts /\ profile'.parts[i] = profile.parts[i]
          /\ \E n \in DOMAIN profile'.parts : profile'.parts[n] = part
          /\ \A i \in DOMAIN profile'.parts :
                \/ profile'.parts[i] = part
                \/ i \in DOMAIN profile.parts /\ profile'.parts[i] = profile.parts[i]
      <3>1. PICK S : profile.parts \in Seq(S)
        BY DEF MergeInv, NamedProfile
      <3>2. PICK cur : cur = profile.parts
        OBVIOUS
      <3>3. PICK new : new = profile'.parts
        OBVIOUS
      <3>4. cur \in Seq(S) /\ new = Append(cur, part)
        BY <2>2, <3>1, <3>2, <3>3
      <3>5. /\ \E T : new \in Seq(T)
            /\ \A i \in DOMAIN cur : i \in DOMAIN new /\ new[i] = cur[i]
            /\ \E n \in DOMAIN new : new[n] = part
            /\ \A i \in DOMAIN new : new[i] = part \/ (i \in DOMAIN cur /\ new[i] = cur[i])
        BY ONLY <3>4, OneMore
      <3>6. QED
        BY ONLY <3>2, <3>3, <3>5
    <2>4. NamedProfile'
      BY <1>9, <1>11, <2>1, <2>2, <2>3 DEF MergeInv, NamedProfile
    <2>5. /\ PartKeys(profile) \subseteq PartKeys(profile)'
          /\ Fold[comp.ref] \in PartKeys(profile)'
      BY <2>1, <2>3 DEF PartKeys
    <2>6. NetKeys(profile)' = NetKeys(profile)
      BY <2>2 DEF NetKeys
    <2>7. Grew
      BY <2>5, <2>6 DEF Grew
    <2>8. Merges(added)'
      BY <1>3, <1>6, <1>7, <1>8, <1>9, <2>5, <2>6 DEF Merges
    <2>9. ServedInv'
      BY <1>5, <1>7, <1>11, <2>7, ServedStays DEF Ingesting
    <2>10. QED
      BY <1>5, <1>7, <1>8, <1>11, <2>4, <2>7, <2>8, <2>9, MergeGoes
  <1>12. QED
    BY <1>1, <1>2, <1>3, <1>4, <1>6, <1>10, <1>11 DEF MergeComponent

LEMMA NetHolds ==
    ASSUME NEW c \in Callers, ProfileInv, JobsInv, MergeInv, MergeNet(c)
    PROVE  MergeInv'
  <1>1. PICK net : net = Head(job[c].nets)
    OBVIOUS
  <1>2. PICK rest : rest = [job[c] EXCEPT !.nets = Tail(@)]
    OBVIOUS
  <1>3. PICK ids : ids = rest.ids \cup {Fold[net.id]}
    OBVIOUS
  <1>4. PICK added : added = [rest EXCEPT !.ids = ids]
    OBVIOUS
  <1>5. IsWork(job[c]) /\ Merging(c) /\ schematic' = schematic /\ job[c].nets # <<>>
    BY DEF JobsInv, MergeNet, Merging
  <1>6. /\ IsWork(rest) /\ rest.refs = job[c].refs /\ rest.ids = job[c].ids
        /\ rest.sch = job[c].sch /\ rest.components = job[c].components
        /\ rest.nets = Tail(job[c].nets)
    BY <1>2, <1>5 DEF IsWork
  <1>7. /\ IsWork(added) /\ added.ids = ids /\ added.refs = job[c].refs
        /\ added.sch = job[c].sch /\ added.components = job[c].components
        /\ added.nets = Tail(job[c].nets)
    BY <1>4, <1>6 DEF IsWork
  <1>8. Readable(job[c].sch) /\ Merges(job[c])
    BY <1>5 DEF MergeInv
  <1>9. /\ Ids(Tail(job[c].nets)) /\ net.id \in Names \cup {None}
        /\ \A key \in IdKeys(job[c].nets) :
              \/ key \in IdKeys(Tail(job[c].nets))
              \/ net.id # None /\ key = Fold[net.id]
    BY <1>1, <1>5, <1>8, IdsTail DEF Merges
  <1>10. CASE /\ net.id = None \/ Fold[net.id] \in job[c].ids
              /\ Goto(c, "merge", rest) /\ profile' = profile
    <2>1. NamedProfile' /\ Grew
      BY <1>10, ProfileStays
    <2>2. Merges(rest)
      BY <1>6, <1>8, <1>9, <1>10 DEF Merges
    <2>3. Merges(rest)'
      BY <1>10, <2>2 DEF Merges, PartKeys, NetKeys
    <2>4. ServedInv'
      BY <1>5, <1>6, <1>10, <2>1, ServedStays DEF Ingesting
    <2>5. QED
      BY <1>5, <1>6, <1>8, <1>10, <2>1, <2>3, <2>4, MergeGoes
  <1>11. CASE /\ net.id # None
              /\ profile' = [profile EXCEPT !.nets = Added(@, MintedNet(net))]
              /\ Goto(c, "merge", added)
    <2>1. PICK minted : minted = MintedNet(net) /\ minted.id = net.id
      <3>1. MintedNet(net).id = net.id
        BY DEF MintedNet
      <3>2. QED
        BY <3>1
    <2>2. profile'.nets = Append(profile.nets, minted) /\ profile'.parts = profile.parts
      BY <1>11, <2>1 DEF ProfileInv, Added
    <2>3. /\ \E T : profile'.nets \in Seq(T)
          /\ \A i \in DOMAIN profile.nets :
                i \in DOMAIN profile'.nets /\ profile'.nets[i] = profile.nets[i]
          /\ \E n \in DOMAIN profile'.nets : profile'.nets[n] = minted
          /\ \A i \in DOMAIN profile'.nets :
                \/ profile'.nets[i] = minted
                \/ i \in DOMAIN profile.nets /\ profile'.nets[i] = profile.nets[i]
      <3>1. PICK S : profile.nets \in Seq(S)
        BY DEF MergeInv, NamedProfile
      <3>2. PICK cur : cur = profile.nets
        OBVIOUS
      <3>3. PICK new : new = profile'.nets
        OBVIOUS
      <3>4. cur \in Seq(S) /\ new = Append(cur, minted)
        BY <2>2, <3>1, <3>2, <3>3
      <3>5. /\ \E T : new \in Seq(T)
            /\ \A i \in DOMAIN cur : i \in DOMAIN new /\ new[i] = cur[i]
            /\ \E n \in DOMAIN new : new[n] = minted
            /\ \A i \in DOMAIN new : new[i] = minted \/ (i \in DOMAIN cur /\ new[i] = cur[i])
        BY ONLY <3>4, OneMore
      <3>6. QED
        BY ONLY <3>2, <3>3, <3>5
    <2>4. NamedProfile'
      BY <1>9, <1>11, <2>1, <2>2, <2>3 DEF MergeInv, NamedProfile
    <2>5. /\ NetKeys(profile) \subseteq NetKeys(profile)'
          /\ Fold[net.id] \in NetKeys(profile)'
      BY <2>1, <2>3 DEF NetKeys
    <2>6. PartKeys(profile)' = PartKeys(profile)
      BY <2>2 DEF PartKeys
    <2>7. Grew
      BY <2>5, <2>6 DEF Grew
    <2>8. Merges(added)'
      BY <1>3, <1>6, <1>7, <1>8, <1>9, <2>5, <2>6 DEF Merges
    <2>9. ServedInv'
      BY <1>5, <1>7, <1>11, <2>7, ServedStays DEF Ingesting
    <2>10. QED
      BY <1>5, <1>7, <1>8, <1>11, <2>4, <2>7, <2>8, <2>9, MergeGoes
  <1>12. QED
    BY <1>1, <1>2, <1>3, <1>4, <1>6, <1>10, <1>11 DEF MergeNet

LEMMA CacheHolds ==
    ASSUME NEW c \in Callers, JobsInv, MergeInv, CacheSchematic(c)
    PROVE  MergeInv'
  <1>1. /\ Goto(c, "scan", job[c]) /\ IsWork(job[c]) /\ Readable(job[c].sch)
        /\ schematic' = job[c].sch /\ profile' = profile
    BY DEF CacheSchematic, JobsInv, MergeInv
  <1>2. NamedProfile' /\ Grew
    BY <1>1, ProfileStays
  <1>3. pc'[c] = "scan" /\ job'[c] = job[c]
    BY <1>1, Went
  <1>4. ServedInv'
    BY <1>1, <1>3 DEF ServedInv, Ingesting
  <1>5. QED
    BY <1>1, <1>2, <1>4, MergeGoes

LEMMA ResolverHolds ==
    ASSUME NEW c \in Callers, JobsInv, MergeInv, NewResolver(c)
    PROVE  MergeInv'
  <1>1. /\ Goto(c, "idle", NoJob) /\ IsWork(NoJob) /\ Readable(NoJob.sch)
        /\ schematic' = schematic /\ profile' = profile
    BY IngestIsWork, ReadableOnes DEF NewResolver, NoJob
  <1>2. NamedProfile' /\ Grew
    BY <1>1, ProfileStays
  <1>3. Merges(job[c]) /\ job[c].components = <<>> /\ job[c].nets = <<>>
    BY DEF NewResolver, MergeInv, Merging
  <1>4. RefKeys(<<>>) = {} /\ IdKeys(<<>>) = {}
    BY DEF RefKeys, IdKeys
  <1>5. Held(job[c].sch)
    BY <1>3, <1>4 DEF Merges, Held
  <1>6. ServedInv'
    BY <1>1, <1>2, <1>5, ServedStays
  <1>7. QED
    BY <1>1, <1>2, <1>6, MergeGoes

LEMMA MergeInvStep ==
    ASSUME ProfileInv, JobsInv, MergeInv, [Next]_vars
    PROVE  MergeInv'
  <1>1. ASSUME NEW c \in Callers, NEW label, NEW work, Goto(c, label, work), IsWork(work),
               Readable(work.sch), pc[c] \notin Ingesting, label # "merge",
               UNCHANGED <<profile, schematic>>
        PROVE  MergeInv'
    <2>1. NamedProfile' /\ Grew
      BY <1>1, ProfileStays
    <2>2. ServedInv'
      BY <1>1, <2>1, ServedStays
    <2>3. QED
      BY <1>1, <2>1, <2>2, MergeGoes
  <1>2. ASSUME UNCHANGED <<profile, schematic, pc, job>>
        PROVE  MergeInv'
    <2>1. NamedProfile' /\ Grew /\ (Held(schematic) => Held(schematic)')
      BY <1>2, ProfileStays DEF Held
    <2>2. ServedInv'
      BY <1>2, <2>1 DEF MergeInv, ServedInv
    <2>3. ASSUME NEW d \in Callers, Merging(d)' PROVE Merges(job[d])'
      <3>1. Merges(job[d]) /\ job'[d] = job[d]
        BY <1>2, <2>3 DEF MergeInv, Merging
      <3>2. QED
        BY <2>1, <3>1 DEF Grew, Merges
    <2>4. Readable(schematic)' /\ \A d \in Callers : Readable(job[d].sch)'
      BY <1>2 DEF MergeInv, Readable
    <2>5. QED
      BY <2>1, <2>2, <2>3, <2>4 DEF MergeInv
  <1>3. IsWork(NoJob) /\ Readable(NoJob.sch)
    BY IngestIsWork, ReadableOnes DEF NoJob
  <1>4. ASSUME NEW c \in Callers, IngestStep(c) PROVE MergeInv'
    BY <1>4, CacheHolds, ScanHolds, ComponentHolds, NetHolds, ResolverHolds DEF IngestStep
  <1>5. ASSUME NEW c \in Threads, VisionAnswers(c) PROVE MergeInv'
    <2>1. c \in Callers /\ UNCHANGED <<profile, schematic>> /\ pc[c] \notin Ingesting
      BY <1>5 DEF VisionAnswers, Callers, Ingesting
    <2>2. \/ \E sch \in Schematics : Goto(c, "ingest", Ingest(Normalized(sch)))
          \/ Goto(c, "ingest", Ingest(Stub))
          \/ Goto(c, "retry", NoJob)
      BY <1>5 DEF VisionAnswers
    <2>3. CASE \E sch \in Schematics : Goto(c, "ingest", Ingest(Normalized(sch)))
      <3>1. PICK sch \in Schematics : Goto(c, "ingest", Ingest(Normalized(sch)))
        BY <2>3
      <3>2. IsWork(Ingest(Normalized(sch))) /\ Readable(Ingest(Normalized(sch)).sch)
        BY IngestIsWork, ReadableOnes
      <3>3. QED
        BY <1>1, <2>1, <3>1, <3>2
    <2>4. CASE Goto(c, "ingest", Ingest(Stub))
      <3>1. IsWork(Ingest(Stub)) /\ Readable(Ingest(Stub).sch)
        BY IngestIsWork, ReadableOnes
      <3>2. QED
        BY <1>1, <2>1, <2>4, <3>1
    <2>5. CASE Goto(c, "retry", NoJob)
      BY <1>1, <1>3, <2>1, <2>5
    <2>6. QED
      BY <2>2, <2>3, <2>4, <2>5
  <1>6. ASSUME NEW c \in Threads, LimitResolved(c) PROVE MergeInv'
    <2>1. c \in Callers /\ UNCHANGED <<profile, schematic>> /\ pc[c] \notin Ingesting
          /\ Goto(c, "idle", NoJob)
      BY <1>6 DEF LimitResolved, Callers, Ingesting
    <2>2. QED
      BY <1>1, <1>3, <2>1
  <1>7. ASSUME NEW c \in Threads, NEW uri \in 1..MaxFrames, ParseTool(c, uri) PROVE MergeInv'
    <2>1. c \in Callers /\ UNCHANGED <<profile, schematic>> /\ pc[c] \notin Ingesting
      BY <1>7 DEF ParseTool, Callers, Free, Ingesting
    <2>2. Goto(c, "call", NoJob) \/ UNCHANGED <<pc, job>>
      BY <1>7 DEF ParseTool
    <2>3. QED
      BY <1>1, <1>2, <1>3, <2>1, <2>2
  <1>8. ASSUME NEW c \in Threads, NEW asked \in Asked, LimitMissed(c, asked) PROVE MergeInv'
    <2>1. c \in Callers /\ UNCHANGED <<profile, schematic>> /\ pc[c] \notin Ingesting
      BY <1>8 DEF LimitMissed, Callers, Free, Ingesting
    <2>2. PICK work : work = [NoJob EXCEPT !.target = asked[1], !.kind = asked[2],
                                           !.generation = resolver.generation]
      OBVIOUS
    <2>3. Goto(c, "resolve", work)
      BY <1>8, <2>2 DEF LimitMissed
    <2>4. IsWork(work) /\ work.sch = NoSchematic
      <3>1. work = [sch |-> NoSchematic, components |-> <<>>, nets |-> <<>>, refs |-> {},
                    ids |-> {}, target |-> asked[1], kind |-> asked[2],
                    generation |-> resolver.generation]
        BY <2>2 DEF NoJob, Ingest
      <3>2. QED
        BY <3>1 DEF IsWork
    <2>5. QED
      BY <1>1, <2>1, <2>3, <2>4, ReadableOnes
  <1>9. ASSUME NEW c \in Threads, NEW asked \in Asked, LimitCached(c, asked) PROVE MergeInv'
    BY <1>2, <1>9 DEF LimitCached
  <1>10. CASE TakeSnapshot \/ UNCHANGED vars
    <2>1. UNCHANGED <<profile, schematic, pc, job>>
      BY <1>10 DEF TakeSnapshot, vars
    <2>2. QED
      BY <1>2, <2>1
  <1>11. QED
    BY <1>4, <1>5, <1>6, <1>7, <1>8, <1>9, <1>10, Zenon DEF Next

\* A name is found wherever a name of the same letters is.
LEMMA FoundByName ==
    ASSUME NEW token, NEW one \in Names, NEW other \in Names, Fold[one] = Fold[other],
           <<token, one>> \in Within
    PROVE  <<token, other>> \in Within /\ other # None
  BY WithinAssumption, NamesAssumption

LEMMA HeldIsFound ==
    ASSUME MergeInv, Quiet, NEW token \in Long
    PROVE  /\ \A i \in ComponentHits(token) :
                 LET ref == schematic.components[i].ref
                 IN  ref # None /\ <<token, ref>> \in Within =>
                         \E j \in PartMatches(<<token>>) : Fold[profile.parts[j].ref] = Fold[ref]
           /\ \A i \in SchNetHits(token) :
                 \E j \in NetMatches(<<token>>) :
                     Fold[profile.nets[j].id] = Fold[schematic.nets[i].id]
  <1>1. Held(schematic)
    BY DEF MergeInv, ServedInv, Quiet, Ingesting
  <1>2. token \in ToSet(<<token>>) \cap Long
    BY DEF ToSet
  <1>3. ASSUME NEW i \in ComponentHits(token), NEW ref, ref = schematic.components[i].ref,
               ref # None, <<token, ref>> \in Within
        PROVE  \E j \in PartMatches(<<token>>) : Fold[profile.parts[j].ref] = Fold[ref]
    <2>1. i \in DOMAIN schematic.components /\ ref \in Names
      BY <1>3 DEF ComponentHits, MergeInv, Readable, Refs
    <2>2. Fold[ref] \in PartKeys(profile)
      BY <1>1, <1>3, <2>1 DEF Held, RefKeys
    <2>3. PICK j \in DOMAIN profile.parts : Fold[profile.parts[j].ref] = Fold[ref]
      BY <2>2 DEF PartKeys
    <2>4. profile.parts[j].ref \in Names
      BY DEF MergeInv, NamedProfile
    <2>5. <<token, profile.parts[j].ref>> \in Within /\ profile.parts[j].ref # None
      BY <1>3, <2>1, <2>3, <2>4, FoundByName
    <2>6. j \in PartMatches(<<token>>)
      BY <1>2, <2>5 DEF PartMatches, Matches
    <2>7. QED
      BY <2>3, <2>6
  <1>4. ASSUME NEW i \in SchNetHits(token)
        PROVE  \E j \in NetMatches(<<token>>) :
                   Fold[profile.nets[j].id] = Fold[schematic.nets[i].id]
    <2>1. PICK id : id = schematic.nets[i].id
      OBVIOUS
    <2>2. i \in DOMAIN schematic.nets /\ <<token, id>> \in Within
      BY <2>1 DEF SchNetHits
    <2>3. id # None /\ id \in Names
      BY <2>1, <2>2, WithinAssumption DEF MergeInv, Readable, Ids
    <2>4. Fold[id] \in NetKeys(profile)
      BY <1>1, <2>1, <2>2, <2>3 DEF Held, IdKeys
    <2>5. PICK j \in DOMAIN profile.nets : Fold[profile.nets[j].id] = Fold[id]
      BY <2>4 DEF NetKeys
    <2>6. profile.nets[j].id \in Names
      BY DEF MergeInv, NamedProfile
    <2>7. <<token, profile.nets[j].id>> \in Within /\ profile.nets[j].id # None
      BY <2>2, <2>3, <2>5, <2>6, FoundByName
    <2>8. j \in NetMatches(<<token>>)
      BY <1>2, <2>7 DEF NetMatches, Matches
    <2>9. QED
      BY <2>1, <2>5, <2>8
  <1>5. QED
    BY <1>3, <1>4

(* Once no tool call is under way, whatever lookup_schematic finds by ref  *)
(* or net id is found by lookup_board_doc too, for every number of worker  *)
(* threads and every order of their ingests' steps: the schematic that was *)
(* cached last is in the profile, whoever else was merging                 *)
(* (knowledge/__init__.py:144-198).                                        *)
THEOREM ServedAlwaysMerged == Spec => []ServedIsMerged
  <1>1. MergeInv => ServedIsMerged
    BY HeldIsFound DEF ServedIsMerged
  <1>2. /\ Inv /\ JobsInv /\ BoardInv /\ MergeInv
        /\ [Next]_vars
        => (Inv /\ JobsInv /\ BoardInv /\ MergeInv)'
    BY InvNext, BoardInvStep, MergeInvStep DEF Inv
  <1>3. QED
    BY InvInit, BoardInvInit, MergeInvInit, <1>1, <1>2, PTL DEF Spec

-----------------------------------------------------------------------------
\* r has m places, and each of the hits once, better ones first.
Ranks(r, m, scores, hits) ==
    /\ m \in Nat /\ r \in Seq(hits) /\ Len(r) = m
    /\ \A i \in hits : \E k \in 1..m : r[k] = i
    /\ \A j, k \in 1..m : j < k => Better(scores, r[j], r[k])

(* A ranking is in that form.                                              *)
LEMMA RankedIs ==
    ASSUME NEW n \in Nat, NEW scores \in [1..n -> Nat], NEW hits, hits \subseteq 1..n
    PROVE  Ranks(Ranked(scores, hits), Cardinality(hits), scores, hits)
  <1> DEFINE before == {p \in hits \X hits : Better(scores, p[1], p[2])}
             m == Cardinality(hits)
             r == Listed(hits, before)
  <1>1. IsFiniteSet(hits)
    <2>1. IsFiniteSet(1..n)
      BY FS_Interval
    <2>2. QED
      BY <2>1, FS_Subset
  <1>2. \A x, y \in hits : <<x, y>> \in before <=> Better(scores, x, y)
    OBVIOUS
  <1>3. Orders(before, hits)
    <2>1. \A x \in hits : x \in Int /\ scores[x] \in Int
      OBVIOUS
    <2>2. \A x \in hits : ~ Better(scores, x, x)
      BY <2>1 DEF Better
    <2>3. \A x, y, z \in hits :
             Better(scores, x, y) /\ Better(scores, y, z) => Better(scores, x, z)
      BY <2>1 DEF Better
    <2>4. \A x, y \in hits : x # y => Better(scores, x, y) \/ Better(scores, y, x)
      BY <2>1 DEF Better
    <2> HIDE DEF before
    <2>5. QED
      BY <1>2, <2>2, <2>3, <2>4 DEF Orders
  <1> HIDE DEF before
  <1>4. /\ m \in Nat
        /\ r \in Bijection(1..m, hits)
        /\ \A j, k \in 1..m : j < k => <<r[j], r[k]>> \in before
    BY <1>1, <1>3, ListedOnce
  <1>5. r \in [1..m -> hits] /\ \A i \in hits : \E k \in 1..m : r[k] = i
    BY <1>4 DEF Bijection, Surjection
  <1>6. r = Ranked(scores, hits)
    BY DEF Ranked, before
  <1> HIDE DEF r
  <1>7. r \in Seq(hits) /\ Len(r) = m
    BY <1>4, <1>5
  <1>8. \A j, k \in 1..m : j < k => Better(scores, r[j], r[k])
    BY <1>2, <1>4, <1>5
  <1>9. QED
    BY <1>4, <1>5, <1>6, <1>7, <1>8 DEF Ranks

(* A cut is the head of its sequence, and cutting again changes nothing.   *)
LEMMA CutIs ==
    ASSUME NEW T, NEW seq \in Seq(T), NEW limit \in Int
    PROVE  /\ Cut(seq, limit) \in Seq(T)
           /\ Len(Cut(seq, limit)) <= Len(seq)
           /\ \A k \in 1..Len(Cut(seq, limit)) : Cut(seq, limit)[k] = seq[k]
           /\ Cut(seq, limit) = <<>> <=> seq = <<>> \/ limit = 0
           /\ Cut(Cut(seq, limit), limit) = Cut(seq, limit)
  <1>1. CASE limit < 0 \/ limit >= Len(seq)
    BY <1>1 DEF Cut
  <1>2. CASE ~ (limit < 0 \/ limit >= Len(seq))
    <2>1. Cut(seq, limit) = SubSeq(seq, 1, limit) /\ limit \in Nat /\ limit < Len(seq)
      BY <1>2 DEF Cut
    <2> DEFINE head == SubSeq(seq, 1, limit)
    <2>2. /\ head \in Seq(T) /\ Len(head) = limit
          /\ \A k \in 1..limit : head[k] = seq[k]
      BY <2>1
    <2> HIDE DEF head
    <2>3. Cut(head, limit) = head
      BY <2>2 DEF Cut
    <2>4. QED
      BY <2>1, <2>2, <2>3 DEF head
  <1>3. QED
    BY <1>1, <1>2

(* A ranking of hits that beat all others can be cut off anywhere.         *)
LEMMA CutLeads ==
    ASSUME NEW n \in Nat, NEW scores \in [1..n -> Nat], NEW hits, hits \subseteq 1..n,
           \A i \in hits, j \in (1..n) \ hits : Better(scores, i, j),
           NEW limit \in Int
    PROVE  Leads(scores, Cut(Ranked(scores, hits), limit))
  <1> DEFINE m == Cardinality(hits)
             r == Ranked(scores, hits)
             shown == Cut(r, limit)
             c == Len(shown)
  <1>1. /\ m \in Nat /\ r \in Seq(hits) /\ Len(r) = m
        /\ \A i \in hits : \E k \in 1..m : r[k] = i
        /\ \A j, k \in 1..m : j < k => Better(scores, r[j], r[k])
    BY RankedIs DEF Ranks
  <1>2. DOMAIN scores = 1..n
    OBVIOUS
  <1> HIDE DEF r, m
  <1>3. shown \in Seq(hits) /\ c <= m /\ \A k \in 1..c : shown[k] = r[k]
    BY <1>1, CutIs
  <1> HIDE DEF shown
  <1>4. c \in Nat /\ ToSet(shown) = {shown[k] : k \in 1..c}
    BY <1>3 DEF ToSet
  <1>5. ASSUME NEW i \in ToSet(shown), NEW j \in (1..n) \ ToSet(shown)
        PROVE  Better(scores, i, j)
    <2>1. PICK a \in 1..c : i = r[a]
      BY <1>3, <1>4
    <2>2. i \in hits /\ a \in 1..m
      BY <1>1, <1>3, <1>4, <2>1
    <2>3. CASE j \in hits
      <3>1. PICK b \in 1..m : r[b] = j
        BY <1>1, <2>3
      <3>2. b \notin 1..c
        BY <1>3, <1>4, <3>1
      <3>3. a < b
        BY <1>1, <1>4, <3>2
      <3>4. QED
        BY <1>1, <2>1, <2>2, <3>1, <3>3
    <2>4. CASE j \notin hits
      BY <2>2, <2>4
    <2>5. QED
      BY <2>3, <2>4
  <1>6. ASSUME NEW k \in 1..c - 1
        PROVE  Better(scores, shown[k], shown[k + 1])
    <2>1. k \in 1..c /\ k + 1 \in 1..c /\ k \in 1..m /\ k + 1 \in 1..m /\ k < k + 1
      BY <1>1, <1>3, <1>4
    <2>2. QED
      BY <1>1, <1>3, <2>1
  <1>7. Leads(scores, shown)
    BY <1>2, <1>5, <1>6 DEF Leads
  <1>8. QED
    BY <1>7 DEF shown, r

-----------------------------------------------------------------------------
(* Where nothing fits, the ranking is the order of the table.              *)
LEMMA UnscoredInOrder ==
    ASSUME NEW n \in Nat, NEW scores \in [1..n -> Nat], \A i \in 1..n : scores[i] = 0
    PROVE  Ranked(scores, 1..n) = [k \in 1..n |-> k]
  <1> DEFINE S == 1..n
             before == {p \in S \X S : Better(scores, p[1], p[2])}
             below(x) == {y \in S : <<y, x>> \in before}
  <1>1. \A x, y \in S : <<y, x>> \in before <=> y < x
    BY DEF Better
  <1>2. ASSUME NEW x \in S
        PROVE  Cardinality(below(x)) = x - 1
    <2>1. below(x) = 1..(x - 1)
      <3>1. \A y \in S : <<y, x>> \in before <=> y < x
        BY <1>1
      <3> HIDE DEF before
      <3>2. QED
        BY <3>1
    <2>2. Cardinality(1..(x - 1)) = x - 1
      BY FS_Interval
    <2>3. QED
      BY <2>1, <2>2
  <1>3. Cardinality(S) = n
    BY FS_Interval
  <1>4. ASSUME NEW k \in 1..n
        PROVE  (CHOOSE x \in S : Cardinality(below(x)) = k - 1) = k
    <2> HIDE DEF below
    <2>1. \A x \in S : Cardinality(below(x)) = k - 1 <=> x = k
      BY <1>2
    <2>2. k \in S
      OBVIOUS
    <2> HIDE DEF S
    <2>3. QED
      BY <2>1, <2>2
  <1>5. Ranked(scores, S) = [k \in 1..n |-> CHOOSE x \in S : Cardinality(below(x)) = k - 1]
    BY <1>3 DEF Ranked, Listed
  <1> HIDE DEF below
  <1>6. QED
    BY <1>4, <1>5

(* Where the best has no score, none has.                                  *)
LEMMA BestUnscored ==
    ASSUME NEW n \in Nat, n # 0, NEW scores \in [1..n -> Nat],
           scores[Ranked(scores, 1..n)[1]] = 0
    PROVE  \A i \in 1..n : scores[i] = 0
  <1> DEFINE r == Ranked(scores, 1..n)
             m == Cardinality(1..n)
  <1>1. /\ m \in Nat /\ r \in Seq(1..n) /\ Len(r) = m
        /\ \A i \in 1..n : \E k \in 1..m : r[k] = i
        /\ \A j, k \in 1..m : j < k => Better(scores, r[j], r[k])
    <2>1. 1..n \subseteq 1..n
      OBVIOUS
    <2>2. QED
      BY <2>1, RankedIs DEF Ranks
  <1> HIDE DEF m
  <1>2. scores[r[1]] = 0
    OBVIOUS
  <1> HIDE DEF r
  <1>3. SUFFICES ASSUME NEW i \in 1..n
                 PROVE  scores[i] = 0
    OBVIOUS
  <1>4. PICK k \in 1..m : r[k] = i
    BY <1>1
  <1>5. CASE k = 1
    BY <1>2, <1>4, <1>5
  <1>6. CASE k # 1
    <2>1. 1 \in 1..m /\ 1 < k
      BY <1>1, <1>6
    <2>2. Better(scores, r[1], i)
      BY <1>1, <1>4, <2>1
    <2>3. scores[i] \in Nat
      OBVIOUS
    <2>4. QED
      BY <1>2, <2>2, <2>3 DEF Better
  <1>7. QED
    BY <1>5, <1>6

(* The entry that leads when nothing fits leads the ranking already.       *)
LEMMA FallbackLeads ==
    ASSUME NEW c \in Nat, c # 0, NEW seq \in Seq(Nat), seq = [k \in 1..c |-> k]
    PROVE  <<1>> \o Picked(seq, {k \in DOMAIN seq : seq[k] # 1}) = seq
  <1> DEFINE places == {k \in DOMAIN seq : seq[k] # 1}
             g == [k \in 1..(c - 1) |-> k + 1]
             others == Picked(seq, places)
             whole == <<1>> \o others
  <1>1. Len(seq) = c /\ DOMAIN seq = 1..c /\ \A k \in 1..c : seq[k] = k
    OBVIOUS
  <1>2. places = 2..c /\ places \subseteq DOMAIN seq
    BY <1>1
  <1> HIDE DEF places
  <1>3. /\ g \in Bijection(1..(c - 1), places)
        /\ Climbs(g, c - 1)
    <2>1. g \in [1..(c - 1) -> 2..c]
      OBVIOUS
    <2>2. \A j, k \in 1..(c - 1) : g[j] = g[k] => j = k
      OBVIOUS
    <2>3. \A x \in 2..c : \E k \in 1..(c - 1) : g[k] = x
      <3>1. SUFFICES ASSUME NEW x \in 2..c
                     PROVE  \E k \in 1..(c - 1) : g[k] = x
        OBVIOUS
      <3>2. x - 1 \in 1..(c - 1) /\ g[x - 1] = x
        OBVIOUS
      <3>3. QED
        BY <3>2
    <2>4. \A j, k \in 1..(c - 1) : j < k => g[j] < g[k]
      OBVIOUS
    <2> HIDE DEF g
    <2>5. QED
      BY <1>2, <2>1, <2>2, <2>3, <2>4
      DEF Bijection, Injection, Surjection, IsInjective, Climbs
  <1>4. others = [k \in 1..(c - 1) |-> seq[g[k]]]
    <2> DEFINE last == c - 1
    <2>1. last \in Nat
      OBVIOUS
    <2>2. g \in Bijection(1..last, places)
      BY <1>3
    <2>3. Climbs(g, last)
      BY <1>3
    <2>4. places \subseteq DOMAIN seq
      BY <1>2
    <2> HIDE DEF g, last
    <2>5. others = [k \in 1..last |-> seq[g[k]]]
      BY ONLY seq \in Seq(Nat), <2>1, <2>2, <2>3, <2>4, PickedIs
    <2>6. QED
      BY <2>5 DEF last
  <1> HIDE DEF others
  <1>5. \A k \in 1..(c - 1) : g[k] \in 1..c /\ g[k] = k + 1
    OBVIOUS
  <1> HIDE DEF g
  <1>6. /\ others \in Seq(Nat) /\ Len(others) = c - 1
        /\ \A k \in 1..(c - 1) : others[k] = k + 1
    BY <1>1, <1>4, <1>5
  <1>7. /\ whole \in Seq(Nat) /\ Len(whole) = c
        /\ \A k \in 1..c : whole[k] = k
    BY <1>6
  <1> HIDE DEF whole
  <1>8. whole = seq
    BY <1>1, <1>7, SeqEqual
  <1>9. QED
    BY <1>8 DEF whole, others, places

-----------------------------------------------------------------------------
(* A score is a natural number, for every query.                          *)
LEMMA ScoreType ==
    ASSUME NEW keywords, NEW Token, NEW query \in Seq(Token)
    PROVE  Score(keywords, query) \in Nat
  <1> DEFINE token == [k \in 1..Len(query) |-> query[k]]
             hits == {t \in ToSet(query) : <<t>> \in keywords}
  <1>1. token \in Surjection(1..Len(query), ToSet(query))
    BY DEF ToSet, Surjection
  <1>2. IsFiniteSet(1..Len(query))
    BY FS_Interval
  <1> HIDE DEF token
  <1>3. IsFiniteSet(ToSet(query))
    BY <1>1, <1>2, FS_Surjection
  <1>4. hits \in SUBSET ToSet(query)
    OBVIOUS
  <1> HIDE DEF hits
  <1>5. Cardinality(hits) \in Nat
    BY <1>3, <1>4, FS_Subset, FS_CardinalityType
  <1>6. Score(keywords, query) = Cardinality(hits) + (IF query \in keywords THEN 1 ELSE 0)
    BY DEF Score, hits
  <1>7. QED
    BY <1>5, <1>6

LEMMA ScoresType ==
    ASSUME NEW n \in Nat, NEW entries, DOMAIN entries = 1..n,
           NEW Token, NEW query \in Seq(Token)
    PROVE  Scores(entries, query) \in [1..n -> Nat]
  <1>1. \A i \in 1..n : Score(entries[i].keywords, query) \in Nat
    BY ScoreType
  <1>2. QED
    BY <1>1 DEF Scores

(* Putting the first entry in front changes nothing: when the best one has *)
(* no score, the first one leads the ranking already.                      *)
LEMMA BestIsRanked ==
    ASSUME NEW n \in Nat, n # 0, NEW entries, DOMAIN entries = 1..n,
           NEW Token, NEW query \in Seq(Token), NEW pages \in Int
    PROVE  best_entries(entries, query, pages) =
               Cut(Ranked(Scores(entries, query), 1..n), pages)
  <1> DEFINE scores == Scores(entries, query)
             r == Ranked(scores, 1..n)
             ranked == Cut(r, pages)
             others == Picked(ranked, {k \in DOMAIN ranked : ranked[k] # 1})
             best == best_entries(entries, query, pages)
  <1>1. scores \in [1..n -> Nat]
    BY ScoresType
  <1>2. best = IF ranked # <<>> /\ scores[ranked[1]] = 0 THEN Cut(<<1>> \o others, pages)
               ELSE ranked
    BY <1>1 DEF best_entries
  <1>3. SUFFICES best = ranked
    OBVIOUS
  <1>4. r \in Seq(1..n)
    <2>1. 1..n \subseteq 1..n
      OBVIOUS
    <2>2. QED
      BY <1>1, <2>1, RankedIs DEF Ranks
  <1> HIDE DEF best, scores
  <1>5. CASE ranked # <<>> /\ scores[ranked[1]] = 0
    <2> HIDE DEF r
    <2>1. /\ ranked \in Seq(1..n) /\ Len(ranked) <= Len(r) /\ Len(ranked) # 0
          /\ \A k \in 1..Len(ranked) : ranked[k] = r[k]
          /\ Cut(ranked, pages) = ranked
      BY <1>4, <1>5, CutIs
    <2> HIDE DEF ranked
    <2>2. Len(ranked) \in Nat /\ 1 \in 1..Len(ranked)
      BY <2>1
    <2>3. scores[r[1]] = 0
      BY <1>5, <2>1, <2>2
    <2>4. \A i \in 1..n : scores[i] = 0
      BY <1>1, <2>3, BestUnscored DEF r
    <2>5. r = [k \in 1..n |-> k]
      BY <1>1, <2>4, UnscoredInOrder DEF r
    <2>6. Len(r) = n
      BY <2>5
    <2> DEFINE c == Len(ranked)
    <2>7. \A k \in 1..c : ranked[k] = k
      <3>1. c <= n
        BY <2>1, <2>6
      <3>2. \A k \in 1..c : k \in 1..n
        BY <2>2, <3>1
      <3>3. QED
        BY <2>1, <2>5, <3>2
    <2>8. ranked \in Seq(Nat)
      BY <2>1
    <2>9. c \in Nat /\ c # 0
      BY <2>1, <2>2
    <2>10. ranked = [k \in 1..c |-> k]
      BY <2>7, <2>8
    <2> HIDE DEF c
    <2>11. <<1>> \o others = ranked
      BY ONLY <2>8, <2>9, <2>10, FallbackLeads
    <2>12. best = Cut(<<1>> \o others, pages)
      BY <1>2, <1>5 DEF ranked
    <2>13. QED
      BY <2>1, <2>11, <2>12
  <1>6. CASE ~ (ranked # <<>> /\ scores[ranked[1]] = 0)
    BY <1>2, <1>6
  <1>7. QED
    BY <1>5, <1>6

(* What lookup_datasheet returns of a table that is not empty.             *)
LEMMA BestLeads ==
    ASSUME NEW n \in Nat, n # 0, NEW entries, DOMAIN entries = 1..n,
           NEW Token, NEW query \in Seq(Token), NEW pages \in Int
    PROVE  /\ best_entries(entries, query, pages) = <<>> <=> pages = 0
           /\ Leads(Scores(entries, query), best_entries(entries, query, pages))
  <1> DEFINE scores == Scores(entries, query)
             r == Ranked(scores, 1..n)
  <1>1. scores \in [1..n -> Nat]
    BY ScoresType
  <1>2. best_entries(entries, query, pages) = Cut(r, pages)
    BY BestIsRanked
  <1> HIDE DEF scores
  <1>3. 1..n \subseteq 1..n
    OBVIOUS
  <1>4. r \in Seq(1..n) /\ r # <<>>
    <2>1. Ranks(r, Cardinality(1..n), scores, 1..n)
      BY <1>1, <1>3, RankedIs
    <2>2. Cardinality(1..n) = n
      BY FS_Interval
    <2> HIDE DEF r
    <2>3. QED
      BY <2>1, <2>2 DEF Ranks
  <1>5. Leads(scores, Cut(r, pages))
    <2>1. \A i \in 1..n, j \in (1..n) \ (1..n) : Better(scores, i, j)
      OBVIOUS
    <2>2. QED
      BY <1>1, <1>3, <2>1, CutLeads
  <1> HIDE DEF r
  <1>6. Cut(r, pages) = <<>> <=> pages = 0
    BY <1>4, CutIs
  <1>7. QED
    BY <1>2, <1>5, <1>6 DEF scores

(* No datasheet is empty.                                                  *)
LEMMA SheetsFilled ==
    ASSUME NEW sheet \in DOMAIN Datasheets
    PROVE  \E n \in Nat : n # 0 /\ DOMAIN Datasheets[sheet] = 1..n
  <1>1. sheet \in {"bq79616", "bq79600", "esp32", "ams1117"}
    BY ONLY sheet \in DOMAIN Datasheets DEF Datasheets
  <1>2. Len(Datasheets["bq79616"]) = 4 /\ DOMAIN Datasheets["bq79616"] = 1..4
    BY ONLY TRUE DEF Datasheets
  <1>3. Len(Datasheets["bq79600"]) = 3 /\ DOMAIN Datasheets["bq79600"] = 1..3
    BY ONLY TRUE DEF Datasheets
  <1>4. Len(Datasheets["esp32"]) = 3 /\ DOMAIN Datasheets["esp32"] = 1..3
    BY ONLY TRUE DEF Datasheets
  <1>5. Len(Datasheets["ams1117"]) = 3 /\ DOMAIN Datasheets["ams1117"] = 1..3
    BY ONLY TRUE DEF Datasheets
  <1>6. DOMAIN Datasheets[sheet] = 1..4 \/ DOMAIN Datasheets[sheet] = 1..3
    BY ONLY <1>1, <1>2, <1>3, <1>4, <1>5
  <1>7. 3 \in Nat /\ 3 # 0 /\ 4 \in Nat /\ 4 # 0
    OBVIOUS
  <1>8. QED
    BY ONLY <1>6, <1>7, Zenon

(* What lookup_board_doc returns, the overview included.                   *)
LEMMA DocPassagesLead ==
    ASSUME NEW Token, NEW query \in Seq(Token)
    PROVE  doc_passages(query) # <<>> /\ Leads(Scores(BoardDocs, query), doc_passages(query))
  <1> DEFINE scores == Scores(BoardDocs, query)
             hits == Fitting(scores)
             top == Ranked(scores, hits)
  <1>1. DOMAIN BoardDocs = 1..4
    BY DEF BoardDocs
  <1>2. scores \in [1..4 -> Nat]
    BY <1>1, ScoresType
  <1>3. doc_passages(query) = IF top = <<>> THEN <<1>> ELSE Cut(top, 3)
    BY DEF doc_passages
  <1> HIDE DEF scores
  <1>4. hits \subseteq 1..4 /\ hits = {i \in 1..4 : scores[i] > 0}
    BY <1>2 DEF Fitting
  <1> HIDE DEF hits
  <1>5. Ranks(top, Cardinality(hits), scores, hits)
    BY <1>2, <1>4, RankedIs
  <1>6. CASE top = <<>>
    <2> HIDE DEF top
    <2>1. hits = {}
      BY <1>5, <1>6 DEF Ranks
    <2>2. \A i \in 1..4 : scores[i] = 0
      BY <1>2, <1>4, <2>1
    <2>3. ToSet(<<1>>) = {1}
      BY DEF ToSet
    <2>4. \A j \in (1..4) \ {1} : Better(scores, 1, j)
      BY <2>2 DEF Better
    <2>5. DOMAIN scores = 1..4
      BY <1>2
    <2>6. Len(<<1>>) = 1
      OBVIOUS
    <2>7. Leads(scores, <<1>>)
      BY <2>3, <2>4, <2>5, <2>6 DEF Leads
    <2>8. QED
      BY <1>3, <1>6, <2>7 DEF scores
  <1>7. CASE top # <<>>
    <2>1. \A i \in hits, j \in (1..4) \ hits : Better(scores, i, j)
      BY <1>2, <1>4 DEF Better
    <2>2. Leads(scores, Cut(top, 3))
      <3>1. 4 \in Nat /\ 3 \in Int /\ hits \subseteq 1..4
        BY <1>4
      <3>2. QED
        BY ONLY <1>2, <2>1, <3>1, CutLeads
    <2> HIDE DEF top
    <2>3. top \in Seq(hits)
      BY <1>5 DEF Ranks
    <2>4. Cut(top, 3) # <<>>
      BY <1>7, <2>3, CutIs
    <2>5. QED
      BY <1>3, <1>7, <2>2, <2>4 DEF scores
  <1>8. QED
    BY <1>6, <1>7

(* For every query and every limit on the pages, a cut answer is the head  *)
(* of the whole ranking and is empty only where no page was asked for: the *)
(* entry put in front when nothing fits displaces none                     *)
(* (lookups.py:389-436, :461-493).                                         *)
THEOREM BestAlwaysKept == Spec => []BestPassagesKept
  <1>1. BestPassagesKept
    <2>1. SUFFICES ASSUME NEW query \in Queries
                   PROVE  /\ \A part \in Names, pages \in PageLimits :
                                LET answered == lookup_datasheet(part, query, pages)
                                IN  answered.sheet \in DOMAIN Datasheets =>
                                      /\ answered.passages = <<>> <=> pages = 0
                                      /\ Leads(Scores(Datasheets[answered.sheet], query),
                                               answered.passages)
                          /\ doc_passages(query) # <<>>
                          /\ Leads(Scores(BoardDocs, query), doc_passages(query))
      BY DEF BestPassagesKept
    <2>2. query \in Seq(STRING)
      BY LookupsAssumption
    <2>3. ASSUME NEW part \in Names, NEW pages \in PageLimits,
                 lookup_datasheet(part, query, pages).sheet \in DOMAIN Datasheets
          PROVE  LET answered == lookup_datasheet(part, query, pages)
                 IN  /\ answered.passages = <<>> <=> pages = 0
                     /\ Leads(Scores(Datasheets[answered.sheet], query), answered.passages)
      <3> DEFINE answered == lookup_datasheet(part, query, pages)
      <3>1. PICK sheet : sheet = normalize_part(profile, part)
        OBVIOUS
      <3>2. answered = [sheet |-> sheet,
                        passages |-> IF sheet \in DOMAIN Datasheets
                                     THEN best_entries(Datasheets[sheet], query, pages)
                                     ELSE <<>>]
        BY <3>1 DEF lookup_datasheet
      <3>3. sheet \in DOMAIN Datasheets
        BY <2>3, <3>2
      <3>4. answered.sheet = sheet /\ answered.passages = best_entries(Datasheets[sheet], query, pages)
        BY <3>2, <3>3
      <3> HIDE DEF answered
      <3>5. PICK n \in Nat : n # 0 /\ DOMAIN Datasheets[sheet] = 1..n
        BY <3>3, SheetsFilled
      <3>6. pages \in Int
        BY LookupsAssumption
      <3>7. /\ best_entries(Datasheets[sheet], query, pages) = <<>> <=> pages = 0
            /\ Leads(Scores(Datasheets[sheet], query),
                     best_entries(Datasheets[sheet], query, pages))
        BY <2>2, <3>5, <3>6, BestLeads
      <3>8. /\ answered.passages = <<>> <=> pages = 0
            /\ Leads(Scores(Datasheets[answered.sheet], query), answered.passages)
        BY <3>4, <3>7, Zenon
      <3>9. QED
        BY <3>8 DEF answered
    <2>4. doc_passages(query) # <<>> /\ Leads(Scores(BoardDocs, query), doc_passages(query))
      BY <2>2, DocPassagesLead
    <2>5. QED
      BY <2>3, <2>4
  <1>2. QED
    BY <1>1, PTL
-----------------------------------------------------------------------------
(* By whatever name a part is asked for, its limit comes from the sheet    *)
(* that its datasheet lookup quotes: the lookup normalizes the name once,  *)
(* the limit once more through the sheet it leads to.                      *)
LEMMA LimitOfSheet ==
    ASSUME NEW doc, ConsistentSheets(doc), NEW S, doc.parts \in Seq(S), NEW part,
           from_part(doc, part).found
    PROVE  /\ normalize_part(doc, part) \in DOMAIN SheetMax
           /\ from_part(doc, part) =
                 FoundLimit(SheetMax[normalize_part(doc, part)], None,
                            <<"datasheet", normalize_part(doc, part)>>)
  <1> DEFINE sheet == SheetOf(doc, part)
             slug == normalize_part(doc, IF sheet = None THEN part ELSE sheet)
  <1>1. /\ slug \in DOMAIN SheetMax
        /\ from_part(doc, part) = FoundLimit(SheetMax[slug], None, <<"datasheet", slug>>)
    BY DEF from_part, NotFound
  <1>2. SUFFICES slug = normalize_part(doc, part)
    BY <1>1
  <1>3. CASE sheet = None
    BY <1>3
  <1>4. CASE sheet # None
    <2>1. PICK i \in PartHits(doc, part) : sheet = doc.parts[i].datasheet
      <3>1. PartHits(doc, part) # {}
        BY <1>4 DEF SheetOf
      <3>2. PartHits(doc, part) \subseteq Nat
        BY DEF PartHits
      <3>3. QED
        BY <3>1, <3>2, FirstIsHit DEF SheetOf
    <2>2. /\ i \in DOMAIN doc.parts
          /\ Fold[part] \in {Fold[doc.parts[i].ref], Fold[doc.parts[i].part]}
      BY DEF PartHits
    <2>3. slug = normalize_part(doc, sheet)
      BY <1>4
    <2> HIDE DEF slug, sheet
    <2>4. CASE Fold[sheet] \in DOMAIN SheetMax
      <3>1. slug = Fold[sheet]
        BY <2>3, <2>4 DEF normalize_part
      <3>2. {Fold[doc.parts[i].ref], Fold[doc.parts[i].part]} \cap DOMAIN SheetMax
               \subseteq {Fold[sheet]}
        BY <1>4, <2>1, <2>2, <2>4 DEF ConsistentSheets
      <3>3. CASE Fold[part] \in DOMAIN SheetMax
        <4>1. normalize_part(doc, part) = Fold[part]
          BY <3>3 DEF normalize_part
        <4>2. QED
          BY <2>2, <3>1, <3>2, <3>3, <4>1
      <3>4. CASE Fold[part] \notin DOMAIN SheetMax
        <4>1. normalize_part(doc, part) = Fold[sheet]
          BY <1>4, <2>4, <3>4 DEF normalize_part, sheet
        <4>2. QED
          BY <3>1, <4>1
      <3>5. QED
        BY <3>3, <3>4
    <2>5. CASE Fold[sheet] \notin DOMAIN SheetMax
      <3> DEFINE other == SheetOf(doc, sheet)
      <3>1. /\ other # None /\ Fold[other] \in DOMAIN SheetMax
        BY <1>1, <2>3, <2>5 DEF normalize_part
      <3>2. PICK j \in PartHits(doc, sheet) : other = doc.parts[j].datasheet
        <4>1. PartHits(doc, sheet) # {}
          BY <3>1 DEF SheetOf
        <4>2. PartHits(doc, sheet) \subseteq Nat
          BY DEF PartHits
        <4>3. QED
          BY <4>1, <4>2, FirstIsHit DEF SheetOf
      <3> HIDE DEF other
      <3>3. Fold[doc.parts[j].datasheet] \notin DOMAIN SheetMax
        BY <1>4, <2>1, <2>2, <2>5, <3>1, <3>2 DEF ConsistentSheets
      <3>4. QED
        BY <3>1, <3>2, <3>3
    <2>6. QED
      BY <2>4, <2>5
  <1>5. QED
    BY <1>3, <1>4

Ratings == <<"absolute", "maximum", "ratings">>

(* What the two forms of an entry carry.                                   *)
LEMMA EntryScores ==
    ASSUME NEW page, NEW keywords, NEW max
    PROVE  /\ Limits \cup keywords = AbsMax(page, keywords, max).keywords
           /\ max = AbsMax(page, keywords, max).absoluteMax
           /\ keywords = Entry(page, keywords).keywords
           /\ None = Entry(page, keywords).absoluteMax
  BY DEF AbsMax, Entry

(* An entry on the ratings has their words among its keywords ...          *)
LEMMA RatingsScored ==
    ASSUME NEW keywords
    PROVE  Score(Limits \cup keywords, Ratings) # 0
  <1> DEFINE hits == {t \in ToSet(Ratings) : <<t>> \in Limits \cup keywords}
  <1>1. ToSet(Ratings) = {"absolute", "maximum", "ratings"}
    BY DEF ToSet, Ratings
  <1>2. "absolute" \in hits
    BY <1>1 DEF Limits, Words
  <1>3. IsFiniteSet(ToSet(Ratings))
    <2>1. IsFiniteSet({"absolute"}) /\ IsFiniteSet({"maximum"}) /\ IsFiniteSet({"ratings"})
      BY FS_Singleton
    <2>2. IsFiniteSet({"absolute"} \cup {"maximum"})
      BY <2>1, FS_Union
    <2>3. IsFiniteSet(({"absolute"} \cup {"maximum"}) \cup {"ratings"})
      BY <2>1, <2>2, FS_Union
    <2>4. ToSet(Ratings) = ({"absolute"} \cup {"maximum"}) \cup {"ratings"}
      BY <1>1
    <2>5. QED
      BY <2>3, <2>4
  <1>4. IsFiniteSet(hits)
    BY <1>3, FS_Subset
  <1> HIDE DEF hits
  <1>5. Cardinality(hits) \in Nat /\ Cardinality(hits) # 0
    BY <1>2, <1>4, FS_CardinalityType, FS_EmptySet
  <1>6. Score(Limits \cup keywords, Ratings)
           = Cardinality(hits) + (IF Ratings \in Limits \cup keywords THEN 1 ELSE 0)
    BY DEF Score, hits
  <1>7. QED
    BY <1>5, <1>6

(* ... and one without any of those words is not worth anything for them.  *)
LEMMA OthersUnscored ==
    ASSUME NEW keywords, Ratings \notin keywords,
           <<"absolute">> \notin keywords, <<"maximum">> \notin keywords, <<"ratings">> \notin keywords
    PROVE  Score(keywords, Ratings) = 0
  <1>1. ToSet(Ratings) = {"absolute", "maximum", "ratings"}
    BY DEF ToSet, Ratings
  <1> DEFINE hits == {t \in ToSet(Ratings) : <<t>> \in keywords}
  <1>2. hits = {}
    BY <1>1
  <1>3. Score(keywords, Ratings) = Cardinality(hits) + (IF Ratings \in keywords THEN 1 ELSE 0)
    BY DEF Score
  <1> HIDE DEF hits
  <1>4. Cardinality(hits) = 0
    BY <1>2, FS_EmptySet
  <1>5. QED
    BY <1>3, <1>4

\* Keywords that have nothing to do with absolute maximum ratings.
Plain(keywords) ==
    {Ratings, <<"absolute">>, <<"maximum">>, <<"ratings">>} \cap keywords = {}

LEMMA PlainWords ==
    ASSUME NEW tokens, {"absolute", "maximum", "ratings"} \cap tokens = {}
    PROVE  Plain(Words(tokens))
  <1>1. \A t \in tokens : <<t>> # <<"absolute">> /\ <<t>> # <<"maximum">> /\ <<t>> # <<"ratings">>
    <2>1. \A t, u : <<t>> = <<u>> => t = u
      <3>1. \A t : <<t>>[1] = t
        OBVIOUS
      <3>2. QED
        BY <3>1
    <2>2. QED
      BY <2>1
  <1>2. \A t : <<t>> # Ratings
    <2>1. \A t : Len(<<t>>) = 1
      OBVIOUS
    <2>2. Len(Ratings) = 3
      BY DEF Ratings
    <2>3. QED
      BY <2>1, <2>2
  <1>3. QED
    BY <1>1, <1>2 DEF Plain, Words

LEMMA PlainPowerUp == Plain(PowerUp)
  <1>1. PowerUp = {<<"power", "up">>} \cup Words({"power", "wake"})
    BY DEF PowerUp, Words
  <1>2. Plain(Words({"power", "wake"}))
    BY PlainWords
  <1>3. Plain({<<"power", "up">>})
    <2>1. Len(<<"power", "up">>) = 2 /\ Len(Ratings) = 3
      BY DEF Ratings
    <2>2. Len(<<"absolute">>) = 1 /\ Len(<<"maximum">>) = 1 /\ Len(<<"ratings">>) = 1
      OBVIOUS
    <2>3. QED
      BY <2>1, <2>2 DEF Plain
  <1>4. QED
    BY <1>1, <1>2, <1>3 DEF Plain

Rated(entry) == Score(entry.keywords, Ratings) # 0

\* The entries on the ratings are those that carry a limit.
RatedAreLimits(entries) ==
    /\ \E i \in DOMAIN entries : Rated(entries[i])
    /\ \A i \in DOMAIN entries : Rated(entries[i]) => entries[i].absoluteMax # None

LEMMA PlainEntry ==
    ASSUME NEW page, NEW keywords, Plain(keywords)
    PROVE  ~Rated(Entry(page, keywords))
  BY EntryScores, OthersUnscored DEF Plain, Rated

LEMMA LimitEntry ==
    ASSUME NEW page, NEW keywords, NEW max
    PROVE  Rated(AbsMax(page, keywords, max)) /\ AbsMax(page, keywords, max).absoluteMax = max
  <1>1. AbsMax(page, keywords, max).absoluteMax = max
    BY EntryScores
  <1>2. AbsMax(page, keywords, max).keywords = Limits \cup keywords
    BY EntryScores
  <1>3. Score(Limits \cup keywords, Ratings) # 0
    BY RatingsScored
  <1>4. QED
    BY <1>1, <1>2, <1>3 DEF Rated

LEMMA SheetRated ==
    ASSUME NEW sheet \in DOMAIN Datasheets
    PROVE  RatedAreLimits(Datasheets[sheet])
  <1>1. sheet \in {"bq79616", "bq79600", "esp32", "ams1117"}
    BY ONLY sheet \in DOMAIN Datasheets DEF Datasheets
  <1>2. \A p, k, m : m # None =>
           Rated(AbsMax(p, k, m)) /\ AbsMax(p, k, m).absoluteMax # None
    BY LimitEntry
  <1>3. \A p, k : Plain(k) => ~Rated(Entry(p, k))
    BY PlainEntry
  <1>4. "80 V" # None /\ "5.5 V" # None /\ "3.6 V" # None /\ "15 V" # None
    BY DEF None
  <1>5. ASSUME NEW a, NEW b, NEW c, ~Rated(a), ~Rated(b), Rated(c), c.absoluteMax # None
        PROVE  RatedAreLimits(<<a, b, c>>)
    BY <1>5 DEF RatedAreLimits
  <1>6. ASSUME NEW a, NEW b, NEW c, NEW d, ~Rated(a), ~Rated(b), ~Rated(c), Rated(d),
               d.absoluteMax # None
        PROVE  RatedAreLimits(<<a, b, c, d>>)
    BY <1>6 DEF RatedAreLimits
  <1>7. CASE sheet = "bq79616"
    <2>1. Plain(PowerUp \cup Words({"comm"}))
      BY PlainPowerUp, PlainWords DEF Plain
    <2>2. Plain(Words({"vio", "3v3"})) /\ Plain(Words({"comm", "uart"}))
      BY PlainWords
    <2>3. Datasheets[sheet] =
             <<Entry(41, PowerUp \cup Words({"comm"})), Entry(28, Words({"vio", "3v3"})),
               Entry(55, Words({"comm", "uart"})), AbsMax(8, Words({"vio"}), "80 V")>>
      BY ONLY <1>7 DEF Datasheets
    <2>4. QED
      BY ONLY <1>2, <1>3, <1>4, <1>6, <2>1, <2>2, <2>3
  <1>8. CASE sheet = "bq79600"
    <2>1. Plain(Words({"comm", "uart"}))
      BY PlainWords
    <2>2. Datasheets[sheet] =
             <<Entry(22, Words({"comm", "uart"})), Entry(26, PowerUp),
               AbsMax(7, Words({"vio"}), "5.5 V")>>
      BY ONLY <1>8 DEF Datasheets
    <2>3. QED
      BY ONLY <1>2, <1>3, <1>4, <1>5, <2>1, <2>2, PlainPowerUp
  <1>9. CASE sheet = "esp32"
    <2>1. Plain(Words({"uart"})) /\ Plain(Words({"power", "current", "3v3"}))
      BY PlainWords
    <2>2. Datasheets[sheet] =
             <<Entry(12, Words({"uart"})), Entry(18, Words({"power", "current", "3v3"})),
               AbsMax(20, {}, "3.6 V")>>
      BY ONLY <1>9 DEF Datasheets
    <2>3. QED
      BY ONLY <1>2, <1>3, <1>4, <1>5, <2>1, <2>2
  <1>10. CASE sheet = "ams1117"
    <2>1. Plain(Words({"3v3"})) /\ Plain(Words({"current", "limit"}))
      BY PlainWords
    <2>2. Datasheets[sheet] =
             <<Entry(4, Words({"3v3"})), Entry(5, Words({"current", "limit"})),
               AbsMax(2, {}, "15 V")>>
      BY ONLY <1>10 DEF Datasheets
    <2>3. QED
      BY ONLY <1>2, <1>3, <1>4, <1>5, <2>1, <2>2
  <1>11. QED
    BY <1>1, <1>7, <1>8, <1>9, <1>10

(* The first passage on the ratings is the one with the sheet's limit.     *)
LEMMA RatedFirst ==
    ASSUME NEW sheet \in DOMAIN Datasheets
    PROVE  LET quoted == best_entries(Datasheets[sheet], Ratings, -1)
           IN  quoted # <<>> /\ Datasheets[sheet][Head(quoted)].absoluteMax = SheetMax[sheet]
  <1>1. PICK n \in Nat : n # 0 /\ DOMAIN Datasheets[sheet] = 1..n
    BY SheetsFilled
  <1> DEFINE entries == Datasheets[sheet]
             scores == Scores(entries, Ratings)
             r == Ranked(scores, 1..n)
  <1>2. Ratings \in Seq({"absolute", "maximum", "ratings"})
    BY DEF Ratings
  <1>3. scores \in [1..n -> Nat]
    BY <1>1, <1>2, ScoresType
  <1>4. \A i \in 1..n : scores[i] # 0 <=> Rated(entries[i])
    BY <1>1 DEF Scores, Rated
  <1>5. RatedAreLimits(entries)
    BY SheetRated
  <1>6. \A i \in 1..n : entries[i].absoluteMax \in {None, SheetMax[sheet]}
    BY <1>1, LookupsAssumption
  <1>7. best_entries(entries, Ratings, -1) = Cut(r, -1)
    <2>1. -1 \in Int
      OBVIOUS
    <2>2. QED
      BY <1>1, <1>2, <2>1, BestIsRanked
  <1> HIDE DEF scores
  <1>8. Ranks(r, Cardinality(1..n), scores, 1..n)
    <2>1. 1..n \subseteq 1..n
      OBVIOUS
    <2>2. QED
      BY <1>3, <2>1, RankedIs
  <1>9. Cardinality(1..n) = n
    BY FS_Interval
  <1>10. ~ \A i \in 1..n : scores[i] = 0
    BY <1>1, <1>4, <1>5 DEF RatedAreLimits
  <1>11. scores[r[1]] # 0
    BY <1>1, <1>3, <1>10, BestUnscored
  <1> HIDE DEF r
  <1>12. r \in Seq(1..n) /\ r # <<>> /\ Head(r) \in 1..n /\ Head(r) = r[1]
    <2>1. r \in Seq(1..n) /\ Len(r) = n
      BY <1>8, <1>9 DEF Ranks
    <2>2. r # <<>> /\ Head(r) = r[1] /\ 1 \in 1..Len(r)
      BY <1>1, <2>1
    <2>3. r[1] \in 1..n
      BY <2>1, <2>2
    <2>4. QED
      BY <2>1, <2>2, <2>3
  <1>13. Cut(r, -1) = r
    BY <1>12 DEF Cut
  <1>14. entries[r[1]].absoluteMax = SheetMax[sheet]
    <2>1. r[1] \in 1..n
      BY <1>12
    <2>2. Rated(entries[r[1]])
      BY <1>4, <1>11, <2>1
    <2>3. entries[r[1]].absoluteMax # None
      BY <1>1, <1>5, <2>1, <2>2 DEF RatedAreLimits
    <2>4. QED
      BY <1>6, <2>1, <2>3
  <1>15. QED
    BY <1>7, <1>12, <1>13, <1>14

(* The documented profile of every board names its sheets consistently.    *)
LEMMA DocumentedConsistent ==
    ASSUME env \in Started
    PROVE  ConsistentSheets(Documented)
  <1>1. profile_board(env) = "custom" \/ profile_board(env) \in DOMAIN Boards
    BY BoardsAssumption DEF profile_board, Shortcut
  <1>2. QED
    BY <1>1, SheetsAssumption DEF Documented, ProfileOf

(* However a part is named and whatever parses have added, the first page  *)
(* that its datasheet lookup quotes on absolute maximum ratings is the     *)
(* source of its documented limit and states the same value                *)
(* (lookups.py:389-436, limits.py:103-127).                                *)
THEOREM LimitsAlwaysQuoted == Spec => []LimitQuotesDatasheet
  <1>1. ASSUME Inv
        PROVE  LimitQuotesDatasheet
    <2>1. SUFFICES ASSUME NEW part \in Names, resolve(profile, part, "part").found
                   PROVE  LET limit == resolve(profile, part, "part")
                              quoted == lookup_datasheet(part, Ratings, -1)
                          IN  /\ limit.source = <<"datasheet", quoted.sheet>>
                              /\ quoted.passages # <<>>
                              /\ Datasheets[quoted.sheet][Head(quoted.passages)].absoluteMax
                                    = limit.maxV
      BY DEF LimitQuotesDatasheet, Ratings
    <2>2. PICK doc : doc = Documented
      OBVIOUS
    <2>3. PICK cur : cur = profile
      OBVIOUS
    <2>4. Kept(doc, cur)
      BY <1>1, <2>2, <2>3 DEF Inv, ProfileInv
    <2>5. ConsistentSheets(doc) /\ doc \in Profiles
      BY <1>1, <2>2, DocumentedConsistent, DocumentedIsProfile DEF Inv, ProfileInv
    <2>6. PICK S : doc.parts \in Seq(S)
      BY <2>5 DEF Profiles
    <2>7. normalize_part(cur, part) = normalize_part(doc, part)
      <3>1. SheetOf(cur, part) = SheetOf(doc, part)
        BY <2>4, SheetKept DEF Kept
      <3>2. QED
        BY <3>1 DEF normalize_part
    <2>8. resolve(cur, part, "part") = from_part(doc, part)
      <3>1. from_part(cur, part) = from_part(doc, part)
        BY <2>4, PartLimitKept DEF Kept
      <3>2. QED
        BY <3>1 DEF resolve
    <2>9. PICK sheet : sheet = normalize_part(doc, part)
      OBVIOUS
    <2>10. sheet \in DOMAIN SheetMax
           /\ from_part(doc, part) = FoundLimit(SheetMax[sheet], None, <<"datasheet", sheet>>)
      BY <2>1, <2>3, <2>5, <2>6, <2>8, <2>9, LimitOfSheet
    <2>11. sheet \in DOMAIN Datasheets
      BY <2>10, LookupsAssumption
    <2>12. lookup_datasheet(part, Ratings, -1) =
              [sheet |-> sheet, passages |-> best_entries(Datasheets[sheet], Ratings, -1)]
      BY <2>3, <2>7, <2>9, <2>11 DEF lookup_datasheet
    <2>13. resolve(profile, part, "part").source = <<"datasheet", sheet>>
           /\ resolve(profile, part, "part").maxV = SheetMax[sheet]
      BY <2>3, <2>8, <2>10 DEF FoundLimit
    <2>14. LET quoted == best_entries(Datasheets[sheet], Ratings, -1)
           IN  quoted # <<>> /\ Datasheets[sheet][Head(quoted)].absoluteMax = SheetMax[sheet]
      BY <2>11, RatedFirst
    <2> QED
      BY <2>12, <2>13, <2>14
  <1>2. QED
    BY <1>1, Invariance, PTL

-----------------------------------------------------------------------------
(* The BOM's ranking.  One token occurs in a field or it does not.         *)
LEMMA OccurringOnce ==
    ASSUME NEW token, NEW words
    PROVE  Occurring(<<token>>, words) \in {0, 1}
  <1> DEFINE hits == {k \in DOMAIN <<token>> :
                         <<token>>[k] \in Long /\ \E w \in words : <<<<token>>[k], w>> \in Within}
  <1>1. hits = {} \/ hits = {1}
    OBVIOUS
  <1>2. Occurring(<<token>>, words) = Cardinality(hits)
    BY DEF Occurring
  <1> HIDE DEF hits
  <1>3. Cardinality(hits) \in {0, 1}
    BY <1>1, FS_EmptySet, FS_Singleton
  <1>4. QED
    BY <1>2, <1>3

(* An exact designator outweighs whatever else one token can hit, short of *)
(* an exact name or part number, or of a part number, value and type that  *)
(* all fit.                                                                *)
LEMMA DesignatorOutweighs ==
    ASSUME NEW token, NEW item
    PROVE  LET query == <<token>>
               score == score_item(item, query)
           IN  /\ score \in Nat
               /\ <<item.designator>> = query => score >= 40
               /\ score >= 40 => \/ query \in {<<item.designator>>, <<item.name>>, <<item.mpn>>}
                                 \/ FitsAllOver(query, item)
  <1> DEFINE query == <<token>>
             score == score_item(item, query)
             Points(holds, tenths) == IF holds THEN tenths ELSE 0
  <1>1. PICK inWords \in {0, 1}, inName \in {0, 1} :
           /\ inWords = Occurring(query, item.words)
           /\ inName = Occurring(query, {item.name})
    BY OccurringOnce
  <1>2. score = Points(<<item.designator>> = query, 40) + Points(<<item.mpn>> = query, 30)
                  + Points(InPartNumber(query, item), 15)
                  + Points(<<item.name>> = query, 20)
                  + Points(Overlaps(query, item.value), 15)
                  + Points(TypeFits(query, item.type), 10)
                  + 5 * inWords + 3 * inName
    BY ONLY <1>1 DEF score_item
  <1> HIDE DEF query, score
  <1>3. score \in Nat
    BY ONLY <1>2, inWords \in {0, 1}, inName \in {0, 1}
  <1>4. <<item.designator>> = query => score >= 40
    BY ONLY <1>2, inWords \in {0, 1}, inName \in {0, 1}
  <1>5. ASSUME query \notin {<<item.designator>>, <<item.name>>, <<item.mpn>>},
               ~FitsAllOver(query, item)
        PROVE  score < 40
    <2>1. <<item.designator>> # query /\ <<item.name>> # query /\ <<item.mpn>> # query
      BY <1>5
    <2>2. \/ ~InPartNumber(query, item)
          \/ ~Overlaps(query, item.value)
          \/ ~TypeFits(query, item.type)
      BY <1>5 DEF FitsAllOver
    <2>3. QED
      BY ONLY <1>2, <2>1, <2>2, inWords \in {0, 1}, inName \in {0, 1}
  <1>6. score >= 40 => ~(score < 40)
    BY <1>3
  <1>7. QED
    BY <1>3, <1>4, <1>5, <1>6 DEF query, score

(* Whoever scores leads a ranking of those that do, down to any limit.     *)
LEMMA ScoringLead ==
    ASSUME NEW n \in Nat, NEW scores \in [1..n -> Nat], NEW i \in 1..n, scores[i] >= 40,
           NEW limit \in Nat \ {0}
    PROVE  LET shown == Cut(Ranked(scores, Fitting(scores)), limit)
           IN  shown # <<>> /\ Head(shown) \in 1..n /\ scores[Head(shown)] >= 40
  <1> DEFINE hits == Fitting(scores)
             r == Ranked(scores, hits)
             shown == Cut(r, limit)
  <1>1. hits \subseteq 1..n /\ i \in hits
    BY DEF Fitting
  <1> HIDE DEF hits
  <1>2. Ranks(r, Cardinality(hits), scores, hits)
    BY <1>1, RankedIs
  <1> HIDE DEF r
  <1>3. PICK m \in Nat : m = Len(r)
    BY <1>2 DEF Ranks
  <1>4. r \in Seq(hits) /\ \A j, k \in 1..m : j < k => Better(scores, r[j], r[k])
    BY <1>2, <1>3 DEF Ranks
  <1>5. PICK k \in 1..m : r[k] = i
    BY <1>1, <1>2, <1>3 DEF Ranks
  <1>6. 1 \in 1..m /\ r # <<>>
    BY <1>3, <1>4, <1>5
  <1>7. r[1] \in hits
    BY <1>3, <1>4, <1>6
  <1>8. scores[r[1]] >= 40
    <2>1. CASE k = 1
      BY <1>5, <2>1
    <2>2. CASE k # 1
      <3>1. 1 < k
        BY <2>2
      <3>2. Better(scores, r[1], i)
        BY <1>4, <1>5, <1>6, <3>1
      <3>3. scores[r[1]] \in Nat /\ scores[i] \in Nat
        BY <1>1, <1>7
      <3>4. scores[r[1]] > scores[i] \/ scores[r[1]] = scores[i]
        BY ONLY <3>2 DEF Better
      <3>5. QED
        BY ONLY <3>3, <3>4, scores[i] >= 40
    <2>3. QED
      BY <2>1, <2>2
  <1>9. shown # <<>> /\ Head(shown) = r[1]
    <2>1. limit \in Int /\ limit # 0
      OBVIOUS
    <2>2. /\ shown \in Seq(hits)
          /\ \A j \in 1..Len(shown) : shown[j] = r[j]
          /\ shown = <<>> <=> r = <<>> \/ limit = 0
      BY <1>4, <2>1, CutIs
    <2> HIDE DEF shown
    <2>3. shown # <<>>
      BY <1>6, <2>1, <2>2
    <2>4. 1 \in 1..Len(shown) /\ Head(shown) = shown[1]
      BY <2>2, <2>3
    <2>5. QED
      BY <2>2, <2>3, <2>4
  <1>10. QED
    BY <1>1, <1>7, <1>8, <1>9 DEF r, hits

(* Whatever the BOM holds, an item asked for by its designator comes       *)
(* first, unless the first one's name or part number is the query too or   *)
(* part number, value and type all fit it (bom.py:172-237, :329).          *)
THEOREM DesignatorAlwaysFirst == Spec => []DesignatorFirst
  <1>1. DesignatorFirst
    <2>1. SUFFICES ASSUME NEW query \in BomQueries, NEW limit \in MaxResults \ {0},
                          \E i \in DOMAIN bom_items : <<bom_items[i].designator>> = query
                   PROVE  /\ lookup_bom(query, limit) # <<>>
                          /\ LET first == bom_items[Head(lookup_bom(query, limit))]
                             IN  \/ query \in {<<first.designator>>, <<first.name>>, <<first.mpn>>}
                                 \/ FitsAllOver(query, first)
      BY DEF DesignatorFirst
    <2>2. PICK items : items = bom_items
      OBVIOUS
    <2>3. PICK n \in Nat : DOMAIN items = 1..n
      <3>1. CASE bom_board(env) \in DOMAIN Boms
        <4>1. items \in Seq(ToSet(items))
          BY <2>2, <3>1, LookupsAssumption DEF bom_items
        <4>2. QED
          BY <4>1
      <3>2. CASE bom_board(env) \notin DOMAIN Boms
        <4>1. items = <<>>
          BY <2>2, <3>2 DEF bom_items
        <4>2. DOMAIN items = 1..0
          BY <4>1
        <4>3. QED
          BY <4>2
      <3>3. QED
        BY <3>1, <3>2
    <2>4. PICK i \in 1..n : <<items[i].designator>> = query
      BY <2>1, <2>2, <2>3
    <2>5. PICK token : query = <<token>>
      BY <2>4
    <2> DEFINE scores == [j \in 1..n |-> score_item(items[j], query)]
    <2>6. \A j \in 1..n :
             /\ scores[j] \in Nat
             /\ <<items[j].designator>> = query => scores[j] >= 40
             /\ scores[j] >= 40 =>
                   \/ query \in {<<items[j].designator>>, <<items[j].name>>, <<items[j].mpn>>}
                   \/ FitsAllOver(query, items[j])
      BY <2>5, DesignatorOutweighs
    <2>7. scores \in [1..n -> Nat]
      BY <2>6
    <2>8. lookup_bom(query, limit) = Cut(Ranked(scores, Fitting(scores)), limit)
      <3>1. query # <<>>
        BY <2>5
      <3>2. QED
        BY <2>2, <2>3, <3>1 DEF lookup_bom
    <2>9. limit \in Nat \ {0}
      BY LookupsAssumption
    <2> HIDE DEF scores
    <2>10. PICK shown : shown = Cut(Ranked(scores, Fitting(scores)), limit)
      OBVIOUS
    <2>11. shown # <<>> /\ Head(shown) \in 1..n /\ scores[Head(shown)] >= 40
      <3>1. scores[i] >= 40
        BY <2>4, <2>6
      <3>2. QED
        BY <2>7, <2>9, <2>10, <3>1, ScoringLead
    <2>12. QED
      BY <2>2, <2>6, <2>8, <2>10, <2>11
  <1>2. QED
    BY <1>1, PTL
=============================================================================
