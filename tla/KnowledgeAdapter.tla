-------------------------- MODULE KnowledgeAdapter --------------------------
(***************************************************************************)
(* The one knowledge adapter of the server process (main.py's knowledge),  *)
(* asked by the worker threads of every session at once: schematic/        *)
(* parser.py and genai_seams._dispatch_parse_schematic (parse a still,     *)
(* then ingest it), knowledge/__init__.py and limits.py (the cached        *)
(* documented limits), snapshot/ and storage/frame_store.py (the stills).  *)
(*                                                                         *)
(* No operation takes a lock.  Each caller is between two tool calls       *)
(* ("idle") or at a step of one: the vision "call", its "retry", the       *)
(* steps of ingest_schematic ("ingest", "scan", "merge", and the new       *)
(* resolver after it), or the resolution of a limit that was not cached    *)
(* ("resolve").  The constructor's ingest is the caller Boot.              *)
(***************************************************************************)
EXTENDS BoardKnowledge, FiniteSets

CONSTANTS
    Started,      \* the environments the process may be started in
    Threads,      \* worker threads of the sessions
    Custom,       \* the profile in the file an explicit path or BOARD_PROFILE names
    Schematics,   \* what the vision model may read off a still
    Asked,        \* the <<target, kind>> pairs the callers look up
    CAPACITY,     \* InMemoryFrameStore's capacity
    MaxFrames,    \* bound: stills taken
    MaxParses     \* bound: parse_schematic calls

ASSUME AdapterAssumption ==
    /\ Started \subseteq Environments
    /\ "boot" \notin Threads
    /\ Asked \subseteq Names \X Kinds
    /\ CAPACITY \in Nat \ {0} /\ MaxFrames \in Nat /\ MaxParses \in Nat

VARIABLES
    env,          \* the environment the process was started in
    profile,      \* board_profile
    schematic,    \* the schematic lookup_schematic answers from
    resolver,     \* [generation, cache: <<target, kind>> -> limit]
    pc, job,      \* caller -> where it is, and what it is working on
    blobs,        \* InMemoryFrameStore._blobs: uri -> the still it holds
    handed,       \* the FrameRefs given out: the n-th still's uri
    parses,       \* parse_schematic calls so far
    answer,       \* observation: the last documented limit handed to a caller
    overlapped    \* observation: two merges have run at the same time

Boot == "boot"
Callers == Threads \cup {Boot}

vars == <<env, profile, schematic, resolver, pc, job, blobs, handed, parses, answer, overlapped>>

ProfileOf(board) == IF board = "custom" THEN Custom ELSE Boards[board].profile

\* The profile as its file documents it.
Documented == ProfileOf(profile_board(env))

Profiles ==
    [parts: Seq([ref: Names, part: Names, datasheet: Names \cup {None}]),
     rails: Seq([id: Names, nominalV: STRING, maxI: STRING]),
     nets: Seq([id: Names, maxV: STRING, maxI: STRING])]

SchematicsFrom(origins) ==
    [components: Seq([ref: Names \cup {None}, part: Names \cup {None}, type: STRING]),
     nets: Seq([id: Names \cup {None}, guess: STRING]),
     origin: origins]

ASSUME BoardsAssumption ==
    /\ "bq79616" \in DOMAIN Boards
    /\ Custom \in Profiles
    /\ "custom" \notin DOMAIN Boards
    /\ \A board \in DOMAIN Boards : Boards[board].profile \in Profiles
    /\ \A board \in DOMAIN Boards :
          Boards[board].schematic \in SchematicsFrom({"bundled", "none"})
    /\ Schematics \subseteq SchematicsFrom({"model"})

Stub == [components |-> <<>>, nets |-> <<>>, origin |-> "stub"]
NoSchematic == [Stub EXCEPT !.origin = "none"]

\* What the shortcut bundles with the profile.
Bundled == IF schematic_board(env) = None THEN NoSchematic
           ELSE Boards[schematic_board(env)].schematic

Ingest(sch) ==
    [sch |-> sch, components |-> <<>>, nets |-> <<>>, refs |-> {}, ids |-> {},
     target |-> None, kind |-> "other", generation |-> 0]

NoJob == Ingest(NoSchematic)

Init ==
    /\ env \in Started
    /\ profile = Documented
    /\ schematic = NoSchematic
    /\ resolver = [generation |-> 0, cache |-> <<>>]
    /\ pc = [c \in Callers |-> IF c = Boot /\ Bundled.origin # "none" THEN "ingest" ELSE "idle"]
    /\ job = [c \in Callers |-> IF c = Boot THEN Ingest(Bundled) ELSE NoJob]
    /\ blobs = <<>> /\ handed = <<>>
    /\ parses = 0
    /\ answer = [asked |-> <<None, "other">>, limit |-> NotFound]
    /\ overlapped = FALSE

-----------------------------------------------------------------------------
\* A thread starts its next tool call; the constructor is over by then.
Free(c) == c \in Threads /\ pc[c] = "idle" /\ pc[Boot] = "idle"

Goto(c, label, work) ==
    /\ pc' = [pc EXCEPT ![c] = label]
    /\ job' = [job EXCEPT ![c] = work]

\* Mutant: the store is a ring, and a uri names a slot of it.
frame_uri_slot == (Len(handed) % CAPACITY) + 1

\* The uri of the next still: _seq only grows.
frame_uri == Len(handed) + 1

\* POST /v2/snapshot, on the event loop: the store keeps the CAPACITY newest stills.
TakeSnapshot ==
    /\ pc[Boot] = "idle"
    /\ Len(handed) < MaxFrames
    /\ LET stored == [u \in DOMAIN blobs \cup {frame_uri} |->
                          IF u = frame_uri THEN Len(handed) + 1 ELSE blobs[u]]
           oldest == CHOOSE u \in DOMAIN stored : \A v \in DOMAIN stored : stored[u] <= stored[v]
           kept == IF Cardinality(DOMAIN stored) > CAPACITY
                   THEN DOMAIN stored \ {oldest} ELSE DOMAIN stored
       IN  blobs' = [u \in kept |-> stored[u]]
    /\ handed' = Append(handed, frame_uri)
    /\ UNCHANGED <<env, profile, schematic, resolver, pc, job, parses, answer, overlapped>>

\* parse_schematic on a still; one that is no longer stored is an error payload.
ParseTool(c, uri) ==
    /\ Free(c)
    /\ parses < MaxParses
    /\ parses' = parses + 1
    /\ IF uri \in DOMAIN blobs THEN Goto(c, "call", NoJob) ELSE UNCHANGED <<pc, job>>
    /\ UNCHANGED <<env, profile, schematic, resolver, blobs, handed, answer, overlapped>>

\* The vision call answers: readable, or worth one retry, or it raises.  Every
\* failure ends in a stub, which is ingested like a parse.
VisionAnswers(c) ==
    /\ pc[c] \in {"call", "retry"}
    /\ \/ \E sch \in Schematics : Goto(c, "ingest", Ingest(Normalized(sch)))
       \/ Goto(c, "ingest", Ingest(Stub))          \* raised, or unreadable twice
       \/ pc[c] = "call" /\ Goto(c, "retry", NoJob)
    /\ UNCHANGED <<env, profile, schematic, resolver, blobs, handed, parses, answer, overlapped>>

-----------------------------------------------------------------------------
(* ingest_schematic, step by step.                                         *)

\* self.schematic = sch, whoever asked.
CacheSchematic(c) ==
    /\ pc[c] = "ingest"
    /\ schematic' = job[c].sch
    /\ Goto(c, "scan", job[c])
    /\ UNCHANGED <<env, profile, resolver, blobs, handed, parses, answer, overlapped>>

\* Mutant: ids are compared as they are written.
MergeScan_exact(c) ==
    /\ pc[c] = "scan"
    /\ Goto(c, "merge",
            [job[c] EXCEPT !.components = job[c].sch.components, !.nets = job[c].sch.nets,
                           !.refs = {profile.parts[i].ref : i \in DOMAIN profile.parts},
                           !.ids = {profile.nets[i].id : i \in DOMAIN profile.nets}])
    /\ overlapped' = (overlapped \/ \E d \in Callers : pc[d] = "merge")
    /\ UNCHANGED <<env, profile, schematic, resolver, blobs, handed, parses, answer>>

\* merge_schematic notes once what the profile already names.
MergeScan(c) ==
    /\ pc[c] = "scan"
    /\ Goto(c, "merge",
            [job[c] EXCEPT !.components = job[c].sch.components, !.nets = job[c].sch.nets,
                           !.refs = PartKeys(profile), !.ids = NetKeys(profile)])
    /\ overlapped' = (overlapped \/ \E d \in Callers : pc[d] = "merge")
    /\ UNCHANGED <<env, profile, schematic, resolver, blobs, handed, parses, answer>>

\* Mutant: a component that is documented ends the loop.
MergeComponent_stops(c) ==
    /\ pc[c] = "merge"
    /\ job[c].components # <<>>
    /\ LET comp == Head(job[c].components)
           rest == [job[c] EXCEPT !.components = Tail(@)]
       IN  IF comp.ref = None \/ Fold[comp.ref] \in job[c].refs
           THEN Goto(c, "merge", [rest EXCEPT !.components = <<>>]) /\ UNCHANGED profile
           ELSE /\ profile' = [profile EXCEPT !.parts = Added(@, MintedPart(comp))]
                /\ Goto(c, "merge", [rest EXCEPT !.refs = @ \cup {Fold[comp.ref]}])
    /\ UNCHANGED <<env, schematic, resolver, blobs, handed, parses, answer, overlapped>>

\* Its first loop, one component.
MergeComponent(c) ==
    /\ pc[c] = "merge"
    /\ job[c].components # <<>>
    /\ LET comp == Head(job[c].components)
           rest == [job[c] EXCEPT !.components = Tail(@)]
       IN  IF comp.ref = None \/ Fold[comp.ref] \in job[c].refs
           THEN Goto(c, "merge", rest) /\ UNCHANGED profile
           ELSE /\ profile' = [profile EXCEPT !.parts = Added(@, MintedPart(comp))]
                /\ Goto(c, "merge", [rest EXCEPT !.refs = @ \cup {Fold[comp.ref]}])
    /\ UNCHANGED <<env, schematic, resolver, blobs, handed, parses, answer, overlapped>>

\* Its second loop, one net.
MergeNet(c) ==
    /\ pc[c] = "merge"
    /\ job[c].components = <<>> /\ job[c].nets # <<>>
    /\ LET net == Head(job[c].nets)
           rest == [job[c] EXCEPT !.nets = Tail(@)]
       IN  IF net.id = None \/ Fold[net.id] \in job[c].ids
           THEN Goto(c, "merge", rest) /\ UNCHANGED profile
           ELSE /\ profile' = [profile EXCEPT !.nets = Added(@, MintedNet(net))]
                /\ Goto(c, "merge", [rest EXCEPT !.ids = @ \cup {Fold[net.id]}])
    /\ UNCHANGED <<env, schematic, resolver, blobs, handed, parses, answer, overlapped>>

\* A new LimitResolver, with an empty cache, replaces the old one.
NewResolver(c) ==
    /\ pc[c] = "merge"
    /\ job[c].components = <<>> /\ job[c].nets = <<>>
    /\ resolver' = [generation |-> resolver.generation + 1, cache |-> <<>>]
    /\ Goto(c, "idle", NoJob)
    /\ UNCHANGED <<env, profile, schematic, blobs, handed, parses, answer, overlapped>>

-----------------------------------------------------------------------------
(* get_documented_limit                                                    *)

LimitCached(c, asked) ==
    /\ Free(c)
    /\ asked \in DOMAIN resolver.cache
    /\ answer' = [asked |-> asked, limit |-> resolver.cache[asked]]
    /\ UNCHANGED <<env, profile, schematic, resolver, pc, job, blobs, handed, parses, overlapped>>

LimitMissed(c, asked) ==
    /\ Free(c)
    /\ asked \notin DOMAIN resolver.cache
    /\ Goto(c, "resolve", [NoJob EXCEPT !.target = asked[1], !.kind = asked[2],
                                        !.generation = resolver.generation])
    /\ UNCHANGED <<env, profile, schematic, resolver, blobs, handed, parses, answer, overlapped>>

\* The key of an answer in the cache.
CacheKey(work) == {<<work.target, work.kind>>}

\* The result goes into the cache of the resolver that was asked.
LimitResolved(c) ==
    /\ pc[c] = "resolve"
    /\ LET limit == resolve(profile, job[c].target, job[c].kind)
       IN  /\ answer' = [asked |-> <<job[c].target, job[c].kind>>, limit |-> limit]
           /\ resolver' = IF resolver.generation # job[c].generation THEN resolver
                          ELSE [resolver EXCEPT !.cache =
                                  [key \in DOMAIN @ \cup CacheKey(job[c]) |->
                                      IF key \in CacheKey(job[c]) THEN limit ELSE @[key]]]
    /\ Goto(c, "idle", NoJob)
    /\ UNCHANGED <<env, profile, schematic, blobs, handed, parses, overlapped>>

IngestStep(c) ==
    \/ CacheSchematic(c) \/ MergeScan(c) \/ MergeComponent(c) \/ MergeNet(c) \/ NewResolver(c)

Next ==
    \/ TakeSnapshot
    \/ \E c \in Callers : IngestStep(c)
    \/ \E c \in Threads :
          \/ VisionAnswers(c) \/ LimitResolved(c)
          \/ \E uri \in 1..MaxFrames : ParseTool(c, uri)
          \/ \E asked \in Asked : LimitCached(c, asked) \/ LimitMissed(c, asked)

Spec == Init /\ [][Next]_vars

-----------------------------------------------------------------------------
(* A parsed schematic never makes or changes a documented limit: through   *)
(* any interleaving of ingests and lookups, what the profile resolves to,  *)
(* what the cache holds and what a caller was told is what the board's     *)
(* file documents (board_profile.py:117-123, limits.py:6-9).               *)
IngestPreservesLimits ==
    /\ \A target \in Names, kind \in Kinds :
          resolve(profile, target, kind) = resolve(Documented, target, kind)
    /\ \A key \in DOMAIN resolver.cache :
          resolver.cache[key] = resolve(Documented, key[1], key[2])
    /\ answer.limit = resolve(Documented, answer.asked[1], answer.asked[2])

(* Ingesting again adds nothing (board_profile.py:124): as long as no two  *)
(* merges ran at once, every minted ref and net id is new to the profile,  *)
(* whatever its case.                                                      *)
IdempotentAlone ==
    ~overlapped =>
        /\ \A i, j \in DOMAIN profile.parts :
              i < j /\ Fold[profile.parts[i].ref] = Fold[profile.parts[j].ref] =>
                  j <= Len(Documented.parts)
        /\ \A i, j \in DOMAIN profile.nets :
              i < j /\ Fold[profile.nets[i].id] = Fold[profile.nets[j].id] =>
                  j <= Len(Documented.nets)

(* The datasheet cited as evidence for a snapshot is the documented one,   *)
(* whatever was parsed since (analyzer.py:32-51): the words of the note    *)
(* choose among the parts of the board's file only.                        *)
EvidenceIsDocumented ==
    \A words \in {{}} \cup {{Fold[n]} : n \in Names} :
        ground(profile, words, None) = ground(Documented, words, None)

(* A FrameRef shows its own still or nothing, however many stills came     *)
(* after it (frame_store.py:43-50, genai_seams.py:715-719).                *)
FrameRefsStable ==
    \A n \in DOMAIN handed : handed[n] \in DOMAIN blobs => blobs[handed[n]] = n

(* The server never mixes two boards unless a BOM file of its own is       *)
(* named: a bundled schematic belongs to the profile that was loaded, and  *)
(* so does the BOM (knowledge/__init__.py:67-80, :117-127, bom.py:99-110). *)
OneBoard ==
    /\ schematic.origin = "bundled" =>
          \E name \in DOMAIN Boards : /\ schematic = Boards[name].schematic
                                      /\ Documented = Boards[name].profile
    /\ env.BOM_FILE = None /\ env.path = None /\ env.BOARD_PROFILE = None =>
          bom_board(env) = profile_board(env)
=============================================================================
