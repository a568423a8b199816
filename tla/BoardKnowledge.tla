--------------------------- MODULE BoardKnowledge ---------------------------
(***************************************************************************)
(* What the knowledge adapter computes: src/orchestrator/knowledge/        *)
(* board_profile.py (the profile and the additive merge of a schematic),   *)
(* limits.py (documented limits), __init__.py (which board is loaded) and  *)
(* schematic/normalize.py (the tidying of a parse).                        *)
(*                                                                         *)
(* A profile is three lists; its lookups take the first entry that fits.   *)
(* Names that differ in case only are different values that Fold maps to   *)
(* one: refs and part numbers are compared folded, nets and rails exactly. *)
(***************************************************************************)
EXTENDS Integers, Sequences

CONSTANTS
    Names,        \* refs, part numbers, net and rail ids, datasheet slugs
    Fold,         \* str.casefold on Names
    RefPrefixes,     \* ref -> the prefixes of PrefixCategory it starts with
    SheetMax,     \* datasheet slug of the stub table -> its absolute maximum
    Boards        \* FORGE_BOARD name -> the documented profile and the bundled schematic

None == "none"

ASSUME NamesAssumption ==
    /\ Fold \in [Names -> Names]
    /\ DOMAIN SheetMax \subseteq Names
    /\ None \notin Names

\* The first of the entries with the given indices.
FirstOf(entries, hits) == entries[CHOOSE i \in hits : \A j \in hits : i <= j]

-----------------------------------------------------------------------------
(* Lookups of the profile.                                                 *)

NetHits(profile, target) == {i \in DOMAIN profile.nets : profile.nets[i].id = target}
RailHits(profile, target) == {i \in DOMAIN profile.rails : profile.rails[i].id = target}

\* BoardProfile.part: by ref or by part number.
PartHits(profile, target) ==
    {i \in DOMAIN profile.parts :
        Fold[target] \in {Fold[profile.parts[i].ref], Fold[profile.parts[i].part]}}

\* The datasheet the profile names for a part, if any.
SheetOf(profile, target) ==
    LET hits == PartHits(profile, target)
    IN  IF hits = {} THEN None ELSE FirstOf(profile.parts, hits).datasheet

\* Mutant: the profile is not consulted.
normalize_part_slug_only(profile, part) == Fold[part]

\* _normalize_part: the slug of the stub table a name stands for.
normalize_part(profile, part) ==
    LET sheet == SheetOf(profile, part)
    IN  IF Fold[part] \in DOMAIN SheetMax \/ sheet = None \/ Fold[sheet] \notin DOMAIN SheetMax
        THEN Fold[part] ELSE Fold[sheet]

-----------------------------------------------------------------------------
(* Documented limits.                                                      *)

NotFound == [found |-> FALSE, maxV |-> None, maxI |-> None, source |-> <<>>]

FoundLimit(maxV, maxI, source) ==
    [found |-> TRUE, maxV |-> maxV, maxI |-> maxI, source |-> source]

from_net(profile, target) ==
    LET hits == NetHits(profile, target)
        n == FirstOf(profile.nets, hits)
    IN  IF hits = {} \/ (n.maxV = None /\ n.maxI = None) THEN NotFound
        ELSE FoundLimit(n.maxV, n.maxI, <<"nets", target>>)

\* A rail documents a current ceiling; its nominal voltage is no limit.
from_rail(profile, target) ==
    LET hits == RailHits(profile, target)
        r == FirstOf(profile.rails, hits)
    IN  IF hits = {} \/ (r.maxI = None /\ r.nominalV = None) THEN NotFound
        ELSE FoundLimit(None, r.maxI, <<"rails", target>>)

\* A part's limit is the absolute maximum of its datasheet.
from_part(profile, target) ==
    LET sheet == IF SheetOf(profile, target) = None THEN target ELSE SheetOf(profile, target)
        slug == normalize_part(profile, sheet)
    IN  IF slug \notin DOMAIN SheetMax THEN NotFound
        ELSE FoundLimit(SheetMax[slug], None, <<"datasheet", slug>>)

Kinds == {"net", "rail", "part", "other"}

resolve(profile, target, kind) ==
    CASE kind = "net" -> from_net(profile, target)
      [] kind = "rail" -> from_rail(profile, target)
      [] kind = "part" -> from_part(profile, target)
      [] OTHER -> NotFound

\* analyzer._ground: the datasheet cited beside a snapshot's analysis.  A hint
\* wins, then the first part that the words of the note name, then the first
\* part that has a datasheet.
Sheeted(profile) == {i \in DOMAIN profile.parts : profile.parts[i].datasheet # None}

Named(profile, words) ==
    {i \in Sheeted(profile) :
        words \cap {Fold[profile.parts[i].datasheet], Fold[profile.parts[i].part]} # {}}

ground(profile, words, hint) ==
    LET named == Named(profile, words)
        hits == IF named # {} THEN named ELSE Sheeted(profile)
    IN  IF hint # None THEN hint
        ELSE IF hits = {} THEN None ELSE FirstOf(profile.parts, hits).datasheet

-----------------------------------------------------------------------------
(* A parsed schematic is a list of components and a list of nets; the      *)
(* model's guess at a nominal voltage comes with each net.                 *)

PrefixCategory ==
    <<<<"SW", "switch">>, <<"TP", "test_point">>, <<"R", "resistor">>, <<"C", "capacitor">>,
      <<"L", "inductor">>, <<"U", "ic">>, <<"J", "connector">>, <<"P", "connector">>,
      <<"D", "diode">>, <<"Q", "transistor">>, <<"Y", "crystal">>, <<"X", "crystal">>,
      <<"F", "fuse">>, <<"T", "transformer">>, <<"K", "relay">>>>

\* The first prefix in the table's order decides: TP4 is a test point, T1 a transformer.
categorise(ref) ==
    LET starts == IF ref = None THEN {} ELSE RefPrefixes[ref]
        hits == {i \in DOMAIN PrefixCategory : PrefixCategory[i][1] \in starts}
    IN  IF hits = {} THEN "other" ELSE FirstOf(PrefixCategory, hits)[2]

\* normalize fills in a type the model left blank.
Typed(c) == IF c.type # None THEN c ELSE [c EXCEPT !.type = categorise(c.ref)]

Normalized(sch) == [sch EXCEPT !.components = [i \in DOMAIN @ |-> Typed(@[i])]]

\* Mutant: the part number read off the still is taken for a datasheet.
MintedPart_sheet(c) == [ref |-> c.ref, part |-> c.ref, datasheet |-> c.part]

\* The Part of a component: no datasheet comes from a vision parse.
MintedPart(c) ==
    [ref |-> c.ref, datasheet |-> None,
     part |-> CASE c.part # None -> c.part [] c.type # None -> c.type [] OTHER -> c.ref]

\* The Net of a schematic net: the guess is advice, never a limit.
MintedNet(n) == [id |-> n.id, maxV |-> None, maxI |-> None]

\* Mutant: the parse is believed before the documentation.
Added_first(list, entry) == <<entry>> \o list

Added(list, entry) == Append(list, entry)

PartKeys(profile) == {Fold[profile.parts[i].ref] : i \in DOMAIN profile.parts}
NetKeys(profile) == {Fold[profile.nets[i].id] : i \in DOMAIN profile.nets}

-----------------------------------------------------------------------------
(* Which board a process starts with: an explicit path, BOARD_PROFILE and  *)
(* BOM_FILE name files of their own ("custom"), FORGE_BOARD one of Boards; *)
(* "bq79616" is the bundled demo.                                          *)

Environments ==
    [path: {None, "custom"}, BOARD_PROFILE: {None, "custom"}, BOM_FILE: {None, "custom"},
     FORGE_BOARD: {None, "unknown"} \cup DOMAIN Boards]

Shortcut(env) == IF env.FORGE_BOARD \in DOMAIN Boards THEN env.FORGE_BOARD ELSE "bq79616"

\* _default_profile_path and load_board_profile.
profile_board(env) ==
    IF env.path # None \/ env.BOARD_PROFILE # None THEN "custom" ELSE Shortcut(env)

\* Mutant: the shortcut's schematic comes whatever profile was loaded.
schematic_board_always(env) == Shortcut(env)

\* KnowledgeAdapter.__init__: the schematic bundled with the shortcut is
\* taken only when the profile is the shortcut's too.
schematic_board(env) ==
    IF env.path # None \/ env.BOARD_PROFILE # None THEN None ELSE Shortcut(env)

\* _active_bom_path
bom_board(env) == IF env.BOM_FILE # None THEN "custom" ELSE Shortcut(env)
=============================================================================
