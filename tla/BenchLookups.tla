---------------------------- MODULE BenchLookups ----------------------------
(***************************************************************************)
(* The read-only lookups beside the documented limits: knowledge/lookups.py*)
(* (datasheets and board documents), knowledge/bom.py (the bill of         *)
(* materials) and KnowledgeAdapter.lookup_schematic.                       *)
(*                                                                         *)
(* A query is the sequence of its tokens (a space and a hyphen separate    *)
(* alike); a keyword is the sequence of its parts, so that "power-up" is   *)
(* the keyword <<"power", "up">>.  Texts are reduced to what the ranking   *)
(* reads of them.  Callers ask when no tool call is under way; an answer   *)
(* ends the behaviour, since it changes nothing another answer depends on. *)
(***************************************************************************)
EXTENDS KnowledgeAdapter, SequencesExt, Listings

CONSTANTS
    Queries,      \* what is asked of datasheets and board documents
    PageLimits,   \* values of maxPages; a negative one is none
    Within,       \* <<token, name>> pairs: the folded token is a part of the name
    Long,         \* tokens of more than one character
    Boms,         \* board -> the items of its BOM
    BomQueries,   \* what is asked of the BOM
    MaxResults    \* values of max_results

\* What is looked for is folded, and an absent field contains nothing.
ASSUME WithinAssumption ==
    /\ \A pair \in Within : pair[2] # None
    /\ \A pair \in Within, name \in Names :
          pair[2] \in Names /\ Fold[pair[2]] = Fold[name] => <<pair[1], name>> \in Within

-----------------------------------------------------------------------------
\* Keywords of one token.
Words(tokens) == {<<t>> : t \in tokens}

Limits == Words({"absolute", "maximum", "ratings", "limit"})

PowerUp == {<<"power", "up">>, <<"power">>, <<"wake">>}

Entry(page, keywords) == [page |-> page, keywords |-> keywords, absoluteMax |-> None]
AbsMax(page, keywords, max) == [Entry(page, Limits \cup keywords) EXCEPT !.absoluteMax = max]

\* _STUB_DATASHEETS, with the keywords that the queries can meet.
Datasheets ==
    [bq79616 |-> <<Entry(41, PowerUp \cup Words({"comm"})),
                   Entry(28, Words({"vio", "3v3"})),
                   Entry(55, Words({"comm", "uart"})),
                   AbsMax(8, Words({"vio"}), "80 V")>>,
     bq79600 |-> <<Entry(22, Words({"comm", "uart"})),
                   Entry(26, PowerUp),
                   AbsMax(7, Words({"vio"}), "5.5 V")>>,
     esp32   |-> <<Entry(12, Words({"uart"})),
                   Entry(18, Words({"power", "current", "3v3"})),
                   AbsMax(20, {}, "3.6 V")>>,
     ams1117 |-> <<Entry(4, Words({"3v3"})),
                   Entry(5, Words({"current", "limit"})),
                   AbsMax(2, {}, "15 V")>>]

ASSUME LookupsAssumption ==
    /\ PageLimits \subseteq Int /\ MaxResults \subseteq Nat /\ Queries \subseteq Seq(STRING)
    /\ DOMAIN SheetMax = DOMAIN Datasheets
    /\ \A sheet \in DOMAIN Datasheets :
          \A i \in DOMAIN Datasheets[sheet] :
             Datasheets[sheet][i].absoluteMax \in {None, SheetMax[sheet]}
    /\ \A board \in DOMAIN Boms : Boms[board] \in Seq(ToSet(Boms[board]))

\* A documented part has the datasheet it is named after, if it is named after
\* one, and no datasheet's name is that of a part with another one in the table.
ConsistentSheets(doc) ==
    \A i \in DOMAIN doc.parts :
        LET sheet == doc.parts[i].datasheet
            keys == {Fold[doc.parts[i].ref], Fold[doc.parts[i].part]}
        IN  sheet # None =>
                IF Fold[sheet] \in DOMAIN SheetMax
                THEN keys \cap DOMAIN SheetMax \subseteq {Fold[sheet]}
                ELSE \A j \in PartHits(doc, sheet) :
                        LET other == doc.parts[j].datasheet
                        IN  other # None => Fold[other] \notin DOMAIN SheetMax

ASSUME SheetsAssumption ==
    /\ \A board \in DOMAIN Boards : ConsistentSheets(Boards[board].profile)
    /\ ConsistentSheets(Custom)

\* _STUB_BOARD_DOC_PASSAGES, likewise.
BoardDocs ==
    <<[section |-> "overview", keywords |-> Words({"board"})],
      [section |-> "power & nets",
       keywords |-> Words({"power", "vio", "3v3", "limit", "current", "psu", "j3"})],
      [section |-> "bring-up procedure",
       keywords |-> {<<"power", "up">>, <<"wake">>, <<"comm">>}],
      [section |-> "preconditions", keywords |-> Words({"precondition", "psu"})]>>

\* _score_entry, _score_doc_passage: tokens that are keywords, and once more
\* when the whole query is one.
Score(keywords, query) ==
    Cardinality({t \in ToSet(query) : <<t>> \in keywords}) + (IF query \in keywords THEN 1 ELSE 0)

\* Equal scores keep their order: sorted() is stable.
Better(scores, i, j) == scores[i] > scores[j] \/ (scores[i] = scores[j] /\ i < j)

\* The given indices of a list of scores, best first.
Ranked(scores, hits) == Listed(hits, {p \in hits \X hits : Better(scores, p[1], p[2])})

Fitting(scores) == {i \in DOMAIN scores : scores[i] > 0}

Cut(seq, limit) == IF limit < 0 \/ limit >= Len(seq) THEN seq ELSE SubSeq(seq, 1, limit)

Scores(entries, query) == [i \in DOMAIN entries |-> Score(entries[i].keywords, query)]

-----------------------------------------------------------------------------
\* Mutant: the pages are cut off before they are ranked.
best_entries_cut_first(entries, query, pages) ==
    LET scores == Scores(Cut(entries, pages), query)
    IN  Ranked(scores, DOMAIN scores)

\* The passages of lookup_datasheet; the first entry leads when nothing matches.
best_entries(entries, query, pages) ==
    LET scores == Scores(entries, query)
        ranked == Cut(Ranked(scores, DOMAIN scores), pages)
        others == Picked(ranked, {k \in DOMAIN ranked : ranked[k] # 1})
    IN  IF ranked # <<>> /\ scores[ranked[1]] = 0 THEN Cut(<<1>> \o others, pages) ELSE ranked

lookup_datasheet(part, query, pages) ==
    LET sheet == normalize_part(profile, part)
    IN  [sheet |-> sheet,
         passages |-> IF sheet \in DOMAIN Datasheets
                      THEN best_entries(Datasheets[sheet], query, pages) ELSE <<>>]

\* _matches: a token of more than one character occurs in a field.
Matches(query, fields) ==
    \E t \in ToSet(query) \cap Long, f \in fields \ {None} : <<t, f>> \in Within

PartMatches(query) ==
    {i \in DOMAIN profile.parts :
        Matches(query, {profile.parts[i].ref, profile.parts[i].part, profile.parts[i].datasheet})}
NetMatches(query) == {i \in DOMAIN profile.nets : Matches(query, {profile.nets[i].id})}

\* The passages of lookup_board_doc: at most three that match, or the overview.
doc_passages(query) ==
    LET scores == Scores(BoardDocs, query)
        top == Ranked(scores, Fitting(scores))
    IN  IF top = <<>> THEN <<1>> ELSE Cut(top, 3)

\* lookup_schematic on one token: by ref, part or type, and by net id.
ComponentHits(token) ==
    {i \in DOMAIN schematic.components :
        LET c == schematic.components[i]
        IN  \E f \in {c.ref, c.part, c.type} \ {None} : <<token, f>> \in Within}
SchNetHits(token) ==
    {i \in DOMAIN schematic.nets : <<token, schematic.nets[i].id>> \in Within}

-----------------------------------------------------------------------------
(* The BOM.  Scores are in tenths.                                         *)

\* Some token and the field contain one another in either direction.
Overlaps(query, field) ==
    field # None /\ \E t \in ToSet(query) : {<<t, field>>, <<field, t>>} \cap Within # {}

\* An absent type is a part of every token, as "" is of every string.
TypeFits(query, type) == IF type = None THEN query # <<>> ELSE Overlaps(query, type)

\* The part number contains the whole query.
InPartNumber(query, item) == Len(query) = 1 /\ <<query[1], item.mpn>> \in Within

\* The number of tokens that occur in a word of the field.
Occurring(query, words) ==
    Cardinality({k \in DOMAIN query :
                    query[k] \in Long /\ \E w \in words : <<query[k], w>> \in Within})

\* Mutant: an exact part number counts as much as a designator.
score_item_flat(item, query) ==
    LET Points(holds, tenths) == IF holds THEN tenths ELSE 0
    IN  Points(<<item.designator>> = query, 30) + Points(<<item.mpn>> = query, 30)
      + Points(InPartNumber(query, item), 15)
      + Points(<<item.name>> = query, 20)
      + Points(Overlaps(query, item.value), 15) + Points(TypeFits(query, item.type), 10)
      + 5 * Occurring(query, item.words) + 3 * Occurring(query, {item.name})

\* _score_item
score_item(item, query) ==
    LET Points(holds, tenths) == IF holds THEN tenths ELSE 0
    IN  Points(<<item.designator>> = query, 40) + Points(<<item.mpn>> = query, 30)
      + Points(InPartNumber(query, item), 15)
      + Points(<<item.name>> = query, 20)
      + Points(Overlaps(query, item.value), 15) + Points(TypeFits(query, item.type), 10)
      + 5 * Occurring(query, item.words) + 3 * Occurring(query, {item.name})

\* lookup_bom: by score, then by designator; the items are listed in the
\* order of their designators here.
bom_items == IF bom_board(env) \in DOMAIN Boms THEN Boms[bom_board(env)] ELSE <<>>

lookup_bom(query, limit) ==
    LET items == bom_items
        scores == [i \in DOMAIN items |-> score_item(items[i], query)]
    IN  IF query = <<>> THEN <<>>
        ELSE Cut(Ranked(scores, Fitting(scores)), limit)

Quiet == \A c \in Callers : pc[c] = "idle"

-----------------------------------------------------------------------------
(* What is documented for a part and what its datasheet lookup quotes are  *)
(* the same: for every way of naming the part, before and after a parse,   *)
(* the first passage on absolute maximum ratings is the limit's source     *)
(* (lookups.py:389-436, limits.py:103-127).                                *)
LimitQuotesDatasheet ==
    \A part \in Names :
        LET limit == resolve(profile, part, "part")
            quoted == lookup_datasheet(part, <<"absolute", "maximum", "ratings">>, -1)
        IN  limit.found =>
                /\ limit.source = <<"datasheet", quoted.sheet>>
                /\ quoted.passages # <<>>
                /\ Datasheets[quoted.sheet][Head(quoted.passages)].absoluteMax = limit.maxV

\* What is shown is the head of the ranking.
Leads(scores, shown) ==
    /\ \A i \in ToSet(shown), j \in DOMAIN scores \ ToSet(shown) : Better(scores, i, j)
    /\ \A k \in 1..Len(shown) - 1 : Better(scores, shown[k], shown[k + 1])

(* A cut answer is the head of the whole ranking: whatever maxPages, no    *)
(* page that is left out fits the query better than one that is returned,  *)
(* and equals come in the order of the table (lookups.py:389-436,          *)
(* :461-493).  Nothing a tool call does changes the tables, so that this   *)
(* and the next property look at a process that has parsed nothing yet.    *)
BestPassagesKept ==
    parses = 0 =>
      \A query \in Queries :
        /\ \A part \in Names, pages \in PageLimits :
              LET answered == lookup_datasheet(part, query, pages)
              IN  answered.sheet \in DOMAIN Datasheets =>
                    /\ answered.passages = <<>> <=> pages = 0
                    /\ Leads(Scores(Datasheets[answered.sheet], query), answered.passages)
        /\ doc_passages(query) # <<>>
        /\ Leads(Scores(BoardDocs, query), doc_passages(query))

\* What it takes beside the description to come before a designator.
FitsAllOver(query, item) ==
    InPartNumber(query, item) /\ Overlaps(query, item.value) /\ TypeFits(query, item.type)

(* An operator who asks the BOM for a designator gets that item first,     *)
(* whatever the BOM says of the others: the partial hits on another item   *)
(* add up to less than the exact one, unless its name or part number is    *)
(* the query itself, or part number, value and type all fit it             *)
(* (bom.py:172-237, :329).                                                 *)
DesignatorFirst ==
    parses = 0 =>
      \A query \in BomQueries, limit \in MaxResults \ {0} :
        LET items == bom_items
            matches == lookup_bom(query, limit)
        IN  (\E i \in DOMAIN items : <<items[i].designator>> = query) =>
                /\ matches # <<>>
                /\ LET first == items[Head(matches)]
                   IN  \/ query \in {<<first.designator>>, <<first.name>>, <<first.mpn>>}
                       \/ FitsAllOver(query, first)

(* The two ways of asking about a parsed schematic agree once no ingest is *)
(* under way: what lookup_schematic finds by ref or net is found by        *)
(* lookup_board_doc too, whichever of several ingests came last            *)
(* (knowledge/__init__.py:153-157).                                        *)
ServedIsMerged ==
    Quiet => \A token \in Long :
        /\ \A i \in ComponentHits(token) :
              LET ref == schematic.components[i].ref
              IN  ref # None /\ <<token, ref>> \in Within =>
                      \E j \in PartMatches(<<token>>) : Fold[profile.parts[j].ref] = Fold[ref]
        /\ \A i \in SchNetHits(token) :
              \E j \in NetMatches(<<token>>) :
                  Fold[profile.nets[j].id] = Fold[schematic.nets[i].id]
=============================================================================
