----------------------------- MODULE MCKnowledge -----------------------------
(* A process of one of two bundled boards or of a board of its own, two     *)
(* worker threads, and two schematics a vision model may read off a still.  *)
EXTENDS BenchLookups, TLC

Upper == {"U2", "BQ79616", "U9", "3V3", "J3", "K1", "RELAY", "VBAT", "G1", "U4", "LDO33"}
Lower == {"u2", "bq79616", "u9", "3v3", "j3", "k1", "relay", "vbat", "g1", "u4", "ldo33"}
Slugs == {"bq79600", "esp32", "ams1117", "ic"}

MCNames == Upper \cup Lower \cup Slugs
MCFold ==
    [n \in MCNames |->
        CASE n = "U2" -> "u2" [] n = "BQ79616" -> "bq79616" [] n = "U9" -> "u9"
          [] n = "3V3" -> "3v3" [] n = "J3" -> "j3" [] n = "K1" -> "k1"
          [] n = "RELAY" -> "relay" [] n = "VBAT" -> "vbat" [] n = "G1" -> "g1" [] n = "U4" -> "u4" [] n = "LDO33" -> "ldo33" [] OTHER -> n]
MCRefPrefixes ==
    [n \in MCNames |-> CASE MCFold[n] \in {"u2", "u4", "u9"} -> {"U"}
                         [] MCFold[n] = "k1" -> {"K"} [] OTHER -> {}]
MCSheetMax == [bq79616 |-> "80 V", bq79600 |-> "5.5 V", esp32 |-> "3.6 V", ams1117 |-> "15 V"]

Part(ref, part, sheet) == [ref |-> ref, part |-> part, datasheet |-> sheet]
Net(id, maxV) == [id |-> id, maxV |-> maxV, maxI |-> None]
Rail(id, v, maxI) == [id |-> id, nominalV |-> v, maxI |-> maxI]
Comp(ref, part, type) == [ref |-> ref, part |-> part, type |-> type]
SchNet(id, guess) == [id |-> id, guess |-> guess]

BqProfile == [parts |-> <<Part("U2", "BQ79616", "bq79616"), Part("U4", "LDO33", "ams1117")>>,
              rails |-> <<Rail("3V3", "3.3 V", "0.5 A")>>, nets |-> <<Net("J3", "30 V")>>]
PreProfile == [parts |-> <<Part("K1", "RELAY", None)>>, rails |-> <<>>, nets |-> <<Net("G1", None)>>]
CustomProfile == [parts |-> <<Part("u9", "ams1117", "ams1117")>>, rails |-> <<>>, nets |-> <<>>]

PreSchematic == [components |-> <<Comp("K1", "RELAY", "relay"), Comp("U2", None, "ic")>>,
                 nets |-> <<SchNet("G1", None)>>, origin |-> "bundled"]
\* What a model reads off a still: refs in another case, guesses, blanks.
ParseA == [components |-> <<Comp("u2", None, None), Comp("U9", "LDO33", None)>>,
           nets |-> <<SchNet("3V3", "3.3 V"), SchNet("j3", "5 V")>>, origin |-> "model"]
ParseB == [components |-> <<Comp(None, "BQ79616", None), Comp("u9", None, None)>>,
           nets |-> <<SchNet("VBAT", "12 V")>>, origin |-> "model"]

NoParse == [components |-> <<>>, nets |-> <<>>, origin |-> "none"]
MCBoards == ("bq79616" :> [profile |-> BqProfile, schematic |-> NoParse])
         @@ ("25e" :> [profile |-> PreProfile, schematic |-> PreSchematic])

MCCustom == CustomProfile
MCSchematics == {ParseA, ParseB}
MCAsked == {<<"3V3", "rail">>, <<"3V3", "net">>}

Env(yaml, bom, board) == [path |-> None, BOARD_PROFILE |-> yaml, BOM_FILE |-> bom, FORGE_BOARD |-> board]
MCStarted == {Env(None, None, None), Env(None, None, "unknown"), Env(None, None, "25e"),
              Env("custom", None, "25e"), Env(None, "custom", "bq79616"),
              [Env(None, None, "25e") EXCEPT !.path = "custom"]}

MCQueries == {<<"absolute", "maximum", "ratings">>, <<"power", "up">>, <<"comm">>, <<"3v3">>,
              <<"vio", "limit">>, <<"precondition">>, <<"board">>}

MCPageLimits == {-1, 0, 1, 2}

Symmetry == Permutations(Threads)

\* The items of a BOM: designator, part number, name, value, type and the words
\* of the description.  r1 is a part of the fields of another resistor.
Item(des, mpn, name, value, type, words) ==
    [designator |-> des, mpn |-> mpn, name |-> name, value |-> value, type |-> type, words |-> words]
MCBoms ==
    ("bq79616" :> <<Item("c1", "c0603", "0u1", "0u1", "capacitor", {"x7r"}),
                    Item("r1", "crcw1", "100k", "100k", "resistor", {"thick"}),
                    Item("r2", "mr1x", "r1x", "1", "resistor", {"r1a", "thick"}),
                    Item("r3", "mr1x", "r1x", "10k", None, {"r1a"})>>)
 @@ ("25e" :> <<Item("k1", "g3vm", "relay", "ssr", "relay", {"ssr"}),
                Item("r1", "g3vm", "ssr", "100k", "resistor", {"ssr"})>>)
MCBomQueries == {<<>>, <<"r1">>, <<"r2">>, <<"c1">>, <<"k1">>, <<"100k", "resistor">>,
                 <<"ssr">>, <<"crcw1">>, <<"thick", "100k">>}

MCLong == Lower \cup Slugs \cup {"r1", "r2", "c1", "100k", "resistor", "ssr", "crcw1", "thick",
                                 "comm", "board", "vio", "limit", "power", "up"}
Substrings == {<<"r1", "mr1x">>, <<"r1", "r1x">>, <<"r1", "r1a">>, <<"1", "r1">>,
               <<"1", "c1">>, <<"1", "k1">>, <<"1", "K1">>}
ItemFields == UNION {UNION {{i.designator, i.mpn, i.name, i.value, i.type} \cup i.words :
                              i \in ToSet(MCBoms[b])} : b \in DOMAIN MCBoms}
MCWithin == {<<MCFold[n], n>> : n \in MCNames} \cup {<<f, f>> : f \in ItemFields \ {None}} \cup Substrings
=============================================================================
