--------------------------- MODULE MCRegexParser ---------------------------
EXTENDS ParsedPatterns

\* Beyond ASCII: a digit, the Kelvin sign, which is a K but for case, and a no-break space.
MCMaxRune == 131
KelvinSign == 129
Lowers == 97..122
Uppers == 65..90
MCCategoryOf ==
    [k \in {" ", "W", "L", "Ll", "Lu", "Lt", "Nd", "NoCase"} |->
        CASE k = " "  -> 9..13 \cup {32, 130}
          [] k = "W"  -> Lowers \cup Uppers \cup 48..57 \cup {95, 128, KelvinSign}
          [] k = "L"  -> Lowers \cup Uppers \cup {KelvinSign}
          [] k = "Ll" -> Lowers
          [] k = "Lu" -> Uppers \cup {KelvinSign}
          [] k = "Lt" -> {}
          [] k = "Nd" -> 48..57 \cup {128}
          [] k = "NoCase" -> 0..131 \ (Lowers \cup Uppers \cup {KelvinSign, 36, 43, 60, 61, 62, 94, 96, 124, 126, 131})]

R(first, last) == SingleRange(first, last)
MCOldClass ==
    [ecmaDigit |-> <<R(48, 57)>>, ecmaSpace |-> <<R(9, 13), R(32, 32), R(130, 130)>>,
     ecmaWord |-> <<R(48, 57), R(65, 90), R(95, 95), R(97, 122)>>,
     re2Space |-> <<R(9, 10), R(12, 13), R(32, 32)>>, ecmaAny |-> <<R(0, 9), R(11, 12), R(14, 131)>>]

MCLower == [x \in 0..131 |-> IF x \in Uppers THEN x + 32 ELSE IF x = KelvinSign THEN 107 ELSE x]
MCLowerInTable == [MCLower EXCEPT ![KelvinSign] = KelvinSign]
MCUpper == [x \in 0..131 |-> IF x \in Lowers THEN x - 32 ELSE x]
MCFolded == [x \in 0..131 |-> {y \in {MCLower[x], MCUpper[MCLower[x]], IF MCLower[x] = 107 THEN KelvinSign ELSE x} : y # x}]
MCFold == MCLower
MCDigits == MCCategoryOf["Nd"]
MCWordChars == MCCategoryOf["W"]
MCECMAWordChars == RunesOf(MCOldClass["ecmaWord"])
MCProperties == [L |-> "L", Lu |-> "Lu", Ll |-> "Ll", Nd |-> "Nd"]
MCECMAProperties == "L" :> "L" @@ "Lu" :> "Lu" @@ "Ll" :> "Ll" @@ "Letter" :> "L" @@ "gc=Lu" :> "Lu"
MCRune == 0..131
MCLineTerminators == {10, 13}

\* Groups, references and options.
MCGroups == <<Pairs, Referrals, Conditions, InOrderPairs, Duplicates, Iterated, Python, Modes, Repeats>>

\* Classes, in each dialect.
Any1 == Some1 \cup Escapes1
MCClasses ==
    <<ClassesApart(Any1 \cup Property1 \cup Boundaries1, {}), ClassesApart(Members1, {"i"}), ClassesApart(Any1 \cup Property1, {"i"}),
      Classes(Any1, {"ecma", "i"}), Classes(Any1 \cup Property1 \cup Complements1, {"ecma", "u", "i"}),
      ClassesApart(Any1 \cup Property1 \cup Posix1, {"re2"}), InFrontOf(Any1 \cup Property1 \cup Boundaries1, {}), Subtractions>>

MCEscapes ==
    <<Escaping(Anywhere \cup NotECMA, {}), Escaping(Anywhere, {"i", "re2"}),
      Escaping(Anywhere \cup LegacyOnly, {"ecma"}), Escaping(Anywhere, {"ecma", "u", "i"})>>

MCSpoilt ==
    <<OtherConditions, Wrong({}), Wrong({"i", "n"}), WrongECMA({"ecma"}), WrongECMA({"ecma", "u", "i"}),
      Spoilt(GroupParts, {}), Spoilt(Referring, {"x", "rtl"}), Spoilt(Holding \cup Referring, {"ecma"}),
      Spoilt({Bracket(TRUE, <<x, y>>) : x \in Escapes1 \cup Posix1, y \in {Span1("X-b", 88, 98), Char1("\\x41", 65)}}, {"re2"})>>

MCInputs == MCGroups \o MCClasses \o MCEscapes \o MCSpoilt
=============================================================================
