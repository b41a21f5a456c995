------------------------------ MODULE Formulas ------------------------------
(***************************************************************************)
(* The formula expression of a custom indicator: the parser that turns the *)
(* syntax tree of the text into nodes or refuses it, and the nodes, which  *)
(* get each bar and keep what their windows need.                          *)
(*                                                                         *)
(* A tree of ast is a record with its form. Numbers are integers: a mean   *)
(* and a quotient are rounded down, the logarithm keeps the number, and    *)
(* the deviation is the spread under its root. The limits are small.       *)
(*                                                                         *)
(* Then the stored references to indicators and where they are checked:    *)
(* the reference itself, the definition of a screen with its columns, and  *)
(* the indicators and favorites of the chart; and the values of a          *)
(* reference: on a chart after its warm-up bars, and in a screen. A check  *)
(* returns the set of the locations of its problems, relative to the value *)
(* that it checks. An expression is a text with its tree.                  *)
(***************************************************************************)
EXTENDS IndicatorCatalog, TLC

NoValue == 99999
MaxNumber == 500                \* stands for the largest finite float
MaxDepth == 4                   \* MAX_DEPTH, 20 in the code
MaxExponent == 2                \* MAX_EXPONENT, 10 in the code
MaxLookBackBars == 6            \* MAX_LOOK_BACK_BARS, 20,000 in the code
MaxCalculationBars == 30        \* MAX_CALCULATION_BARS, 10,000,000 in the code
MinStdWindow == 2

BarFields == {"close", "volume"}
BinaryOperators == {"+", "-", "*", "/"}
RollingFunctions == {"mean", "max", "min", "sum", "std"}
ScalarFunctions == {"abs", "log"}

Finite(number) == IF number \in -MaxNumber .. MaxNumber THEN number ELSE NoValue
Quotient(a, b) == IF b > 0 THEN a \div b ELSE (-a) \div (-b)

-----------------------------------------------------------------------------
(* The nodes.                                                              *)

\* calculate: a divide by zero, a number outside the domain and an overflow give no value.
Apply(function, values, exponent) ==
    LET a == values[1]
        b == values[Len(values)]
    IN  CASE function = "+" -> Finite(a + b)
          [] function = "-" -> Finite(a - b)
          [] function = "*" -> Finite(a * b)
          [] function = "/" -> IF b = 0 THEN NoValue ELSE Quotient(a, b)
          [] function = "negate" -> -a
          [] function = "abs" -> IF a < 0 THEN -a ELSE a
          [] function = "log" -> IF a <= 0 THEN NoValue ELSE a
          [] exponent >= 0 -> Finite(a ^ exponent)
          [] OTHER -> IF a = 0 THEN NoValue ELSE Quotient(1, a ^ (-exponent))

\* WindowSum, WindowMean, WindowDeviation and WindowExtreme: what a bar adds and removes.
EmptyMeasure == [total |-> 0, squares |-> 0, kept |-> <<>>]
IsBeatenBy(function, kept, value) == IF function = "max" THEN kept < value ELSE kept > value
AddTo(function, measure, value) ==
    LET unbeaten == {k \in DOMAIN measure.kept : ~IsBeatenBy(function, measure.kept[k], value)}
    IN  [total |-> measure.total + value, squares |-> measure.squares + value * value,
         kept |-> Append(SubSeq(measure.kept, 1, Max(unbeaten \cup {0})), value)]
RemoveFrom(function, measure, value) ==
    [total |-> measure.total - value, squares |-> measure.squares - value * value,
     kept |-> IF measure.kept[1] = value THEN Tail(measure.kept) ELSE measure.kept]
Measured(function, measure, count) ==
    CASE function = "sum" -> Finite(measure.total)
      [] function = "mean" -> Finite(measure.total \div count)
      [] function = "std" -> Finite(count * measure.squares - measure.total * measure.total)
      [] OTHER -> measure.kept[1]

\* RollingNode.update: the oldest value of a full window leaves before the child gets the bar.
UpdateRolling(node, state, value) ==
    LET leaves == Len(state.values) = node.window /\ state.values[1] # NoValue
        removed == IF leaves THEN RemoveFrom(node.function, state.measure, state.values[1]) ELSE state.measure
        measure == IF value # NoValue THEN AddTo(node.function, removed, value) ELSE removed
        known == state.known_count - (IF leaves THEN 1 ELSE 0) + (IF value # NoValue THEN 1 ELSE 0)
    IN  [values |-> Append(IF Len(state.values) = node.window THEN Tail(state.values) ELSE state.values, value),
         measure |-> measure, known_count |-> known,
         out |-> Append(state.out, IF known < node.window THEN NoValue
                                   ELSE Measured(node.function, measure, node.window))]
Rolling(node, values) ==
    FoldLeft(LAMBDA state, value : UpdateRolling(node, state, value),
             [values |-> <<>>, measure |-> EmptyMeasure, known_count |-> 0, out |-> <<>>], values).out

\* The values of a node at each bar, from a new node. A catalog node has the values of its class; here, the sum of SMA.
RECURSIVE Values(_, _)
Values(node, bars) ==
    CASE node.kind = "number" -> [i \in DOMAIN bars |-> node.number]
      [] node.kind = "field" -> [i \in DOMAIN bars |-> bars[i][node.name]]
      [] node.kind = "scalar" ->
            LET children == [k \in DOMAIN node.children |-> Values(node.children[k], bars)]
            IN  [i \in DOMAIN bars |->
                    IF \E k \in DOMAIN children : children[k][i] = NoValue THEN NoValue
                    ELSE Apply(node.function, [k \in DOMAIN children |-> children[k][i]], node.exponent)]
      [] node.kind = "rolling" -> Rolling(node, Values(node.child, bars))
      [] node.kind = "lag" ->
            LET child == Values(node.child, bars)
            IN  [i \in DOMAIN bars |-> IF i > node.window THEN child[i - node.window] ELSE NoValue]
      [] OTHER ->
            [i \in DOMAIN bars |->
                IF i < node.look_back THEN NoValue
                ELSE Finite(MapThenSumSet(LAMBDA k : bars[k].close, i - node.look_back + 1 .. i))]

RECURSIVE NodeLookBack(_)
NodeLookBack(node) ==
    CASE node.kind \in {"number", "field"} -> 1
      [] node.kind = "scalar" -> Max({NodeLookBack(node.children[k]) : k \in DOMAIN node.children})
      [] node.kind = "rolling" -> NodeLookBack(node.child) + node.window - 1
      [] node.kind = "lag" -> NodeLookBack(node.child) + node.window
      [] OTHER -> node.look_back

RECURSIVE WindowBars(_)
WindowBars(node) ==
    CASE node.kind \in {"number", "field"} -> 0
      [] node.kind = "scalar" -> FoldLeft(LAMBDA sum, child : sum + WindowBars(child), 0, node.children)
      [] node.kind \in {"rolling", "lag"} -> WindowBars(node.child) + node.window
      [] OTHER -> node.window

-----------------------------------------------------------------------------
(* The parser.                                                             *)

\* FormulaProblem: the column of the tree that is refused.
Refuse(tree) == [kind |-> "problem", at |-> tree]
IsRefused(node) == node.kind = "problem"
Scalar(function, children, exponent) ==
    IF \E k \in DOMAIN children : IsRefused(children[k])
    THEN children[Min({k \in DOMAIN children : IsRefused(children[k])})]
    ELSE [kind |-> "scalar", function |-> function, children |-> children, exponent |-> exponent]
IsNumber(tree) == tree.form = "constant" /\ tree.value.type \in {"int", "float"}

\* read_exponent: a number, or the negation of one; the check is on the number without its sign.
IsExponent(tree) ==
    LET constant == IF tree.form = "unary" /\ tree.op = "-" THEN tree.operand ELSE tree
    IN  IsNumber(constant) /\ constant.value.number \in -MaxExponent .. MaxExponent
Exponent(tree) == IF tree.form = "unary" THEN -tree.operand.value.number ELSE tree.value.number

RECURSIVE ParseNode(_, _)
ParseBinary(tree, depth) ==
    CASE tree.op = "**" ->
            IF ~IsExponent(tree.right) THEN Refuse(tree.right)
            ELSE Scalar("**", <<ParseNode(tree.left, depth + 1)>>, Exponent(tree.right))
      [] tree.op \notin BinaryOperators -> Refuse(tree)
      [] OTHER -> Scalar(tree.op, <<ParseNode(tree.left, depth + 1), ParseNode(tree.right, depth + 1)>>, 0)

ParseUnary(tree, depth) ==
    IF tree.op \notin {"-", "+"} THEN Refuse(tree)
    ELSE LET operand == ParseNode(tree.operand, depth + 1)
         IN  IF tree.op = "+" THEN operand ELSE Scalar("negate", <<operand>>, 0)

IsWindow(tree, minimum) ==
    tree.form = "constant" /\ tree.value.type = "int" /\ tree.value.number \in minimum .. MaximumPeriod
ParseWindowCall(tree, depth) ==
    IF DOMAIN tree.keywords # {} \/ Len(tree.args) # 2 THEN Refuse(tree)
    ELSE LET child == ParseNode(tree.args[1], depth + 1)
             size == tree.args[2]
         IN  CASE IsRefused(child) -> child
               [] ~IsWindow(size, IF tree.name = "std" THEN MinStdWindow ELSE 1) -> Refuse(size)
               [] OTHER -> [kind |-> IF tree.name = "lag" THEN "lag" ELSE "rolling", function |-> tree.name,
                            child |-> child, window |-> size.value.number]

ParseScalarCall(tree, depth) ==
    IF DOMAIN tree.keywords # {} \/ Len(tree.args) # 1 THEN Refuse(tree)
    ELSE Scalar(tree.name, <<ParseNode(tree.args[1], depth + 1)>>, 0)

\* The arguments by position and by name; `output` is not a parameter.
ParseCatalogCall(tree, definition) ==
    LET by_position == [name \in {definition.parameters[k].name : k \in 1 .. Len(tree.args)} |->
                            tree.args[CHOOSE k \in DOMAIN tree.args : definition.parameters[k].name = name]]
        by_name == [name \in DOMAIN tree.keywords \ {"output"} |-> tree.keywords[name]]
        written == [name \in DOMAIN by_position \cup DOMAIN by_name |->
                        IF name \in DOMAIN by_position THEN by_position[name] ELSE by_name[name]]
        output == IF "output" \in DOMAIN tree.keywords THEN tree.keywords["output"].value ELSE JsonNull
        parameters == [name \in DOMAIN written |-> written[name].value]
        look_back == ScreenLookBackBars(definition, parameters)
    IN  CASE Len(tree.args) > Len(definition.parameters) -> Refuse(tree)
          [] "output" \in DOMAIN tree.keywords /\ output.type # "text" -> Refuse(tree.keywords["output"])
          [] DOMAIN by_position \cap DOMAIN by_name # {} ->
                Refuse(by_name[CHOOSE name \in DOMAIN by_name : name \in DOMAIN by_position])
          [] \E name \in DOMAIN written : ~IsNumber(written[name]) ->
                Refuse(written[CHOOSE name \in DOMAIN written : ~IsNumber(written[name])])
          [] CheckParameters(definition, JsonObject(parameters)) \cup CheckOutput(definition, output) # {} ->
                Refuse(tree)
          [] OTHER -> [kind |-> "catalog", look_back |-> look_back,
                       window |-> IF definition.look_back.factor > 1 THEN 0 ELSE look_back]

ParseCall(tree, depth) ==
    CASE tree.name \in RollingFunctions \cup {"lag"} -> ParseWindowCall(tree, depth)
      [] tree.name \in ScalarFunctions -> ParseScalarCall(tree, depth)
      [] tree.name \in DOMAIN Catalog -> ParseCatalogCall(tree, Catalog[tree.name])
      [] OTHER -> Refuse(tree)

ParseNode(tree, depth) ==
    CASE depth > MaxDepth -> Refuse(tree)
      [] tree.form = "constant" ->
            IF IsNumber(tree) /\ Finite(tree.value.number) # NoValue
            THEN [kind |-> "number", number |-> tree.value.number] ELSE Refuse(tree)
      [] tree.form = "name" -> IF tree.name \in BarFields THEN [kind |-> "field", name |-> tree.name] ELSE Refuse(tree)
      [] tree.form = "binary" -> ParseBinary(tree, depth)
      [] tree.form = "unary" -> ParseUnary(tree, depth)
      [] tree.form = "call" -> ParseCall(tree, depth)
      [] OTHER -> Refuse(tree)

CheckSize(tree, root) ==
    CASE IsRefused(root) -> root
      [] NodeLookBack(root) > MaxLookBackBars -> Refuse(tree)
      [] WindowBars(root) * NodeLookBack(root) > MaxCalculationBars -> Refuse(tree)
      [] OTHER -> root
ParseExpression(tree) == CheckSize(tree, ParseNode(tree, 1))

CheckExpression(tree) == IF IsRefused(ParseExpression(tree)) THEN {<<"expression">>} ELSE {}
CountFormulaBars(tree) == NodeLookBack(ParseExpression(tree))
-----------------------------------------------------------------------------
\* A window that adds and removes one value per bar has the same result as the values of the window.
Direct(node, window) ==
    CASE NoValue \in Range(window) \/ Len(window) < node.window -> NoValue
      [] node.function = "max" -> Max(Range(window))
      [] node.function = "min" -> Min(Range(window))
      [] OTHER ->
            LET total == FoldLeft(LAMBDA sum, value : sum + value, 0, window)
                count == node.window
            IN  CASE node.function = "sum" -> Finite(total)
                  [] node.function = "mean" -> Finite(total \div count)
                  [] OTHER -> Finite(MapThenSumSet(LAMBDA ij : (window[ij[1]] - window[ij[2]]) ^ 2,
                                                   {ij \in (1 .. count) \X (1 .. count) : ij[1] < ij[2]}))
WindowsAreExact(node, bars) ==
    node.kind = "rolling" =>
        LET child == Values(node.child, bars)
            values == Values(node, bars)
        IN  \A i \in DOMAIN bars : values[i] = Direct(node, SubSeq(child, Max({1, i - node.window + 1}), i))

\* A formula needs no bar before its look-back, and has no value from fewer bars.
LookBackIsEnough(node, bars) ==
    LET values == Values(node, bars)
        n == NodeLookBack(node)
    IN  \A i \in DOMAIN bars :
            i >= n => values[i] = Values(node, SubSeq(bars, i - n + 1, i))[n]

\* Each part of an accepted expression is allowed at its depth, and a refused expression has a part that is not, or
\* reads too many bars.
RECURSIVE Parts(_, _)
Parts(tree, depth) ==
    {<<tree, depth>>} \cup
        CASE tree.form = "binary" ->
                Parts(tree.left, depth + 1) \cup (IF tree.op = "**" THEN {} ELSE Parts(tree.right, depth + 1))
          [] tree.form = "unary" -> Parts(tree.operand, depth + 1)
          [] tree.form = "call" ->
                IF tree.args = <<>> \/ tree.name \in DOMAIN Catalog THEN {} ELSE Parts(tree.args[1], depth + 1)
          [] OTHER -> {}
IsAllowedPart(tree, depth) ==
    /\ depth <= MaxDepth
    /\ CASE tree.form = "constant" -> IsNumber(tree) /\ Finite(tree.value.number) # NoValue
         [] tree.form = "name" -> tree.name \in BarFields
         [] tree.form = "binary" -> IF tree.op = "**" THEN IsExponent(tree.right) ELSE tree.op \in BinaryOperators
         [] tree.form = "unary" -> tree.op \in {"-", "+"}
         [] tree.form = "call" ->
                \/ tree.name \in ScalarFunctions /\ Len(tree.args) = 1 /\ tree.keywords = <<>>
                \/ /\ tree.name \in RollingFunctions \cup {"lag"} /\ Len(tree.args) = 2 /\ tree.keywords = <<>>
                   /\ IsWindow(tree.args[2], IF tree.name = "std" THEN 2 ELSE 1)
                \/ tree.name \in DOMAIN Catalog /\ ~IsRefused(ParseCatalogCall(tree, Catalog[tree.name]))
         [] OTHER -> FALSE
IsExactTree(tree, root, wrong) ==
    IF IsRefused(root) THEN wrong # {} \/ ~IsRefused(ParseNode(tree, 1))
    ELSE /\ wrong = {} /\ NodeLookBack(root) <= MaxLookBackBars
         /\ WindowBars(root) * NodeLookBack(root) <= MaxCalculationBars
ParserIsExact(tree) ==
    IsExactTree(tree, ParseExpression(tree), {part \in Parts(tree, 1) : ~IsAllowedPart(part[1], part[2])})

-----------------------------------------------------------------------------
(* The stored references to indicators.                                    *)

CustomKeys == {"custom_1", "custom_2"}
WrongNames == {"", "Mine(2)"}               \* empty, too long, with parentheses or a character that is not stored
DecimalTexts == {"1", "2"}
Markets == {"US", "HK"}
StartInstruments == [US |-> {"quarter_universe", "watchlist"}, HK |-> {"hk_instrument_list", "watchlist"}]
MaxKeepFirst == 3                           \* MAX_KEEP_FIRST, 500 in the code
MaxPanes == 2                               \* MAX_PANES, 4 in the code

Under(key, problems) == {<<key>> \o location : location \in problems}
Index(k) == ToString(k - 1)
Fields(value) == IF value.type = "object" THEN value.fields ELSE <<>>
ReadKey(value, key) == Get(Fields(value), key, JsonNull)
Parameters(reference) == Fields(ReadKey(reference, "parameters"))

\* A key that is missing is a problem of its object.
CheckChoice(fields, key, known) == IF key \in DOMAIN fields /\ ~IsText(fields[key], known) THEN {<<key>>} ELSE {}

-----------------------------------------------------------------------------
(* A reference.                                                            *)

IsCustomKey(key) == IsText(key, CustomKeys)
CheckName(name) == IF name.type = "text" /\ name.text \notin WrongNames THEN {} ELSE {<<"name">>}
CheckFormula(formula) ==
    IF formula.type # "object" THEN {<<"formula">>}
    ELSE LET expression == ReadKey(formula, "expression")
         IN  Under("formula",
                {<<field>> : field \in DOMAIN formula.fields \ {"name", "expression", "chart_placement"}}
                \cup CheckName(ReadKey(formula, "name"))
                \cup CheckChoice(formula.fields @@ [chart_placement |-> JsonNull], "chart_placement", {"price", "own"})
                \cup (IF expression.type = "expression" THEN CheckExpression(expression.tree) ELSE {<<"expression">>}))

MakeFormulaDefinition(formula) ==
    [key |-> ReadKey(formula, "name").text, chart_placement |-> ReadKey(formula, "chart_placement").text,
     parameters |-> <<>>, outputs |-> {"value"}, orders |-> {},
     look_back |-> LookBack({}, 1, CountFormulaBars(ReadKey(formula, "expression").tree))]
FindIndicatorDefinition(reference) ==
    LET key == ReadKey(reference, "indicator")
    IN  IF IsCustomKey(key) THEN MakeFormulaDefinition(ReadKey(reference, "formula")) ELSE Catalog[key.text]

CheckValues(definition, fields, has_output) ==
    CheckParameters(definition, Get(fields, "parameters", JsonObject(<<>>)))
    \cup (IF has_output THEN CheckOutput(definition, Get(fields, "output", JsonNull)) ELSE {})
CheckIndicatorReference(reference, has_output) ==
    LET fields == Fields(reference)
        key == ReadKey(reference, "indicator")
        known == {"indicator", "parameters"} \cup (IF has_output THEN {"output"} ELSE {})
                 \cup (IF IsCustomKey(key) THEN {"formula"} ELSE {})
        unknown == {<<field>> : field \in DOMAIN fields \ known}
        of_formula == IF IsCustomKey(key) THEN CheckFormula(ReadKey(reference, "formula")) ELSE {}
    IN  CASE reference.type # "object" -> {<<>>}
          [] of_formula # {} -> unknown \cup of_formula
          [] ~IsCustomKey(key) /\ ~IsText(key, DOMAIN Catalog) -> unknown \cup {<<"indicator">>}
          [] OTHER -> unknown \cup CheckValues(FindIndicatorDefinition(reference), fields, has_output)

-----------------------------------------------------------------------------
(* The definition of a screen.                                             *)

CheckObject(value, required, optional) ==
    IF value.type # "object" THEN {<<>>}
    ELSE LET keys == DOMAIN value.fields
         IN  {<<key>> : key \in (keys \ (required \cup optional)) \cup (required \ keys)}
CheckIntegerIn(fields, key, allowed) ==
    IF key \in DOMAIN fields /\ ~(fields[key].type = "int" /\ fields[key].number \in allowed) THEN {<<key>>} ELSE {}
CheckComparison(fields) ==
    CheckChoice(fields, "operator", {"<", ">="}) \cup CheckChoice(fields, "value", DecimalTexts)
CheckIndicator(fields) ==
    IF "indicator" \in DOMAIN fields THEN Under("indicator", CheckIndicatorReference(fields["indicator"], TRUE)) ELSE {}

CheckExchanges(values) ==
    IF values.type # "list" THEN {<<>>}
    ELSE IF values.items = <<>> THEN {<<>>}
    ELSE {<<Index(k)>> : k \in {i \in DOMAIN values.items : ~IsText(values.items[i], {"NYSE"})}}
CheckFilter(item) ==
    LET field == ReadKey(item, "field")
        fields == Fields(item)
    IN  CASE IsText(field, {"still_trading"}) -> CheckObject(item, {"field"}, {})
          [] IsText(field, {"last_price"}) ->
                CheckObject(item, {"field", "operator", "value"}, {}) \cup CheckComparison(fields)
          [] IsText(field, {"exchange"}) ->
                CheckObject(item, {"field", "values"}, {})
                \cup (IF "values" \in DOMAIN fields THEN Under("values", CheckExchanges(fields["values"])) ELSE {})
          [] item.type # "object" -> {<<>>}
          [] OTHER -> {<<"field">>}

\* SMA, EMA, the upper line of a channel, or a custom indicator on the price scale.
LineOutputs == [sma |-> "value", bollinger_bands |-> "upper"]
CheckLine(fields) ==
    LET reference == Get(fields, "indicator", JsonNull)
        key == ReadKey(reference, "indicator")
        output == ReadKey(reference, "output")
        is_line == key.type = "text" /\ key.text \in DOMAIN LineOutputs
                   /\ IsText(IF output.type = "null" THEN JsonText("value") ELSE output, {LineOutputs[key.text]})
        is_custom_line == IsText(ReadKey(ReadKey(reference, "formula"), "chart_placement"), {"price"})
    IN  IF key.type = "null" \/ is_line \/ is_custom_line THEN {} ELSE {<<"indicator">>}

CheckKind(item, kind, fields) ==
    CASE kind = "compare" ->
            CheckObject(item, {"kind", "indicator", "operator", "value"}, {}) \cup CheckComparison(fields)
      [] kind = "close_versus_line" ->
            CheckObject(item, {"kind", "indicator", "side"}, {})
            \cup CheckChoice(fields, "side", {"above", "below"}) \cup CheckLine(fields)
      [] kind = "rank" ->
            CheckObject(item, {"kind", "indicator", "end", "percent"}, {})
            \cup CheckChoice(fields, "end", {"top", "bottom"}) \cup CheckIntegerIn(fields, "percent", 1 .. 100)
CheckCondition(item) ==
    LET kind == ReadKey(item, "kind")
        fields == Fields(item)
    IN  CASE IsText(kind, {"compare", "close_versus_line", "rank"}) ->
                CheckIndicator(fields) \cup CheckKind(item, kind.text, fields)
          [] item.type # "object" -> {<<>>}
          [] OTHER -> {<<"kind">>}

CheckOrder(order) ==
    LET fields == Fields(order)
    IN  CheckObject(order, {"indicator", "direction"}, {"keep_first"})
        \cup CheckIndicator(fields) \cup CheckChoice(fields, "direction", {"ascending", "descending"})
        \cup CheckIntegerIn(fields, "keep_first", 1 .. MaxKeepFirst)

CheckList(key, items) ==
    IF items.type # "list" THEN {<<>>}
    ELSE LET CheckItem(item) == IF key = "filters" THEN CheckFilter(item) ELSE CheckCondition(item)
         IN  UNION {Under(Index(k), CheckItem(items.items[k])) : k \in DOMAIN items.items}

CheckFields(market, definition) ==
    LET fields == Fields(definition)
        Checked(key, problems) == IF key \in DOMAIN fields THEN Under(key, problems) ELSE {}
    IN  CheckObject(definition, {"start", "filters", "indicator_conditions", "order"}, {})
        \cup (IF market \in Markets THEN CheckChoice(fields, "start", StartInstruments[market]) ELSE {})
        \cup Checked("filters", CheckList("filters", fields["filters"]))
        \cup Checked("indicator_conditions", CheckList("indicator_conditions", fields["indicator_conditions"]))
        \cup Checked("order", CheckOrder(fields["order"]))

-----------------------------------------------------------------------------
(* The columns of a screen result: one for each name of an indicator. The  *)
(* output of a reference is a text or not given: a null passes the check,  *)
(* but names no output of a class, so that the run fails.                  *)

NameIndicator(reference) ==
    [name |-> DisplayName(FindIndicatorDefinition(reference), Parameters(reference)),
     output |-> IF "output" \in DOMAIN reference.fields THEN reference.fields["output"].text ELSE "value"]

\* read_reference_identity: equal for two references that give the same values.
Identity(reference) ==
    IF IsCustomKey(ReadKey(reference, "indicator"))
    THEN [tree |-> ReadKey(ReadKey(reference, "formula"), "expression").tree]
    ELSE LET definition == FindIndicatorDefinition(reference)
         IN  [key |-> definition.key, values |-> WithDefaults(definition, Parameters(reference))]

References(definition) ==
    LET conditions == definition.fields["indicator_conditions"].items
    IN  Append([k \in DOMAIN conditions |-> ReadKey(conditions[k], "indicator")],
               ReadKey(definition.fields["order"], "indicator"))
\* list_columns: the first reference of a name.
Column(definition, name) ==
    LET references == References(definition)
    IN  references[Min({k \in DOMAIN references : NameIndicator(references[k]) = name})]
CheckColumnNames(definition) ==
    LET references == References(definition)
        place(k) == IF k = Len(references) THEN <<"order", "indicator">>
                    ELSE <<"indicator_conditions", Index(k), "indicator">>
    IN  {place(k) : k \in {i \in DOMAIN references :
            Identity(Column(definition, NameIndicator(references[i]))) # Identity(references[i])}}

OrElse(problems, more) == IF problems # {} THEN problems ELSE more
CheckDefinition(market, definition) == OrElse(CheckFields(market, definition), CheckColumnNames(definition))

-----------------------------------------------------------------------------
(* The chart: a sequence of panes with the price pane first. An indicator  *)
(* is its reference without an output, and one line for each output.       *)

CheckLines(lines, outputs) ==
    Under("lines",
        {<<Index(k), "output">> : k \in {i \in DOMAIN lines :
            lines[i].output \notin outputs \/ \E j \in 1 .. i - 1 : lines[j].output = lines[i].output}}
        \cup {<<Index(k), "style">> : k \in {i \in DOMAIN lines : lines[i].style \notin {"solid", "dashed"}}}
        \cup (IF outputs \subseteq {lines[k].output : k \in DOMAIN lines} THEN {} ELSE {<<>>}))

CheckOnChart(indicator, definition, is_price_pane) ==
    LET placement == IF is_price_pane THEN "price" ELSE "own"
    IN  (IF definition.chart_placement = placement THEN {} ELSE {<<"indicator">>})
        \cup CheckLines(indicator.lines, definition.outputs)
AlsoOnChart(problems, indicator, is_price_pane) ==
    LET key == ReadKey(indicator.reference, "indicator")
        has_definition == IF IsCustomKey(key) THEN problems = {} ELSE IsText(key, DOMAIN Catalog)
    IN  IF ~has_definition THEN problems
        ELSE problems \cup CheckOnChart(indicator, FindIndicatorDefinition(indicator.reference), is_price_pane)
CheckChartIndicator(indicator, is_price_pane) ==
    AlsoOnChart(CheckIndicatorReference(indicator.reference, FALSE), indicator, is_price_pane)

CheckFavorites(favorites) ==
    {<<"favorites", Index(k)>> : k \in {i \in DOMAIN favorites :
        \/ favorites[i] \notin DOMAIN Catalog \cup CustomKeys
        \/ \E j \in 1 .. i - 1 : favorites[j] = favorites[i]}}

CheckChartIndicatorSet(set) ==
    (IF Len(set.panes) \in 1 .. MaxPanes THEN {} ELSE {<<"panes">>})
    \cup {<<"panes", Index(p), "indicators">> : p \in {q \in DOMAIN set.panes : q > 1 /\ set.panes[q] = <<>>}}
    \cup UNION {{<<"panes", Index(p), "indicators", Index(k)>> \o location :
                    location \in CheckChartIndicator(set.panes[p][k], p = 1)} :
                <<p, k>> \in {pk \in (1 .. 3) \X (1 .. 3) :
                                pk[1] \in DOMAIN set.panes /\ pk[2] \in DOMAIN set.panes[pk[1]]}}
    \cup CheckFavorites(set.favorites)

-----------------------------------------------------------------------------
(* The values of a checked reference with one output.                      *)

ReferenceLookBack(reference) ==
    ScreenLookBackBars(FindIndicatorDefinition(reference), Parameters(reference))
Node(reference) ==
    IF IsCustomKey(ReadKey(reference, "indicator"))
    THEN ParseExpression(ReadKey(ReadKey(reference, "formula"), "expression").tree)
    ELSE [kind |-> "catalog", look_back |-> ReferenceLookBack(reference)]
LastOf(bars, count) == SubSeq(bars, IF Len(bars) > count THEN Len(bars) - count + 1 ELSE 1, Len(bars))

\* calculate_series: the warm-up bars of the reference, then the bars of the range. One read for all references gives
\* the bars before the range.
CalculateSeries(reference, warm_up_bars, bars) ==
    LET warm_up == LastOf(warm_up_bars, ReferenceLookBack(reference))
        values == Values(Node(reference), warm_up \o bars)
    IN  SubSeq(values, Len(warm_up) + 1, Len(values))
ReadIndicatorSeries(references, saved, first) ==
    LET count == Max({ReferenceLookBack(references[k]) : k \in DOMAIN references})
        warm_up == LastOf(SubSeq(saved, 1, first - 1), count)
    IN  [k \in DOMAIN references |-> CalculateSeries(references[k], warm_up, SubSeq(saved, first, Len(saved)))]

\* The value of a screen: the look-back bars only.
ScreenValue(reference, bars) == Last(Values(Node(reference), LastOf(bars, ReferenceLookBack(reference))))
-----------------------------------------------------------------------------
\* Replaces the value at a path, removes its key, or adds a key to it.
RECURSIVE Changed(_, _, _)
Changed(value, path, change) ==
    LET key == Head(path)
        is_last == Len(path) = 1
    IN  CASE path = <<>> -> IF change = "extra" THEN [value EXCEPT !.fields = @ @@ ("extra" :> JsonBool)] ELSE JsonBool
          [] value.type = "list" ->
                [value EXCEPT !.items = [k \in DOMAIN @ |->
                    IF Index(k) = key THEN Changed(@[k], Tail(path), change) ELSE @[k]]]
          [] is_last /\ change = "missing" ->
                [value EXCEPT !.fields = [k \in DOMAIN @ \ {key} |-> @[k]]]
          [] OTHER -> [value EXCEPT !.fields = [@ EXCEPT ![key] = Changed(@, Tail(path), change)]]

\* A definition with one wrong value, one missing key or one unknown key has a problem, at that place or at an object
\* that needs it, and nowhere else. A key with a default may be missing.
Optional == {"parameters", "period", "bars_per_year", "k", "keep_first", "output"}
IsDefectOf(problems, path, change) ==
    LET place == IF change = "extra" THEN Append(path, "extra") ELSE path
    IN  /\ \A location \in problems : IsPrefix(location, place)
        /\ (change = "missing" /\ Last(path) \in Optional) \/ problems # {}
DefectIsFound(market, definition, path, change) ==
    IsDefectOf(CheckFields(market, Changed(definition, path, change)), path, change)

\* An accepted definition gives each condition and the order the values of their own reference: the column of its name
\* has the same class, output, parameters and expression.
MeansTheSame(column, reference, own) ==
    /\ FindIndicatorDefinition(column) = own
    /\ \A name \in ParameterNames(own) :
        WithDefaults(own, Parameters(column))[name] = WithDefaults(own, Parameters(reference))[name]
    /\ NameIndicator(column).output = NameIndicator(reference).output
    /\ IsCustomKey(ReadKey(reference, "indicator")) => Node(column) = Node(reference)
ColumnsAreApart(market, definition) ==
    CheckDefinition(market, definition) = {} =>
        \A reference \in Range(References(definition)) :
            MeansTheSame(Column(definition, NameIndicator(reference)), reference, FindIndicatorDefinition(reference))
=============================================================================
