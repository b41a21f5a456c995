----------------------------- MODULE RulesCode ------------------------------
(***************************************************************************)
(* The code from the rules of the rule builder: the indicator objects, the *)
(* configuration fields, the values that a bar has, and the expressions of *)
(* the entry group and the exit items. Written code is a tree; a name is a *)
(* tuple of its parts. The imports, the layout and the custom indicators   *)
(* are left out.                                                           *)
(*                                                                         *)
(* A market gives a bar: [price |-> name -> value, indicator |-> the value *)
(* of <<key, parameters, output>>].                                        *)
(***************************************************************************)
EXTENDS IndicatorCatalog, Functions, Folds

(* Rules, as the format check accepts them.                                *)
Price(name) == [type |-> "price", price |-> name]
NumberOperand(value) == [type |-> "number", value |-> value]
IndicatorOperand(key, parameters, output) ==
    [type |-> "indicator", key |-> key, parameters |-> parameters, output |-> output]
Condition(left, comparison, right) == [type |-> "condition", left |-> left, comparison |-> comparison, right |-> right]
Group(match, items) == [type |-> "group", match |-> match, items |-> items]

\* check_reference; an operand without an output has the output "".
IsReference(operand) ==
    operand.type = "indicator" =>
        LET definition == Catalog[operand.key]
        IN  /\ CheckParameters(definition, JsonObject(operand.parameters)) = {}
            /\ CheckOutput(definition, IF operand.output = "" THEN JsonNull ELSE JsonText(operand.output)) = {}
IsCondition(condition) == IsReference(condition.left) /\ condition.left.type # "number" /\ IsReference(condition.right)
IsInnerGroup(group) == \A k \in DOMAIN group.items : group.items[k].type = "condition" /\ IsCondition(group.items[k])
IsGroup(group) ==
    \A k \in DOMAIN group.items :
        IF group.items[k].type = "group" THEN IsInnerGroup(group.items[k]) ELSE IsCondition(group.items[k])
\* Of an exit item, 0 is an item that is not selected.
AreExits(exits) ==
    /\ exits.stop_loss_percent \in 0 .. 99 /\ exits.take_profit_percent >= 0 /\ exits.exit_after_bars >= 0
    /\ \A k \in DOMAIN exits.exit_group : IsGroup(exits.exit_group[k])
AreRules(rules) ==
    /\ IsGroup(rules.entry) /\ AreExits(rules.exits) /\ rules.position_shares >= 1
    /\ \A k \in DOMAIN rules.universe :
        LET universe == rules.universe[k]
            rank == universe.rank_indicator
        IN  rank.type = "indicator" /\ IsReference(rank) /\ universe.hold_count >= 1

-----------------------------------------------------------------------------
(* CodeParts: the indicators, fields and values, in the order of use.      *)

NoParts == [indicators |-> <<>>, fields |-> <<>>, values |-> (<<"close">> :> [price |-> "close"])]

\* add_field
WithField(parts, name, default) == [parts EXCEPT !.fields = Append(@, [name |-> name, default |-> default])]

\* find_indicator: operands with the same indicator and parameters share one object.
SameUse(use, key, parameters) == use.key = key /\ use.parameters = parameters
SameIndicator(use, key, parameters) == use.key = key    \* mutation: one object for each indicator
IndexOfUse(parts, key, parameters) ==
    SelectInSeq(parts.indicators, LAMBDA use : SameUse(use, key, parameters))
WithIndicator(parts, key, parameters) ==
    LET use == [name |-> <<key, Len(parts.indicators) + 1>>, key |-> key, parameters |-> parameters]
        order == Catalog[key].parameters
        added == [parts EXCEPT !.indicators = Append(@, use)]
    IN  IF IndexOfUse(parts, key, parameters) # 0 THEN parts
        ELSE FoldLeft(LAMBDA p, parameter : WithField(p, use.name \o <<parameter.name>>, parameters[parameter.name]),
                      added, order)

CountThresholds(parts) == Len(SelectSeq(parts.fields, LAMBDA f : Head(f.name) = "threshold"))

\* The value of an output of the object of a use, and of an operand of an indicator.
OutputValue(parts, use, output) ==
    LET key == IF output = "value" THEN use.name ELSE use.name \o <<output>>
    IN  [parts |-> [parts EXCEPT !.values = (key :> [object |-> use.name, output |-> output]) @@ @],
         expression |-> [value |-> key]]
IndicatorValue(parts, operand, parameters) ==
    OutputValue(parts, parts.indicators[IndexOfUse(parts, operand.key, parameters)],
                IF operand.output = "" THEN "value" ELSE operand.output)

\* value_names: the parts after an operand, and the expression that it has.
ValueName(parts, operand) ==
    CASE operand.type = "number" ->
            LET name == <<"threshold", CountThresholds(parts) + 1>>
            IN  [parts |-> WithField(parts, name, operand.value), expression |-> [setting |-> name]]
      [] operand.type = "price" ->
            [parts |-> [parts EXCEPT !.values = (<<operand.price>> :> [price |-> operand.price]) @@ @],
             expression |-> [value |-> <<operand.price>>]]
      [] operand.type = "indicator" ->
            LET parameters == WithDefaults(Catalog[operand.key], operand.parameters)
            IN  IndicatorValue(WithIndicator(parts, operand.key, parameters), operand, parameters)

-----------------------------------------------------------------------------
(* The writers give the parts after them, and the written expression.      *)

WrittenCondition(comparison, left, right) ==
    [parts |-> right.parts, written |-> [form |-> comparison, left |-> left.expression, right |-> right.expression]]
WriteRight(condition, left) == WrittenCondition(condition.comparison, left, ValueName(left.parts, condition.right))
WriteCondition(parts, condition) == WriteRight(condition, ValueName(parts, condition.left))

\* write_group: of the conditions of a group in a group, and of the entry group; an empty group is False.
NothingWritten(parts) == [parts |-> parts, written |-> <<>>]
AddWritten(done, next) == [parts |-> next.parts, written |-> Append(done.written, next.written)]
Joined(match, result) ==
    [parts |-> result.parts,
     written |-> IF result.written = <<>> THEN [form |-> "False"] ELSE [form |-> match, items |-> result.written]]
WriteInnerGroup(parts, group) ==
    Joined(group.match,
           FoldLeft(LAMBDA done, item : AddWritten(done, WriteCondition(done.parts, item)),
                    NothingWritten(parts), group.items))
WriteItem(parts, item) == IF item.type = "condition" THEN WriteCondition(parts, item) ELSE WriteInnerGroup(parts, item)
WriteGroup(parts, group) ==
    Joined(group.match,
           FoldLeft(LAMBDA done, item : AddWritten(done, WriteItem(done.parts, item)),
                    NothingWritten(parts), group.items))

\* write_exit_checks
WriteSelected(done, value, name) ==
    IF value = 0 THEN done
    ELSE [parts |-> WithField(done.parts, <<name>>, value),
          written |-> Append(done.written, [form |-> name, setting |-> <<name>>])]
WriteNotEntry(done, exits) ==
    IF exits.exit_when_entry_is_false THEN [done EXCEPT !.written = Append(@, [form |-> "not entry"])] ELSE done
WriteExitGroup(done, exits) ==
    IF exits.exit_group = <<>> THEN done ELSE AddWritten(done, WriteGroup(done.parts, exits.exit_group[1]))
WriteTimes(done, exits) ==
    WriteSelected(WriteSelected(done, exits.take_profit_percent, "take_profit_percent"),
                  exits.exit_after_bars, "exit_after_bars")
WriteExitChecks(parts, exits) ==
    LET loss == WriteSelected(NothingWritten(parts), exits.stop_loss_percent, "stop_loss_percent")
    IN  WriteExitGroup(WriteNotEntry(WriteTimes(loss, exits), exits), exits)

\* make_rules_code and make_universe_code; an empty filter of a universe passes all members.
MakeRulesCode(rules, entry, exits) ==
    [parts |-> WithField(exits.parts, <<"position_shares">>, rules.position_shares),
     entry |-> entry.written, exits |-> exits.written, rank |-> [none |-> TRUE]]
MakeUniverseCode(rules, entry, exits, rank) ==
    [parts |-> WithField(rank.parts, <<"hold_count">>, rules.universe[1].hold_count),
     entry |-> IF rules.entry.items = <<>> THEN [form |-> "True"] ELSE entry.written,
     exits |-> exits.written, rank |-> rank.expression]
CodeAfterExits(rules, entry, exits) ==
    IF rules.universe = <<>> THEN MakeRulesCode(rules, entry, exits)
    ELSE MakeUniverseCode(rules, entry, exits, ValueName(exits.parts, rules.universe[1].rank_indicator))
CodeAfterEntry(rules, entry) == CodeAfterExits(rules, entry, WriteExitChecks(entry.parts, rules.exits))
MakeCode(rules) == CodeAfterEntry(rules, WriteGroup(NoParts, rules.entry))

-----------------------------------------------------------------------------
(* The warm-up: the bars that the longest indicator needs, 0 for none.     *)

\* apply_run_parameters: a parameter is a configuration field, and a sweep run sets it.
NoRun == [name \in {} |-> 0]
RunValues(use, run_parameters) ==
    [name \in DOMAIN use.parameters |->
        JsonInt(Get(run_parameters, use.name \o <<name>>, use.parameters[name]))]
CountWarmUpBars(parts, run_parameters) ==
    LET uses == Range(parts.indicators)
        needs == {ScreenLookBackBars(Catalog[use.key], RunValues(use, run_parameters)) : use \in uses}
    IN  IF needs = {} THEN 0 ELSE CHOOSE n \in needs : \A other \in needs : other <= n

\* find_warm_up_bar_count
RankParts(rules, parts) ==
    IF rules.universe = <<>> THEN parts ELSE ValueName(parts, rules.universe[1].rank_indicator).parts
FindWarmUpBarCount(rules, run_parameters) ==
    CountWarmUpBars(RankParts(rules, WriteExitChecks(WriteGroup(NoParts, rules.entry).parts, rules.exits).parts),
                    run_parameters)

-----------------------------------------------------------------------------
(* What the written code does. `settings` is the configuration of the run. *)

FieldNames(parts) == {parts.fields[k].name : k \in DOMAIN parts.fields}
IndicatorFields(parts) == {name \in FieldNames(parts) : Len(name) = 3}
Settings(parts, run_parameters) ==
    [name \in FieldNames(parts) |->
        Get(run_parameters, name, (CHOOSE f \in Range(parts.fields) : f.name = name).default)]

\* read_values: an indicator object has the parameters of its fields.
ReadValues(parts, settings, market) ==
    [key \in DOMAIN parts.values |->
        LET source == parts.values[key]
            use == CHOOSE u \in Range(parts.indicators) : u.name = source.object
            parameters == [name \in DOMAIN use.parameters |-> settings[use.name \o <<name>>]]
        IN  IF "price" \in DOMAIN source THEN market.price[source.price]
            ELSE market.indicator[<<use.key, parameters, source.output>>]]

Compare(comparison, left, right, previous_left, previous_right, has_previous) ==
    CASE comparison = "above" -> left > right
      [] comparison = "below" -> left < right
      [] comparison = "at_or_above" -> left >= right
      [] comparison = "at_or_below" -> left <= right
      [] comparison = "crosses_above" -> has_previous /\ previous_left <= previous_right /\ left > right
      [] comparison = "crosses_below" -> has_previous /\ previous_left >= previous_right /\ left < right

\* `previous` is a sequence of at most one: the values of the bar before.
ExpressionValue(expression, values, settings) ==
    IF "setting" \in DOMAIN expression THEN settings[expression.setting] ELSE values[expression.value]
IsTrueCondition(written, now, previous, settings) ==
    LET before == IF previous = <<>> THEN now ELSE previous[1]
        Left(values) == ExpressionValue(written.left, values, settings)
        Right(values) == ExpressionValue(written.right, values, settings)
    IN  Compare(written.form, Left(now), Right(now), Left(before), Right(before), previous # <<>>)
IsTrueJoin(written, IsTrue(_)) ==
    CASE written.form = "False" -> FALSE
      [] written.form = "True" -> TRUE
      [] written.form = "all_of" -> \A k \in DOMAIN written.items : IsTrue(written.items[k])
      [] written.form = "any_of" -> \E k \in DOMAIN written.items : IsTrue(written.items[k])
Joins == {"False", "True", "all_of", "any_of"}
IsTrueCode(written, now, previous, settings) ==
    LET Leaf(item) == IsTrueCondition(item, now, previous, settings)
        Item(item) == IF item.form \in Joins THEN IsTrueJoin(item, Leaf) ELSE Leaf(item)
    IN  IsTrueJoin(written, Item)
IsTrueExit(check, entry, now, previous, settings, position) ==
    CASE check.form = "stop_loss_percent" ->
            100 * now[<<"close">>] <= position.avg_px_open * (100 - settings[check.setting])
      [] check.form = "take_profit_percent" ->
            100 * now[<<"close">>] >= position.avg_px_open * (100 + settings[check.setting])
      [] check.form = "exit_after_bars" -> position.bars >= settings[check.setting]
      [] check.form = "not entry" -> ~IsTrueCode(entry, now, previous, settings)
      [] OTHER -> IsTrueCode(check, now, previous, settings)

-----------------------------------------------------------------------------
(* What the rules say, read from the rules and the market.                 *)

OperandValue(operand, market) ==
    CASE operand.type = "number" -> operand.value
      [] operand.type = "price" -> market.price[operand.price]
      [] OTHER -> market.indicator[<<operand.key, WithDefaults(Catalog[operand.key], operand.parameters),
                                     IF operand.output = "" THEN "value" ELSE operand.output>>]
ConditionHolds(condition, market, before) ==
    LET was == IF before = <<>> THEN market ELSE before[1]
    IN  Compare(condition.comparison, OperandValue(condition.left, market), OperandValue(condition.right, market),
                OperandValue(condition.left, was), OperandValue(condition.right, was), before # <<>>)
GroupHolds(group, Holds(_)) ==
    /\ group.items # <<>>
    /\ IF group.match = "all_of" THEN \A k \in DOMAIN group.items : Holds(group.items[k])
       ELSE \E k \in DOMAIN group.items : Holds(group.items[k])
RuleHolds(group, market, before) ==
    LET Leaf(item) == ConditionHolds(item, market, before)
        Item(item) == IF item.type = "group" THEN GroupHolds(item, Leaf) ELSE Leaf(item)
    IN  GroupHolds(group, Item)
EntryHolds(rules, market, before) ==
    (rules.universe # <<>> /\ rules.entry.items = <<>>) \/ RuleHolds(rules.entry, market, before)
ExitHolds(rules, market, before, position) ==
    LET exits == rules.exits
        close == market.price["close"]
    IN  \/ exits.stop_loss_percent # 0 /\ 100 * close <= position.avg_px_open * (100 - exits.stop_loss_percent)
        \/ exits.take_profit_percent # 0 /\ 100 * close >= position.avg_px_open * (100 + exits.take_profit_percent)
        \/ exits.exit_after_bars # 0 /\ position.bars >= exits.exit_after_bars
        \/ exits.exit_when_entry_is_false /\ ~EntryHolds(rules, market, before)
        \/ \E k \in DOMAIN exits.exit_group : RuleHolds(exits.exit_group[k], market, before)

\* The code buys and sells at the bars at which the rules say so, although its operands share objects and names.
MeansTheRules(code, rules, market, before, position) ==
    LET settings == Settings(code.parts, NoRun)
        now == ReadValues(code.parts, settings, market)
        previous == [k \in DOMAIN before |-> ReadValues(code.parts, settings, before[k])]
    IN  /\ IsTrueCode(code.entry, now, previous, settings) = EntryHolds(rules, market, before)
        /\ (\E k \in DOMAIN code.exits : IsTrueExit(code.exits[k], code.entry, now, previous, settings, position))
            = ExitHolds(rules, market, before, position)
        /\ rules.universe # <<>> =>
                ExpressionValue(code.rank, now, settings) = OperandValue(rules.universe[1].rank_indicator, market)
CodeMeansTheRules(rules, market, before, position) == MeansTheRules(MakeCode(rules), rules, market, before, position)

\* The warm-up of a sweep run gives each indicator of the code the bars that it needs with its own parameters.
GivesTheBars(warm_up, parts, run_parameters) ==
    LET settings == Settings(parts, run_parameters)
    IN  /\ Cardinality(FieldNames(parts)) = Len(parts.fields)
        /\ \A use \in Range(parts.indicators) :
            LET parameters == [name \in DOMAIN use.parameters |-> JsonInt(settings[use.name \o <<name>>])]
            IN  warm_up >= ScreenLookBackBars(Catalog[use.key], parameters)
WarmUpIsEnough(rules, run_parameters) ==
    GivesTheBars(FindWarmUpBarCount(rules, run_parameters), MakeCode(rules).parts, run_parameters)
=============================================================================
