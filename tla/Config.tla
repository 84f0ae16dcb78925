-------------------------------- MODULE Config --------------------------------
(* Descriptions of configuration (src/src/internal/config.ts), the errors   *)
(* of loading one (configError.ts) and the providers that load it           *)
(* (configProvider.ts).  A text is the sequence of the parts that the       *)
(* sequence delimiter separates; a key is the sequence of the names that    *)
(* the path delimiter separates, no name holding the delimiter; messages    *)
(* are left out, but for the index of a missing element.                    *)
EXTENDS Naturals, Sequences, FiniteSets, SequencesExt, FiniteSetsExt, TLC

CONSTANTS Values, Undefined,
          Spread(_)         \* <<list>> of what a value spreads to, <<>> where it throws

Left(error) == [tag |-> "Left", value |-> error]
Right(value) == [tag |-> "Right", value |-> value]
IsLeft(either) == either.tag = "Left"
(* A function that throws: no failure that can be caught. *)
Dies == [tag |-> "Die"]
IsRight(either) == either.tag = "Right"

(* forEach over a chunk: the first failure, or all values. *)
ForEachRight(list, F(_)) ==
    FoldLeft(LAMBDA done, a :
                 IF ~IsRight(done) THEN done
                 ELSE LET next == F(a) IN
                      IF ~IsRight(next) THEN next ELSE Right(Append(done.value, next.value)),
             Right(<<>>), list)

-----------------------------------------------------------------------------
(* Errors. *)

And(left, right) == [tag |-> "And", left |-> left, right |-> right]
Or(left, right) == [tag |-> "Or", left |-> left, right |-> right]
InvalidData(path) == [tag |-> "InvalidData", path |-> path]
MissingData(path) == [tag |-> "MissingData", path |-> path]
MissingElement(path, index) == [tag |-> "MissingData", path |-> path, index |-> index]
SourceUnavailable(path, cause) == [tag |-> "SourceUnavailable", path |-> path, cause |-> cause]
Unsupported(path) == [tag |-> "Unsupported", path |-> path]

RECURSIVE Prefixed(_, _)
Prefixed(prefix, self) ==
    IF self.tag \in {"And", "Or"}
    THEN [self EXCEPT !.left = Prefixed(prefix, @), !.right = Prefixed(prefix, @)]
    ELSE [self EXCEPT !.path = prefix \o @]

(* The reducer of isMissingDataOnly, by recursion for the two stacks. *)
RECURSIVE IsMissingDataOnly(_)
IsMissingDataOnly(self) ==
    CASE self.tag = "And" -> IsMissingDataOnly(self.left) /\ IsMissingDataOnly(self.right)
      [] self.tag = "Or" -> IsMissingDataOnly(self.left) \/ IsMissingDataOnly(self.right)
      [] OTHER -> self.tag = "MissingData"

(* The two stacks of reduceWithContext: what is still to read and what was *)
(* read, then the results, taken from the end.                             *)
RECURSIVE Unfolded(_, _)
Unfolded(input, output) ==
    IF input = <<>> THEN output
    ELSE LET error == Last(input)
             rest == Front(input)
         IN  IF error.tag \in {"And", "Or"}
             THEN Unfolded(rest \o <<error.right, error.left>>, Append(output, [tag |-> error.tag]))
             ELSE Unfolded(rest, Append(output, error))
RECURSIVE Folded(_, _)
Folded(output, results) ==
    IF output = <<>> THEN Last(results)
    ELSE LET either == Last(output)
             n == Len(results)
         IN  Folded(Front(output),
                 CASE either.tag = "And" ->
                        SubSeq(results, 1, n - 2) \o <<results[n] /\ results[n - 1]>>
                   [] either.tag = "Or" ->
                        SubSeq(results, 1, n - 2) \o <<results[n] \/ results[n - 1]>>
                   [] OTHER -> Append(results, either.tag = "MissingData"))
ReduceMissing(self) == Folded(Unfolded(<<self>>, <<>>), <<>>)

-----------------------------------------------------------------------------
(* Descriptions.  A primitive reads the texts in the domain of reads; a    *)
(* name is a sequence of at most one name.                                 *)

Succeed(value) == [tag |-> "Constant", value |-> value]
Fail == [tag |-> "Fail"]
Defer(config) == [tag |-> "Lazy", config |-> config]
Sync(value) == Defer(Succeed(value))
WithDescription(config) == [tag |-> "Described", config |-> config]
Nested(name, config) == [tag |-> "Nested", name |-> name, config |-> config]
Primitive(reads) == [tag |-> "Primitive", reads |-> reads]
Repeat(config) == [tag |-> "Sequence", config |-> config]
MapOrFail(config, f) == [tag |-> "MapOrFail", original |-> config, f |-> f]
ZipWith(left, right, zip) == [tag |-> "ZipWith", left |-> left, right |-> right, zip |-> zip]
OrElseIf(config, that, condition) ==
    [tag |-> "Fallback", first |-> config, second |-> Defer(that), condition |-> condition]

Named(name, config) == IF name = <<>> THEN config ELSE Nested(name[1], config)
Bool(name) ==
    Named(name, Primitive([text \in {"true", "yes", "on", "1"} |-> TRUE]
                              @@ [text \in {"false", "no", "off", "0"} |-> FALSE]))
(* integer, float and date: reads holds what the parser makes a value of.  *)
Parsed(name, reads) == Named(name, Primitive(reads))
(* string and secret take every text. *)
Text(name, texts) == Named(name, Primitive([text \in texts |-> text]))

ChunkOf(config, name) == Named(name, Repeat(config))
Map(config, f) == MapOrFail(config, [a \in Values |-> Right(f[a])])
SetOf(config, name) == Named(name, Map(ChunkOf(config, <<>>), [s \in Values |-> ToSet(s)]))
(* mapAttempt: f gives a Left where it throws. *)
MapAttempt(config, f) ==
    MapOrFail(config, [a \in Values |-> IF IsLeft(f[a]) THEN Left(InvalidData(<<>>)) ELSE f[a]])
Validate(config, p) ==
    MapOrFail(config, [a \in Values |-> IF p[a] THEN Right(a) ELSE Left(InvalidData(<<>>))])
OrElse(config, that) == OrElseIf(config, that, "always")
WithDefault(config, default) == OrElseIf(config, Succeed(default), "missing")
Optional(config) ==
    OrElseIf(Map(config, [a \in Values |-> <<a>>]), Succeed(<<>>), "missing")
Table(config, name) == Named(name, [tag |-> "Table", config |-> config])

ZipPair(left, right) == ZipWith(left, right, [a \in Values, b \in Values |-> Right(<<a, b>>)])
(* struct: the entries in order, at least one. *)
Struct(entries) ==
    FoldLeft(LAMBDA config, entry :
                 ZipWith(config, entry[2],
                         [record \in Values, a \in Values |-> Right((entry[1] :> a) @@ record)]),
             Map(entries[1][2], [a \in Values |-> entries[1][1] :> a]), Tail(entries))
(* tuple starts from the first value as it is: what is spread in front of  *)
(* the second is its elements, or the characters of a text.                *)
Tuple(configs) ==
    LET Zip2(config, next) ==
            ZipWith(config, next, [all \in Values, a \in Values |->
                IF Spread(all) = <<>> THEN Dies ELSE Right(Append(Spread(all)[1], a))])
    IN  FoldLeft(Zip2, configs[1], Tail(configs))

-----------------------------------------------------------------------------
(* Flat providers: what a path holds, and which names follow it.  fromEnv  *)
(* is fromMap of the variables of the process.                             *)

FromMap(entries) == [tag |-> "Map", entries |-> entries]
NestedFlat(name, flat) == [tag |-> "Nested", name |-> name, flat |-> flat]
OrElseFlat(self, that) == [tag |-> "OrElse", self |-> self, that |-> that]

(* parsePrimitive asks whether the primitive is a secret, which is a value *)
(* and never a description: every text is split.                           *)
ParsePrimitive(text, path, primitive) ==
    LET Parse(part) ==
            IF part \in DOMAIN primitive.reads THEN Right(primitive.reads[part])
            ELSE Left(InvalidData(path))
    IN  ForEachRight(text, Parse)

RECURSIVE FlatLoad(_, _, _)
FlatLoad(flat, path, primitive) ==
    CASE flat.tag = "Map" ->
            IF path \in DOMAIN flat.entries
            THEN ParsePrimitive(flat.entries[path], path, primitive)
            ELSE Left(MissingData(path))
      [] flat.tag = "Nested" -> FlatLoad(flat.flat, <<flat.name>> \o path, primitive)
      [] flat.tag = "OrElse" ->
            LET one == FlatLoad(flat.self, path, primitive)
                two == FlatLoad(flat.that, path, primitive)
            IN  IF ~IsLeft(one) THEN one
                ELSE IF ~IsLeft(two) THEN two ELSE Left(Or(one.value, two.value))

RECURSIVE EnumerateChildren(_, _)
EnumerateChildren(flat, path) ==
    CASE flat.tag = "Map" ->
            {key[Len(path) + 1] : key \in {k \in DOMAIN flat.entries :
                                              Len(k) > Len(path) /\ IsPrefix(path, k)}}
      [] flat.tag = "Nested" -> EnumerateChildren(flat.flat, <<flat.name>> \o path)
      [] flat.tag = "OrElse" ->
            EnumerateChildren(flat.self, path) \cup EnumerateChildren(flat.that, path)

-----------------------------------------------------------------------------
(* Loading: fromFlatLoop gives the list of the values that are at a path.  *)

Holds(condition, error) == condition = "always" \/ IsMissingDataOnly(error)

(* zipWith: where a list is shorter, its elements are missing. *)
Extended(list, other, prefix) ==
    [i \in 1 .. Max({Len(list), Len(other)}) |->
        IF i <= Len(list) THEN Right(list[i]) ELSE Left(MissingElement(prefix, i - 1))]
Zipped(lefts, rights, prefix, zip) ==
    LET one == Extended(lefts, rights, prefix)
        two == Extended(rights, lefts, prefix)
        Pair(i) ==
            IF IsLeft(one[i]) THEN one[i]
            ELSE IF IsLeft(two[i]) THEN two[i]
            ELSE zip[one[i].value, two[i].value]
    IN  ForEachRight([i \in DOMAIN one |-> i], Pair)

(* A row for each key; the columns are those of the first row. *)
Transposed(rows) ==
    [column \in DOMAIN rows[1] |->
        [i \in DOMAIN rows |-> IF column \in DOMAIN rows[i] THEN rows[i][column] ELSE Undefined]]
KeyedBy(keys, column) == [key \in ToSet(keys) |-> column[CHOOSE i \in DOMAIN keys : keys[i] = key]]

RECURSIVE FromFlatLoop(_, _, _)
FromFlatLoop(flat, prefix, config) ==
    LET Loop(c) == FromFlatLoop(flat, prefix, c) IN
    CASE config.tag = "Constant" -> Right(<<config.value>>)
      [] config.tag \in {"Described", "Lazy"} -> Loop(config.config)
      [] config.tag = "Fail" -> Left(MissingData(prefix))
      [] config.tag = "Fallback" ->
            LET one == Loop(config.first)
                two == Loop(config.second)
            IN  IF ~IsLeft(one) \/ ~Holds(config.condition, one.value) THEN one
                ELSE IF ~IsLeft(two) THEN two ELSE Left(Or(one.value, two.value))
      [] config.tag = "MapOrFail" ->
            LET list == Loop(config.original)
                Mapped(a) ==
                    LET b == config.f[a] IN
                    IF IsLeft(b) THEN Left(Prefixed(prefix, b.value)) ELSE b
            IN  IF ~IsRight(list) THEN list ELSE ForEachRight(list.value, Mapped)
      [] config.tag = "Nested" -> FromFlatLoop(flat, Append(prefix, config.name), config.config)
      [] config.tag = "Primitive" -> FlatLoad(flat, prefix, config)
      [] config.tag = "Sequence" ->
            LET list == Loop(config.config) IN IF IsRight(list) THEN Right(<<list.value>>) ELSE list
      [] config.tag = "Table" ->
            LET keys == SetToSeq(EnumerateChildren(flat, prefix))
                rows == ForEachRight(keys, LAMBDA key :
                            FromFlatLoop(flat, Append(prefix, key), config.config))
            IN  IF ~IsRight(rows) THEN rows
                ELSE IF keys = <<>> THEN Right(<< <<>> >>)
                ELSE LET columns == Transposed(rows.value) IN
                     Right([c \in DOMAIN columns |-> KeyedBy(keys, columns[c])])
      [] config.tag = "ZipWith" ->
            LET left == Loop(config.left)
                right == Loop(config.right)
            IN  IF IsLeft(left) /\ IsLeft(right) THEN Left(And(left.value, right.value))
                ELSE IF left = Dies \/ right = Dies THEN Dies
                ELSE IF IsLeft(left) THEN left
                ELSE IF IsLeft(right) THEN right
                ELSE Zipped(left.value, right.value, prefix, config.zip)

(* A provider's load gives the first of the values. *)
Load(flat, config) ==
    LET list == FromFlatLoop(flat, <<>>, config) IN
    IF ~IsRight(list) THEN list
    ELSE IF list.value = <<>> THEN Left(MissingData(<<>>)) ELSE Right(list.value[1])
=============================================================================
