---------------------------- MODULE MonitorProofs ----------------------------
(***************************************************************************)
(* The monitor keeps its parts in step, and its answers follow each other  *)
(* as MonitorContract promises: for every grammar, program, set of tokens  *)
(* and bound that the assumptions of Monitor allow.                        *)
(*                                                                         *)
(* Most of the invariant says that what a call passes on is well formed:   *)
(* the changes it reports, the rules it fires, the expressions and contexts*)
(* it still has to visit.  With that, every growth of the e-graph is one   *)
(* that WiringProofs speaks of.                                            *)
(***************************************************************************)
EXTENDS Monitor, WiringProofs

----------------------------------------------------------------------------
(* Lists of whatever they hold.                                            *)

IsList(s) == s \in Seq(Range(s))

LEMMA ListOf ==
  ASSUME NEW S, NEW s \in Seq(S)
  PROVE  IsList(s) /\ Range(s) \subseteq S /\ DOMAIN s = 1 .. Len(s) /\ Len(s) \in Nat
BY DEF IsList, Range

LEMMA ListEmpty == IsList(<<>>) /\ Range(<<>>) = {} /\ DOMAIN <<>> = {}
BY DEF IsList, Range

LEMMA ListOne ==
  ASSUME NEW x
  PROVE  IsList(<<x>>) /\ Range(<<x>>) = {x}
<1>1. <<x>> \in Seq({x}) /\ DOMAIN <<x>> = {1} /\ <<x>>[1] = x
  OBVIOUS
<1> QED  BY <1>1 DEF IsList, Range

LEMMA ListTail ==
  ASSUME NEW s, IsList(s), s # <<>>
  PROVE  IsList(Tail(s)) /\ Range(Tail(s)) \subseteq Range(s) /\ Head(s) \in Range(s)
<1>1. Tail(s) \in Seq(Range(s)) /\ Head(s) \in Range(s)
  BY DEF IsList
<1> QED  BY <1>1, ListOf

LEMMA ListJoin ==
  ASSUME NEW s, IsList(s), NEW t, IsList(t)
  PROVE  IsList(s \o t) /\ Range(s \o t) \subseteq Range(s) \cup Range(t)
<1>1. s \in Seq(Range(s) \cup Range(t)) /\ t \in Seq(Range(s) \cup Range(t))
  BY DEF IsList
<1>2. s \o t \in Seq(Range(s) \cup Range(t))
  BY <1>1
<1> QED  BY <1>2, ListOf

LEMMA ListAppend ==
  ASSUME NEW s, IsList(s), NEW x
  PROVE  IsList(Append(s, x)) /\ Range(Append(s, x)) \subseteq Range(s) \cup {x}
<1>1. Append(s, x) \in Seq(Range(s) \cup {x})
  BY DEF IsList
<1> QED  BY <1>1, ListOf

\* A list made from a list, place by place.
LEMMA ListMap ==
  ASSUME NEW s, IsList(s), NEW t, t = [i \in DOMAIN s |-> t[i]]
  PROVE  IsList(t) /\ Range(t) = {t[i] : i \in DOMAIN s}
<1>1. DOMAIN t = 1 .. Len(s) /\ Len(s) \in Nat
  BY DEF IsList
<1> QED  BY <1>1 DEF IsList, Range

\* Items of a list, from its first place on.
LEMMA ListPlaces ==
  ASSUME NEW s, IsList(s)
  PROVE  /\ IsFiniteSet(DOMAIN s) /\ DOMAIN s \in SUBSET Nat
         /\ \A i \in DOMAIN s : s[i] \in Range(s)
<1>1. DOMAIN s = 1 .. Len(s) /\ Len(s) \in Nat
  BY DEF IsList
<1>2. IsFiniteSet(1 .. Len(s))
  BY <1>1, FS_Interval
<1> QED  BY <1>1, <1>2 DEF Range

----------------------------------------------------------------------------
(* Folds over lists, from the first place to the last.                     *)

LastOf(places) == CHOOSE i \in places : \A j \in places : i >= j

\* A finite list has a last place.
LEMMA LastPlace ==
  ASSUME NEW s, IsList(s), NEW places \in SUBSET DOMAIN s, places # {}
  PROVE  LastOf(places) \in places
<1>1. DOMAIN s = 1 .. Len(s) /\ Len(s) \in Nat
  BY DEF IsList
<1> DEFINE n == Len(s)
           T == {n - i : i \in places}
<1>2. T \in SUBSET Nat /\ T # {}
  BY <1>1
<1>3. PICK k \in T : \A m \in T : k <= m
  BY <1>2, NatLeast
<1>4. PICK i \in places : k = n - i
  BY <1>3
<1>5. ASSUME NEW j \in places PROVE i >= j
  <2>1. n - j \in T /\ n - i <= n - j
    BY <1>3, <1>4
  <2>2. i \in Int /\ j \in Int /\ n \in Int
    BY <1>1
  <2> QED  BY <2>1, <2>2
<1> QED  BY <1>4, <1>5 DEF LastOf

\* Lists gathered from the items of a list.
Gathering(fold, items) == [fold |-> fold, items |-> items]
Gather(p, i, h) ==
  CASE p.fold = "Rules" -> h \o Egglog!RulesOf(p.items[i])
    [] p.fold = "Guarantees" -> h \o Egglog!GuaranteesOf(p.items[i])
    [] p.fold = "Usable" ->
         IF p.items[i].constructor \in DOMAIN schema.constructors
           THEN Append(h, p.items[i]) ELSE h
    [] p.fold = "Sites" -> Walk!FocusSites(p.items[i]) \o h
    [] p.fold = "New" ->
         IF p.items[i].change = "NewExpression" THEN Append(h, p.items[i].expression)
         ELSE h

FunctionNullary(f) == f \in DOMAIN schema.functions /\ DOMAIN schema.functions[f].inputs = {}
RuleOK(rule) == AtomsWellTyped(schema, rule.make) /\ IsFiniteSet(rule.unions)

\* What is gathered is of the kind asked for.
Gathered(p, h) ==
  /\ IsList(h)
  /\ \A x \in Range(h) :
       CASE p.fold = "Rules" -> RuleOK(x)
         [] p.fold \in {"Guarantees", "Usable"} -> FunctionNullary(x.output)
         [] p.fold = "Sites" -> x.memo \in DOMAIN memos
         [] p.fold = "New" -> x \in DOMAIN expressions

Gathers == INSTANCE FoldLemmas WITH Step <- Gather, Pick <- LastOf, Good <- Gathered

LEMMA GatheredLists ==
  /\ \A commands : Egglog!AllRules(commands)
                     = Gathers!Fold(Gathering("Rules", commands), <<>>, DOMAIN commands)
  /\ \A plans : Egglog!Usable(plans)
                  = Gathers!Fold(Gathering("Usable", plans), <<>>, DOMAIN plans)
  /\ \A commands : Egglog!AllGuarantees(commands)
                     = Gathers!Fold(Gathering("Guarantees", commands), <<>>, DOMAIN commands)
  /\ NewExpressions = Gathers!Fold(Gathering("New", log), <<>>, DOMAIN log)
<1>1. ASSUME NEW commands
      PROVE  Egglog!AllRules(commands)
               = Gathers!Fold(Gathering("Rules", commands), <<>>, DOMAIN commands)
  <2> DEFINE p == Gathering("Rules", commands)
  <2>1. p.fold = "Rules" /\ p.items = commands
    BY DEF Gathering
  <2> HIDE DEF p
  <2>2. Egglog!AllRules(commands) = Gathers!Fold(p, <<>>, DOMAIN commands)
    BY <2>1 DEF Egglog!AllRules, Egglog!FoldLeft, Egglog!MapThenFoldSet, Egglog!Max,
                Gathers!Fold, Gather, LastOf
  <2> QED  BY <2>2 DEF p
<1>2. ASSUME NEW plans
      PROVE  Egglog!Usable(plans)
               = Gathers!Fold(Gathering("Usable", plans), <<>>, DOMAIN plans)
  <2> DEFINE p == Gathering("Usable", plans)
  <2>1. p.fold = "Usable" /\ p.items = plans
    BY DEF Gathering
  <2> HIDE DEF p
  <2>2. Egglog!Usable(plans) = Gathers!Fold(p, <<>>, DOMAIN plans)
    BY <2>1 DEF Egglog!Usable, Egglog!FoldLeft, Egglog!MapThenFoldSet, Egglog!Max,
                Gathers!Fold, Gather, LastOf
  <2> QED  BY <2>2 DEF p
<1>3. ASSUME NEW commands
      PROVE  Egglog!AllGuarantees(commands)
               = Gathers!Fold(Gathering("Guarantees", commands), <<>>, DOMAIN commands)
  <2> DEFINE p == Gathering("Guarantees", commands)
  <2>1. p.fold = "Guarantees" /\ p.items = commands
    BY DEF Gathering
  <2> HIDE DEF p
  <2>2. Egglog!AllGuarantees(commands) = Gathers!Fold(p, <<>>, DOMAIN commands)
    BY <2>1 DEF Egglog!AllGuarantees, Egglog!FoldLeft, Egglog!MapThenFoldSet, Egglog!Max,
                Gathers!Fold, Gather, LastOf
  <2> QED  BY <2>2 DEF p
<1>4. NewExpressions = Gathers!Fold(Gathering("New", log), <<>>, DOMAIN log)
  <2> DEFINE p == Gathering("New", log)
  <2>1. p.fold = "New" /\ p.items = log
    BY DEF Gathering
  <2> HIDE DEF p
  <2>2. NewExpressions = Gathers!Fold(p, <<>>, DOMAIN log)
    BY <2>1 DEF NewExpressions, FoldLeft, MapThenFoldSet, Max, Gathers!Fold, Gather, LastOf
  <2> QED  BY <2>2 DEF p
<1> QED  BY <1>1, <1>2, <1>3, <1>4

GatherKeeps(p) ==
  \A i \in DOMAIN p.items : \A h : Gathered(p, h) => Gathered(p, Gather(p, i, h))

LEMMA GatherGood ==
  ASSUME NEW p, IsList(p.items), GatherKeeps(p)
  PROVE  Gathered(p, Gathers!Fold(p, <<>>, DOMAIN p.items))
<1> DEFINE D == DOMAIN p.items
<1>0. IsFiniteSet(D)
  BY ListPlaces
<1> HIDE DEF D
<1>1. Gathers!NatInducts /\ Gathers!Sized(D)
  BY <1>0, FoldsInduct, FiniteSized
     DEF Rebuilding!NatInducts, Gathers!NatInducts, Rebuilding!Sized, Gathers!Sized,
         Rebuilding!Sizes, Gathers!Sizes
<1> USE DEF D
<1>2. \A s \in SUBSET D : s # {} => LastOf(s) \in s
  BY LastPlace
<1>3. Gathered(p, <<>>)
  BY ListEmpty DEF Gathered
<1>4. \A i \in D : \A h : Gathered(p, h) => Gathered(p, Gather(p, i, h))
  BY DEF GatherKeeps
<1> QED  BY <1>1, <1>2, <1>3, <1>4, Gathers!FoldGood

----------------------------------------------------------------------------
(* The user's program.                                                     *)

RulesOK(list) == IsList(list) /\ \A rule \in Range(list) : RuleOK(rule)
GuaranteesOK(list) == IsList(list) /\ \A plan \in Range(list) : FunctionNullary(plan.output)
CommandsOK(list) ==
  IsList(list) /\ \A command \in Range(list) : CommandWellTyped(schema, command)

LEMMA ReversedList ==
  ASSUME NEW s, IsList(s)
  PROVE  IsList(Egglog!Reverse(s)) /\ Range(Egglog!Reverse(s)) \subseteq Range(s)
<1>1. Len(s) \in Nat /\ DOMAIN s = 1 .. Len(s) /\ \A i \in DOMAIN s : s[i] \in Range(s)
  BY DEF IsList, Range
<1>2. \A n \in Nat : \A i \in 1 .. n : (n - i) + 1 \in 1 .. n
  OBVIOUS
<1>3. \A i \in 1 .. Len(s) : s[(Len(s) - i) + 1] \in Range(s)
  BY <1>1, <1>2
<1>4. Egglog!Reverse(s) \in Seq(Range(s))
  BY <1>1, <1>3 DEF Egglog!Reverse
<1> QED  BY <1>4, ListOf

\* The two rules of a rewrite make what its right side asks for.
LEMMA CommandRules ==
  ASSUME NEW command, CommandWellTyped(schema, command)
  PROVE  RulesOK(Egglog!RulesOf(command))
<1>1. CASE command.command = "Rewrite"
  <2> DEFINE w == command.rewrite
             one == Egglog!ForwardRule(w)
             two == Egglog!BackwardRule(w)
  <2>1. AtomsWellTyped(schema, w.rhs)
    BY <1>1 DEF CommandWellTyped
  <2>2. one.make = Egglog!Reverse(w.rhs) /\ IsFiniteSet(one.unions)
    BY FS_Singleton DEF Egglog!ForwardRule
  <2>3. two.make = <<>> /\ IsFiniteSet(two.unions)
    BY FS_Singleton DEF Egglog!BackwardRule
  <2>4. Egglog!RulesOf(command) = <<one, two>>
    BY <1>1 DEF Egglog!RulesOf
  <2> HIDE DEF one, two, w
  <2>5. IsList(w.rhs) /\ \A atom \in Range(w.rhs) : AtomWellTyped(schema, atom)
    BY <2>1 DEF AtomsWellTyped, IsList
  <2>6. RuleOK(one)
    BY <2>2, <2>5, ReversedList DEF RuleOK, AtomsWellTyped, IsList
  <2>7. RuleOK(two)
    BY <2>3, ListEmpty DEF RuleOK, AtomsWellTyped, IsList
  <2>8. <<one, two>> \in Seq({one, two})
    OBVIOUS
  <2>9. IsList(<<one, two>>) /\ Range(<<one, two>>) \subseteq {one, two}
    BY <2>8, ListOf
  <2> QED  BY <2>4, <2>6, <2>7, <2>9 DEF RulesOK
<1>2. CASE command.command = "Rule"
  <2>1. Egglog!RulesOf(command) = <<command.rule>>
    BY <1>2 DEF Egglog!RulesOf
  <2>2. RuleOK(command.rule)
    BY <1>2 DEF CommandWellTyped, RuleOK
  <2> QED  BY <2>1, <2>2, ListOne DEF RulesOK
<1>3. CASE command.command \notin {"Rewrite", "Rule"}
  BY <1>3, ListEmpty DEF Egglog!RulesOf, RulesOK
<1> QED  BY <1>1, <1>2, <1>3

\* What a rewrite guarantees is the value of a function without inputs.
LEMMA CommandGuarantees ==
  ASSUME NEW command, CommandWellTyped(schema, command)
  PROVE  GuaranteesOK(Egglog!GuaranteesOf(command))
<1>1. CASE command.command = "Rewrite"
  <2> DEFINE w == command.rewrite
             list == Egglog!Guarantee(w)
  <2>1. IsList(w.rhs) /\ \A atom \in Range(w.rhs) : AtomWellTyped(schema, atom)
    BY <1>1 DEF CommandWellTyped, AtomsWellTyped, IsList
  <2>2. \/ list = <<>>
        \/ \E x : /\ list = <<x>> /\ x.output = Head(w.rhs).constructor
                  /\ w.rhs # <<>> /\ Head(w.rhs).arguments = <<>>
    <3>1. Egglog!Guarantees(w) => w.rhs # <<>> /\ Head(w.rhs).arguments = <<>>
      BY DEF Egglog!Guarantees
    <3>2. ASSUME Egglog!Guarantees(w)
          PROVE  list = <<list[1]>> /\ list[1].output = Head(w.rhs).constructor
      BY <3>2 DEF Egglog!Guarantee
    <3>3. ~Egglog!Guarantees(w) => list = <<>>
      BY DEF Egglog!Guarantee
    <3> HIDE DEF list
    <3> QED  BY <3>1, <3>2, <3>3
  <2>3. Egglog!GuaranteesOf(command) = list
    BY <1>1 DEF Egglog!GuaranteesOf
  <2> HIDE DEF list, w
  <2>4. CASE list = <<>>
    BY <2>3, <2>4, ListEmpty DEF GuaranteesOK
  <2>5. ASSUME NEW x, list = <<x>>, x.output = Head(w.rhs).constructor,
               w.rhs # <<>>, Head(w.rhs).arguments = <<>>
        PROVE  GuaranteesOK(list)
    <3>1. AtomWellTyped(schema, Head(w.rhs))
      BY <2>1, <2>5, ListTail
    <3>2. DOMAIN Head(w.rhs).arguments = {}
      BY <2>5, ListEmpty
    <3>3. FunctionNullary(x.output)
      BY <2>5, <3>1, <3>2 DEF AtomWellTyped, FunctionNullary
    <3> QED  BY <2>5, <3>3, ListOne DEF GuaranteesOK
  <2> QED  BY <2>2, <2>3, <2>4, <2>5
<1>2. CASE command.command # "Rewrite"
  BY <1>2, ListEmpty DEF Egglog!GuaranteesOf, GuaranteesOK
<1> QED  BY <1>1, <1>2

LEMMA JoinedRules ==
  ASSUME NEW a, RulesOK(a), NEW b, RulesOK(b)
  PROVE  RulesOK(a \o b)
BY ListJoin DEF RulesOK

LEMMA JoinedGuarantees ==
  ASSUME NEW a, GuaranteesOK(a), NEW b, GuaranteesOK(b)
  PROVE  GuaranteesOK(a \o b)
BY ListJoin DEF GuaranteesOK

LEMMA ProgramRules ==
  ASSUME NEW commands, CommandsOK(commands)
  PROVE  RulesOK(Egglog!AllRules(commands))
<1> DEFINE p == Gathering("Rules", commands)
<1>1. p.fold = "Rules" /\ p.items = commands
  BY DEF Gathering
<1> HIDE DEF p
<1>2. \A h : Gathered(p, h) <=> RulesOK(h)
  BY <1>1 DEF Gathered, RulesOK
<1>3. ASSUME NEW i \in DOMAIN commands, NEW h, RulesOK(h)
      PROVE  RulesOK(Gather(p, i, h))
  <2>1. CommandWellTyped(schema, commands[i])
    BY ListPlaces DEF CommandsOK
  <2>2. Gather(p, i, h) = h \o Egglog!RulesOf(commands[i])
    BY <1>1 DEF Gather
  <2> QED  BY <1>3, <2>1, <2>2, CommandRules, JoinedRules
<1>4. GatherKeeps(p) /\ IsList(p.items)
  BY <1>1, <1>2, <1>3 DEF GatherKeeps, CommandsOK
<1>5. RulesOK(Gathers!Fold(p, <<>>, DOMAIN commands))
  BY <1>1, <1>2, <1>4, GatherGood
<1> QED  BY <1>5, GatheredLists DEF p

LEMMA ProgramGuarantees ==
  ASSUME NEW commands, CommandsOK(commands)
  PROVE  GuaranteesOK(Egglog!AllGuarantees(commands))
<1> DEFINE p == Gathering("Guarantees", commands)
<1>1. p.fold = "Guarantees" /\ p.items = commands
  BY DEF Gathering
<1> HIDE DEF p
<1>2. \A h : Gathered(p, h) <=> GuaranteesOK(h)
  BY <1>1 DEF Gathered, GuaranteesOK
<1>3. ASSUME NEW i \in DOMAIN commands, NEW h, GuaranteesOK(h)
      PROVE  GuaranteesOK(Gather(p, i, h))
  <2>1. CommandWellTyped(schema, commands[i])
    BY ListPlaces DEF CommandsOK
  <2>2. Gather(p, i, h) = h \o Egglog!GuaranteesOf(commands[i])
    BY <1>1 DEF Gather
  <2> QED  BY <1>3, <2>1, <2>2, CommandGuarantees, JoinedGuarantees
<1>4. GatherKeeps(p) /\ IsList(p.items)
  BY <1>1, <1>2, <1>3 DEF GatherKeeps, CommandsOK
<1>5. GuaranteesOK(Gathers!Fold(p, <<>>, DOMAIN commands))
  BY <1>1, <1>2, <1>4, GatherGood
<1> QED  BY <1>5, GatheredLists DEF p

LEMMA UsableGuarantees ==
  ASSUME NEW plans, GuaranteesOK(plans)
  PROVE  GuaranteesOK(Egglog!Usable(plans))
<1> DEFINE p == Gathering("Usable", plans)
<1>1. p.fold = "Usable" /\ p.items = plans
  BY DEF Gathering
<1> HIDE DEF p
<1>2. \A h : Gathered(p, h) <=> GuaranteesOK(h)
  BY <1>1 DEF Gathered, GuaranteesOK
<1>3. ASSUME NEW i \in DOMAIN plans, NEW h, GuaranteesOK(h)
      PROVE  GuaranteesOK(Gather(p, i, h))
  <2>1. FunctionNullary(plans[i].output)
    BY ListPlaces DEF GuaranteesOK
  <2>2. Gather(p, i, h) \in {h, Append(h, plans[i])}
    BY <1>1 DEF Gather
  <2>3. IsList(h) /\ \A plan \in Range(h) : FunctionNullary(plan.output)
    BY <1>3 DEF GuaranteesOK
  <2>4. GuaranteesOK(Append(h, plans[i]))
    BY <2>1, <2>3, ListAppend DEF GuaranteesOK
  <2> QED  BY <1>3, <2>2, <2>4
<1>4. GatherKeeps(p) /\ IsList(p.items)
  BY <1>1, <1>2, <1>3 DEF GatherKeeps, GuaranteesOK
<1>5. GuaranteesOK(Gathers!Fold(p, <<>>, DOMAIN plans))
  BY <1>1, <1>2, <1>4, GatherGood
<1> QED  BY <1>5, GatheredLists DEF p

\* The expressions that a true log tells of.
LEMMA LoggedExpressions ==
  ASSUME IsList(log), Range(log) \subseteq GraphLog
  PROVE  NewExpressions \in Seq(DOMAIN expressions)
<1> DEFINE p == Gathering("New", log)
<1>1. p.fold = "New" /\ p.items = log
  BY DEF Gathering
<1> HIDE DEF p
<1>2. \A h : Gathered(p, h) <=> h \in Seq(DOMAIN expressions)
  <2>1. \A h : Gathered(p, h) <=> IsList(h) /\ Range(h) \subseteq DOMAIN expressions
    BY <1>1 DEF Gathered
  <2>2. \A h : h \in Seq(DOMAIN expressions) => IsList(h) /\ Range(h) \subseteq DOMAIN expressions
    BY ListOf
  <2>3. \A h : IsList(h) /\ Range(h) \subseteq DOMAIN expressions => h \in Seq(DOMAIN expressions)
    BY DEF IsList
  <2> QED  BY <2>1, <2>2, <2>3
<1>3. ASSUME NEW x \in GraphLog, x.change = "NewExpression"
      PROVE  x.expression \in DOMAIN expressions
  BY <1>3, IndexNames
     DEF GraphLog, PackedChildren, Index!InitialLog, NewExpression, NewContext,
         ParentAppended, ChildAppended
<1>4. ASSUME NEW i \in DOMAIN log, NEW h, h \in Seq(DOMAIN expressions)
      PROVE  Gather(p, i, h) \in Seq(DOMAIN expressions)
  <2>1. log[i] \in GraphLog
    BY ListPlaces
  <2>2. Gather(p, i, h) = IF log[i].change = "NewExpression" THEN Append(h, log[i].expression) ELSE h
    BY <1>1 DEF Gather
  <2>3. CASE log[i].change = "NewExpression"
    <3>1. log[i].expression \in DOMAIN expressions
      BY <1>3, <2>1, <2>3
    <3>2. Append(h, log[i].expression) \in Seq(DOMAIN expressions)
      BY <1>4, <3>1
    <3> QED  BY <2>2, <2>3, <3>2
  <2>4. CASE log[i].change # "NewExpression"
    BY <1>4, <2>2, <2>4
  <2> QED  BY <2>3, <2>4
<1>5. GatherKeeps(p) /\ IsList(p.items)
  BY <1>1, <1>2, <1>4 DEF GatherKeeps
<1>6. Gathers!Fold(p, <<>>, DOMAIN log) \in Seq(DOMAIN expressions)
  BY <1>1, <1>2, <1>5, GatherGood
<1> QED  BY <1>6, GatheredLists DEF p

----------------------------------------------------------------------------
(* Sites.                                                                  *)

\* A finite set in some order.
LEMMA OrderedSet ==
  ASSUME NEW S, IsFiniteSet(S)
  PROVE  Walk!SetToSeq(S) \in Seq(S)
<1>1. Cardinality(S) \in Nat /\ ExistsBijection(1 .. Cardinality(S), S)
  BY FS_CardinalityType
<1>2. \E f \in [1 .. Cardinality(S) -> S] : Walk!IsInjective(f)
  BY <1>1 DEF ExistsBijection, Bijection, Injection, IsInjective, Walk!IsInjective
<1>3. Walk!SetToSeq(S) = CHOOSE f \in [1 .. Cardinality(S) -> S] : Walk!IsInjective(f)
  BY DEF Walk!SetToSeq, Walk!Cardinality, Cardinality
<1>4. Walk!SetToSeq(S) \in [1 .. Cardinality(S) -> S]
  BY <1>2, <1>3
<1> QED  BY <1>1, <1>4

LEMMA SitesOf ==
  ASSUME NEW memo, NEW values, IsFiniteSet(values), NEW path
  PROVE  IsList(Walk!Sites(memo, values, path))
         /\ \A x \in Range(Walk!Sites(memo, values, path)) : x.memo = memo
<1> DEFINE order == Walk!SetToSeq(values)
           sites == Walk!Sites(memo, values, path)
<1>1. IsList(order)
  BY OrderedSet, ListOf
<1>2. sites = [i \in DOMAIN order |-> [memo |-> memo, value |-> order[i], path |-> path]]
  BY DEF Walk!Sites
<1>3. sites = [i \in DOMAIN order |-> sites[i]] /\ \A i \in DOMAIN order : sites[i].memo = memo
  BY <1>2
<1> HIDE DEF order, sites
<1>4. IsList(sites) /\ Range(sites) = {sites[i] : i \in DOMAIN order}
  BY <1>1, <1>3, ListMap
<1> QED  BY <1>3, <1>4 DEF sites

\* The walk begins at the memos of the zippers.
LEMMA ZippersTyped ==
  ASSUME ParserOK
  PROVE  /\ IsList(zippers)
         /\ \A z \in Range(zippers) :
              z.memo \in DOMAIN memos /\ IsFiniteSet(Walk!FocusClasses(z.focus))
<1>1. zippers \in Seq(ParserProofs!Zipper(DOMAIN expressions, DOMAIN memos))
  BY DEF ParserOK, ParserProofs!Reported, ParserProofs!Inductive, ParserProofs!TypeOK
<1>2. ASSUME NEW z \in ParserProofs!Zipper(DOMAIN expressions, DOMAIN memos)
      PROVE  z.memo \in DOMAIN memos /\ IsFiniteSet(Walk!FocusClasses(z.focus))
  <2>1. z.memo \in DOMAIN memos /\ z.focus \in ParserProofs!Node(DOMAIN expressions)
    BY <1>2 DEF ParserProofs!Zipper
  <2>2. ASSUME z.focus.tag = "Seq", z.focus.symbol.tag = "Token"
        PROVE  z.focus.symbol.token \in Tokens
    BY <2>1, <2>2 DEF ParserProofs!Node, ParserProofs!Symbol, ParserProofs!Bottom
  <2>3. \/ Walk!FocusClasses(z.focus) = {}
        \/ z.focus.symbol.token \in Tokens /\ Walk!FocusClasses(z.focus) = z.focus.symbol.token.payload
    BY <2>2 DEF Walk!FocusClasses
  <2> QED  BY <2>1, <2>3, PayloadsFinite, FS_EmptySet
<1> QED  BY <1>1, <1>2, ListOf

----------------------------------------------------------------------------
(* What the parts call by the same names.                                  *)

LEMMA WalkReads ==
  /\ \A e : Walk!ExpressionAction(e) = Index!ExpressionAction(e)
  /\ \A e : Walk!Selected(e) = Index!Selected(e)
  /\ \A c : Walk!ContextAction(c) = Index!ContextAction(c)
  /\ \A c : Walk!ContextChildren(c) = Index!ContextChildren(c)
  /\ \A e : Walk!Values(e) = Index!Values(e)
  /\ Walk!Hole = None /\ Walk!None = None /\ Walk!NoValue = NoValue
<1>1. \A s, n : Walk!Action(s, n) = Index!Action(s, n)
  BY IndexNames DEF Walk!Action, Index!Action, Walk!None, Index!None, Walk!Bottom, Index!Bottom
<1>2. \A e : Walk!ExpressionAction(e) = Index!ExpressionAction(e)
  BY <1>1 DEF Walk!ExpressionAction, Index!ExpressionAction
<1>3. \A e : Walk!ExpressionChildren(e) = Index!ExpressionChildren(e)
  BY <1>2 DEF Walk!ExpressionChildren, Index!ExpressionChildren
<1>4. \A e : Walk!Selected(e) = Index!Selected(e)
  BY <1>3 DEF Walk!Selected, Index!Selected
<1>5. \A c : Walk!ContextAction(c) = Index!ContextAction(c)
  BY <1>1 DEF Walk!ContextAction, Index!ContextAction
<1>6. Walk!Hole = None /\ Index!Hole = None /\ Walk!None = None /\ Walk!NoValue = NoValue
  BY IndexNames DEF Walk!Hole, Walk!None, None, Walk!NoValue, NoValue
<1>7. \A c, k : Walk!ContextChild(c, k) = Index!ContextChild(c, k)
  BY <1>6 DEF Walk!ContextChild, Index!ContextChild
<1>8. \A c : Walk!ContextChildren(c) = Index!ContextChildren(c)
  BY <1>5, <1>7 DEF Walk!ContextChildren, Index!ContextChildren
<1>9. \A e : Walk!Values(e) = Index!Values(e)
  BY DEF Walk!Values, Index!Values
<1> QED  BY <1>2, <1>4, <1>5, <1>6, <1>8, <1>9

LEMMA WalkAdds ==
  /\ \A g, v : Walk!Canonical(g, v) = Canonical(g, v)
  /\ \A g, c, vs : Walk!Outputs(g, c, vs) = Outputs(g, c, vs)
  /\ \A g, c, vs, s : Walk!Added(g, c, vs, s) = Added(g, c, vs, s)
  /\ \A g, c, lists, s : Walk!AddedAll(g, c, lists, s) = AddedAll(g, c, lists, s)
<1>1. \A g, v : Walk!Canonical(g, v) = Canonical(g, v)
  BY DEF Walk!Canonical, Canonical
<1>2. \A g, vs : Walk!CanonicalSeq(g, vs) = CanonicalSeq(g, vs)
  BY <1>1 DEF Walk!CanonicalSeq, CanonicalSeq
<1>3. \A g, c, vs : Walk!Outputs(g, c, vs) = Outputs(g, c, vs)
  BY <1>2 DEF Walk!Outputs, Outputs, Walk!Applications, Applications
<1>4. \A g, s : Walk!Fresh(g, s) = Fresh(g, s)
  BY DEF Walk!Fresh, Fresh, Walk!Cardinality, Cardinality
<1>5. ASSUME NEW g, NEW c, NEW vs, NEW s
      PROVE  Walk!Added(g, c, vs, s) = Added(g, c, vs, s)
  BY <1>2, <1>3, <1>4 DEF Walk!Added, Added
<1>6. ASSUME NEW g, NEW c, NEW lists, NEW s
      PROVE  Walk!AddedAll(g, c, lists, s) = AddedAll(g, c, lists, s)
  BY <1>5 DEF Walk!AddedAll, AddedAll, Walk!FoldSet, FoldSet,
              Walk!MapThenFoldSet, MapThenFoldSet
<1> QED  BY <1>1, <1>3, <1>5, <1>6

LEMMA WalkMaterializes ==
  ASSUME NEW e
  PROVE  /\ Walk!Constructible(e) <=> Index!Constructible(e)
         /\ Walk!MaterializeExpression(e) <=> Index!MaterializeExpression(e)
<1>1. Walk!Constructible(e) <=> Index!Constructible(e)
  BY WalkReads, IndexNames DEF Walk!Constructible, Index!Constructible
<1>2. \A x : Walk!ExpressionChildren(x) = Index!ExpressionChildren(x)
  BY WalkReads DEF Walk!ExpressionChildren, Index!ExpressionChildren
<1>3. \A choices : Walk!Products(choices) = Index!Products(choices)
  BY DEF Walk!Products, Index!Products
<1>4. Walk!Combinations(e) = Index!Combinations(e)
  BY <1>2, <1>3, WalkReads, WalkAdds, IndexNames DEF Walk!Combinations, Index!Combinations
<1>5. \A F : Walk!Insert(F) <=> Index!Insert(F)
  BY DEF Walk!Insert, Index!Insert, Walk!InsertAbove, Index!InsertAbove,
         Walk!Stacked, Index!Stacked
<1>6. \A g, c, vs : Walk!Outputs(g, c, vs) = Index!Outputs(g, c, vs)
  BY IndexNames, WalkAdds DEF Index!Outputs, Outputs, Index!Applications, Applications
<1>7. \A x, v : Walk!Produces(x, v) = Index!Produces(x, v)
  BY DEF Walk!Produces, Index!Produces
<1> DEFINE k == Index!ExpressionAction(e).constructor
           s == schema.constructors[k].output
           new == {Index!Produces(e, v) :
                     v \in UNION {Index!Outputs(egraph', k, vs) : vs \in Index!Combinations(e)}}
<1>8. Walk!MaterializeExpression(e) <=>
        /\ Index!Constructible(e)
        /\ egraph' = AddedAll(egraph, k, Index!Combinations(e), s)
        /\ Index!Insert(new) /\ UNCHANGED indexes
  <2> DEFINE made == {Walk!Produces(e, v) :
                       v \in UNION {Walk!Outputs(egraph', k, vs) : vs \in Walk!Combinations(e)}}
  <2>1. Walk!MaterializeExpression(e) <=>
          /\ Walk!Constructible(e)
          /\ egraph' = Walk!AddedAll(egraph, k, Walk!Combinations(e), s)
          /\ Walk!Insert(made) /\ UNCHANGED indexes
    BY WalkReads DEF Walk!MaterializeExpression
  <2>2. made = new
    <3>1. ASSUME NEW g, NEW C
          PROVE  {Walk!Produces(e, v) : v \in UNION {Walk!Outputs(g, k, vs) : vs \in C}}
                   = {Index!Produces(e, v) : v \in UNION {Index!Outputs(g, k, vs) : vs \in C}}
      <4> HIDE DEF k
      <4>1. {Walk!Outputs(g, k, vs) : vs \in C} = {Index!Outputs(g, k, vs) : vs \in C}
        BY <1>6
      <4>2. PICK V : V = UNION {Index!Outputs(g, k, vs) : vs \in C}
        OBVIOUS
      <4>3. {Walk!Produces(e, v) : v \in V} = {Index!Produces(e, v) : v \in V}
        BY <1>7
      <4> QED  BY <4>1, <4>2, <4>3
    <3>2. PICK g : g = egraph'
      OBVIOUS
    <3> QED  BY <1>4, <3>1, <3>2
  <2>3. Walk!AddedAll(egraph, k, Walk!Combinations(e), s) = AddedAll(egraph, k, Index!Combinations(e), s)
    BY <1>4, WalkAdds
  <2> HIDE DEF made, new, k, s
  <2> QED  BY <1>1, <1>5, <2>1, <2>2, <2>3
<1>9. Index!MaterializeExpression(e) <=>
        /\ Index!Constructible(e)
        /\ egraph' = AddedAll(egraph, k, Index!Combinations(e), s)
        /\ Index!Insert(new) /\ UNCHANGED indexes
  BY IndexAdditions DEF Index!MaterializeExpression
<1> QED  BY <1>1, <1>8, <1>9

----------------------------------------------------------------------------
(* `fixed_postorder` lists expressions that there are.                     *)

Visit(skip, n, s) == Walk!Visited(skip, s)

\* The stack holds expressions, but for those to be skipped.
Visiting(skip, s) ==
  /\ s = [stack |-> s.stack, entered |-> s.entered, output |-> s.output]
  /\ IsList(s.stack)
  /\ \A x \in Range(s.stack) : x.expression \in DOMAIN expressions \cup skip
  /\ s.output \in Seq(DOMAIN expressions)

Visits == INSTANCE FoldLemmas WITH Step <- Visit, Pick <- AnyOf, Good <- Visiting

LEMMA ReversedWalk ==
  ASSUME NEW S, NEW s \in Seq(S)
  PROVE  Walk!Reverse(s) \in Seq(S)
<1>1. Len(s) \in Nat /\ DOMAIN s = 1 .. Len(s) /\ \A i \in DOMAIN s : s[i] \in S
  OBVIOUS
<1>2. \A n \in Nat : \A i \in 1 .. n : (n - i) + 1 \in 1 .. n
  OBVIOUS
<1>3. \A i \in 1 .. Len(s) : s[(Len(s) - i) + 1] \in S
  BY <1>1, <1>2
<1> QED  BY <1>1, <1>3 DEF Walk!Reverse

LEMMA EntriesOf ==
  ASSUME NEW S, NEW es \in Seq(S)
  PROVE  /\ IsList(Walk!Entries(es))
         /\ \A x \in Range(Walk!Entries(es)) : x.expression \in S
<1> DEFINE t == Walk!Entries(es)
<1>1. t = [i \in DOMAIN es |-> Walk!Item(es[i], FALSE)]
  BY DEF Walk!Entries
<1>2. \A i \in DOMAIN es : es[i] \in S /\ Walk!Item(es[i], FALSE).expression = es[i]
  BY DEF Walk!Item
<1>3. t = [i \in DOMAIN es |-> t[i]] /\ \A i \in DOMAIN es : t[i].expression \in S
  BY <1>1, <1>2
<1> HIDE DEF t
<1>4. IsList(t) /\ Range(t) = {t[i] : i \in DOMAIN es}
  BY <1>3, ListOf, ListMap
<1> QED  BY <1>3, <1>4 DEF t

\* One round.
LEMMA VisitKeeps ==
  ASSUME ParserOK, NEW skip, NEW s, Visiting(skip, s)
  PROVE  Visiting(skip, Walk!Visited(skip, s))
<1> DEFINE E == DOMAIN expressions
           x == Head(s.stack)
           e == x.expression
           rest == Tail(s.stack)
           popped == [s EXCEPT !.stack = Tail(@)]
<1>1. /\ s = [stack |-> s.stack, entered |-> s.entered, output |-> s.output]
      /\ IsList(s.stack) /\ s.output \in Seq(E)
      /\ \A y \in Range(s.stack) : y.expression \in E \cup skip
  BY DEF Visiting
<1>2. CASE s.stack = <<>>
  BY <1>2 DEF Walk!Visited
<1>3. CASE s.stack # <<>>
  <2>1. IsList(rest) /\ Range(rest) \subseteq Range(s.stack) /\ e \in E \cup skip
    BY <1>1, <1>3, ListTail
  <2>2. popped = [stack |-> rest, entered |-> s.entered, output |-> s.output]
    <3>1. PICK t : t = Tail(s.stack)
      OBVIOUS
    <3>2. popped = [s EXCEPT !.stack = t] /\ rest = t
      BY <3>1
    <3> HIDE DEF popped, rest
    <3> QED  BY <1>1, <3>2
  <2>3. Visiting(skip, popped)
    <3> HIDE DEF rest, popped
    <3>1. popped.stack = rest /\ popped.entered = s.entered /\ popped.output = s.output
      BY <2>2
    <3>2. \A y \in Range(rest) : y.expression \in E \cup skip
      BY <1>1, <2>1
    <3> QED  BY <1>1, <2>1, <2>2, <3>1, <3>2 DEF Visiting
  <2>4. CASE e \in skip \/ ~expressions[e].fixed
    BY <1>3, <2>3, <2>4 DEF Walk!Visited
  <2>5. CASE ~(e \in skip \/ ~expressions[e].fixed) /\ x.expanded
    <3>1. Walk!Visited(skip, s) = [popped EXCEPT !.output = Append(@, e)]
      BY <1>3, <2>5 DEF Walk!Visited
    <3>2. Walk!Visited(skip, s)
            = [stack |-> rest, entered |-> s.entered, output |-> Append(s.output, e)]
      BY <2>2, <3>1
    <3>3. Append(s.output, e) \in Seq(E)
      BY <1>1, <2>1, <2>5
    <3> QED  BY <1>1, <2>1, <3>2, <3>3 DEF Visiting
  <2>6. CASE ~(e \in skip \/ ~expressions[e].fixed) /\ ~x.expanded /\ e \in s.entered
    BY <1>3, <2>3, <2>6 DEF Walk!Visited
  <2>7. CASE ~(e \in skip \/ ~expressions[e].fixed) /\ ~x.expanded /\ e \notin s.entered
    <3> DEFINE entries == Walk!Entries(Walk!Reverse(Walk!Selected(e)))
               left == <<Walk!Item(e, TRUE)>> \o rest
    <3>1. Walk!Visited(skip, s)
            = [popped EXCEPT !.entered = @ \cup {e}, !.stack = entries \o (<<Walk!Item(e, TRUE)>> \o @)]
      BY <1>3, <2>7 DEF Walk!Visited
    <3>2. Walk!Visited(skip, s)
            = [stack |-> entries \o left, entered |-> s.entered \cup {e}, output |-> s.output]
      BY <2>2, <3>1
    <3>3. e \in E /\ Walk!Selected(e) \in Seq(E)
      BY <2>1, <2>7, WalkReads, SelectedListed
    <3>4. IsList(entries) /\ \A y \in Range(entries) : y.expression \in E
      BY <3>3, ReversedWalk, EntriesOf
    <3>5. Walk!Item(e, TRUE).expression = e
      BY DEF Walk!Item
    <3>6. IsList(left) /\ Range(left) \subseteq {Walk!Item(e, TRUE)} \cup Range(rest)
      BY <2>1, ListOne, ListJoin
    <3> HIDE DEF entries, left
    <3>7. IsList(entries \o left) /\ Range(entries \o left) \subseteq Range(entries) \cup Range(left)
      BY <3>4, <3>6, ListJoin
    <3>8. \A y \in Range(entries \o left) : y.expression \in E \cup skip
      BY <1>1, <2>1, <3>3, <3>4, <3>5, <3>6, <3>7
    <3> QED  BY <1>1, <3>2, <3>7, <3>8 DEF Visiting
  <2> QED  BY <2>4, <2>5, <2>6, <2>7
<1> QED  BY <1>2, <1>3

\* There are only so many rounds.
LEMMA PushesFinite ==
  ASSUME ParserOK, NEW S, NEW roots \in Seq(S)
  PROVE  Walk!Cardinality(Walk!Pushes(roots)) \in Nat
<1> DEFINE E == DOMAIN expressions
           pushed == [e \in E |-> {e} \X (0 .. Len(Walk!Selected(e)))]
<1>1. IsFiniteSet(E)
  BY ParserTyped
<1>2. IsFiniteSet({Walk!None} \X DOMAIN roots)
  <2>1. IsFiniteSet(DOMAIN roots)
    BY ListOf, ListPlaces
  <2> QED  BY <2>1, FS_Singleton, FS_Product
<1>3. ASSUME NEW e \in E PROVE IsFiniteSet(pushed[e])
  <2>1. Len(Walk!Selected(e)) \in Nat
    BY WalkReads, SelectedListed
  <2>2. IsFiniteSet(0 .. Len(Walk!Selected(e)))
    BY <2>1, FS_Interval
  <2>3. IsFiniteSet({e} \X (0 .. Len(Walk!Selected(e))))
    BY <2>2, FS_Singleton, FS_Product
  <2> QED  BY <2>3
<1>4. IsFiniteSet({pushed[e] : e \in E})
  <2> HIDE DEF pushed
  <2> QED  BY <1>1, FiniteImage
<1>5. Walk!Pushes(roots) = ({Walk!None} \X DOMAIN roots) \cup (UNION {pushed[e] : e \in E})
  BY DEF Walk!Pushes
<1> HIDE DEF pushed
<1>6. IsFiniteSet(UNION {pushed[e] : e \in E})
  BY <1>3, <1>4, FS_UNION
<1>7. IsFiniteSet(Walk!Pushes(roots))
  <2>1. PICK A, B : A = {Walk!None} \X DOMAIN roots /\ B = (UNION {pushed[e] : e \in E})
    OBVIOUS
  <2>2. IsFiniteSet(A) /\ IsFiniteSet(B) /\ Walk!Pushes(roots) = A \cup B
    BY <1>2, <1>5, <1>6, <2>1
  <2> QED  BY <2>2, FS_Union
<1>8. \A T : Walk!Cardinality(T) = Cardinality(T)
  BY DEF Walk!Cardinality, Cardinality
<1> QED  BY <1>7, <1>8, FS_CardinalityType

LEMMA PostorderTyped ==
  ASSUME ParserOK, NEW skip, NEW roots \in Seq(DOMAIN expressions \cup skip)
  PROVE  Walk!FixedPostorder(roots, skip) \in Seq(DOMAIN expressions)
<1> DEFINE base == [stack |-> Walk!Entries(Walk!Reverse(roots)), entered |-> {}, output |-> <<>>]
           rounds == Walk!Cardinality(Walk!Pushes(roots))
<1>1. Walk!FixedPostorder(roots, skip) = Visits!Loop(skip, base, rounds).output
  BY DEF Walk!FixedPostorder, Visits!Loop, Visit
<1>2. rounds \in Nat
  BY PushesFinite
<1>3. Visiting(skip, base)
  <2>1. Walk!Reverse(roots) \in Seq(DOMAIN expressions \cup skip)
    BY ReversedWalk
  <2>2. <<>> \in Seq(DOMAIN expressions)
    OBVIOUS
  <2> QED  BY <2>1, <2>2, EntriesOf DEF Visiting
<1>4. \A n \in Nat : \A s : Visiting(skip, s) => Visiting(skip, Visit(skip, n, s))
  BY VisitKeeps DEF Visit
<1> HIDE DEF base, rounds
<1>5. Visiting(skip, Visits!Loop(skip, base, rounds))
  <2>1. Visits!NatInducts
    BY FoldsInduct DEF Rebuilding!NatInducts, Visits!NatInducts
  <2> QED  BY <1>2, <1>3, <1>4, <2>1, Visits!LoopGood
<1> QED  BY <1>1, <1>5 DEF Visiting

\* The walk through the contexts starts at the sites of the zippers.
LEMMA FocusAgenda ==
  ASSUME ParserOK, Walk!BeginFocusWalk
  PROVE  \E sites : /\ walk' = [Walk!NoWalk EXCEPT !.agenda = sites, !.phase = "Focus"]
                    /\ IsList(sites)
                    /\ \A x \in Range(sites) : x.memo \in DOMAIN memos
<1> DEFINE p == Gathering("Sites", zippers)
           fold == Gathers!Fold(p, <<>>, DOMAIN zippers)
<1>1. p.fold = "Sites" /\ p.items = zippers
  BY DEF Gathering
<1>2. walk' = [Walk!NoWalk EXCEPT !.agenda = fold, !.phase = "Focus"]
  <2> HIDE DEF p
  <2> QED  BY <1>1 DEF Walk!BeginFocusWalk, Walk!FoldLeft, Walk!MapThenFoldSet, Walk!Max,
                       Gathers!Fold, Gather, LastOf
<1> HIDE DEF p
<1>3. \A h : Gathered(p, h) <=> IsList(h) /\ \A x \in Range(h) : x.memo \in DOMAIN memos
  BY <1>1 DEF Gathered
<1>4. ASSUME NEW i \in DOMAIN zippers, NEW h, Gathered(p, h)
      PROVE  Gathered(p, Gather(p, i, h))
  <2> DEFINE z == zippers[i]
             sites == Walk!FocusSites(z)
  <2>1. z.memo \in DOMAIN memos /\ IsFiniteSet(Walk!FocusClasses(z.focus))
    BY ZippersTyped, ListPlaces
  <2>2. \E values : IsFiniteSet(values) /\ sites = Walk!Sites(z.memo, values, <<>>)
    BY <2>1, FS_Singleton DEF Walk!FocusSites
  <2>3. IsList(sites) /\ \A x \in Range(sites) : x.memo = z.memo
    BY <2>2, SitesOf
  <2>4. Gather(p, i, h) = sites \o h
    BY <1>1 DEF Gather
  <2> HIDE DEF sites
  <2>5. IsList(h) /\ \A x \in Range(h) : x.memo \in DOMAIN memos
    BY <1>3, <1>4
  <2>6. IsList(sites \o h) /\ Range(sites \o h) \subseteq Range(sites) \cup Range(h)
    BY <2>3, <2>5, ListJoin
  <2> QED  BY <1>3, <2>1, <2>3, <2>4, <2>5, <2>6
<1>5. GatherKeeps(p) /\ IsList(p.items)
  BY <1>1, <1>4, ZippersTyped DEF GatherKeeps
<1>6. Gathered(p, fold)
  BY <1>1, <1>5, GatherGood
<1> HIDE DEF fold
<1> QED  BY <1>2, <1>3, <1>6

----------------------------------------------------------------------------
(* The e-graph evolves: it grows by what the user's functions allow.       *)

Sorting == {schema.functions[f].output : f \in DOMAIN schema.functions}
Shaping == {<<f, DOMAIN schema.functions[f].inputs>> : f \in DOMAIN schema.functions}
             \cup {<<Disjoint, {1, 2}>>}
Evolves(g, h) == Grows(g, h, Sorting, Shaping)

LEMMA EvolvesNot ==
  ASSUME NEW g, Coherent(g)
  PROVE  Evolves(g, g)
BY GrowsNot DEF Evolves

LEMMA EvolvesOn ==
  ASSUME NEW g, NEW h, Evolves(g, h), NEW k, Evolves(h, k)
  PROVE  Evolves(g, k)
BY GrowsOn DEF Evolves

\* Growth by less is growth by more.
LEMMA GrowsWithin ==
  ASSUME NEW g, NEW h, NEW sorts, NEW shapes, Grows(g, h, sorts, shapes),
         sorts \subseteq Sorting, shapes \subseteq Shaping
  PROVE  Evolves(g, h)
BY DEF Evolves, Grows

LEMMA FunctionsOK ==
  ASSUME ParserOK
  PROVE  FunctionsWellTyped(schema) /\ Allowed(Sorting, Shaping)
<1>1. FunctionsWellTyped(schema)
  BY ProgramsWellTyped DEF ParserOK, schema
<1>2. ASSUME NEW x \in Shaping, x[1] \in DOMAIN schema.constructors
      PROVE  x[2] = DOMAIN schema.constructors[x[1]].inputs
  <2>1. Disjoint \notin DOMAIN schema.constructors
    BY <1>1 DEF FunctionsWellTyped
  <2>2. PICK f \in DOMAIN schema.functions : x = <<f, DOMAIN schema.functions[f].inputs>>
    BY <1>2, <2>1 DEF Shaping
  <2> QED  BY <1>1, <1>2, <2>2 DEF FunctionsWellTyped
<1>3. \A s \in Sorting : s \notin LexicalSorts(schema)
  BY <1>1 DEF FunctionsWellTyped, Sorting
<1> QED  BY <1>1, <1>2, <1>3 DEF Allowed

\* An application of a function.
LEMMA AddedEvolves ==
  ASSUME FunctionsWellTyped(schema), NEW g, Coherent(g), NEW f \in DOMAIN schema.functions,
         NEW vs, DOMAIN vs = DOMAIN schema.functions[f].inputs, NEW s \in Sorting
  PROVE  Evolves(g, Added(g, f, vs, s))
<1>1. f # Disjoint /\ IsFiniteSet(DOMAIN vs)
  BY DEF FunctionsWellTyped
<1>2. Grows(g, Added(g, f, vs, s), {s}, {<<f, DOMAIN vs>>})
  BY <1>1, AddedGrows
<1> QED  BY <1>2, GrowsWithin DEF Shaping

\* What the backend calls by the names of the e-graph.
LEMMA EgglogAdds ==
  /\ \A g, v : Egglog!Canonical(g, v) = Canonical(g, v)
  /\ \A g, c, vs, s : Egglog!Added(g, c, vs, s) = Added(g, c, vs, s)
  /\ \A g : Egglog!Rebuilt(g) = Rebuilt(g)
  /\ \A g, u, v : Egglog!Equated(g, u, v) = Equated(g, u, v)
  /\ \A u, v : Egglog!DisjointRow(u, v) = DisjointRow(u, v)
  /\ Egglog!Disjoint = Disjoint
<1>1. \A g, v : Egglog!Canonical(g, v) = Canonical(g, v)
  BY DEF Egglog!Canonical, Canonical
<1>2. \A g, vs : Egglog!CanonicalSeq(g, vs) = CanonicalSeq(g, vs)
  BY <1>1 DEF Egglog!CanonicalSeq, CanonicalSeq
<1>3. \A g, c, vs : Egglog!Outputs(g, c, vs) = Outputs(g, c, vs)
  BY <1>2 DEF Egglog!Outputs, Outputs, Egglog!Applications, Applications
<1>4. \A g, s : Egglog!Fresh(g, s) = Fresh(g, s)
  BY DEF Egglog!Fresh, Fresh, Egglog!Cardinality, Cardinality
<1>5. ASSUME NEW g, NEW c, NEW vs, NEW s
      PROVE  Egglog!Added(g, c, vs, s) = Added(g, c, vs, s)
  BY <1>2, <1>3, <1>4 DEF Egglog!Added, Added
<1>6. ASSUME NEW g, NEW u, NEW v
      PROVE  Egglog!Equated(g, u, v) = Equated(g, u, v)
  BY <1>1, <1>2 DEF Egglog!Equated, Equated
<1>7. ASSUME NEW g
      PROVE  Egglog!Rebuilt(g) = Rebuilt(g)
  BY DEF Egglog!Rebuilt, Rebuilt, Egglog!Conflicts, Conflicts, Egglog!Equated, Equated,
         Egglog!CanonicalSeq, CanonicalSeq, Egglog!Canonical, Canonical,
         Egglog!Cardinality, Cardinality
<1>8. Egglog!Disjoint = Disjoint /\ \A u, v : Egglog!DisjointRow(u, v) = DisjointRow(u, v)
  BY DEF Egglog!Disjoint, Disjoint, Egglog!DisjointRow, DisjointRow, Egglog!NoValue, NoValue
<1> QED  BY <1>1, <1>5, <1>6, <1>7, <1>8

\* A fact of the user's relation.
LEMMA DisjoinedEvolves ==
  ASSUME NEW g, Coherent(g), NEW u, NEW v
  PROVE  Evolves(g, Egglog!Disjoined(g, u, v))
<1> DEFINE x == Canonical(g, u)
           y == Canonical(g, v)
           row == DisjointRow(x, y)
           h == Egglog!Disjoined(g, u, v)
<1>1. h = [g EXCEPT !.rows = @ \cup {row}]
  BY EgglogAdds DEF Egglog!Disjoined
<1>2. g = [rows |-> g.rows, find |-> g.find, target |-> g.target] /\ IsFiniteSet(g.rows)
  BY DEF Coherent
<1>3. h = [rows |-> g.rows \cup {row}, find |-> g.find, target |-> g.target]
  BY <1>1, <1>2
<1> HIDE DEF h
<1>4. /\ h.rows = g.rows \cup {row} /\ h.find = g.find /\ h.target = g.target
      /\ h = [rows |-> h.rows, find |-> h.find, target |-> h.target]
  BY <1>3
<1>5. /\ \A w : Canonical(h, w) = Canonical(g, w)
      /\ \A r : RowIn(h, r) = RowIn(g, r)
      /\ \A vs : CanonicalSeq(h, vs) = CanonicalSeq(g, vs)
      /\ \A r : OutputCoherent(h, r) <=> OutputCoherent(g, r)
  BY <1>4 DEF Canonical, RowIn, CanonicalSeq, OutputCoherent
<1>6. /\ row.constructor = Disjoint /\ row.children = <<x, y>> /\ row.output = NoValue
      /\ row = [constructor |-> row.constructor, children |-> row.children,
                output |-> row.output]
  BY DEF DisjointRow
<1>7. DOMAIN row.children = {1, 2} /\ IsFiniteSet(DOMAIN row.children)
  <2>1. DOMAIN <<x, y>> = {1, 2}
    OBVIOUS
  <2>2. IsFiniteSet({1} \cup {2}) /\ {1} \cup {2} = {1, 2}
    BY FS_Singleton, FS_Union
  <2> HIDE DEF row
  <2> QED  BY <1>6, <2>1, <2>2
<1>8. CanonicalSeq(g, row.children) = row.children
  <2>1. Canonical(g, x) = x /\ Canonical(g, y) = y
    BY CoherentRows
  <2> HIDE DEF x, y, row
  <2> QED  BY <1>6, <2>1 DEF CanonicalSeq
<1> HIDE DEF row, x, y
<1>9. IsFiniteSet(h.rows)
  BY <1>2, <1>4, FS_AddElement
<1>10. Coherent(h)
  BY <1>4, <1>5, <1>6, <1>7, <1>8, <1>9 DEF Coherent, OutputCoherent
<1>11. Continues(g, h)
  BY <1>4, <1>5, CoherentRows DEF Continues
<1>12. Sorts(h) = Sorts(g) /\ Shapes(h) \subseteq Shapes(g) \cup Shaping
  BY <1>4, <1>6, <1>7 DEF Sorts, Shapes, Shaping
<1>13. Grows(g, h, Sorting, Shaping)
  BY <1>10, <1>11, <1>12 DEF Grows
<1> QED  BY <1>13 DEF Evolves, h

\* The equalities that a match or an action asks for.
PairsOK(joins) == IsFiniteSet(joins) /\ \A pair \in joins : \E a, b : pair = {a, b}

\* One equality, and the rebuild after it.
LEMMA MergeEvolves ==
  ASSUME NEW g, Coherent(g), NEW a, NEW b, NEW age
  PROVE  Evolves(g, Egglog!Merge(g, {a, b}, Egglog!Survivor({a, b}, age)))
<1> DEFINE pair == {a, b}
           survivor == Egglog!Survivor(pair, age)
           kept == Canonical(g, survivor)
           lost == CHOOSE v \in {Canonical(g, x) : x \in pair} : v # kept
           h == Equated(g, kept, lost)
<1>1. CASE ~(pair \subseteq DOMAIN g.find) \/ \A u, v \in pair : Egglog!Equivalent(g, u, v)
  <2>1. Egglog!Merge(g, pair, survivor) = g
    BY <1>1 DEF Egglog!Merge
  <2> QED  BY <2>1, EvolvesNot
<1>2. CASE pair \subseteq DOMAIN g.find /\ ~\A u, v \in pair : Egglog!Equivalent(g, u, v)
  <2>1. Egglog!Merge(g, pair, survivor) = Rebuilt(h)
    BY <1>2, EgglogAdds DEF Egglog!Merge
  <2>2. survivor \in pair
    <3>1. a.class \in Int /\ b.class \in Int
      <4>1. \A v \in DOMAIN g.find : v.class \in 1 .. Cardinality(DOMAIN g.find)
        BY DEF Coherent
      <4>2. Cardinality(DOMAIN g.find) \in Nat
        BY FS_CardinalityType DEF Coherent
      <4>3. \A n \in Nat : 1 .. n \subseteq Int
        OBVIOUS
      <4> QED  BY <1>2, <4>1, <4>2, <4>3
    <3>2. CASE age = "Oldest"
      <4>1. \E v \in pair : \A u \in pair : v.class <= u.class
        BY <3>1
      <4> QED  BY <3>2, <4>1 DEF Egglog!Survivor
    <3>3. CASE age # "Oldest"
      <4>1. \E v \in pair : \A u \in pair : v.class >= u.class
        BY <3>1
      <4> QED  BY <3>3, <4>1 DEF Egglog!Survivor
    <3> QED  BY <3>2, <3>3
  <2>3. PICK u \in pair, v \in pair : Canonical(g, u) # Canonical(g, v)
    BY <1>2, EgglogAdds DEF Egglog!Equivalent
  <2> HIDE DEF survivor
  <2>4. lost \in {Canonical(g, x) : x \in pair} /\ lost # kept
    <3>1. \E w \in {Canonical(g, x) : x \in pair} : w # kept
      BY <2>3
    <3> HIDE DEF kept
    <3> QED  BY <3>1
  <2> HIDE DEF lost
  <2>5. \A x \in pair : Canonical(g, x) \in DOMAIN g.find
                        /\ g.find[Canonical(g, x)] = Canonical(g, x)
    BY <1>2 DEF Coherent, Canonical
  <2>6. /\ kept \in DOMAIN g.find /\ g.find[kept] = kept
        /\ lost \in DOMAIN g.find /\ g.find[lost] = lost
    BY <2>2, <2>4, <2>5
  <2> HIDE DEF kept
  <2>7. Grows(g, h, {}, {}) /\ Coherent(h)
    BY <2>6, EquatedGrows DEF Grows
  <2>8. Grows(h, Rebuilt(h), {}, {})
    BY <2>7, RebuiltGrows
  <2>9. Grows(g, Rebuilt(h), {}, {})
    BY <2>7, <2>8, GrowsOn
  <2>10. Evolves(g, Rebuilt(h))
    BY <2>9, GrowsWithin
  <2> QED  BY <2>1, <2>10 DEF survivor
<1> QED  BY <1>1, <1>2

\* The equalities of several matches, one after the other.
MergeOne(p, pair, h) == Egglog!Merge(h, pair, Egglog!Survivor(pair, p.age))
MergedFrom(p, h) == Evolves(p.from, h)
Merging == INSTANCE FoldLemmas WITH Step <- MergeOne, Pick <- AnyOf, Good <- MergedFrom

LEMMA MergedEvolves ==
  ASSUME NEW g, Coherent(g), NEW joins, PairsOK(joins), NEW age
  PROVE  Evolves(g, Egglog!Merged(g, joins, age))
<1>0. PICK p : p = [from |-> g, age |-> age]
  OBVIOUS
<1>1. p.from = g /\ p.age = age
  BY <1>0
<1>2. Egglog!Merged(g, joins, age) = Merging!Fold(p, g, joins)
  BY <1>1 DEF Egglog!Merged, Egglog!FoldSet, Egglog!MapThenFoldSet, Merging!Fold, MergeOne, AnyOf
<1>3. MergedFrom(p, g)
  BY <1>1, EvolvesNot DEF MergedFrom
<1>4. ASSUME NEW pair \in joins, NEW h, MergedFrom(p, h)
      PROVE  MergedFrom(p, MergeOne(p, pair, h))
  <2>1. PICK a, b : pair = {a, b}
    BY DEF PairsOK
  <2>2. Evolves(g, h) /\ Coherent(h)
    BY <1>1, <1>4 DEF MergedFrom, Evolves, Grows
  <2>3. Evolves(h, MergeOne(p, pair, h))
    BY <1>1, <2>1, <2>2, MergeEvolves DEF MergeOne
  <2> QED  BY <1>1, <2>2, <2>3, EvolvesOn DEF MergedFrom
<1>5. \A s \in SUBSET joins : s # {} => AnyOf(s) \in s
  BY DEF AnyOf
<1>6. Merging!NatInducts /\ Merging!Sized(joins)
  <2>1. IsFiniteSet(joins)
    BY DEF PairsOK
  <2> QED  BY <2>1, FoldsInduct, FiniteSized
              DEF Rebuilding!NatInducts, Merging!NatInducts, Rebuilding!Sized, Merging!Sized,
                  Rebuilding!Sizes, Merging!Sizes
<1>7. MergedFrom(p, Merging!Fold(p, g, joins))
  BY <1>3, <1>4, <1>5, <1>6, Merging!FoldGood
<1> QED  BY <1>1, <1>2, <1>7 DEF MergedFrom

\* The rows that an action makes, atom by atom.
MakeOne(p, i, state) == Egglog!Making(state, p.make[i])
MadeFrom(p, state) == Evolves(p.from, state.g)
Makes == INSTANCE FoldLemmas WITH Step <- MakeOne, Pick <- LastOf, Good <- MadeFrom

LEMMA MakingEvolves ==
  ASSUME FunctionsWellTyped(schema), NEW state, Coherent(state.g),
         NEW atom, AtomWellTyped(schema, atom)
  PROVE  Evolves(state.g, Egglog!Making(state, atom).g)
<1> DEFINE children == Egglog!Values(state.binding, atom.arguments)
           f == atom.constructor
           s == schema.functions[f].output
<1>1. Egglog!Making(state, atom).g =
        IF f = Disjoint THEN Egglog!Disjoined(state.g, children[1], children[2])
        ELSE Added(state.g, f, children, s)
  BY EgglogAdds DEF Egglog!Making
<1>2. CASE f = Disjoint
  <2> HIDE DEF children
  <2> QED  BY <1>1, <1>2, DisjoinedEvolves
<1>3. CASE f # Disjoint
  <2>1. DOMAIN children = DOMAIN atom.arguments
    BY DEF Egglog!Values
  <2>2. f \in DOMAIN schema.functions /\ DOMAIN children = DOMAIN schema.functions[f].inputs
    BY <1>3, <2>1 DEF AtomWellTyped
  <2>3. s \in Sorting
    BY <2>2 DEF Sorting
  <2> HIDE DEF children, s, f
  <2> QED  BY <1>1, <1>3, <2>2, <2>3, AddedEvolves
<1> QED  BY <1>2, <1>3

LEMMA MadeEvolves ==
  ASSUME FunctionsWellTyped(schema), NEW g, Coherent(g), NEW binding,
         NEW make, AtomsWellTyped(schema, make)
  PROVE  Evolves(g, Egglog!MadeRows(g, binding, make).g)
<1> DEFINE base == [g |-> g, binding |-> binding]
           D == DOMAIN make
<1>0. PICK p : p = [from |-> g, make |-> make]
  OBVIOUS
<1>1. p.from = g /\ p.make = make
  BY <1>0
<1>2. Egglog!MadeRows(g, binding, make) = Makes!Fold(p, base, D)
  BY <1>1 DEF Egglog!MadeRows, Egglog!FoldLeft, Egglog!MapThenFoldSet, Egglog!Max,
              Makes!Fold, MakeOne, LastOf
<1>3. MadeFrom(p, base)
  BY <1>1, EvolvesNot DEF MadeFrom
<1>4. IsList(make) /\ \A i \in D : AtomWellTyped(schema, make[i])
  BY ListPlaces DEF AtomsWellTyped, IsList
<1>5. ASSUME NEW i \in D, NEW state, MadeFrom(p, state)
      PROVE  MadeFrom(p, MakeOne(p, i, state))
  <2>1. Evolves(g, state.g) /\ Coherent(state.g)
    BY <1>1, <1>5 DEF MadeFrom, Evolves, Grows
  <2>2. Evolves(state.g, MakeOne(p, i, state).g)
    BY <1>1, <1>4, <2>1, MakingEvolves DEF MakeOne
  <2> QED  BY <1>1, <2>1, <2>2, EvolvesOn DEF MadeFrom
<1>6. IsFiniteSet(D) /\ \A s \in SUBSET D : s # {} => LastOf(s) \in s
  BY <1>4, ListPlaces, LastPlace
<1> HIDE DEF base
<1>7. MadeFrom(p, Makes!Fold(p, base, D))
  <2> HIDE DEF D
  <2>1. Makes!NatInducts /\ Makes!Sized(D)
    BY <1>6, FoldsInduct, FiniteSized
       DEF Rebuilding!NatInducts, Makes!NatInducts, Rebuilding!Sized, Makes!Sized,
           Rebuilding!Sizes, Makes!Sizes
  <2> QED  BY <1>3, <1>5, <1>6, <2>1, Makes!FoldGood
<1> QED  BY <1>1, <1>2, <1>7 DEF MadeFrom

LEMMA JoinsOK ==
  ASSUME NEW binding, NEW unions, IsFiniteSet(unions)
  PROVE  PairsOK(Egglog!Joins(binding, unions))
<1> DEFINE join == [pair \in unions |-> {binding[pair[1]], binding[pair[2]]}]
<1>1. Egglog!Joins(binding, unions) = {join[pair] : pair \in unions}
  BY DEF Egglog!Joins
<1>2. \A pair \in unions : \E a, b : join[pair] = {a, b}
  OBVIOUS
<1> HIDE DEF join
<1>3. IsFiniteSet({join[pair] : pair \in unions})
  BY FiniteImage
<1> QED  BY <1>1, <1>2, <1>3 DEF PairsOK

\* An action of an update.
LEMMA ActionEvolves ==
  ASSUME FunctionsWellTyped(schema), NEW g, Coherent(g), NEW binding,
         NEW make, AtomsWellTyped(schema, make), NEW unions, IsFiniteSet(unions), NEW age
  PROVE  LET made == Egglog!MadeRows(g, binding, make)
         IN Evolves(g, Egglog!Merged(made.g, Egglog!Joins(made.binding, unions), age))
<1> DEFINE made == Egglog!MadeRows(g, binding, make)
           joins == Egglog!Joins(made.binding, unions)
<1>1. Evolves(g, made.g)
  BY MadeEvolves
<1> HIDE DEF made
<1>2. PairsOK(joins)
  BY JoinsOK
<1> HIDE DEF joins
<1>3. Coherent(made.g)
  BY <1>1 DEF Evolves, Grows
<1>4. Evolves(made.g, Egglog!Merged(made.g, joins, age))
  BY <1>2, <1>3, MergedEvolves
<1>5. Evolves(g, Egglog!Merged(made.g, joins, age))
  BY <1>1, <1>4, EvolvesOn
<1> QED  BY <1>5 DEF made, joins

\* Several matches of one rule.
FireOne(p, m, state) == Egglog!Fired(p.rule, m, state)
FiredFrom(p, state) == Evolves(p.from, state.g) /\ PairsOK(state.joins)
Fires == INSTANCE FoldLemmas WITH Step <- FireOne, Pick <- AnyOf, Good <- FiredFrom

LEMMA AppliedEvolves ==
  ASSUME FunctionsWellTyped(schema), NEW g, Coherent(g), NEW rule, RuleOK(rule),
         NEW matches, IsFiniteSet(matches), NEW age
  PROVE  Evolves(g, Egglog!Applied(g, rule, matches, age))
<1> DEFINE base == [g |-> g, joins |-> {}]
           made == Fires!Fold([from |-> g, rule |-> rule], base, matches)
<1>0. PICK p : p = [from |-> g, rule |-> rule]
  OBVIOUS
<1>1. p.from = g /\ p.rule = rule
  BY <1>0
<1>2. Egglog!Applied(g, rule, matches, age) = Egglog!Merged(made.g, made.joins, age)
  BY DEF Egglog!Applied, Egglog!FoldSet, Egglog!MapThenFoldSet, Fires!Fold, FireOne, AnyOf
<1>3. FiredFrom(p, base)
  BY <1>1, EvolvesNot, FS_EmptySet DEF FiredFrom, PairsOK
<1>4. ASSUME NEW m \in matches, NEW state, FiredFrom(p, state)
      PROVE  FiredFrom(p, FireOne(p, m, state))
  <2> DEFINE done == Egglog!MadeRows(state.g, m, rule.make)
             joins == Egglog!Joins(done.binding, rule.unions)
  <2>1. Evolves(g, state.g) /\ Coherent(state.g) /\ PairsOK(state.joins)
    BY <1>1, <1>4 DEF FiredFrom, Evolves, Grows
  <2>2. Evolves(state.g, done.g)
    BY <2>1, MadeEvolves DEF RuleOK
  <2>3. FireOne(p, m, state) = [g |-> done.g, joins |-> state.joins \cup joins]
    BY <1>1 DEF FireOne, Egglog!Fired
  <2> HIDE DEF done
  <2>4. PairsOK(joins)
    BY JoinsOK DEF RuleOK
  <2> HIDE DEF joins
  <2>5. PairsOK(state.joins \cup joins)
    BY <2>1, <2>4, FS_Union DEF PairsOK
  <2>6. Evolves(g, done.g)
    BY <2>1, <2>2, EvolvesOn
  <2> QED  BY <1>1, <2>3, <2>5, <2>6 DEF FiredFrom
<1>5. \A s \in SUBSET matches : s # {} => AnyOf(s) \in s
  BY DEF AnyOf
<1>6. Fires!NatInducts /\ Fires!Sized(matches)
  BY FoldsInduct, FiniteSized
     DEF Rebuilding!NatInducts, Fires!NatInducts, Rebuilding!Sized, Fires!Sized,
         Rebuilding!Sizes, Fires!Sizes
<1> HIDE DEF base
<1>7. FiredFrom(p, made)
  BY <1>0, <1>3, <1>4, <1>5, <1>6, Fires!FoldGood
<1> HIDE DEF made
<1>8. Evolves(g, made.g) /\ Coherent(made.g) /\ PairsOK(made.joins)
  BY <1>1, <1>7 DEF FiredFrom, Evolves, Grows
<1>9. Evolves(made.g, Egglog!Merged(made.g, made.joins, age))
  BY <1>8, MergedEvolves
<1> QED  BY <1>2, <1>8, <1>9, EvolvesOn

----------------------------------------------------------------------------
(* `materialize_context` makes rows and marks of a known kind.             *)

MarksOK(marks) == \A x \in marks : x.change \in {"Target", "Terminal", "Constructor"}

\* There are finitely many values of an expression.
LEMMA ValuesFinite ==
  ASSUME MapsOK, EGraphOK, IndexOK, NEW e
  PROVE  /\ IsFiniteSet(Walk!Values(e))
         /\ \A v \in Walk!Values(e) : Canonical(egraph, v) \in Index!Value
<1>1. \A v \in Walk!Values(e) : Canonical(egraph, v) \in Index!Value
  <2>1. ASSUME NEW v \in Index!Values(e)
        PROVE  Canonical(egraph, v) \in Index!Value
    <3>1. PICK f \in closure : f.fact = "Produces" /\ f.value = v
      BY DEF Index!Values
    <3> QED  BY <3>1, ClosureTyped DEF IndexOK
  <2> QED  BY <2>1, WalkReads
<1>2. Walk!Values(e) \subseteq DOMAIN egraph.find \cup Index!Value
  BY <1>1 DEF Canonical
<1>3. IsFiniteSet(DOMAIN egraph.find) /\ IsFiniteSet(Index!Value)
  BY FiniteValues DEF EGraphOK, EGraphWellTyped, Coherent
<1>4. IsFiniteSet(DOMAIN egraph.find \cup Index!Value)
  BY <1>3, FS_Union
<1> QED  BY <1>1, <1>2, <1>4, FS_Subset

LEMMA ContextValuesFinite ==
  ASSUME MapsOK, EGraphOK, IndexOK, NEW child, NEW hole
  PROVE  /\ IsFiniteSet(Walk!ContextValues(child, hole))
         /\ \A v \in Walk!ContextValues(child, hole) :
              Canonical(egraph, v) \in Index!Value \cup {Canonical(egraph, hole)}
<1>1. CASE child = Walk!Hole
  <2>1. IsFiniteSet({hole} \ {Walk!NoValue})
    BY FS_Singleton, FS_Subset
  <2> QED  BY <1>1, <2>1 DEF Walk!ContextValues
<1>2. CASE child # Walk!Hole
  BY <1>2, ValuesFinite DEF Walk!ContextValues
<1> QED  BY <1>1, <1>2

\* There are finitely many combinations of arguments.
LEMMA ChoicesFinite ==
  ASSUME MapsOK, EGraphOK, IndexOK, NEW c, NEW hole, IsFiniteSet(DOMAIN Index!ContextChildren(c))
  PROVE  LET combinations == Walk!Products(Walk!ArgumentChoices(c, hole)) IN
         /\ IsFiniteSet(combinations)
         /\ \A vs \in combinations : DOMAIN vs = DOMAIN Index!ContextChildren(c)
<1> DEFINE children == Index!ContextChildren(c)
           choices == Walk!ArgumentChoices(c, hole)
           V == Index!Value \cup {Canonical(egraph, hole), NoValue}
           inputs == schema.constructors[Walk!ContextAction(c).constructor].inputs
           Suitable(a) == {Walk!Canonical(egraph, v) :
             v \in {x \in Walk!ContextValues(children[a], hole) : x.sort = inputs[a]}}
<1>1. choices = [a \in DOMAIN children |->
                   IF Suitable(a) = {} THEN {Walk!NoValue} ELSE Suitable(a)]
  BY WalkReads DEF Walk!ArgumentChoices
<1>2. ASSUME NEW a \in DOMAIN children PROVE Suitable(a) \subseteq V
  BY ContextValuesFinite, WalkAdds
<1> HIDE DEF Suitable, children
<1>3. DOMAIN choices = DOMAIN children /\ \A a \in DOMAIN children : choices[a] \subseteq V
  BY <1>1, <1>2, WalkReads
<1> HIDE DEF choices, V
<1>4. Walk!Products(choices) \subseteq [DOMAIN children -> V]
  <2>1. UNION {choices[a] : a \in DOMAIN choices} \subseteq V
    BY <1>3
  <2>2. \A vs \in Walk!Products(choices) :
          vs \in [DOMAIN children -> UNION {choices[a] : a \in DOMAIN choices}]
    BY <1>3 DEF Walk!Products
  <2> QED  BY <2>1, <2>2
<1>5. IsFiniteSet(V)
  <2>1. IsFiniteSet({Canonical(egraph, hole)}) /\ IsFiniteSet({NoValue})
    BY FS_Singleton
  <2>2. IsFiniteSet(Index!Value \cup ({Canonical(egraph, hole)} \cup {NoValue}))
    BY <2>1, FiniteValues, FS_Union
  <2>3. V = Index!Value \cup ({Canonical(egraph, hole)} \cup {NoValue})
    BY DEF V
  <2> QED  BY <2>2, <2>3
<1>6. IsFiniteSet([DOMAIN children -> V])
  BY <1>5, FiniteFunctions DEF children
<1>7. IsFiniteSet(Walk!Products(choices))
  BY <1>4, <1>6, FS_Subset
<1> QED  BY <1>4, <1>7 DEF children, choices

LEMMA OutputsFinite ==
  ASSUME NEW g, Coherent(g), NEW values, \A v \in values : \E r \in g.rows : v = r.output
  PROVE  IsFiniteSet(values)
<1> DEFINE output == [r \in g.rows |-> r.output]
<1>1. IsFiniteSet(g.rows)
  BY DEF Coherent
<1>2. values \subseteq {output[r] : r \in g.rows}
  OBVIOUS
<1> HIDE DEF output
<1>3. IsFiniteSet({output[r] : r \in g.rows})
  BY <1>1, FiniteImage
<1> QED  BY <1>2, <1>3, FS_Subset

LEMMA OutputsOfRows ==
  ASSUME NEW g
  PROVE  /\ \A c, vs : \A v \in Walk!Outputs(g, c, vs) : \E r \in g.rows : v = r.output
         /\ \A c : \A v \in Walk!NullaryValue(g, c) : \E r \in g.rows : v = r.output
<1>1. \A c, vs : \A v \in Walk!Outputs(g, c, vs) : \E r \in g.rows : v = r.output
  BY DEF Walk!Outputs, Walk!Applications
<1> QED  BY <1>1 DEF Walk!NullaryValue

\* One combination after the other.
CombineOne(p, vs, made) == Walk!Combined(made, p.context, vs)
CombinedFrom(p, made) ==
  /\ Evolves(p.from, made.g)
  /\ IsFiniteSet(made.outputs)
  /\ MarksOK(made.marks)
Combines == INSTANCE FoldLemmas WITH Step <- CombineOne, Pick <- AnyOf, Good <- CombinedFrom

\* What one of them adds.
LEMMA MadeMore ==
  ASSUME NEW p, NEW made, CombinedFrom(p, made), NEW g, Evolves(made.g, g),
         NEW outputs, \A v \in outputs : \E r \in g.rows : v = r.output,
         NEW marks, MarksOK(marks)
  PROVE  CombinedFrom(p, Walk!Made(made, g, outputs, marks))
<1>1. Walk!Made(made, g, outputs, marks)
        = [g |-> g, outputs |-> made.outputs \cup outputs, marks |-> made.marks \cup marks]
  BY DEF Walk!Made
<1>2. Evolves(p.from, g)
  BY EvolvesOn DEF CombinedFrom
<1>3. IsFiniteSet(outputs)
  BY OutputsFinite DEF Evolves, Grows
<1>4. IsFiniteSet(made.outputs \cup outputs) /\ MarksOK(made.marks \cup marks)
  BY <1>3, FS_Union DEF CombinedFrom, MarksOK
<1> QED  BY <1>1, <1>2, <1>4 DEF CombinedFrom

LEMMA CombineKeeps ==
  ASSUME FunctionsWellTyped(schema), GuaranteesOK(guarantees),
         NEW c, Walk!ContextAction(c).constructor \in DOMAIN schema.constructors,
         NEW vs, DOMAIN vs = DOMAIN schema.constructors[Walk!ContextAction(c).constructor].inputs,
         NEW p, NEW made, CombinedFrom(p, made)
  PROVE  CombinedFrom(p, Walk!Combined(made, c, vs))
<1> DEFINE k == Walk!ContextAction(c).constructor
           s == schema.constructors[k].output
           matching == Walk!Matching(made.g, guarantees, k, vs)
<1>1. Coherent(made.g) /\ Evolves(made.g, made.g)
  BY EvolvesNot DEF CombinedFrom, Evolves, Grows
<1>2. /\ k \in DOMAIN schema.functions /\ s \in Sorting
      /\ DOMAIN vs = DOMAIN schema.functions[k].inputs
  BY DEF FunctionsWellTyped, Sorting
<1>3. MarksOK({}) /\ (\A x : MarksOK({Walk!ConstructorMark(x)})) /\ MarksOK(Walk!RowMarks(k))
  BY DEF MarksOK, Walk!RowMarks, Walk!ConstructorMark, Walk!TerminalMarks
<1>4. CombinedFrom(p, Walk!Applied(made, k, vs))
  <2> DEFINE g == Walk!Added(made.g, k, vs, s)
             marks == IF g = made.g THEN {} ELSE Walk!RowMarks(k)
  <2>1. Evolves(made.g, g)
    <3> HIDE DEF k, s
    <3> QED  BY <1>1, <1>2, WalkAdds, AddedEvolves
  <2>2. Walk!Applied(made, k, vs) = Walk!Made(made, g, Walk!Outputs(g, k, vs), marks)
    BY DEF Walk!Applied
  <2>3. MarksOK(marks)
    BY <1>3
  <2>4. \A v \in Walk!Outputs(g, k, vs) : \E r \in g.rows : v = r.output
    BY OutputsOfRows
  <2> HIDE DEF g, marks, k, s
  <2>5. CombinedFrom(p, Walk!Made(made, g, Walk!Outputs(g, k, vs), marks))
    BY <2>1, <2>3, <2>4, MadeMore
  <2> QED  BY <2>2, <2>5
<1>5. CASE matching # {}
  <2> DEFINE outputs == Walk!GuaranteedOutputs(made.g, guarantees, matching)
             output == guarantees[Walk!Min(matching)].output
             g == Walk!Added(made.g, output, <<>>, s)
             marks == IF output \in DOMAIN schema.constructors /\ g # made.g
                        THEN {Walk!ConstructorMark(output)} ELSE {}
  <2>1. CombinedFrom(p, Walk!Made(made, made.g, outputs, {}))
    <3>1. \A v \in outputs : \E r \in made.g.rows : v = r.output
      BY OutputsOfRows DEF Walk!GuaranteedOutputs
    <3> HIDE DEF outputs
    <3> QED  BY <1>1, <1>3, <3>1, MadeMore
  <2>2. FunctionNullary(output)
    <3>1. matching \subseteq DOMAIN guarantees
      BY DEF Walk!Matching
    <3>2. DOMAIN guarantees \in SUBSET Nat
      BY ListPlaces DEF GuaranteesOK
    <3> HIDE DEF matching
    <3>3. \E n \in matching : \A m \in matching : n <= m
      BY <1>5, <3>1, <3>2, NatLeast
    <3>4. Walk!Min(matching) \in matching
      BY <3>3 DEF Walk!Min
    <3>5. guarantees[Walk!Min(matching)] \in Range(guarantees)
      BY <3>1, <3>4 DEF Range
    <3> QED  BY <3>5 DEF GuaranteesOK
  <2>3. Evolves(made.g, g)
    <3>1. output \in DOMAIN schema.functions /\ DOMAIN <<>> = DOMAIN schema.functions[output].inputs
      BY <2>2, ListEmpty DEF FunctionNullary
    <3> HIDE DEF output, s, k
    <3> QED  BY <1>1, <1>2, <3>1, WalkAdds, AddedEvolves
  <2>4. Walk!Promised(made, k, output) = Walk!Made(made, g, Walk!NullaryValue(g, output), marks)
    BY DEF Walk!Promised
  <2>5. MarksOK(marks)
    BY <1>3
  <2>6. Walk!Guaranteed(made, k, matching) = IF outputs # {} THEN Walk!Made(made, made.g, outputs, {})
                                             ELSE Walk!Promised(made, k, output)
    BY DEF Walk!Guaranteed
  <2> HIDE DEF g, marks, output
  <2>7. CombinedFrom(p, Walk!Promised(made, k, output))
    BY <2>3, <2>4, <2>5, OutputsOfRows, MadeMore
  <2> HIDE DEF outputs, matching
  <2>8. CombinedFrom(p, Walk!Guaranteed(made, k, matching))
    BY <2>1, <2>6, <2>7
  <2>9. Walk!Combined(made, c, vs)
          \in {Walk!Applied(made, k, vs), Walk!Guaranteed(made, k, matching)}
    BY <1>5 DEF Walk!Combined, matching
  <2> QED  BY <1>4, <2>8, <2>9
<1>6. CASE matching = {}
  <2> DEFINE found == Walk!Made(made, made.g, Walk!Outputs(made.g, k, vs), {})
  <2>1. CombinedFrom(p, found)
    <3>1. \A v \in Walk!Outputs(made.g, k, vs) : \E r \in made.g.rows : v = r.output
      BY OutputsOfRows
    <3> HIDE DEF k
    <3> QED  BY <1>1, <1>3, <3>1, MadeMore DEF found
  <2>2. Walk!Combined(made, c, vs) \in {Walk!Applied(made, k, vs), found, made}
    BY <1>6 DEF Walk!Combined
  <2> HIDE DEF found, k
  <2> QED  BY <1>4, <2>1, <2>2
<1> QED  BY <1>5, <1>6

\* `materialize_context`
LEMMA ContextEvolves ==
  ASSUME ParserOK, EGraphOK, IndexOK, GuaranteesOK(guarantees),
         NEW c \in DOMAIN contexts, contexts[c].tag = "Seq", NEW hole
  PROVE  LET made == Walk!MaterializedContext(c, hole) IN
         Evolves(egraph, made.g) /\ IsFiniteSet(made.outputs) /\ MarksOK(made.marks)
<1> DEFINE action == Index!ContextAction(c)
           children == Index!ContextChildren(c)
           combinations == Walk!Products(Walk!ArgumentChoices(c, hole))
           nothing == [g |-> egraph, outputs |-> {}, marks |-> {}]
           made == Walk!MaterializedContext(c, hole)
<1>0. PICK p : p = [from |-> egraph, context |-> c]
  OBVIOUS
<1>1. MapsOK /\ Coherent(egraph) /\ FunctionsWellTyped(schema) /\ Walk!ContextAction(c) = action
  BY MapsTyped, FunctionsOK, WalkReads DEF EGraphOK, EGraphWellTyped
<1>2. ActionOK(action) /\ DOMAIN children = DOMAIN action.positions
  BY <1>1 DEF MapsOK, Index!ContextChildren
<1>3. CombinedFrom(p, nothing) /\ p.from = egraph /\ p.context = c
  BY <1>0, <1>1, EvolvesNot, FS_EmptySet DEF CombinedFrom, MarksOK
<1>4. CASE action.constructor = None
  <2> DEFINE outputs == Walk!ContextValues(Head(children), hole)
  <2>1. made = [nothing EXCEPT !.outputs = outputs]
    BY <1>1, <1>4, WalkReads DEF Walk!MaterializedContext
  <2>2. made = [g |-> egraph, outputs |-> outputs, marks |-> {}]
    BY <2>1
  <2>3. IsFiniteSet(outputs)
    BY <1>1, ContextValuesFinite
  <2> QED  BY <1>1, <2>2, <2>3, EvolvesNot DEF MarksOK
<1>5. CASE action.constructor # None
  <2>1. action.constructor \in DOMAIN schema.constructors
        /\ DOMAIN children = DOMAIN schema.constructors[action.constructor].inputs
    BY <1>2, <1>5 DEF ActionOK
  <2>2. IsFiniteSet(DOMAIN children)
    BY <1>1, <2>1 DEF FunctionsWellTyped
  <2>3. IsFiniteSet(combinations) /\ \A vs \in combinations : DOMAIN vs = DOMAIN children
    BY <1>1, <2>2, ChoicesFinite
  <2>4. ASSUME NEW vs \in combinations, NEW h, CombinedFrom(p, h)
        PROVE  CombinedFrom(p, CombineOne(p, vs, h))
    <3>1. DOMAIN vs = DOMAIN schema.constructors[Walk!ContextAction(c).constructor].inputs
      BY <1>1, <2>1, <2>3
    <3>2. CombinedFrom(p, Walk!Combined(h, c, vs))
      BY <1>1, <2>1, <2>4, <3>1, CombineKeeps
    <3> QED  BY <1>3, <3>2 DEF CombineOne
  <2>5. \A s \in SUBSET combinations : s # {} => AnyOf(s) \in s
    BY DEF AnyOf
  <2>6. made \in {nothing, Combines!Fold(p, nothing, combinations)}
    BY <1>1, <1>3, <1>5, WalkReads
       DEF Walk!MaterializedContext, Walk!FoldSet, Walk!MapThenFoldSet, Combines!Fold,
           CombineOne, AnyOf
  <2> HIDE DEF nothing, combinations, made
  <2>7. CombinedFrom(p, Combines!Fold(p, nothing, combinations))
    <3>1. Combines!NatInducts /\ Combines!Sized(combinations)
      BY <2>3, FoldsInduct, FiniteSized
         DEF Rebuilding!NatInducts, Combines!NatInducts, Rebuilding!Sized, Combines!Sized,
             Rebuilding!Sizes, Combines!Sizes
    <3> QED  BY <1>3, <2>4, <2>5, <3>1, Combines!FoldGood
  <2>8. CombinedFrom(p, made)
    BY <1>3, <2>6, <2>7
  <2> QED  BY <1>3, <2>8 DEF CombinedFrom, made
<1> QED  BY <1>4, <1>5

----------------------------------------------------------------------------
(* The inductive invariant.                                                *)

\* The changes still to be told are in the maps.
LogOK == IsList(log) /\ Range(log) \subseteq GraphLog

ProgramOK == RulesOK(rules) /\ GuaranteesOK(guarantees)

ScheduleOK ==
  /\ \A m \in taken : m[1] \in DOMAIN rules
  /\ \A key \in DOMAIN selected : selected[key] \in 1 .. MaxMatches

TurnOK ==
  /\ turn = [todo |-> turn.todo, focus |-> turn.focus, updated |-> turn.updated,
             deferred |-> turn.deferred]
  /\ turn.todo \subseteq DOMAIN rules
  /\ turn # Egglog!NoTurn => call.at = "Step"

UpdateOK ==
  /\ update = [commands |-> update.commands, rules |-> update.rules,
               guarantees |-> update.guarantees, relevant_union |-> update.relevant_union,
               focus |-> update.focus]
  /\ CommandsOK(update.commands) /\ RulesOK(update.rules) /\ GuaranteesOK(update.guarantees)
  /\ update # Egglog!NoUpdate => call.at = "Commands"

\* What a walk has still to visit is there.
VisitOK(s) ==
  /\ s.step = "Expression" => s.expression \in DOMAIN expressions
  /\ s.step \in {"Context", "Cross"} => s.context \in DOMAIN contexts
  /\ s.step = "Cross" => contexts[s.context].tag = "Seq"

PlanOK(w) ==
  /\ w = [steps |-> w.steps, agenda |-> w.agenda, seen |-> w.seen,
          materialized |-> w.materialized, relevant |-> w.relevant, phase |-> w.phase]
  /\ IsList(w.steps) /\ \A s \in Range(w.steps) : VisitOK(s)
  /\ IsList(w.agenda) /\ \A x \in Range(w.agenda) : x.memo \in DOMAIN memos

WalkOK == PlanOK(walk) /\ (walk # Walk!NoWalk => call.at = "Walk")

\* Every call is at a place of its own; the parser works in one place only.
CallIs(c) ==
  /\ c = [kind |-> c.kind, at |-> c.at, after |-> c.after,
          changes |-> c.changes, moved |-> c.moved, updated |-> c.updated]
  /\ c.kind \in {"None", "New", "Push", "Update"} /\ c.at \in Places
  /\ c.at = "Idle" <=> c.kind = "None"
  /\ c.at = "Derive" => c.kind = "Push"
  /\ c.at \in {"Flush", "Apply"} => c.after \in {"Walked", "Turned", "Updated"}
  /\ MarksOK(c.changes)

CallOK == CallIs(call) /\ (call.at # "Derive" => Parser!Idle /\ operations = <<>>)

\* The last answer still holds, but while a token is read.
VerdictOK ==
  /\ verdict \in Promise!Answer \cup {"none"}
  /\ verdict = "none" <=> call.kind = "New"
  /\ call.kind = "Push" => verdict # "dead"
  /\ call.kind \in {"None", "Update"} => /\ verdict = "dead" <=> zippers = <<>>
                                         /\ verdict = "true" => Index!IsRealizable

PartsOK == ParserOK /\ EGraphOK /\ IndexOK

MonitorInv ==
  /\ PartsOK /\ LogOK /\ ProgramOK /\ ScheduleOK /\ MarksOK(pending)
  /\ TurnOK /\ UpdateOK /\ WalkOK /\ CallOK /\ VerdictOK

----------------------------------------------------------------------------
(* What a step does to parser, index and e-graph.                          *)

ParseStep == Parse \/ Parsed \/ \E t \in Tokens : Push(t)
IndexStep == Tell \/ Close \/ Apply
ExpressionStep ==
  /\ UNCHANGED parser
  /\ \E e \in DOMAIN expressions : Index!MaterializeExpression(e)
EvolvingStep == UNCHANGED <<parser, link>> /\ Evolves(egraph, egraph')

\* A walk makes what the schema allows.
LEMMA WalkSteps ==
  ASSUME PartsOK, ProgramOK, WalkOK, WalkOn
  PROVE  ExpressionStep \/ EvolvingStep
<1>1. ParserOK /\ EGraphOK /\ IndexOK /\ Coherent(egraph) /\ GuaranteesOK(guarantees)
  BY DEF PartsOK, EGraphOK, EGraphWellTyped, ProgramOK
<1>2. UNCHANGED parser
  BY DEF WalkOn
<1>3. (UNCHANGED <<egraph, Walk!linking>>) <=> (UNCHANGED <<egraph, link>>)
  BY DEF Walk!linking, link
<1>4. CASE UNCHANGED <<egraph, link>>
  BY <1>1, <1>2, <1>4, EvolvesNot DEF EvolvingStep
<1>5. ASSUME NEW step, Walk!Facing(step)
      PROVE  Head(walk.steps).step = step /\ VisitOK(Head(walk.steps))
  BY <1>5, ListTail DEF WalkOK, PlanOK, Walk!Facing
<1>6. CASE Walk!TakeExpression
  <2> DEFINE e == Head(walk.steps).expression
  <2>1. e \in DOMAIN expressions
    BY <1>5, <1>6 DEF Walk!TakeExpression, VisitOK
  <2>2. Walk!MaterializeExpression(e) \/ UNCHANGED <<egraph, link>>
    BY <1>3, <1>6 DEF Walk!TakeExpression
  <2> HIDE DEF e
  <2> QED  BY <1>2, <1>4, <2>1, <2>2, WalkMaterializes DEF ExpressionStep
<1>7. CASE Walk!TakeContext
  BY <1>3, <1>4, <1>7 DEF Walk!TakeContext
<1>8. ASSUME Walk!Facing("Cross"), Walk!CrossContext(Walk!Crossing)
      PROVE  EvolvingStep
  <2> DEFINE c == Head(walk.steps).context
  <2>1. c \in DOMAIN contexts /\ contexts[c].tag = "Seq"
    BY <1>5, <1>8 DEF VisitOK
  <2>2. PICK hole : hole = Head(walk.steps).value
    OBVIOUS
  <2>3. egraph' = Walk!MaterializedContext(c, hole).g /\ UNCHANGED link
    BY <1>8, <2>2 DEF Walk!CrossContext, Walk!Crossing, Walk!linking, link
  <2> HIDE DEF c
  <2> QED  BY <1>1, <1>2, <2>1, <2>3, ContextEvolves DEF EvolvingStep
<1> QED  BY <1>4, <1>6, <1>7, <1>8 DEF WalkOn

\* So do rules and updates.
LEMMA ProgramSteps ==
  ASSUME PartsOK, ProgramOK, TurnOK, UpdateOK, StepRule \/ RunCommand
  PROVE  EvolvingStep
<1>1. ParserOK /\ Coherent(egraph) /\ FunctionsWellTyped(schema)
  BY FunctionsOK DEF PartsOK, EGraphOK, EGraphWellTyped
<1>2. UNCHANGED <<parser, link>>
  BY DEF StepRule, RunCommand
<1>3. CASE UNCHANGED egraph
  BY <1>1, <1>2, <1>3, EvolvesNot DEF EvolvingStep
<1>4. CASE Egglog!StepSomeRule
  <2>0. PICK i \in turn.todo : \E matches \in Egglog!Batches(i) : \E age \in Egglog!Ages :
          Egglog!StepRule(i, matches, Egglog!Applied(egraph, rules[i], matches, age))
    BY <1>4 DEF Egglog!StepSomeRule
  <2>1. PICK matches \in Egglog!Batches(i), age \in Egglog!Ages :
          Egglog!StepRule(i, matches, Egglog!Applied(egraph, rules[i], matches, age))
    BY <2>0
  <2>2. egraph' = Egglog!Applied(egraph, rules[i], matches, age)
    BY <2>1 DEF Egglog!StepRule
  <2>3. IsFiniteSet(matches)
    BY DEF Egglog!Batches, Egglog!Within, Egglog!IsFiniteSet, IsFiniteSet
  <2>4. RuleOK(rules[i])
    <3>1. i \in DOMAIN rules
      BY DEF TurnOK
    <3> QED  BY <3>1, ListPlaces DEF ProgramOK, RulesOK
  <2> QED  BY <1>1, <1>2, <2>2, <2>3, <2>4, AppliedEvolves DEF EvolvingStep
<1>5. CASE RunCommand /\ ~UNCHANGED egraph
  <2> DEFINE command == Head(update.commands)
  <2>1. CommandWellTyped(schema, command)
    BY <1>5, ListTail DEF RunCommand, Egglog!RunCommand, UpdateOK, CommandsOK
  <2>2. /\ command.command = "Act"
        /\ \E made \in {Egglog!MadeRows(egraph, command.literals, command.make)} :
             \E age \in Egglog!Ages : Egglog!RunAction(made, command.unions, age)
    BY <1>5 DEF RunCommand, Egglog!RunCommand
  <2>3. AtomsWellTyped(schema, command.make) /\ IsFiniteSet(command.unions)
    BY <2>1, <2>2 DEF CommandWellTyped
  <2> HIDE DEF command
  <2>4. PICK made, age : /\ made = Egglog!MadeRows(egraph, command.literals, command.make)
                         /\ egraph' = Egglog!Merged(made.g, Egglog!Joins(made.binding, command.unions), age)
    BY <2>2 DEF Egglog!RunAction
  <2>5. Evolves(egraph, egraph')
    BY <1>1, <2>3, <2>4, ActionEvolves
  <2> QED  BY <1>2, <2>5 DEF EvolvingStep
<1> QED  BY <1>3, <1>4, <1>5 DEF StepRule, Egglog!SkipRule

\* The target is looked up again.
LEMMA RenewSteps ==
  ASSUME PartsOK, Flush \/ EndTurn
  PROVE  EvolvingStep
<1>1. Coherent(egraph) /\ UNCHANGED <<parser, link>>
  BY DEF PartsOK, EGraphOK, EGraphWellTyped, Flush, EndTurn
<1>2. egraph' = [egraph EXCEPT !.target = Canonical(egraph, @)]
  BY EgglogAdds DEF Flush, EndTurn, Egglog!Flush, Egglog!EndTurn, Egglog!Renewed
<1>3. Grows(egraph, egraph, Sorting, Shaping)
  BY <1>1, GrowsNot
<1> QED  BY <1>1, <1>2, <1>3, Retargeted DEF EvolvingStep, Evolves

\* Every step is one of these.
LEMMA StepKinds ==
  ASSUME PartsOK, ProgramOK, WalkOK, TurnOK, UpdateOK, [Next]_vars
  PROVE  ParseStep \/ IndexStep \/ ExpressionStep \/ EvolvingStep
<1>1. Coherent(egraph)
  BY DEF PartsOK, EGraphOK, EGraphWellTyped
<1>2. CASE UNCHANGED <<parser, link, egraph>>
  BY <1>1, <1>2, EvolvesNot DEF EvolvingStep
<1>3. AnswerEarly \/ FixedDone \/ FocusDone \/ AfterWalk \/ BeginTurn \/ TurnFails \/ AfterTurn
        \/ EndUpdate \/ Rest \/ (\E commands \in grammar.updates : Update(commands))
        \/ UNCHANGED vars => UNCHANGED <<parser, link, egraph>>
  BY DEF AnswerEarly, FixedDone, FocusDone, AfterWalk, BeginTurn, TurnFails, AfterTurn,
         EndUpdate, Rest, Update, vars
<1>4. CASE WalkOn
  BY <1>4, WalkSteps
<1>5. CASE StepRule \/ RunCommand
  BY <1>5, ProgramSteps
<1>6. CASE Flush \/ EndTurn
  BY <1>6, RenewSteps
<1> QED  BY <1>2, <1>3, <1>4, <1>5, <1>6 DEF Next, Progress, ParseStep, IndexStep

\* The parser runs only while a token is derived.
LEMMA ParseSteps ==
  ASSUME PartsOK, CallOK, ParseStep
  PROVE  /\ PartsOK' /\ GraphLog \subseteq GraphLog' /\ grammar' = grammar
         /\ UNCHANGED <<egraph, link>>
         /\ Parsed => Range(changes) \subseteq GraphLog'
<1>1. /\ Parser!Step \/ Parser!EndDerive \/ \E t \in Tokens : Parser!Derive(t)
      /\ UNCHANGED <<egraph, link>>
      /\ Parsed => Parser!EndDerive
  BY DEF ParseStep, Parse, Parsed, Push
<1>2. grammar' = grammar
  BY <1>1, ParserKeeps DEF PartsOK, ParserProofs!GraphGrows
<1> QED  BY <1>1, <1>2, ParserStepKeeps DEF PartsOK

LEMMA IndexSteps ==
  ASSUME PartsOK, LogOK, CallOK, IndexStep
  PROVE  PartsOK' /\ Stays /\ UNCHANGED parser /\ closure \subseteq closure'
<1>1. ParserOK /\ EGraphOK /\ IndexOK
  BY DEF PartsOK
<1>2. UNCHANGED parser /\ egraph' = egraph
  BY DEF IndexStep, Tell, Close, Apply
<1>3. Stays
  BY <1>2 DEF Stays, parser
<1>4. ParserOK'
  BY <1>1, <1>2, ParserKeeps
<1>5. EGraphOK'
  BY <1>1, <1>2 DEF EGraphOK, schema, parser
<1>6. CASE Tell
  <2>1. PICK told : told \subseteq GraphLog /\ Index!UpdatePwz(told)
    BY <1>6 DEF Tell, LogOK, GraphLog
  <2>2. IndexOK'
    BY <1>1, <1>3, <2>1, MapsTyped, TellKeeps
  <2>3. closure \subseteq closure'
    BY <2>1 DEF Index!UpdatePwz, Index!Insert, Index!InsertAbove
  <2> QED  BY <1>2, <1>3, <1>4, <1>5, <2>2, <2>3 DEF PartsOK
<1>7. CASE Close
  <2>1. agenda # <<>> /\ Head(agenda) # {}
    <3>1. agenda \in Seq(SUBSET closure) /\ \A i \in DOMAIN agenda : agenda[i] # {}
      BY <1>1 DEF IndexOK, AgendaOK, Stack
    <3> QED  BY <1>7, <3>1 DEF Close
  <2>2. PICK event \in Head(agenda) : Index!CloseEvent(event)
    BY <1>7, <2>1 DEF Close
  <2>3. IndexOK'
    BY <1>1, <1>3, <2>1, <2>2, MapsTyped, CloseKeeps
  <2>4. closure \subseteq closure'
    BY <2>2 DEF Index!CloseEvent, Index!InsertAbove
  <2> QED  BY <1>2, <1>3, <1>4, <1>5, <2>3, <2>4 DEF PartsOK
<1>8. CASE Apply
  <2>1. Index!UpdateEGraph(call.changes)
        /\ \A x \in call.changes : x.change \in {"Target", "Terminal", "Constructor"}
    BY <1>8 DEF Apply, CallOK, CallIs, MarksOK
  <2>2. IndexOK'
    BY <1>1, <1>3, <2>1, MapsTyped, ReportKeeps
  <2>3. closure \subseteq closure'
    BY <2>1 DEF Index!UpdateEGraph, Index!Insert, Index!InsertAbove
  <2> QED  BY <1>2, <1>3, <1>4, <1>5, <2>2, <2>3 DEF PartsOK
<1> QED  BY <1>6, <1>7, <1>8 DEF IndexStep

LEMMA GrowthSteps ==
  ASSUME PartsOK, ExpressionStep \/ EvolvingStep
  PROVE  /\ PartsOK' /\ GraphLog \subseteq GraphLog' /\ UNCHANGED parser
         /\ closure \subseteq closure' /\ Continues(egraph, egraph')
<1>1. ParserOK /\ EGraphOK /\ IndexOK
  BY DEF PartsOK
<1>2. CASE ExpressionStep
  <2>1. PICK e \in DOMAIN expressions : Index!MaterializeExpression(e)
    BY <1>2 DEF ExpressionStep
  <2> QED  BY <1>1, <1>2, <2>1, MaterializeKeeps DEF ExpressionStep, PartsOK, Moves
<1>3. CASE EvolvingStep
  <2>1. Allowed(Sorting, Shaping) /\ Grows(egraph, egraph', Sorting, Shaping)
        /\ UNCHANGED <<parser, link>>
    BY <1>1, <1>3, FunctionsOK DEF EvolvingStep, Evolves
  <2>2. ParserOK' /\ EGraphOK' /\ IndexOK' /\ Moves /\ GraphLog \subseteq GraphLog'
    BY <1>1, <2>1, GrowKeeps
  <2> QED  BY <2>1, <2>2 DEF PartsOK, Moves, link
<1> QED  BY <1>2, <1>3

\* Parser, index and e-graph stay well formed; outside the parser's steps, what
\* the index knows and what is equal only grow.
LEMMA PartsKeep ==
  ASSUME MonitorInv, [Next]_vars
  PROVE  /\ PartsOK' /\ GraphLog \subseteq GraphLog' /\ grammar' = grammar
         /\ \/ ParseStep
            \/ UNCHANGED parser /\ closure \subseteq closure' /\ Continues(egraph, egraph')
         /\ Parsed => Range(changes) \subseteq GraphLog'
<1>1. PartsOK /\ LogOK /\ ProgramOK /\ WalkOK /\ TurnOK /\ UpdateOK /\ CallOK
  BY DEF MonitorInv
<1>2. CASE ParseStep
  BY <1>1, <1>2, ParseSteps
<1>3. CASE IndexStep /\ ~ParseStep
  <2>1. PartsOK' /\ Stays /\ UNCHANGED parser /\ closure \subseteq closure'
    BY <1>1, <1>3, IndexSteps
  <2>2. GraphLog \subseteq GraphLog'
    BY <2>1, StaysGrows, LogGrows
  <2>3. Continues(egraph, egraph')
    BY <1>1, <2>1, GrowsNot DEF Stays, PartsOK, EGraphOK, EGraphWellTyped, Grows
  <2> QED  BY <1>3, <2>1, <2>2, <2>3 DEF Stays, ParseStep
<1>4. CASE (ExpressionStep \/ EvolvingStep) /\ ~ParseStep
  BY <1>1, <1>4, GrowthSteps DEF parser, ParseStep
<1> QED  BY <1>1, <1>2, <1>3, <1>4, StepKinds

----------------------------------------------------------------------------
(* What a step does to the call in progress.                               *)

\* A call returns with an answer that is true of what is known.
Returning ==
  /\ call' = NoCall /\ verdict' = Realizability /\ broken' \in {broken, TRUE}
  /\ UNCHANGED parser
  /\ call.at \notin {"Idle", "Derive"}

\* It goes on to some place, and nothing is answered yet.
GoingOn ==
  /\ UNCHANGED <<verdict, broken>> /\ call'.kind = call.kind
  /\ UNCHANGED parser \/ call.at = "Derive"

Pushing == UNCHANGED <<verdict, broken>> /\ \E t \in Tokens : Push(t)
Updating ==
  /\ UNCHANGED <<verdict, broken>> /\ UNCHANGED parser
  /\ Idle /\ call'.kind = "Update"

LEMMA CallSteps ==
  ASSUME CallOK, [Next]_vars
  PROVE  Returning \/ GoingOn \/ Pushing \/ Updating
<1>1. call = [kind |-> call.kind, at |-> call.at, after |-> call.after,
              changes |-> call.changes, moved |-> call.moved, updated |-> call.updated]
  BY DEF CallOK, CallIs
<1>2. ASSUME NEW answer \in {Realizability}, Return(answer), UNCHANGED parser,
             call.at \notin {"Idle", "Derive"}
      PROVE  Returning
  BY <1>2 DEF Return, Returning
<1>3. ASSUME ReturnBroken, UNCHANGED parser, call.at \notin {"Idle", "Derive"}
      PROVE  Returning
  BY <1>3 DEF ReturnBroken, Returning
<1>4. ASSUME NEW place, Goto(place) PROVE call'.kind = call.kind
  BY <1>1, <1>4 DEF Goto
<1>5. CASE Parse \/ Parsed
  <2>1. call.at = "Derive"
    <3>1. Parser!Step => operations # <<>>
      BY DEF Parser!Step, Parser!DownShared, Parser!DownEntered, Parser!FreshTok,
             Parser!FreshEmptySeq, Parser!FreshSeq, Parser!FreshAlt, Parser!Up, Parser!UpTop,
             Parser!UpLast, Parser!UpNext, Parser!UpPacked, Parser!UpFirst, Parser!Popped,
             Parser!Rising
    <3>2. Parser!EndDerive => ~Parser!Idle
      BY DEF Parser!EndDerive
    <3> QED  BY <1>5, <3>1, <3>2 DEF Parse, Parsed, CallOK
  <2>2. UNCHANGED <<verdict, broken>> /\ call'.kind = call.kind
    BY <1>4, <1>5 DEF Parse, Parsed, history
  <2> QED  BY <2>1, <2>2 DEF GoingOn
<1>6. CASE Tell \/ Close \/ Apply
  <2>1. UNCHANGED <<verdict, broken>> /\ call'.kind = call.kind
    BY <1>4, <1>6 DEF Tell, Close, Apply, history
  <2> QED  BY <1>6, <2>1 DEF Tell, Close, Apply, GoingOn
<1>7. CASE WalkOn \/ FixedDone \/ FocusDone \/ BeginTurn \/ StepRule \/ RunCommand
  <2>1. UNCHANGED <<verdict, broken>> /\ UNCHANGED parser
    BY <1>7 DEF WalkOn, FixedDone, FocusDone, BeginTurn, StepRule, RunCommand, history
  <2>2. call'.kind = call.kind
    BY <1>1, <1>4, <1>7 DEF WalkOn, FixedDone, FocusDone, BeginTurn, StepRule, RunCommand
  <2> QED  BY <2>1, <2>2 DEF GoingOn
<1>8. CASE AnswerEarly
  <2>1. UNCHANGED parser /\ call.at \notin {"Idle", "Derive"}
    BY <1>8 DEF AnswerEarly, At
  <2>2. ASSUME Synchronize(NewExpressions) PROVE GoingOn
    BY <1>1, <2>1, <2>2 DEF Synchronize, GoingOn, history
  <2> QED  BY <1>2, <1>8, <2>1, <2>2 DEF AnswerEarly
<1>9. CASE AfterWalk
  <2>1. UNCHANGED parser /\ call.at \notin {"Idle", "Derive"}
    BY <1>9 DEF AfterWalk, At
  <2>2. ASSUME Goto("Turn"), UNCHANGED <<log, history>> PROVE GoingOn
    BY <1>4, <2>1, <2>2 DEF GoingOn, history
  <2> QED  BY <1>2, <1>9, <2>1, <2>2 DEF AfterWalk
<1>10. CASE AfterTurn
  <2>1. UNCHANGED parser /\ call.at \notin {"Idle", "Derive"}
    BY <1>10 DEF AfterTurn, At
  <2>2. ASSUME Goto("Turn") \/ call' = [call EXCEPT !.at = "Walk", !.moved = FALSE],
               UNCHANGED <<log, history>>
        PROVE  GoingOn
    BY <1>1, <1>4, <2>1, <2>2 DEF GoingOn, history
  <2> QED  BY <1>2, <1>10, <2>1, <2>2 DEF AfterTurn
<1>11. CASE Flush \/ EndTurn \/ EndUpdate \/ TurnFails
  <2>1. UNCHANGED parser /\ call.at \notin {"Idle", "Derive"}
    BY <1>11 DEF Flush, EndTurn, EndUpdate, TurnFails, At
  <2>2. ReturnBroken \/ (UNCHANGED <<log, history>> /\ call'.kind = call.kind)
    BY <1>1, <1>11 DEF Flush, EndTurn, EndUpdate, TurnFails
  <2> QED  BY <1>3, <2>1, <2>2 DEF GoingOn, history
<1>12. CASE \E t \in Tokens : Push(t)
  BY <1>12 DEF Push, Pushing, history
<1>13. CASE \E commands \in grammar.updates : Update(commands)
  BY <1>13 DEF Update, Updating, Begun, NoCall
<1>14. CASE Rest \/ UNCHANGED vars
  BY <1>14 DEF Rest, vars, history, GoingOn
<1> QED  BY <1>5, <1>6, <1>7, <1>8, <1>9, <1>10, <1>11, <1>12, <1>13, <1>14 DEF Next, Progress

\* The parser runs within `derive` only.
LEMMA ParsesWithin ==
  ASSUME CallOK, Parse \/ Parsed
  PROVE  call.at = "Derive"
<1>1. Parser!Step => operations # <<>>
  BY DEF Parser!Step, Parser!DownShared, Parser!DownEntered, Parser!FreshTok,
         Parser!FreshEmptySeq, Parser!FreshSeq, Parser!FreshAlt, Parser!Up, Parser!UpTop,
         Parser!UpLast, Parser!UpNext, Parser!UpPacked, Parser!UpFirst, Parser!Popped,
         Parser!Rising
<1>2. Parser!EndDerive => ~Parser!Idle
  BY DEF Parser!EndDerive
<1> QED  BY <1>1, <1>2 DEF Parse, Parsed, CallOK

LEMMA ParseAt ==
  ASSUME CallOK, ParseStep
  PROVE  \/ call.at = "Derive" /\ call'.kind = call.kind /\ (Parse \/ Parsed)
         \/ call.at = "Idle" /\ call' = Begun("Push", "Derive") /\ \E t \in Tokens : Push(t)
<1>1. CASE Parse \/ Parsed
  <2>1. call.at = "Derive"
    BY <1>1, ParsesWithin
  <2>2. call'.kind = call.kind
    BY <1>1 DEF Parse, Parsed, Goto, CallOK, CallIs
  <2> QED  BY <1>1, <2>1, <2>2
<1>2. CASE \E t \in Tokens : Push(t)
  BY <1>2 DEF Push, Idle
<1> QED  BY <1>1, <1>2 DEF ParseStep

----------------------------------------------------------------------------
(* The invariant holds at the start.                                       *)

LEMMA MarksAll == MarksOK({}) /\ MarksOK(Egglog!AllMarks)
BY DEF MarksOK, Egglog!AllMarks

LEMMA ProgramStarts ==
  ASSUME ParserOK, Egglog!Initialized(grammar.program)
  PROVE  ProgramOK
<1>1. CommandsOK(grammar.program)
  BY ProgramsWellTyped DEF ParserOK, schema, CommandsOK, IsList
<1> QED  BY <1>1, ProgramRules, ProgramGuarantees, UsableGuarantees
         DEF Egglog!Initialized, ProgramOK

LEMMA NoWalkOK == PlanOK(Walk!NoWalk)
BY ListEmpty DEF PlanOK, Walk!NoWalk

LEMMA NoUpdateOK ==
  CommandsOK(Egglog!NoUpdate.commands) /\ RulesOK(Egglog!NoUpdate.rules)
    /\ GuaranteesOK(Egglog!NoUpdate.guarantees)
BY ListEmpty DEF Egglog!NoUpdate, CommandsOK, RulesOK, GuaranteesOK

LEMMA BegunIs ==
  /\ CallIs(NoCall) /\ CallIs(Begun("New", "Told"))
  /\ CallIs(Begun("Push", "Derive")) /\ CallIs(Begun("Update", "Commands"))
<1>1. MarksOK({}) /\ {"Idle", "Told", "Derive", "Commands"} \subseteq Places
  BY MarksAll DEF Places
<1>2. CallIs(NoCall)
  BY <1>1 DEF CallIs, NoCall, Begun
<1>3. CallIs(Begun("New", "Told"))
  BY <1>1 DEF CallIs, Begun
<1>4. CallIs(Begun("Push", "Derive"))
  BY <1>1 DEF CallIs, Begun
<1>5. CallIs(Begun("Update", "Commands"))
  BY <1>1 DEF CallIs, Begun
<1> QED  BY <1>2, <1>3, <1>4, <1>5

LEMMA MonitorStarts == Init => MonitorInv
<1> SUFFICES ASSUME Init PROVE MonitorInv  OBVIOUS
<1>1. ParserOK
  BY ParserStarts DEF Init
<1>2. EGraphOK
  BY <1>1, GrammarsWellTyped DEF Init, ParserOK, EGraphOK, schema
<1>3. IndexOK
  <2>1. Shaped /\ Supported
    BY DEF Init, Shaped, Supported, Index!Reading
  <2>2. IndexTrue
    BY DEF Init, IndexTrue, Bounded, Index!NoIndexes
  <2>3. AgendaOK
    BY DEF Init, AgendaOK, Stack
  <2> QED  BY <2>1, <2>2, <2>3 DEF IndexOK
<1>4. LogOK
  BY ListEmpty DEF Init, LogOK
<1>5. Egglog!Initialized(grammar.program)
  BY DEF Init
<1>6. ProgramOK
  BY <1>1, <1>5, ProgramStarts
<1>7. ScheduleOK /\ MarksOK(pending)
  BY <1>5, MarksAll, ListEmpty DEF Egglog!Initialized, ScheduleOK
<1>8. TurnOK
  BY <1>5 DEF Egglog!Initialized, TurnOK, Egglog!NoTurn
<1>9. UpdateOK
  <2>1. update = Egglog!NoUpdate
    BY <1>5 DEF Egglog!Initialized
  <2> QED  BY <2>1, NoUpdateOK DEF UpdateOK, Egglog!NoUpdate
<1>10. WalkOK
  BY NoWalkOK DEF Init, WalkOK
<1>11. call = Begun("New", "Told") /\ verdict = "none"
  BY DEF Init
<1>12. CallOK
  BY <1>11, BegunIs DEF Init, CallOK, Parser!Init, Parser!Idle
<1>13. VerdictOK
  BY <1>11 DEF VerdictOK, Begun, NoCall, Promise!Answer
<1> QED  BY <1>1, <1>2, <1>3, <1>4, <1>6, <1>7, <1>8, <1>9, <1>10, <1>12, <1>13
         DEF MonitorInv, PartsOK

----------------------------------------------------------------------------
(* Every step keeps it.                                                    *)

\* What `realizability` says.
LEMMA Realizabilities ==
  /\ Realizability \in Promise!Answer
  /\ Realizability = "dead" <=> zippers = <<>>
  /\ Realizability = "true" <=> zippers # <<>> /\ Index!IsRealizable
<1>1. zippers = <<>> => Realizability = "dead"
  BY DEF Realizability
<1>2. zippers # <<>> /\ Index!IsRealizable => Realizability = "true"
  BY DEF Realizability
<1>3. zippers # <<>> /\ ~Index!IsRealizable
        => Realizability = IF Cover!IsUnrealizable THEN "false" ELSE "unknown"
  BY DEF Realizability
<1> QED  BY <1>1, <1>2, <1>3 DEF Promise!Answer

LEMMA VerdictKeeps ==
  ASSUME MonitorInv, [Next]_vars
  PROVE  VerdictOK'
<1>1. CallOK /\ VerdictOK
  BY DEF MonitorInv
<1>2. /\ verdict \in Promise!Answer \cup {"none"}
      /\ verdict = "none" <=> call.kind = "New"
      /\ call.kind = "Push" => verdict # "dead"
      /\ call.kind \in {"None", "Update"} => /\ verdict = "dead" <=> zippers = <<>>
                                             /\ verdict = "true" => Index!IsRealizable
  BY <1>1 DEF VerdictOK
<1>3. CASE Returning
  <2>1. call'.kind = "None" /\ zippers' = zippers /\ verdict' = Realizability
    BY <1>3 DEF Returning, NoCall, Begun, parser
  <2>2. Index!IsRealizable => Index!IsRealizable'
    <3>1. ~ParseStep
      BY <1>1, <1>3, ParseAt DEF Returning
    <3> QED  BY <2>1, <3>1, PartsKeep, WitnessStays DEF KeepsAnswer
  <2> QED  BY <2>1, <2>2, Realizabilities DEF VerdictOK, Promise!Answer
<1>4. ASSUME UNCHANGED parser, call.kind \in {"None", "Update"},
             call'.kind \in {"None", "Update"}
      PROVE  zippers' = zippers /\ (Index!IsRealizable => Index!IsRealizable')
  <2>1. ~ParseStep
    BY <1>1, <1>4, ParseAt DEF CallOK, CallIs, Begun, NoCall
  <2> QED  BY <1>4, <2>1, PartsKeep, WitnessStays DEF KeepsAnswer, parser
<1>5. CASE GoingOn
  <2>1. call'.kind = call.kind /\ verdict' = verdict
    BY <1>5 DEF GoingOn
  <2>2. CASE call.kind \notin {"None", "Update"}
    BY <1>2, <2>1, <2>2 DEF VerdictOK, Promise!Answer
  <2>3. CASE call.kind \in {"None", "Update"}
    <3>1. UNCHANGED parser
      BY <1>1, <1>5, <2>3 DEF GoingOn, CallOK, CallIs
    <3>2. zippers' = zippers /\ (Index!IsRealizable => Index!IsRealizable')
      BY <1>4, <2>1, <2>3, <3>1
    <3> QED  BY <1>2, <2>1, <2>3, <3>2 DEF VerdictOK, Promise!Answer
  <2> QED  BY <2>2, <2>3
<1>6. CASE Pushing
  <2>1. call.kind = "None" /\ call'.kind = "Push" /\ zippers # <<>> /\ verdict' = verdict
    BY <1>1, <1>6 DEF Pushing, Push, Idle, CallOK, CallIs, Begun, NoCall
  <2> QED  BY <1>2, <2>1 DEF VerdictOK, Promise!Answer
<1>7. CASE Updating
  <2>1. call.kind = "None" /\ call'.kind = "Update" /\ verdict' = verdict /\ UNCHANGED parser
    BY <1>1, <1>7 DEF Updating, Idle, CallOK, CallIs
  <2>2. zippers' = zippers /\ (Index!IsRealizable => Index!IsRealizable')
    BY <1>4, <2>1
  <2> QED  BY <1>2, <2>1, <2>2 DEF VerdictOK, Promise!Answer
<1> QED  BY <1>1, <1>3, <1>5, <1>6, <1>7, CallSteps

LEMMA LogKeeps ==
  ASSUME MonitorInv, [Next]_vars
  PROVE  LogOK'
<1>1. LogOK /\ GraphLog \subseteq GraphLog' /\ (Parsed => Range(changes) \subseteq GraphLog')
  BY PartsKeep DEF MonitorInv
<1>2. CASE log' = log
  BY <1>1, <1>2 DEF LogOK
<1>3. CASE log' = <<>>
  BY <1>3, ListEmpty DEF LogOK
<1>4. CASE Parsed
  <2>1. log' = changes
    BY <1>4 DEF Parsed
  <2>2. IsList(changes)
    <3>1. \E S : changes \in Seq(S)
      BY DEF MonitorInv, PartsOK, ParserOK, ParserProofs!Reported, ParserProofs!Inductive,
             ParserProofs!TypeOK
    <3> QED  BY <3>1, ListOf
  <2> QED  BY <1>1, <1>4, <2>1, <2>2 DEF LogOK
<1>5. log' = log \/ log' = <<>> \/ Parsed
  BY DEF Next, Progress, Push, Parse, Tell, Close, Synchronize, Return, ReturnBroken,
         AnswerEarly, WalkOn, FixedDone, FocusDone, Flush, Apply, AfterWalk, BeginTurn,
         StepRule, EndTurn, TurnFails, AfterTurn, Update, RunCommand, EndUpdate, Rest, vars
<1> QED  BY <1>2, <1>3, <1>4, <1>5

\* A call that goes on.
LEMMA CallGoesOn ==
  ASSUME CallIs(call), call.at \notin {"Idle", "Derive"},
         NEW c, c = [kind |-> call.kind, at |-> c.at, after |-> c.after,
                     changes |-> c.changes, moved |-> c.moved, updated |-> c.updated],
         c.at \in Places \ {"Idle", "Derive"},
         c.at \in {"Flush", "Apply"} => c.after \in {"Walked", "Turned", "Updated"},
         MarksOK(c.changes)
  PROVE  CallIs(c)
<1>1. c.kind = call.kind
  OBVIOUS
<1> QED  BY <1>1 DEF CallIs

LEMMA DeltasOK ==
  ASSUME MarksOK(pending)
  PROVE  MarksOK(Egglog!Delta) /\ MarksOK(Egglog!TurnDelta)
         /\ MarksOK(Egglog!Flushed(egraph, pending))
<1>1. \A g, marks : MarksOK(marks) => MarksOK(Egglog!Flushed(g, marks))
  BY DEF MarksOK, Egglog!Flushed
<1>2. MarksOK(Egglog!TurnMarks)
  BY MarksAll DEF MarksOK, Egglog!TurnMarks
<1> QED  BY <1>1, <1>2, MarksAll DEF Egglog!Delta, Egglog!TurnDelta

LEMMA CallKeeps ==
  ASSUME MonitorInv, [Next]_vars
  PROVE  CallOK'
<1>1. CallOK /\ CallIs(call) /\ MarksOK(pending)
  BY DEF MonitorInv, CallOK
<1>2. /\ call = [kind |-> call.kind, at |-> call.at, after |-> call.after,
                 changes |-> call.changes, moved |-> call.moved, updated |-> call.updated]
      /\ call.at \in {"Flush", "Apply"} => call.after \in {"Walked", "Turned", "Updated"}
      /\ MarksOK(call.changes)
  BY <1>1 DEF CallIs
<1>3. ASSUME UNCHANGED parser, call.at # "Derive", CallIs(call')
      PROVE  CallOK'
  <2>1. token' = token /\ operations' = operations
    BY <1>3 DEF parser
  <2> QED  BY <1>1, <1>3, <2>1 DEF CallOK, CallIs, Parser!Idle
<1>4. ASSUME UNCHANGED parser, call.at \notin {"Idle", "Derive"},
             call' = [kind |-> call.kind, at |-> call'.at, after |-> call'.after,
                      changes |-> call'.changes, moved |-> call'.moved,
                      updated |-> call'.updated],
             call'.at \in Places \ {"Idle", "Derive"},
             call'.at \in {"Flush", "Apply"} => call'.after \in {"Walked", "Turned", "Updated"},
             MarksOK(call'.changes)
      PROVE  CallOK'
  <2>1. CallIs(call')
    <3>1. PICK c : c = call'
      OBVIOUS
    <3>2. CallIs(c)
      BY <1>1, <1>4, <3>1, CallGoesOn
    <3> QED  BY <3>1, <3>2
  <2> QED  BY <1>3, <1>4, <2>1
<1>5. ASSUME UNCHANGED parser, call.at \notin {"Idle", "Derive"},
             NEW place \in Places \ {"Idle", "Derive", "Flush", "Apply"}, Goto(place)
      PROVE  CallOK'
  <2>1. call' = [kind |-> call.kind, at |-> place, after |-> call.after,
                 changes |-> call.changes, moved |-> call.moved, updated |-> call.updated]
    BY <1>2, <1>5 DEF Goto
  <2> QED  BY <1>2, <1>4, <1>5, <2>1
<1>6. ASSUME UNCHANGED parser, call.at \notin {"Idle", "Derive"}, call' = NoCall
      PROVE  CallOK'
  BY <1>3, <1>6, BegunIs
<1>7. CASE ParseStep
  <2>1. CASE Parse
    <3>1. call.at = "Derive" /\ call' = call
      BY <1>1, <2>1, ParsesWithin DEF Parse
    <3> QED  BY <1>1, <3>1 DEF CallOK, CallIs
  <2>2. CASE Parsed
    <3>1. token' = Parser!NoToken /\ operations' = <<>>
      BY <2>2 DEF Parsed, Parser!EndDerive
    <3>2. call' = [kind |-> call.kind, at |-> "Told", after |-> call.after,
                   changes |-> call.changes, moved |-> call.moved, updated |-> call.updated]
      BY <1>2, <2>2 DEF Parsed, Goto
    <3>3. call.kind = "Push"
      BY <1>1, <1>7, <2>2, ParseAt DEF Parsed, Push, CallIs, Begun, NoCall, Goto
    <3>4. CallIs(call')
      BY <1>2, <3>2, <3>3 DEF CallIs, Places
    <3> QED  BY <3>1, <3>4 DEF CallOK, CallIs, Parser!Idle
  <2>3. CASE \E t \in Tokens : Push(t)
    BY <2>3, BegunIs DEF Push, CallOK, CallIs, Begun, NoCall
  <2> QED  BY <1>7, <2>1, <2>2, <2>3 DEF ParseStep
<1>8. CASE Tell
  BY <1>5, <1>8 DEF Tell, At, Places
<1>9. CASE Close \/ WalkOn \/ StepRule \/ RunCommand \/ Rest \/ UNCHANGED vars
  <2>1. UNCHANGED <<parser, call>>
    BY <1>9 DEF Close, WalkOn, StepRule, RunCommand, Rest, vars
  <2>2. token' = token /\ operations' = operations
    BY <2>1 DEF parser
  <2> QED  BY <1>1, <2>1, <2>2 DEF CallOK, CallIs, Parser!Idle
<1>10. CASE AnswerEarly
  <2>1. UNCHANGED parser /\ call.at \notin {"Idle", "Derive"}
    BY <1>10 DEF AnswerEarly, At
  <2>2. ASSUME Synchronize(NewExpressions) PROVE CallOK'
    <3>1. call' = [kind |-> call.kind, at |-> "Walk", after |-> call.after,
                   changes |-> call.changes, moved |-> FALSE, updated |-> TRUE]
      BY <1>2, <2>2 DEF Synchronize
    <3> QED  BY <1>2, <1>4, <2>1, <3>1 DEF Places
  <2>3. ASSUME NEW answer, Return(answer) PROVE CallOK'
    BY <1>6, <2>1, <2>3 DEF Return
  <2> QED  BY <1>10, <2>2, <2>3 DEF AnswerEarly
<1>11. CASE FixedDone
  <2>1. call' = [kind |-> call.kind, at |-> "Walk", after |-> call.after,
                 changes |-> call.changes, moved |-> (focus' # focus), updated |-> call.updated]
    BY <1>2, <1>11 DEF FixedDone, At
  <2> QED  BY <1>2, <1>4, <1>11, <2>1 DEF FixedDone, At, Places
<1>12. CASE FocusDone
  <2>1. call' = [kind |-> call.kind, at |-> "Flush", after |-> "Walked",
                 changes |-> call.changes, moved |-> (call.moved \/ focus' # focus),
                 updated |-> call.updated]
    BY <1>2, <1>12 DEF FocusDone
  <2> QED  BY <1>2, <1>4, <1>12, <2>1 DEF FocusDone, At, Places
<1>13. CASE Flush
  <2>1. UNCHANGED parser /\ call.at = "Flush"
    BY <1>13 DEF Flush, At
  <2>2. CASE ReturnBroken
    BY <1>6, <2>1, <2>2 DEF ReturnBroken
  <2>3. CASE call' = [call EXCEPT !.at = "Apply", !.changes = Egglog!Delta]
    <3>1. call' = [kind |-> call.kind, at |-> "Apply", after |-> call.after,
                   changes |-> Egglog!Delta, moved |-> call.moved, updated |-> call.updated]
      BY <1>2, <2>3
    <3> QED  BY <1>1, <1>2, <1>4, <2>1, <3>1, DeltasOK DEF Places
  <2> QED  BY <1>13, <2>2, <2>3 DEF Flush
<1>14. CASE Apply
  <2>1. UNCHANGED parser /\ call.at = "Apply" /\ Goto(call.after)
    BY <1>14 DEF Apply, At
  <2> QED  BY <1>2, <1>5, <2>1 DEF Places
<1>15. CASE AfterWalk
  <2>1. UNCHANGED parser /\ call.at = "Walked"
    BY <1>15 DEF AfterWalk, At
  <2>2. ASSUME NEW answer, Return(answer) PROVE CallOK'
    BY <1>6, <2>1, <2>2 DEF Return
  <2>3. ASSUME Goto("Turn") PROVE CallOK'
    BY <1>5, <2>1, <2>3 DEF Places
  <2> QED  BY <1>15, <2>2, <2>3 DEF AfterWalk
<1>16. CASE BeginTurn
  BY <1>5, <1>16 DEF BeginTurn, At, Places
<1>17. CASE EndTurn
  <2>1. UNCHANGED parser /\ call.at = "Step"
    BY <1>17 DEF EndTurn, At
  <2>2. CASE ReturnBroken
    BY <1>6, <2>1, <2>2 DEF ReturnBroken
  <2>3. ASSUME call' = [call EXCEPT !.at = "Apply", !.after = "Turned",
                          !.changes = Egglog!TurnDelta,
                          !.updated = turn.updated \/ turn.deferred]
        PROVE  CallOK'
    <3>1. call' = [kind |-> call.kind, at |-> "Apply", after |-> "Turned",
                   changes |-> Egglog!TurnDelta, moved |-> call.moved,
                   updated |-> (turn.updated \/ turn.deferred)]
      BY <1>2, <2>3
    <3> QED  BY <1>1, <1>2, <1>4, <2>1, <3>1, DeltasOK DEF Places
  <2> QED  BY <1>17, <2>2, <2>3 DEF EndTurn
<1>18. CASE TurnFails
  BY <1>6, <1>18 DEF TurnFails, ReturnBroken, At
<1>19. CASE AfterTurn
  <2>1. UNCHANGED parser /\ call.at = "Turned"
    BY <1>19 DEF AfterTurn, At
  <2>2. ASSUME NEW answer, Return(answer) PROVE CallOK'
    BY <1>6, <2>1, <2>2 DEF Return
  <2>3. ASSUME call' = [call EXCEPT !.at = "Walk", !.moved = FALSE] PROVE CallOK'
    <3>1. call' = [kind |-> call.kind, at |-> "Walk", after |-> call.after,
                   changes |-> call.changes, moved |-> FALSE, updated |-> call.updated]
      BY <1>2, <2>3
    <3> QED  BY <1>2, <1>4, <2>1, <3>1 DEF Places
  <2>4. ASSUME Goto("Turn") PROVE CallOK'
    BY <1>5, <2>1, <2>4 DEF Places
  <2> QED  BY <1>19, <2>2, <2>3, <2>4 DEF AfterTurn
<1>20. CASE \E commands \in grammar.updates : Update(commands)
  <2>1. UNCHANGED parser /\ call.at = "Idle" /\ call' = Begun("Update", "Commands")
    BY <1>20 DEF Update, Idle
  <2> QED  BY <1>3, <2>1, BegunIs
<1>21. CASE EndUpdate
  <2>1. UNCHANGED parser /\ call.at = "Commands"
    BY <1>21 DEF EndUpdate, At
  <2>2. CASE ReturnBroken
    BY <1>6, <2>1, <2>2 DEF ReturnBroken
  <2>3. CASE call' = [call EXCEPT !.at = "Flush", !.after = "Updated"]
    <3>1. call' = [kind |-> call.kind, at |-> "Flush", after |-> "Updated",
                   changes |-> call.changes, moved |-> call.moved, updated |-> call.updated]
      BY <1>2, <2>3
    <3> QED  BY <1>2, <1>4, <2>1, <3>1 DEF Places
  <2> QED  BY <1>21, <2>2, <2>3 DEF EndUpdate
<1> QED  BY <1>7, <1>8, <1>9, <1>10, <1>11, <1>12, <1>13, <1>14, <1>15, <1>16, <1>17,
            <1>18, <1>19, <1>20, <1>21 DEF Next, Progress, ParseStep

\* The grammar does not change, and with it what a well-formed program is.
LEMMA SameGrammar ==
  ASSUME grammar' = grammar, NEW CONSTANT list
  PROVE  /\ RulesOK(list) => RulesOK(list)'
         /\ GuaranteesOK(list) => GuaranteesOK(list)'
         /\ CommandsOK(list) => CommandsOK(list)'
<1>1. schema' = schema
  BY DEF schema
<1>2. RulesOK(list) => RulesOK(list)'
  BY <1>1 DEF RulesOK, RuleOK, AtomsWellTyped, AtomWellTyped
<1>3. GuaranteesOK(list) => GuaranteesOK(list)'
  BY <1>1 DEF GuaranteesOK, FunctionNullary
<1>4. CommandsOK(list) => CommandsOK(list)'
  BY <1>1 DEF CommandsOK, CommandWellTyped, AtomsWellTyped, AtomWellTyped
<1> QED  BY <1>2, <1>3, <1>4

\* Rules are never taken back.
LEMMA ProgramKeeps ==
  ASSUME MonitorInv, [Next]_vars
  PROVE  /\ ProgramOK'
         /\ DOMAIN rules \subseteq DOMAIN rules'
<1>1. ProgramOK /\ UpdateOK /\ grammar' = grammar
  BY PartsKeep DEF MonitorInv
<1>2. PICK r, p : r = rules' /\ p = guarantees'
  OBVIOUS
<1>3. RulesOK(r) /\ GuaranteesOK(p) /\ DOMAIN rules \subseteq DOMAIN r
  <2>1. CASE UNCHANGED program
    BY <1>1, <1>2, <2>1 DEF program, ProgramOK
  <2>2. CASE EndUpdate
    <3>1. r = rules \o update.rules /\ p = guarantees \o Egglog!Usable(update.guarantees)
      BY <1>2, <2>2 DEF EndUpdate, Egglog!EndUpdate
    <3>2. GuaranteesOK(Egglog!Usable(update.guarantees))
      BY <1>1, UsableGuarantees DEF UpdateOK
    <3>3. DOMAIN rules \subseteq DOMAIN r
      <4>1. rules \in Seq(Range(rules)) /\ update.rules \in Seq(Range(update.rules))
        BY <1>1 DEF ProgramOK, UpdateOK, RulesOK, IsList
      <4>2. DOMAIN rules = 1 .. Len(rules) /\ DOMAIN r = 1 .. (Len(rules) + Len(update.rules))
            /\ Len(rules) \in Nat /\ Len(update.rules) \in Nat
        BY <3>1, <4>1
      <4> QED  BY <4>2
    <3> QED  BY <1>1, <3>1, <3>2, <3>3, JoinedRules, JoinedGuarantees DEF ProgramOK, UpdateOK
  <2>3. UNCHANGED program \/ EndUpdate
    BY DEF Next, Progress, Push, Parse, Parsed, Tell, Close, AnswerEarly, WalkOn, FixedDone,
           FocusDone, Flush, Apply, AfterWalk, BeginTurn, StepRule, EndTurn, TurnFails,
           AfterTurn, Update, RunCommand, Rest, vars
  <2> QED  BY <2>1, <2>2, <2>3
<1>4. RulesOK(r)' /\ GuaranteesOK(p)'
  BY <1>1, <1>3, SameGrammar
<1>5. ProgramOK'
  BY <1>2, <1>4 DEF ProgramOK, RulesOK, GuaranteesOK
<1> QED  BY <1>2, <1>3, <1>5

\* The matches chosen of a class are counted, and never more than the cap.
LEMMA CountedOK ==
  ASSUME ScheduleOK, NEW i, NEW matches \in Egglog!Batches(i)
  PROVE  \A key \in DOMAIN Egglog!Counted(i, matches) :
           Egglog!Counted(i, matches)[key] \in 1 .. MaxMatches
<1> DEFINE classes == {<<i, Egglog!ClassOf(i, m)>> : m \in matches}
           counted == Egglog!Counted(i, matches)
<1>1. counted = [key \in classes \cup DOMAIN selected |->
                   IF key \in classes
                     THEN Egglog!Chosen(i, key[2])
                            + Egglog!Cardinality(Egglog!Of(i, key[2], matches))
                   ELSE selected[key]]
  BY DEF Egglog!Counted
<1>2. /\ IsFiniteSet(matches)
      /\ \A m \in matches :
           Egglog!Chosen(i, Egglog!ClassOf(i, m))
             + Egglog!Cardinality(Egglog!Of(i, Egglog!ClassOf(i, m), matches)) <= MaxMatches
  BY DEF Egglog!Batches, Egglog!Within, Egglog!IsFiniteSet, IsFiniteSet
<1>3. ASSUME NEW m \in matches
      PROVE  Egglog!Chosen(i, Egglog!ClassOf(i, m))
               + Egglog!Cardinality(Egglog!Of(i, Egglog!ClassOf(i, m), matches))
               \in 1 .. MaxMatches
  <2> DEFINE class == Egglog!ClassOf(i, m)
             of == Egglog!Of(i, class, matches)
  <2>1. of \subseteq matches /\ m \in of
    BY DEF Egglog!Of
  <2>2. IsFiniteSet(of) /\ of # {}
    BY <1>2, <2>1, FS_Subset
  <2> HIDE DEF of, class
  <2>3. Cardinality(of) \in Nat /\ Cardinality(of) # 0
    BY <2>2, FS_CardinalityType, FS_EmptySet
  <2>4. Egglog!Cardinality(of) = Cardinality(of)
    BY DEF Egglog!Cardinality, Cardinality
  <2>5. Egglog!Chosen(i, class) \in Nat
    <3>1. \A key \in DOMAIN selected : selected[key] \in 1 .. MaxMatches
      BY DEF ScheduleOK
    <3> QED  BY <3>1, MonitorBounds DEF Egglog!Chosen
  <2>6. Egglog!Chosen(i, class) + Egglog!Cardinality(of) <= MaxMatches
    BY <1>2 DEF class, of
  <2>7. \A a, b, n \in Nat : b # 0 /\ a + b <= n => a + b \in 1 .. n
    OBVIOUS
  <2>8. Egglog!Chosen(i, class) + Egglog!Cardinality(of) \in 1 .. MaxMatches
    BY <2>3, <2>4, <2>5, <2>6, <2>7, MonitorBounds
  <2> QED  BY <2>8 DEF class, of
<1> HIDE DEF counted
<1>4. ASSUME NEW key \in DOMAIN counted PROVE counted[key] \in 1 .. MaxMatches
  <2>1. CASE key \in classes
    <3>1. PICK m \in matches : key = <<i, Egglog!ClassOf(i, m)>>
      BY <2>1
    <3> QED  BY <1>1, <1>3, <2>1, <3>1
  <2>2. CASE key \notin classes
    BY <1>1, <1>4, <2>2 DEF ScheduleOK
  <2> QED  BY <2>1, <2>2
<1> QED  BY <1>4 DEF counted

LEMMA ScheduleKeeps ==
  ASSUME MonitorInv, [Next]_vars
  PROVE  ScheduleOK'
<1>1. ScheduleOK /\ TurnOK /\ DOMAIN rules \subseteq DOMAIN rules'
  BY ProgramKeeps DEF MonitorInv
<1>2. CASE UNCHANGED <<selected, taken>>
  BY <1>1, <1>2 DEF ScheduleOK
<1>3. CASE StepRule /\ Egglog!StepSomeRule
  <2>1. PICK i \in turn.todo : \E matches \in Egglog!Batches(i) : \E age \in Egglog!Ages :
          Egglog!StepRule(i, matches, Egglog!Applied(egraph, rules[i], matches, age))
    BY <1>3 DEF Egglog!StepSomeRule
  <2>2. PICK matches \in Egglog!Batches(i) :
          taken' = taken \cup {<<i, m>> : m \in matches}
          /\ selected' = Egglog!Counted(i, matches)
    BY <2>1 DEF Egglog!StepRule
  <2>3. i \in DOMAIN rules
    BY <1>1 DEF TurnOK
  <2>4. \A key \in DOMAIN selected' : selected'[key] \in 1 .. MaxMatches
    <3>1. PICK counted : counted = selected'
      OBVIOUS
    <3>2. \A key \in DOMAIN counted : counted[key] \in 1 .. MaxMatches
      BY <1>1, <2>2, <3>1, CountedOK
    <3> QED  BY <3>1, <3>2
  <2> QED  BY <1>1, <2>2, <2>3, <2>4 DEF ScheduleOK
<1>4. UNCHANGED <<selected, taken>> \/ (StepRule /\ Egglog!StepSomeRule)
  BY DEF Next, Progress, Push, Parse, Parsed, Tell, Close, Synchronize, AnswerEarly, WalkOn,
         FixedDone, FocusDone, Flush, Apply, AfterWalk, BeginTurn, StepRule, EndTurn,
         TurnFails, AfterTurn, Update, RunCommand, EndUpdate, Rest, vars, schedule,
         Egglog!SkipRule
<1> QED  BY <1>2, <1>3, <1>4

\* Work in progress ends with the place it is done at.
LEMMA PlaceSteps ==
  ASSUME CallOK, [Next]_vars
  PROVE  /\ \/ turn' = Egglog!NoTurn \/ BeginTurn \/ StepRule
            \/ turn' = turn /\ (call'.at = call.at \/ call.at # "Step")
         /\ \/ update' = Egglog!NoUpdate \/ RunCommand
            \/ (\E commands \in grammar.updates : Update(commands))
            \/ update' = update /\ (call'.at = call.at \/ call.at # "Commands")
         /\ \/ walk' = Walk!NoWalk \/ WalkOn \/ FixedDone
            \/ Synchronize(NewExpressions) /\ UNCHANGED parser
            \/ /\ Walk!BeginWalk(<<>>) /\ call' = [call EXCEPT !.at = "Walk", !.moved = FALSE]
               /\ UNCHANGED parser
            \/ walk' = walk /\ (call'.at = call.at \/ call.at # "Walk")
<1>1. ParseStep => call.at \in {"Derive", "Idle"} /\ UNCHANGED <<turn, update, walk>>
  BY ParseAt DEF ParseStep, Parse, Parsed, Push
<1>2. CASE ParseStep
  BY <1>1, <1>2
<1>3. CASE AnswerEarly
  BY <1>3 DEF AnswerEarly, Synchronize, At
<1>4. CASE AfterTurn
  BY <1>4 DEF AfterTurn, At
<1>5. CASE Tell \/ Close \/ WalkOn \/ FixedDone \/ FocusDone \/ Flush \/ Apply \/ AfterWalk
           \/ BeginTurn
  BY <1>5 DEF Tell, Close, WalkOn, FixedDone, FocusDone, Flush, Apply, AfterWalk, BeginTurn, At
<1>6. CASE StepRule \/ EndTurn \/ TurnFails \/ RunCommand
           \/ (\E commands \in grammar.updates : Update(commands))
  BY <1>6 DEF StepRule, EndTurn, TurnFails, Update, RunCommand, At, Idle
<1>7. CASE EndUpdate \/ Rest \/ UNCHANGED vars
  BY <1>7 DEF EndUpdate, Egglog!EndUpdate, Rest, vars, At
<1> QED  BY <1>2, <1>3, <1>4, <1>5, <1>6, <1>7 DEF Next, Progress, ParseStep

LEMMA TurnKeeps ==
  ASSUME MonitorInv, [Next]_vars
  PROVE  TurnOK'
<1>1. CallOK /\ TurnOK /\ DOMAIN rules \subseteq DOMAIN rules'
  BY ProgramKeeps DEF MonitorInv
<1>2. CASE turn' = Egglog!NoTurn
  BY <1>2 DEF TurnOK, Egglog!NoTurn
<1>3. CASE BeginTurn
  <2>1. turn' = [todo |-> DOMAIN rules, focus |-> focus, updated |-> FALSE, deferred |-> FALSE]
    BY <1>3 DEF BeginTurn, Egglog!BeginTurn, Egglog!NoTurn
  <2>2. call'.at = "Step"
    BY <1>1, <1>3 DEF BeginTurn, Goto, CallOK, CallIs
  <2> QED  BY <1>1, <2>1, <2>2 DEF TurnOK
<1>4. CASE StepRule
  <2>1. \E todo, updated, deferred :
          /\ todo \subseteq turn.todo
          /\ turn' = [turn EXCEPT !.todo = todo, !.updated = updated, !.deferred = deferred]
    <3>1. ASSUME NEW i, NEW matches, NEW g, Egglog!StepRule(i, matches, g)
          PROVE  turn' = [turn EXCEPT !.todo = turn.todo \ {i},
                                      !.updated = turn.updated \/ g # egraph,
                                      !.deferred = Egglog!AnyDeferred(i, matches)]
      BY <3>1 DEF Egglog!StepRule
    <3>2. CASE Egglog!StepSomeRule
      <4>1. PICK i \in turn.todo : \E matches \in Egglog!Batches(i) : \E age \in Egglog!Ages :
              Egglog!StepRule(i, matches, Egglog!Applied(egraph, rules[i], matches, age))
        BY <3>2 DEF Egglog!StepSomeRule
      <4>2. PICK matches, g : Egglog!StepRule(i, matches, g)
        BY <4>1
      <4>3. turn' = [turn EXCEPT !.todo = turn.todo \ {i},
                                 !.updated = turn.updated \/ g # egraph,
                                 !.deferred = Egglog!AnyDeferred(i, matches)]
        BY <3>1, <4>2
      <4>4. \E todo, updated, deferred :
              /\ todo = turn.todo \ {i}
              /\ turn' = [turn EXCEPT !.todo = todo, !.updated = updated, !.deferred = deferred]
        BY <4>3, Zenon
      <4>5. turn.todo \ {i} \subseteq turn.todo
        OBVIOUS
      <4> QED  BY <4>4, <4>5
    <3>3. CASE Egglog!SkipRule
      <4>1. PICK i : turn' = [turn EXCEPT !.todo = @ \ {i}]
        BY <3>3 DEF Egglog!SkipRule
      <4>2. turn' = [turn EXCEPT !.todo = turn.todo \ {i}, !.updated = turn.updated,
                                 !.deferred = turn.deferred]
        BY <1>1, <4>1 DEF TurnOK
      <4> QED  BY <4>2
    <3> QED  BY <1>4, <3>2, <3>3 DEF StepRule
  <2>2. PICK todo, updated, deferred :
          /\ todo \subseteq turn.todo
          /\ turn' = [turn EXCEPT !.todo = todo, !.updated = updated, !.deferred = deferred]
    BY <2>1
  <2>3. turn' = [todo |-> todo, focus |-> turn.focus, updated |-> updated, deferred |-> deferred]
    BY <1>1, <2>2 DEF TurnOK
  <2>4. call'.at = "Step"
    BY <1>4 DEF StepRule, At
  <2> QED  BY <1>1, <2>2, <2>3, <2>4 DEF TurnOK
<1>5. CASE turn' = turn /\ (call'.at = call.at \/ call.at # "Step")
  BY <1>1, <1>5 DEF TurnOK
<1> QED  BY <1>1, <1>2, <1>3, <1>4, <1>5, PlaceSteps

LEMMA UpdateKeeps ==
  ASSUME MonitorInv, [Next]_vars
  PROVE  UpdateOK'
<1>1. /\ CallOK /\ UpdateOK /\ grammar' = grammar
      /\ ParserOK
  BY PartsKeep DEF MonitorInv, PartsOK
<1>2. PICK u : u = update'
  OBVIOUS
<1>3. ASSUME u = [commands |-> u.commands, rules |-> u.rules, guarantees |-> u.guarantees,
                  relevant_union |-> u.relevant_union, focus |-> u.focus],
             CommandsOK(u.commands), RulesOK(u.rules), GuaranteesOK(u.guarantees),
             u # Egglog!NoUpdate => call'.at = "Commands"
      PROVE  UpdateOK'
  <2>1. PICK c, r, p : c = u.commands /\ r = u.rules /\ p = u.guarantees
    OBVIOUS
  <2>2. CommandsOK(c)' /\ RulesOK(r)' /\ GuaranteesOK(p)'
    BY <1>1, <1>3, <2>1, SameGrammar
  <2> QED  BY <1>2, <1>3, <2>1, <2>2
           DEF UpdateOK, CommandsOK, RulesOK, GuaranteesOK, Egglog!NoUpdate
<1>4. CASE update' = Egglog!NoUpdate
  <2>1. u = Egglog!NoUpdate
    BY <1>2, <1>4
  <2> QED  BY <1>3, <2>1, NoUpdateOK DEF Egglog!NoUpdate
<1>5. ASSUME NEW commands \in grammar.updates, Update(commands)
      PROVE  UpdateOK'
  <2>1. u = [Egglog!NoUpdate EXCEPT !.commands = commands, !.focus = focus]
    BY <1>2, <1>5 DEF Update, Egglog!BeginUpdate
  <2>2. u = [commands |-> commands, rules |-> Egglog!NoUpdate.rules,
             guarantees |-> Egglog!NoUpdate.guarantees,
             relevant_union |-> Egglog!NoUpdate.relevant_union, focus |-> focus]
    BY <2>1 DEF Egglog!NoUpdate
  <2>3. CommandsOK(commands)
    BY <1>1, ProgramsWellTyped DEF ParserOK, schema, CommandsOK, IsList
  <2>4. call'.at = "Commands"
    BY <1>5 DEF Update, Begun, NoCall
  <2> QED  BY <1>3, <2>2, <2>3, <2>4, NoUpdateOK
<1>6. CASE RunCommand
  <2> DEFINE command == Head(update.commands)
  <2>1. /\ call'.at = "Commands" /\ update.commands # <<>>
        /\ CommandsOK(update.commands) /\ RulesOK(update.rules) /\ GuaranteesOK(update.guarantees)
    BY <1>1, <1>6 DEF RunCommand, At, Egglog!RunCommand, UpdateOK
  <2>2. CommandWellTyped(schema, command) /\ CommandsOK(Tail(update.commands))
    BY <2>1, ListTail DEF CommandsOK
  <2>3. CASE command.command = "Act"
    <3>0. \E made, age : Egglog!RunAction(made, command.unions, age)
      BY <1>6, <2>3 DEF RunCommand, Egglog!RunCommand
    <3>1. PICK union : u = [update EXCEPT !.commands = Tail(@), !.relevant_union = union]
      BY <1>2, <3>0 DEF Egglog!RunAction
    <3>2. u = [commands |-> Tail(update.commands), rules |-> update.rules,
               guarantees |-> update.guarantees, relevant_union |-> union,
               focus |-> update.focus]
      BY <1>1, <3>1 DEF UpdateOK
    <3> QED  BY <1>3, <2>1, <2>2, <3>2
  <2>4. CASE command.command \in {"Rewrite", "Rule"}
    <3>1. u = [update EXCEPT !.commands = Tail(@), !.rules = @ \o Egglog!RulesOf(command),
                             !.guarantees = @ \o Egglog!GuaranteesOf(command)]
      BY <1>2, <1>6, <2>4 DEF RunCommand, Egglog!RunCommand
    <3> HIDE DEF command
    <3>2. u = [commands |-> Tail(update.commands),
               rules |-> update.rules \o Egglog!RulesOf(command),
               guarantees |-> update.guarantees \o Egglog!GuaranteesOf(command),
               relevant_union |-> update.relevant_union, focus |-> update.focus]
      BY <1>1, <3>1 DEF UpdateOK
    <3>3. RulesOK(update.rules \o Egglog!RulesOf(command))
      BY <2>1, <2>2, CommandRules, JoinedRules
    <3>4. GuaranteesOK(update.guarantees \o Egglog!GuaranteesOf(command))
      BY <2>1, <2>2, CommandGuarantees, JoinedGuarantees
    <3> QED  BY <1>3, <2>1, <2>2, <3>2, <3>3, <3>4
  <2>5. CASE command.command = "Failing"
    <3>1. u = [update EXCEPT !.commands = <<>>]
      BY <1>2, <1>6, <2>5 DEF RunCommand, Egglog!RunCommand
    <3>2. u = [commands |-> <<>>, rules |-> update.rules,
               guarantees |-> update.guarantees, relevant_union |-> update.relevant_union,
               focus |-> update.focus]
      BY <1>1, <3>1 DEF UpdateOK
    <3>3. CommandsOK(<<>>)
      BY ListEmpty DEF CommandsOK
    <3> QED  BY <1>3, <2>1, <3>2, <3>3
  <2> QED  BY <1>6, <2>3, <2>4, <2>5 DEF RunCommand, Egglog!RunCommand
<1>7. CASE update' = update /\ (call'.at = call.at \/ call.at # "Commands")
  BY <1>1, <1>2, <1>3, <1>7 DEF UpdateOK
<1> QED  BY <1>1, <1>4, <1>5, <1>6, <1>7, PlaceSteps

\* The changes noted for the next delta are changes of the e-graph.
LEMMA PendingKeeps ==
  ASSUME MonitorInv, [Next]_vars
  PROVE  MarksOK(pending')
<1>1. MarksOK(pending) /\ PartsOK /\ ProgramOK /\ WalkOK
  BY DEF MonitorInv
<1>2. CASE WalkOn
  <2>1. ASSUME NEW marks, MarksOK(marks), pending' = pending \cup marks PROVE MarksOK(pending')
    BY <1>1, <2>1 DEF MarksOK
  <2>2. MarksOK(Walk!ExpressionMarks)
    BY DEF MarksOK, Walk!ExpressionMarks, Walk!RowMarks, Walk!ConstructorMark, Walk!TerminalMarks
  <2>3. ASSUME Walk!Facing("Cross"), pending' = pending \cup Walk!Crossing.marks
        PROVE  MarksOK(pending')
    <3>1. PICK c, hole : /\ c = Head(walk.steps).context /\ hole = Head(walk.steps).value
                         /\ c \in DOMAIN contexts /\ contexts[c].tag = "Seq"
      BY <1>1, <2>3, ListTail DEF WalkOK, PlanOK, VisitOK, Walk!Facing
    <3>2. MarksOK(Walk!MaterializedContext(c, hole).marks)
      BY <1>1, <3>1, ContextEvolves DEF PartsOK, ProgramOK
    <3> QED  BY <2>1, <2>3, <3>1, <3>2 DEF Walk!Crossing
  <2> QED  BY <1>1, <1>2, <2>1, <2>2, <2>3 DEF WalkOn, Marking
<1>3. CASE Flush \/ EndTurn
  BY <1>1, <1>3, MarksAll, DeltasOK
     DEF Flush, EndTurn, Egglog!Flush, Egglog!EndTurn, Egglog!TurnDelta
<1>4. CASE EndUpdate
  BY <1>1, <1>4, MarksAll DEF EndUpdate, Egglog!EndUpdate, MarksOK
<1>5. pending' = pending \/ WalkOn \/ Flush \/ EndTurn \/ EndUpdate
  BY DEF Next, Progress, Push, Parse, Parsed, Tell, Close, AnswerEarly, FixedDone, FocusDone,
         Apply, AfterWalk, BeginTurn, StepRule, TurnFails, AfterTurn, Update, RunCommand,
         Rest, vars, delta
<1> QED  BY <1>1, <1>2, <1>3, <1>4, <1>5

\* The plan of a walk stays good while the maps are the same.
LEMMA SamePlan ==
  ASSUME UNCHANGED parser, NEW CONSTANT w, PlanOK(w)
  PROVE  PlanOK(w)'
<1>1. expressions' = expressions /\ contexts' = contexts /\ memos' = memos
  BY DEF parser
<1> QED  BY <1>1 DEF PlanOK, VisitOK

\* Expressions of the maps as steps of a walk.
LEMMA StepsOf ==
  ASSUME NEW order \in Seq(DOMAIN expressions)
  PROVE  LET steps == [i \in DOMAIN order |-> Walk!ExpressionStep(order[i])] IN
         IsList(steps) /\ \A s \in Range(steps) : VisitOK(s)
<1> DEFINE steps == [i \in DOMAIN order |-> Walk!ExpressionStep(order[i])]
<1>1. IsList(order) /\ \A i \in DOMAIN order : order[i] \in DOMAIN expressions
  BY ListOf
<1>2. \A i \in DOMAIN order : VisitOK(steps[i])
  BY <1>1 DEF VisitOK, Walk!ExpressionStep
<1>3. steps = [i \in DOMAIN order |-> steps[i]]
  OBVIOUS
<1> HIDE DEF steps
<1>4. IsList(steps) /\ Range(steps) = {steps[i] : i \in DOMAIN order}
  BY <1>1, <1>3, ListMap
<1>5. \A s \in Range(steps) : VisitOK(s)
  BY <1>2, <1>4
<1> QED  BY <1>4, <1>5 DEF steps

LEMMA WalkBegins ==
  ASSUME ParserOK, NEW roots \in Seq(DOMAIN expressions), Walk!BeginWalk(roots)
  PROVE  \E w : walk' = w /\ PlanOK(w)
<1>1. PICK order : order = Walk!FixedPostorder(roots, {})
  OBVIOUS
<1>2. order \in Seq(DOMAIN expressions)
  <2>1. roots \in Seq(DOMAIN expressions \cup {})
    OBVIOUS
  <2> QED  BY <1>1, <2>1, PostorderTyped
<1>3. PICK steps : steps = [i \in DOMAIN order |-> Walk!ExpressionStep(order[i])]
  OBVIOUS
<1>4. IsList(steps) /\ \A s \in Range(steps) : VisitOK(s)
  BY <1>2, <1>3, StepsOf
<1>5. walk' = [steps |-> steps, agenda |-> <<>>, seen |-> {}, materialized |-> Walk!Range(order),
               relevant |-> {}, phase |-> "Fixed"]
  BY <1>1, <1>3 DEF Walk!BeginWalk, Walk!NoWalk
<1> QED  BY <1>4, <1>5, ListEmpty DEF PlanOK

\* What a walk goes on with.
LEMMA PlanMakes ==
  ASSUME NEW w, PlanOK(w),
         NEW steps, IsList(steps), \A s \in Range(steps) : VisitOK(s),
         NEW sites, IsList(sites), \A x \in Range(sites) : x.memo \in DOMAIN memos,
         NEW seen, NEW materialized, NEW relevant
  PROVE  PlanOK([steps |-> steps, agenda |-> sites, seen |-> seen,
                 materialized |-> materialized, relevant |-> relevant, phase |-> w.phase])
BY DEF PlanOK

LEMMA WalkGoesOn ==
  ASSUME PartsOK, ProgramOK, WalkOK, WalkOn
  PROVE  \E w : walk' = w /\ PlanOK(w)
<1>1. /\ ParserOK /\ EGraphOK /\ IndexOK /\ MapsOK
      /\ GuaranteesOK(guarantees)
  BY MapsTyped DEF PartsOK, ProgramOK
<1>2. /\ walk = [steps |-> walk.steps, agenda |-> walk.agenda, seen |-> walk.seen,
                 materialized |-> walk.materialized, relevant |-> walk.relevant,
                 phase |-> walk.phase]
      /\ IsList(walk.steps) /\ \A s \in Range(walk.steps) : VisitOK(s)
      /\ IsList(walk.agenda) /\ \A x \in Range(walk.agenda) : x.memo \in DOMAIN memos
      /\ PlanOK(walk)
  BY DEF WalkOK, PlanOK
<1>3. ASSUME NEW step, Walk!Facing(step)
      PROVE  /\ IsList(Walk!Rest) /\ \A s \in Range(Walk!Rest) : VisitOK(s)
             /\ Head(walk.steps).step = step /\ VisitOK(Head(walk.steps))
  BY <1>2, <1>3, ListTail DEF Walk!Facing, Walk!Rest
<1>4. ASSUME NEW memo \in DOMAIN memos, NEW values, IsFiniteSet(values), NEW path
      PROVE  LET sites == Walk!Sites(memo, values, path) \o walk.agenda IN
             IsList(sites) /\ \A x \in Range(sites) : x.memo \in DOMAIN memos
  <2>1. PICK sites : sites = Walk!Sites(memo, values, path)
    OBVIOUS
  <2>2. IsList(sites) /\ \A x \in Range(sites) : x.memo \in DOMAIN memos
    BY <1>4, <2>1, SitesOf
  <2> QED  BY <1>2, <2>1, <2>2, ListJoin
<1>6. CASE Walk!EnterSite
  <2>1. PICK memo, value, path : /\ memo = Head(walk.agenda).memo /\ value = Head(walk.agenda).value
                                 /\ path = Head(walk.agenda).path
    OBVIOUS
  <2>2. PICK parents : parents = memos[memo].parents
    OBVIOUS
  <2>3. PICK steps : steps = [i \in DOMAIN parents |-> Walk!ContextStep(parents[i], value, path)]
    OBVIOUS
  <2>4. walk.agenda # <<>> /\ memo \in DOMAIN memos
    BY <1>2, <1>6, <2>1, ListTail DEF Walk!EnterSite
  <2>5. IsList(Tail(walk.agenda)) /\ \A x \in Range(Tail(walk.agenda)) : x.memo \in DOMAIN memos
    BY <1>2, <2>4, ListTail
  <2>6. IsList(steps) /\ \A s \in Range(steps) : VisitOK(s)
    <3>1. IsList(parents) /\ \A i \in DOMAIN parents : parents[i] \in DOMAIN contexts
      BY <1>1, <2>2, <2>4, ParserTyped, ListOf
    <3>2. \A i \in DOMAIN parents : VisitOK(steps[i])
      BY <2>3, <3>1 DEF VisitOK, Walk!ContextStep
    <3>3. IsList(steps) /\ Range(steps) = {steps[i] : i \in DOMAIN parents}
      BY <2>3, <3>1, ListMap
    <3> QED  BY <3>2, <3>3
  <2>7. PICK seen, relevant :
          walk' \in {[walk EXCEPT !.agenda = Tail(@)],
                     [walk EXCEPT !.agenda = Tail(@), !.seen = seen, !.relevant = relevant,
                                  !.steps = steps]}
    BY <1>6, <2>1, <2>2, <2>3 DEF Walk!EnterSite
  <2>8. walk' \in {[steps |-> walk.steps, agenda |-> Tail(walk.agenda), seen |-> walk.seen,
                    materialized |-> walk.materialized, relevant |-> walk.relevant,
                    phase |-> walk.phase],
                   [steps |-> steps, agenda |-> Tail(walk.agenda), seen |-> seen,
                    materialized |-> walk.materialized, relevant |-> relevant,
                    phase |-> walk.phase]}
    BY <1>2, <2>7
  <2> QED  BY <1>2, <2>5, <2>6, <2>8, PlanMakes
<1>7. CASE Walk!TakeExpression
  <2>1. walk' = [steps |-> Walk!Rest, agenda |-> walk.agenda, seen |-> walk.seen,
                 materialized |-> walk.materialized, relevant |-> walk.relevant,
                 phase |-> walk.phase]
    BY <1>2, <1>7 DEF Walk!TakeExpression
  <2> QED  BY <1>2, <1>3, <1>7, <2>1, PlanMakes DEF Walk!TakeExpression
<1>8. CASE Walk!TakeContext
  <2>1. PICK c, value, path :
          /\ c = Head(walk.steps).context /\ value = Head(walk.steps).value
          /\ path = Append(Head(walk.steps).path, c)
    OBVIOUS
  <2>2. /\ IsList(Walk!Rest) /\ \A s \in Range(Walk!Rest) : VisitOK(s)
        /\ c \in DOMAIN contexts
    BY <1>3, <1>8, <2>1 DEF Walk!TakeContext, VisitOK
  <2>3. /\ contexts[c].tag \in {"Top", "Seq", "Alt"}
        /\ contexts[c].tag # "Top" => contexts[c].memo \in DOMAIN memos
    BY <1>1, <2>2 DEF MapsOK
  <2>4. PICK order : order = Walk!FixedPostorder(Walk!ContextChildren(c),
                                                 walk.materialized \cup {Walk!Hole})
    OBVIOUS
  <2>5. CASE walk' = [walk EXCEPT !.steps = Walk!Rest]
    <3>1. walk' = [steps |-> Walk!Rest, agenda |-> walk.agenda, seen |-> walk.seen,
                   materialized |-> walk.materialized, relevant |-> walk.relevant,
                   phase |-> walk.phase]
      BY <1>2, <2>5
    <3> QED  BY <1>2, <2>2, <3>1, PlanMakes
  <2>6. CASE /\ contexts[c].tag = "Alt"
             /\ walk' = [walk EXCEPT !.steps = Walk!Rest,
                           !.agenda = Walk!Sites(contexts[c].memo, {value}, path) \o @]
    <3>1. PICK sites : sites = Walk!Sites(contexts[c].memo, {value}, path) \o walk.agenda
      OBVIOUS
    <3>2. IsList(sites) /\ \A x \in Range(sites) : x.memo \in DOMAIN memos
      BY <1>4, <2>3, <2>6, <3>1, FS_Singleton
    <3>3. walk' = [steps |-> Walk!Rest, agenda |-> sites, seen |-> walk.seen,
                   materialized |-> walk.materialized, relevant |-> walk.relevant,
                   phase |-> walk.phase]
      BY <1>2, <2>6, <3>1
    <3> QED  BY <1>2, <2>2, <3>2, <3>3, PlanMakes
  <2>7. CASE /\ contexts[c].tag = "Seq"
             /\ walk' = [walk EXCEPT
                  !.materialized = @ \cup Walk!Range(order),
                  !.steps = [i \in DOMAIN order |-> Walk!ExpressionStep(order[i])]
                              \o <<Walk!CrossStep(c, value, path)>> \o Walk!Rest]
    <3>1. order \in Seq(DOMAIN expressions)
      <4>1. Walk!ContextChildren(c) \in Seq(DOMAIN expressions \cup {None})
        BY <1>1, <2>2, <2>7, WalkReads, SelectedListed
      <4>2. Walk!ContextChildren(c)
              \in Seq(DOMAIN expressions \cup (walk.materialized \cup {Walk!Hole}))
        BY <4>1, WalkReads
      <4> QED  BY <1>1, <2>4, <4>2, PostorderTyped
    <3>2. PICK first, cross : /\ first = [i \in DOMAIN order |-> Walk!ExpressionStep(order[i])]
                              /\ cross = Walk!CrossStep(c, value, path)
      OBVIOUS
    <3>3. IsList(first) /\ \A s \in Range(first) : VisitOK(s)
      BY <3>1, <3>2, StepsOf
    <3>4. VisitOK(cross)
      BY <2>2, <2>7, <3>2 DEF VisitOK, Walk!CrossStep
    <3>5. IsList(first \o <<cross>>) /\ \A s \in Range(first \o <<cross>>) : VisitOK(s)
      BY <3>3, <3>4, ListOne, ListJoin
    <3>6. PICK steps : steps = (first \o <<cross>>) \o Walk!Rest
      OBVIOUS
    <3>7. IsList(steps) /\ \A s \in Range(steps) : VisitOK(s)
      BY <2>2, <3>5, <3>6, ListJoin
    <3>8. walk' = [steps |-> steps, agenda |-> walk.agenda, seen |-> walk.seen,
                   materialized |-> walk.materialized \cup Walk!Range(order),
                   relevant |-> walk.relevant, phase |-> walk.phase]
      BY <1>2, <2>7, <3>2, <3>6
    <3> QED  BY <1>2, <3>7, <3>8, PlanMakes
  <2>8. \/ walk' = [walk EXCEPT !.steps = Walk!Rest]
        \/ /\ contexts[c].tag = "Alt"
           /\ walk' = [walk EXCEPT !.steps = Walk!Rest,
                         !.agenda = Walk!Sites(contexts[c].memo, {value}, path) \o @]
        \/ /\ contexts[c].tag = "Seq"
           /\ walk' = [walk EXCEPT
                !.materialized = @ \cup Walk!Range(order),
                !.steps = [i \in DOMAIN order |-> Walk!ExpressionStep(order[i])]
                            \o <<Walk!CrossStep(c, value, path)>> \o Walk!Rest]
    BY <1>8, <2>1, <2>3, <2>4 DEF Walk!TakeContext
  <2> QED  BY <2>5, <2>6, <2>7, <2>8
<1>9. ASSUME Walk!Facing("Cross"), Walk!CrossContext(Walk!Crossing)
      PROVE  \E w : walk' = w /\ PlanOK(w)
  <2>1. PICK c, hole, path :
          /\ c = Head(walk.steps).context /\ hole = Head(walk.steps).value
          /\ path = Head(walk.steps).path
    OBVIOUS
  <2>2. /\ IsList(Walk!Rest) /\ \A s \in Range(Walk!Rest) : VisitOK(s)
        /\ c \in DOMAIN contexts /\ contexts[c].tag = "Seq"
    BY <1>3, <1>9, <2>1 DEF VisitOK
  <2>3. PICK outputs : outputs = Walk!MaterializedContext(c, hole).outputs
    OBVIOUS
  <2>4. IsFiniteSet(outputs)
    BY <1>1, <2>2, <2>3, ContextEvolves
  <2>5. contexts[c].memo \in DOMAIN memos
    BY <1>1, <2>2 DEF MapsOK
  <2>6. PICK sites : sites = Walk!Sites(contexts[c].memo, outputs, path) \o walk.agenda
    OBVIOUS
  <2>7. IsList(sites) /\ \A x \in Range(sites) : x.memo \in DOMAIN memos
    BY <1>4, <2>4, <2>5, <2>6
  <2>8. PICK relevant : walk' = [walk EXCEPT !.relevant = relevant, !.agenda = sites,
                                             !.steps = Walk!Rest]
    BY <1>9, <2>1, <2>3, <2>6 DEF Walk!CrossContext, Walk!Crossing
  <2>9. walk' = [steps |-> Walk!Rest, agenda |-> sites, seen |-> walk.seen,
                 materialized |-> walk.materialized, relevant |-> relevant,
                 phase |-> walk.phase]
    BY <1>2, <2>8
  <2> QED  BY <1>2, <2>2, <2>7, <2>9, PlanMakes
<1> QED  BY <1>6, <1>7, <1>8, <1>9 DEF WalkOn

LEMMA WalkKeeps ==
  ASSUME MonitorInv, [Next]_vars
  PROVE  WalkOK'
<1>1. PartsOK /\ ProgramOK /\ WalkOK /\ CallOK /\ ParserOK /\ LogOK
  BY DEF MonitorInv, PartsOK
<1>2. CASE walk' = Walk!NoWalk
  <2>1. PlanOK(Walk!NoWalk)'
    BY NoWalkOK, PTL
  <2> QED  BY <1>2, <2>1 DEF WalkOK, PlanOK
<1>3. ASSUME UNCHANGED parser, NEW w, walk' = w, PlanOK(w), w # Walk!NoWalk => call'.at = "Walk"
      PROVE  WalkOK'
  <2>1. PlanOK(w)'
    BY <1>3, SamePlan
  <2> QED  BY <1>3, <2>1 DEF WalkOK, PlanOK, Walk!NoWalk
<1>4. CASE WalkOn
  <2>1. UNCHANGED parser /\ call'.at = "Walk"
    BY <1>4 DEF WalkOn, At
  <2> QED  BY <1>1, <1>3, <1>4, <2>1, WalkGoesOn
<1>5. CASE FixedDone
  <2>1. UNCHANGED parser /\ call'.at = "Walk" /\ Walk!BeginFocusWalk
    BY <1>1, <1>5 DEF FixedDone, At, CallOK, CallIs
  <2>2. PICK sites : /\ walk' = [Walk!NoWalk EXCEPT !.agenda = sites, !.phase = "Focus"]
                     /\ IsList(sites) /\ \A x \in Range(sites) : x.memo \in DOMAIN memos
    BY <1>1, <2>1, FocusAgenda
  <2>3. PICK w : w = walk'
    OBVIOUS
  <2>4. PlanOK(w)
    BY <2>2, <2>3, ListEmpty DEF PlanOK, Walk!NoWalk
  <2> QED  BY <1>3, <2>1, <2>3, <2>4
<1>6. CASE Synchronize(NewExpressions) /\ UNCHANGED parser
  <2>1. call'.at = "Walk" /\ Walk!BeginWalk(NewExpressions)
    BY <1>1, <1>6 DEF Synchronize, CallOK, CallIs
  <2>2. NewExpressions \in Seq(DOMAIN expressions)
    BY <1>1, LoggedExpressions DEF LogOK
  <2> QED  BY <1>1, <1>3, <1>6, <2>1, <2>2, WalkBegins
<1>7. CASE /\ Walk!BeginWalk(<<>>) /\ call' = [call EXCEPT !.at = "Walk", !.moved = FALSE]
           /\ UNCHANGED parser
  <2>1. call'.at = "Walk"
    BY <1>1, <1>7 DEF CallOK, CallIs
  <2>2. <<>> \in Seq(DOMAIN expressions)
    OBVIOUS
  <2> QED  BY <1>1, <1>3, <1>7, <2>1, <2>2, WalkBegins
<1>8. CASE walk' = walk /\ (call'.at = call.at \/ call.at # "Walk")
  <2>1. CASE ParseStep
    <3>1. walk = Walk!NoWalk
      BY <1>1, <2>1, ParseAt DEF WalkOK
    <3> QED  BY <1>2, <1>8, <3>1
  <2>2. CASE UNCHANGED parser
    BY <1>1, <1>3, <1>8, <2>2 DEF WalkOK
  <2> QED  BY <2>1, <2>2, PartsKeep
<1> QED  BY <1>1, <1>2, <1>4, <1>5, <1>6, <1>7, <1>8, PlaceSteps

LEMMA MonitorNext == MonitorInv /\ [Next]_vars => MonitorInv'
<1> SUFFICES ASSUME MonitorInv, [Next]_vars PROVE MonitorInv'  OBVIOUS
<1>1. MarksOK(pending)'
  BY PendingKeeps DEF MarksOK
<1> QED  BY <1>1, PartsKeep, LogKeeps, ProgramKeeps, ScheduleKeeps, TurnKeeps, UpdateKeeps,
            WalkKeeps, CallKeeps, VerdictKeeps DEF MonitorInv

----------------------------------------------------------------------------
(* The theorems.                                                           *)

\* A call in progress has its own work only, the facts of the index are about
\* expressions that exist, the matches taken are of rules that exist, and no rule
\* has got more matches of a class than MAX_MATCHES_PER_RULE_AND_CLASS, however
\* often `saturate_local` was begun, broken off or refused.
THEOREM MonitorTyped == Spec => []TypeOK
<1>1. MonitorInv => TypeOK
  <2> SUFFICES ASSUME MonitorInv PROVE TypeOK  OBVIOUS
  <2>1. CallOK /\ TurnOK /\ UpdateOK /\ WalkOK /\ ScheduleOK /\ PartsOK
    BY DEF MonitorInv
  <2>2. \A f \in closure : f.fact = "Produces" => f.expression \in DOMAIN expressions
    BY <2>1, MapsTyped, ClosureTyped DEF PartsOK, IndexOK
  <2> QED  BY <2>1, <2>2 DEF TypeOK, CallOK, CallIs, TurnOK, UpdateOK, WalkOK, ScheduleOK
<1> QED  BY <1>1, MonitorStarts, MonitorNext, PTL DEF Spec

\* Not one of the deltas told, of the walks or of the half-told turns that a call
\* of `push_lexeme` or `run_egglog` goes through leaves a fact in the index that
\* does not follow from the parser's maps and the e-graph as they are: this holds
\* in every state, between calls and within them.
THEOREM MonitorDerived == Spec => []Derived
<1>1. MonitorInv => Derived
  <2> SUFFICES ASSUME MonitorInv PROVE Derived  OBVIOUS
  <2> QED  BY MapsTyped, IndexDerived DEF MonitorInv, PartsOK
<1> QED  BY <1>1, MonitorStarts, MonitorNext, PTL DEF Spec

\* In particular when a call returns.
THEOREM AnswersAreDerived == Spec => []AnswerDerived
<1>1. Derived => AnswerDerived
  BY DEF AnswerDerived
<1> QED  BY <1>1, MonitorDerived, PTL

\* A step of the monitor is one that MonitorContract allows, or nothing to it.
LEMMA PromisedSteps ==
  ASSUME MonitorInv, [Next]_vars
  PROVE  Promise!Next \/ UNCHANGED <<verdict, broken, call.kind = "Push">>
<1>1. CallOK /\ CallIs(call)
  BY DEF MonitorInv, CallOK
<1>2. /\ verdict \in Promise!Answer \cup {"none"}
      /\ verdict = "none" <=> call.kind = "New"
      /\ call.kind = "Push" => verdict # "dead"
      /\ call.kind \in {"None", "Update"} => /\ verdict = "dead" <=> zippers = <<>>
                                             /\ verdict = "true" => Index!IsRealizable
  BY DEF MonitorInv, VerdictOK
<1>3. call.kind \in {"None", "New", "Push", "Update"}
  BY <1>1 DEF CallIs
<1>4. CASE Returning
  <2>1. /\ call'.kind = "None" /\ verdict' = Realizability
        /\ broken' \in {broken, TRUE}
    BY <1>4 DEF Returning, NoCall, Begun
  <2>2. verdict = "dead" => Realizability = "dead"
    BY <1>2, <1>3, Realizabilities DEF Promise!Answer
  <2>3. verdict = "true" /\ call.kind # "Push" => Realizability = "true"
    BY <1>2, <1>3, Realizabilities DEF Promise!Answer
  <2>4. Realizability = "dead" => call.kind = "Push" \/ verdict \in {"none", "dead"}
    BY <1>2, <1>3, Realizabilities
  <2> QED  BY <2>1, <2>2, <2>3, <2>4, Realizabilities
           DEF Promise!Next, Promise!Answered, Promise!MayFollow
<1>5. CASE GoingOn
  BY <1>5 DEF GoingOn
<1>6. CASE Pushing
  <2>1. call.kind = "None" /\ call'.kind = "Push" /\ zippers # <<>>
    BY <1>1, <1>6 DEF Pushing, Push, Idle, CallIs, Begun, NoCall
  <2> QED  BY <1>2, <1>6, <2>1 DEF Pushing, Promise!Next, Promise!Push
<1>7. CASE Updating
  BY <1>1, <1>7 DEF Updating, Idle, CallIs
<1> QED  BY <1>1, <1>4, <1>5, <1>6, <1>7, CallSteps

\* The monitor implements MonitorContract: whatever tokens are pushed and programs
\* run, a dead prefix stays dead, a witness is not lost to an update, and a call
\* that fails on an inconsistent program answers no worse than one that does not.
THEOREM MonitorKeepsContract == Spec => Contract
<1>1. Init => Promise!Init
  BY DEF Init, Promise!Init, Begun, NoCall
<1>2. MonitorInv /\ [Next]_vars => [Promise!Next]_<<verdict, broken, call.kind = "Push">>
  BY PromisedSteps
<1> QED  BY <1>1, <1>2, MonitorStarts, MonitorNext, PTL DEF Spec, Contract, Promise!Spec

=============================================================================
