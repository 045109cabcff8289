------------------------------ MODULE MCStrict ------------------------------
(***************************************************************************)
(* Small vocabularies for Strict.tla, each about one part of the language. *)
(***************************************************************************)
EXTENDS Strict

Literals == [int    |-> [t |-> IntT, v |-> AnInt, src |-> ""],
             float  |-> [t |-> FloatT, v |-> AFloat, src |-> ""],
             string |-> [t |-> TextT, v |-> AText, src |-> ""],
             true   |-> [t |-> LogicT, v |-> True, src |-> ""],
             false  |-> [t |-> LogicT, v |-> False, src |-> "false"]]
LiteralsOf(kinds) == {Literals[k] : k \in kinds}

Decl(params, required, ret, decides) ==
    [params |-> params, names |-> SubSeq(<<"P", "Q">>, 1, Len(params)), required |-> required,
     ret |-> ret, decides |-> decides, access |-> "public", abstract |-> FALSE]
Field(t, access, default) == [t |-> t, access |-> access, default |-> default]
NoFunctions == [f \in {} |-> Decl(<<>>, 0, VoidT, FALSE)]
NoFields == [f \in {} |-> Field(VoidT, "public", FALSE)]
NoClasses == [c \in {} |-> {}]

Vocabulary ==
    [classes |-> NoClasses, functions |-> NoFunctions, natives |-> {}, literals |-> {},
     types |-> {}, names |-> {}, annotations |-> {NoType}, unary |-> {}, binary |-> {},
     logical |-> {}, members |-> {}, structs |-> {}, arities |-> {1}, forms |-> {},
     depth |-> 2, scopes |-> 1, objects |-> 0]

(* Operators and natives on literals and results.                          *)
Scalars ==
    [Vocabulary EXCEPT
        !.functions = [Half |-> Decl(<<IntT>>, 1, FloatT, TRUE),
                       Test |-> Decl(<<TextT, IntT>>, 1, LogicT, FALSE)],
        !.natives = {"Print", "ToString", "Abs", "Min", "Floor", "Sqrt", "Length", "Contains"},
        !.literals = LiteralsOf({"int", "float", "string", "true", "false"}),
        !.types = {IntT, FloatT, TextT, LogicT, VoidT, RangeT},
        !.unary = {"-", "not"}, !.binary = {"+", "-", "/", "%", "=", "<"}, !.logical = {"and", "or"},
        !.arities = {1, 2}, !.depth = 3, !.forms = {"range"}]

(* Names and blocks.                                                       *)
Scopes ==
    [Vocabulary EXCEPT
        !.functions = [Half |-> Decl(<<>>, 0, FloatT, TRUE), Test |-> Decl(<<>>, 0, IntT, FALSE)],
        !.literals = LiteralsOf({"int", "false"}),
        !.types = {IntT, FloatT, LogicT},
        !.names = {"X"}, !.annotations = {NoType, FloatT}, !.binary = {"+"}, !.arities = {0},
        !.scopes = 2, !.forms = {"if", "ifexpr"}]

(* Arrays and maps, made, read and written to; then gone through.          *)
Containers ==
    [Vocabulary EXCEPT
        !.functions = [Main |-> Decl(<<>>, 0, MapOf(IntT, IntT), FALSE)],
        !.natives = {"Keys"},
        !.literals = LiteralsOf({"int", "string"}),
        !.types = {IntT, TextT, ArrayOf(IntT), MapOf(IntT, IntT), OptionOf(IntT), ArrayOf(Unknown)},
        !.names = {"X"}, !.annotations = {ArrayOf(IntT), MapOf(IntT, IntT)}, !.binary = {"+"}, !.arities = {0, 1},
        !.depth = 3, !.forms = {"index", "array", "map"}]
Rounds ==
    [Vocabulary EXCEPT
        !.functions = [Main |-> Decl(<<ArrayOf(IntT), MapOf(IntT, TextT)>>, 2, IntT, FALSE)],
        !.literals = LiteralsOf({"int", "false"}),
        !.types = {IntT, ArrayOf(IntT), LogicT},
        !.names = {"X"}, !.binary = {"<"}, !.scopes = 2, !.forms = {"for"}]
Options ==
    [Vocabulary EXCEPT
        !.functions = [Main |-> Decl(<<OptionOf(LogicT)>>, 1, OptionOf(IntT), TRUE),
                       Test |-> Decl(<<>>, 0, VoidT, FALSE)],
        !.natives = {"option"},
        !.literals = LiteralsOf({"int"}),
        !.types = {IntT, OptionOf(IntT), LogicT, OptionOf(LogicT), VoidT},
        !.names = {"X"}, !.scopes = 2, !.depth = 2, !.forms = {"if", "unwrap"}]

(* Values of an unknown type, which are checked when they are used only.   *)
Gradual ==
    [Vocabulary EXCEPT
        !.functions = [Main |-> Decl(<<Unknown>>, 1, IntT, FALSE)],
        !.natives = {"Length"},
        !.literals = LiteralsOf({"int"}),
        !.types = {IntT, Unknown, LogicT, TextT, ArrayOf(Unknown), ArrayOf(IntT)},
        !.names = {"X"}, !.annotations = {NoType, ArrayOf(IntT)}, !.unary = {"-"}, !.binary = {"+"}, !.logical = {"and"},
        !.arities = {0, 1}, !.depth = 2, !.forms = {"index", "array"}]

(* Classes: fields of every access, an abstract method, an interface.      *)
Animals ==
    [Animal |-> [base |-> "", interfaces |-> {}, abstract |-> TRUE,
                 fields |-> [Tame |-> Field(LogicT, "private", TRUE), Friend |-> Field(ClassOf("Animal"), "public", FALSE)],
                 methods |-> [Speak |-> [Decl(<<>>, 0, TextT, FALSE) EXCEPT !.abstract = TRUE]]],
     Speaker |-> [base |-> "", interfaces |-> {}, abstract |-> TRUE, fields |-> NoFields,
                  methods |-> [Speak |-> [Decl(<<>>, 0, TextT, FALSE) EXCEPT !.abstract = TRUE]]],
     Dog |-> [base |-> "Animal", interfaces |-> {"Speaker"}, abstract |-> FALSE,
              fields |-> [Tag |-> Field(IntT, "protected", FALSE)],
              methods |-> [Speak |-> Decl(<<>>, 0, TextT, FALSE)]]]
Classes ==
    [Vocabulary EXCEPT
        !.classes = Animals,
        !.functions = [Adopt |-> Decl(<<ClassOf("Animal")>>, 1, ClassOf("Animal"), FALSE), Main |-> Decl(<<>>, 0, VoidT, FALSE)],
        !.literals = LiteralsOf({"int", "false"}),
        !.types = {IntT, LogicT, TextT, ClassOf("Dog"), ClassOf("Animal"), FunctionOf(<<>>, TextT, 0)},
        !.members = {"Tame", "Tag", "Friend", "Speak"},
        !.structs = {[class |-> "Dog", names |-> <<>>], [class |-> "Dog", names |-> <<"Friend">>]},
        !.names = {"X"}, !.annotations = {ClassOf("Animal")}, !.arities = {0}, !.objects = 2]
(* Tables that must be rejected: Dog leaves Speak abstract, or declares it *)
(* in a way that the interface does not.                                   *)
DogsSpeech == {Animals.Dog.methods, [m \in {} |-> Decl(<<>>, 0, TextT, FALSE)], [Speak |-> Decl(<<>>, 0, IntT, FALSE)]}
ClassPrograms == {[Classes EXCEPT !.classes.Dog.methods = m] : m \in DogsSpeech}

(* A class that declares a method of its base with another signature and a *)
(* field with another type.                                                *)
Cells ==
    [Box |-> [base |-> "", interfaces |-> {}, abstract |-> FALSE,
              fields |-> [Item |-> Field(IntT, "private", TRUE)],
              methods |-> [Get |-> Decl(<<>>, 0, IntT, FALSE)]],
     Odd |-> [base |-> "Box", interfaces |-> {}, abstract |-> FALSE,
              fields |-> [Item |-> Field(TextT, "public", TRUE)],
              methods |-> [Get |-> Decl(<<IntT>>, 1, IntT, TRUE)]]]
Redeclared ==
    [Vocabulary EXCEPT
        !.classes = Cells,
        !.literals = LiteralsOf({"int", "string"}),
        !.functions = [Main |-> Decl(<<>>, 0, VoidT, FALSE)],
        !.types = {IntT, TextT, ClassOf("Box"), ClassOf("Odd"), FunctionOf(<<>>, IntT, 0), FunctionOf(<<IntT>>, IntT, 1)},
        !.members = {"Item", "Get"},
        !.structs = {[class |-> "Odd", names |-> <<"Item">>], [class |-> "Box", names |-> <<>>]},
        !.names = {"X"}, !.annotations = {NoType, ClassOf("Box")}, !.unary = {"-"}, !.arities = {0, 1}, !.objects = 1]

(* A class that makes a public field of its base private.                  *)
Safes ==
    [Crate |-> [base |-> "", interfaces |-> {}, abstract |-> FALSE,
                fields |-> [Item |-> Field(LogicT, "public", FALSE)], methods |-> [Get |-> Decl(<<>>, 0, LogicT, FALSE)]],
     Safe |-> [base |-> "Crate", interfaces |-> {}, abstract |-> FALSE,
               fields |-> [Item |-> Field(LogicT, "private", FALSE)], methods |-> [Put |-> Decl(<<LogicT>>, 1, VoidT, FALSE)]]]
MadePrivate ==
    [Vocabulary EXCEPT
        !.classes = Safes,
        !.literals = LiteralsOf({"true", "false"}),
        !.functions = [Make |-> Decl(<<>>, 0, VoidT, FALSE), Main |-> Decl(<<ClassOf("Crate")>>, 1, VoidT, FALSE)],
        !.types = {LogicT, ClassOf("Crate"), ClassOf("Safe")},
        !.members = {"Item", "Get", "Put"},
        !.structs = {[class |-> "Safe", names |-> <<>>], [class |-> "Safe", names |-> <<"Item">>]},
        !.names = {"X"}, !.annotations = {NoType, ClassOf("Crate")}, !.arities = {0, 1}, !.objects = 1]

(* Fields that are arrays, assigned to element by element.                 *)
Racks ==
    [Rack |-> [base |-> "", interfaces |-> {}, abstract |-> FALSE,
               fields |-> [Items |-> Field(ArrayOf(IntT), "public", TRUE)], methods |-> NoFunctions],
     Odds |-> [base |-> "Rack", interfaces |-> {}, abstract |-> FALSE,
               fields |-> [Items |-> Field(ArrayOf(TextT), "public", TRUE)], methods |-> NoFunctions]]
Elements ==
    [Vocabulary EXCEPT
        !.classes = Racks,
        !.literals = LiteralsOf({"int", "string"}),
        !.functions = [Make |-> Decl(<<>>, 0, VoidT, FALSE), Main |-> Decl(<<ClassOf("Rack")>>, 1, VoidT, FALSE)],
        !.types = {IntT, TextT, ArrayOf(IntT), ArrayOf(TextT), ClassOf("Rack"), ClassOf("Odds")},
        !.members = {"Items"},
        !.structs = {[class |-> "Rack", names |-> <<>>], [class |-> "Odds", names |-> <<>>]},
        !.arities = {0}, !.depth = 4, !.objects = 2]

(* The names of classes as values.                                         *)
ClassNames ==
    [Vocabulary EXCEPT
        !.classes = Animals,
        !.functions = [Main |-> Decl(<<>>, 0, VoidT, FALSE)],
        !.literals = LiteralsOf({"false"}),
        !.types = {LogicT, TextT, ClassOf("Dog"), ClassOf("Animal"), FunctionOf(<<>>, TextT, 0)},
        !.members = {"Friend", "Speak"},
        !.names = {"X"}, !.annotations = {NoType, ClassOf("Animal")}, !.binary = {"="}, !.arities = {0}, !.forms = {"class"}]

(* Functions as values; tasks.                                             *)
Functions ==
    [Vocabulary EXCEPT
        !.functions = [Half |-> Decl(<<IntT>>, 1, IntT, TRUE),
                       Step |-> Decl(<<IntT>>, 0, IntT, FALSE),
                       Main |-> Decl(<<AnyFunction>>, 1, IntT, FALSE)],
        !.literals = LiteralsOf({"int"}),
        !.types = {IntT, Unknown}, !.names = {"X"}, !.annotations = {NoType, FunctionOf(<<IntT>>, IntT, 0)},
        !.arities = {0, 1}, !.scopes = 2, !.forms = {"ifexpr"}]
Tasks ==
    [Vocabulary EXCEPT
        !.functions = [Main |-> Decl(<<>>, 0, LogicT, FALSE)],
        !.literals = LiteralsOf({"int", "false"}),
        !.types = {TaskT, IntT, LogicT, ArrayOf(IntT), ArrayOf(Unknown), Unknown},
        !.members = {"Done", "Result"}, !.unary = {"not"}, !.arities = {1, 2}, !.forms = {"task"}]

(* Blocks in blocks.                                                       *)
Nested ==
    [Vocabulary EXCEPT
        !.functions = [Half |-> Decl(<<>>, 0, IntT, TRUE)],
        !.literals = LiteralsOf({"int", "false"}),
        !.types = {IntT, LogicT}, !.names = {"X"},
        !.arities = {0}, !.depth = 1, !.scopes = 3, !.forms = {"if", "loop"}]

MCPrograms == {Scalars, Scopes, Nested, Containers, Rounds, Options, Gradual, Redeclared, MadePrivate, Elements,
               ClassNames, Functions, Tasks}
              \cup ClassPrograms
=============================================================================
