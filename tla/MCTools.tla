------------------------------ MODULE MCTools ------------------------------
EXTENDS Codegen, Entry

Tok(b) == [base |-> b, suffix |-> "none", n |-> 1]
Arr(b, k) == [base |-> b, suffix |-> "array", n |-> k]
Bad(b) == [base |-> b, suffix |-> "bad", n |-> 1]
NoTok == Tok("")
Code(tok, words, v) == [lead |-> "code", ty |-> tok, rest |-> words, value |-> v]
Field(tok, name) == Code(tok, <<name>>, "none")
Lead(l, words) == [lead |-> l, ty |-> NoTok, rest |-> words, value |-> "none"]

MCNames == {"A", "B", "V", "Missing"}
MCIdents == MCNames \union Scalars \union {"lower", "K", "t1", "t2", "self", "a", "b", "c", "d", "e", "f", "g", "x", "y", "z"}
MCWords == MCIdents \union {"", "a-b"}

\* Fields of every size, arrays of odd and zero length, nested types.
Fields == {Field(Tok("uint64"), "a"), Field(Tok("float32"), "b"), Field(Arr("uint16", 3), "c"),
           Field(Arr("char", 3), "d"), Field(Arr("int64", 0), "e"),
           Field(Tok("B"), "f"), Field(Arr("V", 2), "g")}
Others == {Lead("#", <<>>), Lead("# TOPICS", <<"t1", "t2">>), Lead("# TOPICS", <<>>),
           Code(NoTok, <<>>, "none"), Code(NoTok, <<>>, "rust"),
           Code(Tok("uint8"), <<"K">>, "rust"), Code(Tok("uint8"), <<>>, "rust"),
           Code(Tok("uint8"), <<"K", "x">>, "rust"), Code(Arr("uint8", 2), <<"K">>, "rust"),
           Code(Tok("uint8"), <<>>, "none"), Code(Tok("uint8"), <<"x", "y">>, "none"),
           Field(Bad("uint8"), "x"), Field(Tok("lower"), "x"), Field(Tok("Missing"), "x")}

Fillers == {Field(Arr("uint16", 3), "x"), Field(Arr("char", 3), "y"), Field(Tok("B"), "z")}
TextsA == {<<f, g, h>> : f, g \in Fields, h \in Fillers} \union {<<f, o>> : f \in Fields, o \in Others}
TextsB == {<<>>, <<Field(Arr("char", 5), "d")>>, <<Field(Tok("bool"), "x"), Field(Tok("uint32"), "y")>>,
           <<Field(Tok("V"), "x"), Field(Arr("uint8", 3), "y")>>,
           <<Field(Tok("B"), "x")>>, <<Field(Tok("uint8"), "x"), Field(Bad("uint8"), "y")>>}
TextsV == {<<Field(Arr("uint8", 5), "x")>>, <<Field(Tok("uint16"), "x"), Field(Tok("uint64"), "y")>>}

TwoDirs == {(<<"msg", "A">> :> a) @@ (<<"msg", "B">> :> b) @@ (<<"versioned", "V">> :> v) :
                a \in TextsA, b \in TextsB, v \in TextsV}
OneDir  == {(<<"msg", "A">> :> a) @@ (<<"msg", "B">> :> b) : a \in TextsA, b \in TextsB}
\* A type with two files: msg/B is found first, versioned/B is written last.
Shadow  == {(<<"msg", "A">> :> <<Field(Arr("B", 2), "x")>>) @@ (<<"msg", "B">> :> b) @@ (<<"versioned", "B">> :> v) :
                b \in TextsB, v \in TextsV}
\* A file that parses and has a name or a value that is not Rust, as B, which A
\* uses, and files with a name that is none.
NotRust == {<<Field(Tok("uint8"), "a-b")>>, <<Field(Tok("uint8"), "self")>>,
            <<Code(Tok("uint8"), <<"a-b">>, "rust")>>, <<Code(Tok("uint8"), <<"K">>, "other")>>,
            <<Lead("# TOPICS", <<"a-b">>)>>}
ButRust == {<<Code(Tok("uint8"), <<"K">>, "empty")>>, <<Code(Tok("uint8"), <<"self">>, "rust")>>,
            <<Lead("# TOPICS", <<"a-b">>), Lead("# TOPICS", <<"t1">>)>>}
Unwritable == {(<<"msg", "A">> :> a) @@ (<<"msg", "B">> :> b) @@ (<<"versioned", v>> :> <<>>) :
                a \in {<<Field(Tok("B"), "x")>>, <<Field(Tok("Missing"), "x")>>},
                b \in NotRust \union ButRust, v \in {"V", "a-b"}}
MCTrees == TwoDirs \union OneDir \union Shadow \union Unwritable

-----------------------------------------------------------------------------
MCNul == [id |-> "nul", w |-> 1]
X == [id |-> "x", w |-> 1]
E == [id |-> "e", w |-> 2]
U == [id |-> "u", w |-> 3]
MCChars == {X, E, U, MCNul}
\* With six bytes for text: shorter, exactly full, cut between characters and
\* through one, a small piece after one that did not fit, an embedded NUL.
MCMessages == {<<>>, <<<<X>>>>, <<<<X, E>>, <<U>>>>, <<<<U, U, U>>, <<X>>>>, <<<<E, U>>, <<E>>, <<X>>>>,
               <<<<X, X, X, X, X>>, <<U>>, <<X>>>>, <<<<X, MCNul>>, <<X>>>>}
MCTargets == {<<X, X>>, <<X, E, E>>, <<E, E, E>>}
MCArgVectors ==
    {[argc |-> 0, argv |-> <<"m">>], [argc |-> -1, argv |-> <<>>], [argc |-> 2, argv |-> Null],
     [argc |-> 1, argv |-> <<"m">>], [argc |-> 2, argv |-> <<"m", "start", "more">>],
     [argc |-> 3, argv |-> <<Null, "a", "b">>], [argc |-> 4, argv |-> <<"m", Null, Null, "b">>],
     [argc |-> 2, argv |-> <<"m", Null>>]}
MCResults == {[oks |-> o, leaf |-> "err", val |-> 0, pieces |-> <<<<X, E>>, <<U, X>>>>] : o \in 0..2}
    \union {[oks |-> o, leaf |-> l, val |-> 3, pieces |-> <<>>] : o \in 0..1, l \in {"unit", "int"}}

\* The generator runs at build time, the entry point on the target.
CodegenIdle == files = <<>> /\ search = <<>> /\ asked = {} /\ dirs = <<>> /\ pending = {} /\ stack = <<>>
                /\ cache = <<>> /\ out = <<>> /\ skipped = {} /\ panicked = {} /\ overflow = FALSE
EntryIdle == host = "std" /\ args = [argc |-> 0, argv |-> Null] /\ epc = "done" /\ idx = 0
                /\ yielded = <<>> /\ exhausted = FALSE /\ sub = Null /\ logger = "none" /\ maxLevel = "Off"
                /\ msg = Null /\ buf = <<>> /\ sink = <<>> /\ result = [leaf |-> "unit"] /\ ret = 0
MCInit == (CodegenInit /\ EntryIdle) \/ (CodegenIdle /\ EntryInit)
MCNext == (CodegenNext /\ UNCHANGED entryVars) \/ (EntryNext /\ UNCHANGED codegenVars)
MCVars == <<codegenVars, entryVars>>
MCSpec == MCInit /\ [][MCNext]_MCVars /\ WF_MCVars(CodegenNext /\ UNCHANGED entryVars)

\* The type invariant of both parts: among others, every struct has a topic and
\* the message buffer keeps a byte for its terminator.
ToolsTypeOK == CodegenTypeOK /\ EntryTypeOK
=============================================================================
