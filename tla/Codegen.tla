------------------------------- MODULE Codegen -------------------------------
(***************************************************************************)
(* The message generator (px4-msg-codegen): .msg files are parsed line by  *)
(* line, laid out the way PX4's own generator does it, and emitted as      *)
(* #[repr(C)] structs.  Two programs drive it: `xtask gen-msgs`, over the  *)
(* files of msg/ and msg/versioned/, and the attribute #[px4_message],     *)
(* over one file.  Each file gets a Resolver of its own, whose recursion   *)
(* into nested types is the stack below.                                   *)
(*                                                                         *)
(* A line is reduced to what the parser and the emitter ask of it: how it  *)
(* begins, its first word as a type, the words after that, and the text    *)
(* behind an =, of which only the emitter asks whether it is Rust.         *)
(***************************************************************************)
EXTENDS Integers, Sequences, SequencesExt, FiniteSets

CONSTANTS
    Words,      \* the words that occur in the files
    Names,      \* the CamelCase names among them, with and without a file
    Idents,     \* the words that Ident::new takes
    Trees,      \* the file trees to generate from: path -> lines
    MaxDepth    \* bound: frames that fit on the stack of the generator

MsgDirs == <<"msg", "versioned">>

TypeTok == [base : Words, suffix : {"none", "array", "bad"}, n : Nat]
Values == {"none", "empty", "rust", "other"}   \* no =, and what may follow one
Line == [lead : {"#", "# TOPICS", "code"}, ty : TypeTok, rest : Seq(Words), value : Values]

ASSUME CodegenAssumption ==
    /\ MaxDepth \in Nat \ {0}
    /\ Names \subseteq Idents /\ Idents \subseteq Words
    /\ \A tree \in Trees :
          /\ DOMAIN tree \subseteq {"msg", "versioned"} \X Words
          /\ \A p \in DOMAIN tree : tree[p] \in Seq(Line)

VARIABLES
    files,      \* the file tree
    search,     \* Resolver.search: directories in the order of the search
    asked,      \* history: the paths that the driver was asked to generate
    dirs,       \* directories gen_msgs has yet to enumerate
    pending,    \* paths of the current directory it has yet to generate
    stack,      \* the calls of parse_file and layout in progress, outermost first
    cache,      \* Resolver.cache: name -> LaidOutMsg
    out,        \* name -> the struct written for it
    skipped,    \* paths that ended in an error
    panicked,   \* the path whose emission has ended the driver, if any
    overflow    \* the recursion has run out of stack

codegenVars == <<files, search, asked, dirs, pending, stack, cache, out, skipped, panicked, overflow>>

-----------------------------------------------------------------------------
(* Data model and helpers *)

Scalars == {"bool", "char", "int8", "uint8", "int16", "uint16",
            "int32", "uint32", "float32", "int64", "uint64", "float64"}

ScalarSize(s) ==
    CASE s \in {"bool", "char", "int8", "uint8"} -> 1
      [] s \in {"int16", "uint16"} -> 2
      [] s \in {"int32", "uint32", "float32"} -> 4
      [] OTHER -> 8

AlignTo == 8

AlignGap(pos) == IF pos % AlignTo = 0 THEN 0 ELSE AlignTo - (pos % AlignTo)

\* A field is [name, base, n]; a field that is no array has n = 1.
IsNested(field) == field.base \notin Scalars

\* PX4 sorts nested types to the end by giving them the size 0.
FieldSortSize(field) == IF IsNested(field) THEN 0 ELSE ScalarSize(field.base)

\* Scalar::parse takes the whole word, parse_field_type an array suffix too.
IsScalarTok(tok) == tok.base \in Scalars /\ tok.suffix = "none"
IsFieldType(tok) == tok.base \in Scalars \union Names /\ tok.suffix # "bad"

NewFrame(path) ==
    [path |-> path, phase |-> "parse", ln |-> 1, fields |-> <<>>, consts |-> <<>>, topics |-> <<>>,
     todo |-> {}, placed |-> <<>>, accum |-> 0, align |-> 1]

\* Resolver::find: the first directory of the search path with a file for name.
Found(name) == {k \in DOMAIN search : <<search[k], name>> \in DOMAIN files}
IsFirst(k, name) == k \in Found(name) /\ \A j \in Found(name) : k <= j

\* Seeded fault: array lengths are not hashed.
HashStringNoLength(fields) ==
    FlattenSeq([i \in DOMAIN fields |->
        <<[fields[i] EXCEPT !.n = 1]>>
            \o (IF IsNested(fields[i]) THEN cache[fields[i].base].hashed ELSE <<>>)])

\* The string that message_hash hashes: the fields in the order of the file,
\* each nested one followed by those of its type.
HashString(fields) ==
    FlattenSeq([i \in DOMAIN fields |->
        <<fields[i]>>
            \o (IF IsNested(fields[i]) THEN cache[fields[i].base].hashed ELSE <<>>)])

Top == stack[Len(stack)]
CurLine == files[Top.path][Top.ln]
EndOfFile == Top.ln > Len(files[Top.path])

SetTop(frame) ==
    /\ stack' = [stack EXCEPT ![Len(stack)] = frame]
    /\ UNCHANGED <<files, search, asked, dirs, pending, cache, out, skipped, panicked, overflow>>

\* Seeded fault: the driver passes the error on and ends.
FailFast ==
    /\ stack' = <<>> /\ pending' = {} /\ dirs' = <<>>
    /\ UNCHANGED <<files, search, asked, cache, out, skipped, panicked, overflow>>

\* An error leaves every call at once: generate fails, and its driver records
\* the file and goes on.
Fail ==
    /\ skipped' = skipped \union {stack[1].path}
    /\ stack' = <<>>
    /\ UNCHANGED <<files, search, asked, dirs, pending, cache, out, panicked, overflow>>

-----------------------------------------------------------------------------
(* parse_str *)

Advance(frame) == SetTop([frame EXCEPT !.ln = @ + 1])

Parsing(lead) ==
    /\ stack # <<>> /\ ~overflow
    /\ Top.phase = "parse" /\ ~EndOfFile
    /\ CurLine.lead = lead

HasEq(line) == line.value # "none"
IsBlank(line) == line.ty.base = "" /\ line.rest = <<>> /\ ~HasEq(line)

CommentLine == Parsing("#") /\ Advance(Top)

BlankLine == Parsing("code") /\ IsBlank(CurLine) /\ Advance(Top)

\* The last directive counts.
TopicsLine ==
    /\ Parsing("# TOPICS")
    /\ \/ CurLine.rest # <<>> /\ Advance([Top EXCEPT !.topics = CurLine.rest])
       \/ CurLine.rest = <<>> /\ Fail

\* type name = value.  Neither the name nor the value is looked at.
ConstLine ==
    LET ok == IsScalarTok(CurLine.ty) /\ Len(CurLine.rest) = 1
    IN  /\ Parsing("code")
        /\ HasEq(CurLine)
        /\ \/ ok /\ Advance([Top EXCEPT !.consts =
                Append(@, [name |-> CurLine.rest[1], value |-> CurLine.value])])
           \/ ~ok /\ Fail

\* Seeded fault: words after the name of a field are ignored.
FieldLineLenient ==
    LET ok == IsFieldType(CurLine.ty) /\ Len(CurLine.rest) >= 1
    IN  /\ Parsing("code")
        /\ ~HasEq(CurLine) /\ ~IsBlank(CurLine)
        /\ \/ ok /\ Advance([Top EXCEPT !.fields =
                Append(@, [name |-> CurLine.rest[1], base |-> CurLine.ty.base, n |-> CurLine.ty.n])])
           \/ ~ok /\ Fail

\* type name
FieldLine ==
    LET ok == IsFieldType(CurLine.ty) /\ Len(CurLine.rest) = 1
    IN  /\ Parsing("code")
        /\ ~HasEq(CurLine) /\ ~IsBlank(CurLine)
        /\ \/ ok /\ Advance([Top EXCEPT !.fields =
                Append(@, [name |-> CurLine.rest[1], base |-> CurLine.ty.base, n |-> CurLine.ty.n])])
           \/ ~ok /\ Fail

\* Without a directive the topic has the name of the message.
ParseEnd ==
    /\ stack # <<>> /\ ~overflow
    /\ Top.phase = "parse" /\ EndOfFile
    /\ SetTop([Top EXCEPT
            !.phase = "layout",
            !.todo = DOMAIN Top.fields,
            !.topics = IF @ = <<>> THEN <<Top.path[2]>> ELSE @])

-----------------------------------------------------------------------------
(* Resolver::layout *)

\* Seeded fault: equal sizes come in reverse.
IsNextUnstable(i) ==
    \A j \in Top.todo \ {i} :
        LET si == FieldSortSize(Top.fields[i])
            sj == FieldSortSize(Top.fields[j])
        IN  si > sj \/ (si = sj /\ i > j)

\* Field i is the next in the stable sort by descending size.
IsNext(i) ==
    \A j \in Top.todo \ {i} :
        LET si == FieldSortSize(Top.fields[i])
            sj == FieldSortSize(Top.fields[j])
        IN  si > sj \/ (si = sj /\ i < j)

\* Laying out field i of the top frame.
Laying(i) ==
    /\ Top.phase = "layout"
    /\ i \in Top.todo
    /\ IsNext(i)

\* A member of the struct: a field of the file, or padding as field 0.
Member(i, off, size, align) == [field |-> i, off |-> off, size |-> size, align |-> align]
WithPadding(members, off, size) ==
    IF size = 0 THEN members ELSE Append(members, Member(0, off, size, 1))

Larger(a, b) == IF a > b THEN a ELSE b

PlaceScalar(i) ==
    LET field == Top.fields[i]
        width == ScalarSize(field.base)
    IN  /\ Laying(i)
        /\ ~IsNested(field)
        /\ SetTop([Top EXCEPT
                !.todo = @ \ {i},
                !.placed = Append(@, Member(i, Top.accum, width * field.n, width)),
                !.accum = @ + width * field.n,
                !.align = Larger(@, width)])

\* Seeded fault: no padding in front of a nested type.
PlaceNestedUnpadded(i) ==
    LET field == Top.fields[i]
        laid  == cache[field.base]
    IN  /\ Laying(i)
        /\ IsNested(field) /\ field.base \in DOMAIN cache
        /\ SetTop([Top EXCEPT
                !.todo = @ \ {i},
                !.placed = Append(@, Member(i, Top.accum, laid.size * field.n, laid.align)),
                !.accum = @ + laid.size * field.n,
                !.align = Larger(@, laid.align)])

\* Seeded fault: an array of a nested type gets the size of one element.
PlaceNestedOne(i) ==
    LET field == Top.fields[i]
        laid  == cache[field.base]
        pad   == AlignGap(Top.accum)
    IN  /\ Laying(i)
        /\ IsNested(field) /\ field.base \in DOMAIN cache
        /\ SetTop([Top EXCEPT
                !.todo = @ \ {i},
                !.placed = Append(WithPadding(@, Top.accum, pad),
                                  Member(i, Top.accum + pad, laid.size, laid.align)),
                !.accum = @ + pad + laid.size,
                !.align = Larger(@, laid.align)])

\* layout_by_name finds the type in the cache.
PlaceNested(i) ==
    LET field == Top.fields[i]
        laid  == cache[field.base]
        pad   == AlignGap(Top.accum)
    IN  /\ Laying(i)
        /\ IsNested(field) /\ field.base \in DOMAIN cache
        /\ SetTop([Top EXCEPT
                !.todo = @ \ {i},
                !.placed = Append(WithPadding(@, Top.accum, pad),
                                  Member(i, Top.accum + pad, laid.size * field.n, laid.align)),
                !.accum = @ + pad + laid.size * field.n,
                !.align = Larger(@, laid.align)])

\* layout_by_name has to find, parse and lay out the type first.
Resolve(i) ==
    LET name == Top.fields[i].base
    IN  /\ Laying(i)
        /\ IsNested(Top.fields[i]) /\ name \notin DOMAIN cache
        /\ \/ Found(name) = {} /\ Fail
           \/ /\ Len(stack) < MaxDepth
              /\ \E k \in Found(name) :
                    /\ IsFirst(k, name)
                    /\ stack' = Append(stack, NewFrame(<<search[k], name>>))
              /\ UNCHANGED <<files, search, asked, dirs, pending, cache, out, skipped, panicked, overflow>>
           \/ /\ Found(name) # {} /\ Len(stack) = MaxDepth
              /\ overflow' = TRUE
              /\ UNCHANGED <<files, search, asked, dirs, pending, stack, cache, out, skipped, panicked>>

\* HashMap::insert
Insert(map, name, laid) == [m \in DOMAIN map \union {name} |-> IF m = name THEN laid ELSE map[m]]

LaidOut(frame, tail) ==
    [members |-> WithPadding(frame.placed, frame.accum, tail), size |-> frame.accum + tail,
     align |-> frame.align, fields |-> frame.fields, consts |-> frame.consts,
     topics |-> frame.topics, hashed |-> HashString(frame.fields)]

\* sanitize_ident: a keyword gets r#, which no path keyword may have.
IsFieldIdent(word) == word \in Idents \ {"crate", "self", "super"}

\* Nothing that emit makes an identifier or tokens of is refused.
Emittable(name, laid) ==
    /\ name \in Idents
    /\ \A i \in DOMAIN laid.fields : IsFieldIdent(laid.fields[i].name)
    /\ \A i \in DOMAIN laid.consts : laid.consts[i].name \in Idents /\ laid.consts[i].value # "other"
    /\ \A i \in DOMAIN laid.topics : laid.topics[i] \in Idents

\* What emit writes goes to a file named after the message, replacing an
\* earlier one.  It panics on what is refused, and nobody catches that.
Emit(path, laid) ==
    \/ /\ Emittable(path[2], laid)
       /\ out' = Insert(out, path[2], laid)
       /\ UNCHANGED panicked
    \/ /\ ~Emittable(path[2], laid)
       /\ panicked' = {path}
       /\ UNCHANGED out

\* Tail padding, hash and cache; the outermost call goes on to emit.
LayoutEnd ==
    LET laid == LaidOut(Top, AlignGap(Top.accum))
    IN  /\ stack # <<>> /\ ~overflow
        /\ Top.phase = "layout" /\ Top.todo = {}
        /\ cache' = Insert(cache, Top.path[2], laid)
        /\ stack' = Front(stack)
        /\ \/ Len(stack) = 1 /\ Emit(Top.path, laid)
           \/ Len(stack) > 1 /\ UNCHANGED <<out, panicked>>
        /\ UNCHANGED <<files, search, asked, dirs, pending, skipped, overflow>>

-----------------------------------------------------------------------------
(* The drivers *)

\* gen_msgs: msg/versioned takes part if it is there.
XtaskInit ==
    /\ dirs = IF \E p \in DOMAIN files : p[1] = "versioned" THEN MsgDirs ELSE <<"msg">>
    /\ search = dirs
    /\ pending = {}
    /\ asked = DOMAIN files

\* #[px4_message(path)]: nested types are looked for in the file's directory.
MacroInit ==
    \E p \in DOMAIN files :
        /\ dirs = <<>>
        /\ search = <<p[1]>>
        /\ pending = {p}
        /\ asked = {p}

CodegenInit ==
    /\ files \in Trees
    /\ XtaskInit \/ MacroInit
    /\ stack = <<>> /\ cache = <<>> /\ out = <<>>
    /\ skipped = {} /\ panicked = {} /\ overflow = FALSE

NextDir ==
    /\ stack = <<>> /\ panicked = {} /\ pending = {} /\ dirs # <<>>
    /\ pending' = {p \in DOMAIN files : p[1] = Head(dirs)}
    /\ dirs' = Tail(dirs)
    /\ UNCHANGED <<files, search, asked, stack, cache, out, skipped, panicked, overflow>>

\* Directory entries come in any order.  Every file has a new Resolver.
Generate(path) ==
    /\ stack = <<>> /\ panicked = {}
    /\ path \in pending
    /\ pending' = pending \ {path}
    /\ stack' = <<NewFrame(path)>>
    /\ cache' = <<>>
    /\ UNCHANGED <<files, search, asked, dirs, out, skipped, panicked, overflow>>

ParseStep == CommentLine \/ BlankLine \/ TopicsLine \/ ConstLine \/ FieldLine \/ ParseEnd

LayoutStep ==
    \/ /\ stack # <<>> /\ ~overflow
       /\ \E i \in Top.todo : PlaceScalar(i) \/ PlaceNested(i) \/ Resolve(i)
    \/ LayoutEnd

CodegenNext ==
    \/ NextDir
    \/ \E p \in pending : Generate(p)
    \/ ParseStep
    \/ LayoutStep

CodegenSpec == CodegenInit /\ [][CodegenNext]_codegenVars
CodegenFairSpec == CodegenSpec /\ WF_codegenVars(CodegenNext)

-----------------------------------------------------------------------------
(* Properties *)

FieldType == [name : Words, base : Scalars \union Names, n : Nat]
ConstType == [name : Words, value : Values]
MemberType == [field : Nat, off : Nat, size : Nat, align : {1, 2, 4, 8}]
FrameType ==
    [path : DOMAIN files, phase : {"parse", "layout"}, ln : Nat \ {0}, fields : Seq(FieldType),
     consts : Seq(ConstType), topics : Seq(Words), todo : SUBSET Nat,
     placed : Seq(MemberType), accum : Nat, align : {1, 2, 4, 8}]

\* What the calls in progress and the structs laid out are made of.  Every
\* struct has a topic and every frame lays out fields it has.
CodegenTypeOK ==
    /\ pending \subseteq DOMAIN files /\ skipped \subseteq DOMAIN files /\ panicked \subseteq DOMAIN files
    /\ stack \in Seq(FrameType) /\ Len(stack) <= MaxDepth
    /\ \A k \in DOMAIN stack : stack[k].todo \subseteq DOMAIN stack[k].fields
    /\ \A laid \in {cache[m] : m \in DOMAIN cache} \union {out[m] : m \in DOMAIN out} :
          laid.members \in Seq(MemberType) /\ laid.size \in Nat /\ laid.topics # <<>>
    /\ overflow \in BOOLEAN

\* The end of the first k members.
EndOf(members, k) == IF k = 0 THEN 0 ELSE members[k].off + members[k].size

\* rustc's rule for #[repr(C)] adds nothing to these members: each follows the
\* one before it at an offset that suits its alignment, and the size is that of
\* the members.
IsPacked(laid) ==
    /\ \A k \in DOMAIN laid.members :
          /\ laid.members[k].off = EndOf(laid.members, k - 1)
          /\ laid.members[k].off % laid.members[k].align = 0
    /\ laid.size = EndOf(laid.members, Len(laid.members))
    /\ laid.size % AlignTo = 0

\* The sorting and padding of Resolver::layout leave the compiler nothing to
\* pad, whatever the mix of scalars, arrays and nested types: the bytes that a
\* publication copies are all fields or explicit padding.
NoImplicitPadding ==
    /\ \A m \in DOMAIN cache : IsPacked(cache[m])
    /\ \A m \in DOMAIN out : IsPacked(out[m])

\* PX4's order: every field once, larger scalars first, nested types last,
\* and the order of the file between equals.
PX4Order ==
    \A m \in DOMAIN out :
        LET fields == out[m].fields
            mb     == out[m].members
            real   == {k \in DOMAIN mb : mb[k].field # 0}
            Key(k) == FieldSortSize(fields[mb[k].field])
        IN  /\ {mb[k].field : k \in real} = DOMAIN fields
            /\ \A k, l \in real : k < l =>
                  \/ Key(k) > Key(l)
                  \/ Key(k) = Key(l) /\ mb[k].field < mb[l].field

Shadowed(name) == \A d \in {"msg", "versioned"} : <<d, name>> \in DOMAIN files

\* The assertion on size_of that emit writes next to every struct: the size
\* computed from the layouts the Resolver saw is the one rustc computes from
\* the structs that were written, unless two files have the type's name.
SizeAssertHolds ==
    \A m \in DOMAIN out : \A k \in DOMAIN out[m].members :
        LET mb    == out[m].members[k]
            field == out[m].fields[mb.field]
        IN  mb.field # 0 =>
                IF ~IsNested(field) THEN mb.size = ScalarSize(field.base) * field.n
                ELSE (field.base \in DOMAIN out /\ ~Shadowed(field.base))
                        => mb.size = out[field.base].size * field.n

\* The hash is PX4's test for compatible topics: messages that hash the same
\* string have the same layout.
HashTellsLayouts ==
    \A m1, m2 \in DOMAIN out :
        out[m1].hashed = out[m2].hashed => out[m1].members = out[m2].members

\* The lines that parse_str takes: those of the grammar in the header of
\* parser.rs, with any word for an ident and any text for a value.
Accepted(line) ==
    \/ line.lead = "#"
    \/ line.lead = "# TOPICS" /\ line.rest # <<>>
    \/ line.lead = "code" /\ (IsBlank(line) \/ (Len(line.rest) = 1
            /\ IF HasEq(line) THEN IsScalarTok(line.ty) ELSE IsFieldType(line.ty)))

\* The types that the fields of a file name, and the files found for them.
FieldLines(path) ==
    {k \in DOMAIN files[path] :
        LET line == files[path][k] IN line.lead = "code" /\ ~HasEq(line) /\ ~IsBlank(line)}
Uses(path) == {files[path][k].ty.base : k \in FieldLines(path)} \intersect (Names \ Scalars)
Needs(path) ==
    {q \in DOMAIN files : \E n \in Uses(path), k \in DOMAIN search : IsFirst(k, n) /\ q = <<search[k], n>>}

\* The files that generating path has to read.
Reach(path) ==
    {q \in DOMAIN files : \A S \in SUBSET DOMAIN files :
        (path \in S /\ \A r \in S : Needs(r) \subseteq S) => q \in S}

Sound(path) ==
    \A q \in Reach(path) :
        /\ \A k \in DOMAIN files[q] : Accepted(files[q][k])
        /\ \A n \in Uses(q) : Found(n) # {}

\* The lines of a file that only the emitter looks into.
ConstLines(path) ==
    {k \in DOMAIN files[path] : files[path][k].lead = "code" /\ HasEq(files[path][k])}
TopicLines(path) == {k \in DOMAIN files[path] : files[path][k].lead = "# TOPICS"}

\* The names and values in a file, and its own name, are Rust.
Writable(path) ==
    /\ path[2] \in Idents
    /\ \A k \in FieldLines(path) : IsFieldIdent(files[path][k].rest[1])
    /\ \A k \in ConstLines(path) : files[path][k].rest[1] \in Idents /\ files[path][k].value # "other"
    /\ \A k \in TopicLines(path) : (\A j \in TopicLines(path) : j <= k) =>
          \A i \in DOMAIN files[path][k].rest : files[path][k].rest[i] \in Idents

Finished == stack = <<>> /\ pending = {} /\ dirs = <<>> /\ panicked = {}

\* Every file that was to be generated is reported or written.
Settled == \A p \in asked : p \in skipped \/ p[2] \in DOMAIN out

\* One bad file costs exactly the messages that need it: a message is skipped
\* only if a file it reaches has a line the parser refuses or names a type
\* without a file, it is written only if none does and its own file has no name
\* or value that is not Rust, and a run that ends has done one or the other with
\* every file.  The exception is a file that parses and is not Rust: emit panics
\* and gen_msgs ends there.  Such a file as a nested type costs nothing.
SkippedForCause ==
    /\ \A p \in skipped : ~Sound(p)
    /\ \A m \in DOMAIN out : \E p \in DOMAIN files : p[2] = m /\ Sound(p) /\ Writable(p)
    /\ \A p \in panicked : Sound(p) /\ ~Writable(p)
    /\ Finished => Settled

Cyclic == \E p \in DOMAIN files : \E q \in Needs(p) : p \in Reach(q)

\* Every message asked for is written or skipped in the end, errors or not: the
\* recursion into nested types comes to an end, and an error in one file leaves
\* the ones behind it to be generated.  Only a panic of emit keeps the generator
\* from it, and a type that contains itself, where nothing stops the recursion.
EveryFileSettles == <>(Settled \/ panicked # {} \/ (overflow /\ Cyclic))
=============================================================================
