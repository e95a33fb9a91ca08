---------------------------- MODULE ToolsProofs ----------------------------
(***************************************************************************)
(* Theorems about the message generator, for any tree of .msg files: its   *)
(* structs need no padding from the compiler and list their fields in the  *)
(* order of PX4's own generator, a message is left out only for a cause    *)
(* and none is lost unless emit panics, the assertions on sizes that are   *)
(* written with the structs hold for nested types with a single file, and  *)
(* the hash of a message decides its layout.  With EntryProofs they give   *)
(* the type invariant of the two parts together.                           *)
(***************************************************************************)
EXTENDS MCTools, EntryProofs

\* The widths of scalars.
Widths == {1, 2, 4, 8}

\* A scalar has one of the four widths.
LEMMA SizeRange == \A s : ScalarSize(s) \in Widths
  BY DEF ScalarSize, Widths

\* Behind any number of wider scalars a narrower one is still aligned.
LEMMA StillAligned ==
    ASSUME NEW a \in Nat, NEW n \in Nat, NEW w \in Widths, NEW t \in Widths,
           t <= w, a % t = 0
    PROVE  (a + w * n) % t = 0
<1>1. CASE w = 1
  BY <1>1 DEF Widths
<1>2. CASE w = 2
  BY <1>2 DEF Widths
<1>3. CASE w = 4
  BY <1>3 DEF Widths
<1>4. CASE w = 8
  BY <1>4 DEF Widths
<1> QED BY <1>1, <1>2, <1>3, <1>4 DEF Widths

\* What align_gap promises.
LEMMA GapAligns ==
    ASSUME NEW a \in Nat
    PROVE  AlignGap(a) \in Nat /\ (a + AlignGap(a)) % 8 = 0
  BY DEF AlignGap, AlignTo

\* A multiple of eight suits every width.
LEMMA EightSuitsAll ==
    ASSUME NEW a \in Nat, a % 8 = 0, NEW t \in Widths
    PROVE  a % t = 0
  BY DEF Widths

-----------------------------------------------------------------------------
(* Members one behind the other *)

\* The members follow each other, aligned, up to the offset end.
Chain(members, end) ==
    /\ members \in Seq(MemberType)
    /\ \A k \in DOMAIN members :
          /\ members[k].off = EndOf(members, k - 1)
          /\ members[k].off % members[k].align = 0
    /\ end = EndOf(members, Len(members))

\* A member placed at the end of a chain makes a longer chain.
LEMMA ChainAppend ==
    ASSUME NEW members, NEW end, Chain(members, end),
           NEW mb \in MemberType, mb.off = end, mb.off % mb.align = 0
    PROVE  Chain(Append(members, mb), end + mb.size)
<1> DEFINE longer == Append(members, mb)
<1>1. longer \in Seq(MemberType) /\ Len(longer) = Len(members) + 1 /\ Len(members) \in Nat
  BY DEF Chain
<1>2. \A k \in 1..Len(members) : longer[k] = members[k]
  BY DEF Chain
<1>3. longer[Len(members) + 1] = mb
  BY DEF Chain
<1>4. \A k \in 0..Len(members) : EndOf(longer, k) = EndOf(members, k)
  BY <1>1, <1>2 DEF EndOf
<1>5. ASSUME NEW k \in DOMAIN longer
      PROVE  longer[k].off = EndOf(longer, k - 1) /\ longer[k].off % longer[k].align = 0
  <2>1. CASE k <= Len(members)
    <3>1. k \in DOMAIN members /\ k - 1 \in 0..Len(members)
      BY <1>1, <2>1 DEF Chain
    <3> QED BY <1>1, <1>2, <1>4, <2>1, <3>1 DEF Chain
  <2>2. CASE k = Len(members) + 1
    BY <1>1, <1>3, <1>4, <2>2 DEF Chain
  <2> QED BY <1>1, <2>1, <2>2
<1>6. end + mb.size = EndOf(longer, Len(longer))
  BY <1>1, <1>3 DEF EndOf
<1> QED BY <1>1, <1>5, <1>6 DEF Chain

\* Padding keeps a chain a chain.
LEMMA ChainPadding ==
    ASSUME NEW members, NEW end \in Nat, NEW size \in Nat, Chain(members, end)
    PROVE  Chain(WithPadding(members, end, size), end + size)
<1>1. CASE size = 0
  BY <1>1 DEF WithPadding
<1>2. CASE size # 0
  <2>1. Member(0, end, size, 1) \in MemberType
    BY DEF Member, MemberType
  <2>2. end % 1 = 0
    OBVIOUS
  <2> QED BY <1>2, <2>1, <2>2, ChainAppend DEF WithPadding, Member
<1> QED BY <1>1, <1>2

-----------------------------------------------------------------------------
(* Members in PX4's order *)

\* Field i comes before field j.
Before(fields, i, j) ==
    \/ FieldSortSize(fields[i]) > FieldSortSize(fields[j])
    \/ FieldSortSize(fields[i]) = FieldSortSize(fields[j]) /\ i < j

\* The members that are fields, with the fields todo, are all the fields; they
\* are in order, and before everything in todo.
Ordered(fields, members, todo) ==
    /\ {members[k].field : k \in {l \in DOMAIN members : members[l].field # 0}} \union todo = DOMAIN fields
    /\ \A k, l \in DOMAIN members :
          (k < l /\ members[k].field # 0 /\ members[l].field # 0)
            => Before(fields, members[k].field, members[l].field)
    /\ \A k \in DOMAIN members : members[k].field # 0
            => \A j \in todo : Before(fields, members[k].field, j)

\* The order is kept by appending what comes first of the rest.
LEMMA OrderedAppend ==
    ASSUME NEW fields, NEW members \in Seq(MemberType), NEW todo, Ordered(fields, members, todo),
           NEW mb \in MemberType, NEW i \in todo, mb.field = i, i # 0,
           \A j \in todo \ {i} : Before(fields, i, j)
    PROVE  Ordered(fields, Append(members, mb), todo \ {i})
<1> DEFINE longer == Append(members, mb)
           n == Len(members) + 1
<1>1. DOMAIN longer = 1..n /\ DOMAIN members = 1..(n - 1) /\ n \in Nat
  OBVIOUS
<1>2. \A k \in DOMAIN members : longer[k] = members[k] /\ k \in DOMAIN longer /\ k < n
  OBVIOUS
<1>3. longer[n] = mb /\ n \in DOMAIN longer
  OBVIOUS
<1>4. \A k \in DOMAIN longer : k \in DOMAIN members \/ k = n
  BY <1>1
<1> HIDE DEF longer, n
<1>5. {longer[k].field : k \in {l \in DOMAIN longer : longer[l].field # 0}} \union (todo \ {i}) = DOMAIN fields
  <2>1. \A x : x \in {longer[k].field : k \in {l \in DOMAIN longer : longer[l].field # 0}}
            <=> x = i \/ x \in {members[k].field : k \in {l \in DOMAIN members : members[l].field # 0}}
    BY <1>2, <1>3, <1>4
  <2> QED BY <2>1 DEF Ordered
<1>6. ASSUME NEW k \in DOMAIN longer, NEW l \in DOMAIN longer,
             k < l, longer[k].field # 0, longer[l].field # 0
      PROVE  Before(fields, longer[k].field, longer[l].field)
  <2>1. k \in DOMAIN members
    BY <1>1, <1>4, <1>6
  <2>2. CASE l \in DOMAIN members
    BY <1>2, <1>6, <2>1, <2>2 DEF Ordered
  <2>3. CASE l = n
    BY <1>2, <1>3, <1>6, <2>1, <2>3 DEF Ordered
  <2> QED BY <1>4, <2>2, <2>3
<1>7. ASSUME NEW k \in DOMAIN longer, longer[k].field # 0, NEW j \in todo \ {i}
      PROVE  Before(fields, longer[k].field, j)
  BY <1>2, <1>3, <1>4, <1>7 DEF Ordered
<1> QED BY <1>5, <1>6, <1>7 DEF Ordered, longer

\* Padding is no field.
LEMMA OrderedPadding ==
    ASSUME NEW fields, NEW members \in Seq(MemberType), NEW todo, Ordered(fields, members, todo),
           NEW off, NEW size
    PROVE  Ordered(fields, WithPadding(members, off, size), todo)
<1>1. CASE size = 0
  BY <1>1 DEF WithPadding
<1>2. CASE size # 0
  <2> DEFINE mb == Member(0, off, size, 1)
             longer == Append(members, mb)
             n == Len(members) + 1
  <2>1. DOMAIN longer = 1..n /\ DOMAIN members = 1..(n - 1) /\ n \in Nat
    OBVIOUS
  <2>2. \A k \in DOMAIN members : longer[k] = members[k] /\ k \in DOMAIN longer
    OBVIOUS
  <2>3. longer[n].field = 0
    BY DEF Member
  <2>4. \A k \in DOMAIN longer : k \in DOMAIN members \/ k = n
    BY <2>1
  <2>5. WithPadding(members, off, size) = longer
    BY <1>2 DEF WithPadding
  <2> HIDE DEF longer, n
  <2>6. \A k \in DOMAIN longer : longer[k].field # 0 => k \in DOMAIN members /\ longer[k] = members[k]
    BY <2>2, <2>3, <2>4
  <2>7. {longer[k].field : k \in {l \in DOMAIN longer : longer[l].field # 0}}
            = {members[k].field : k \in {l \in DOMAIN members : members[l].field # 0}}
    BY <2>2, <2>6
  <2>8. Ordered(fields, longer, todo)
    BY <2>6, <2>7 DEF Ordered
  <2> QED BY <2>5, <2>8
<1> QED BY <1>1, <1>2

-----------------------------------------------------------------------------
(* The inductive invariant *)

\* A call in progress: its members are a chain that ends where the next one
\* goes, every scalar it has yet to place would be aligned there, and they are
\* in order.
FrameInv(f) ==
    /\ f \in FrameType
    /\ f.todo \subseteq DOMAIN f.fields
    /\ f.phase = "parse" => f.placed = <<>> /\ f.accum = 0 /\ f.todo = {}
    /\ f.phase = "layout" => f.topics # <<>> /\ Ordered(f.fields, f.placed, f.todo)
    /\ Chain(f.placed, f.accum)
    /\ \A i \in f.todo : ~IsNested(f.fields[i]) => f.accum % ScalarSize(f.fields[i].base) = 0

\* A struct that is laid out.
LaidInv(laid) ==
    /\ Chain(laid.members, laid.size)
    /\ laid.size \in Nat /\ laid.size % 8 = 0
    /\ laid.align \in Widths
    /\ laid.topics # <<>>
    /\ Ordered(laid.fields, laid.members, {})

\* The inductive invariant.
LayoutInv ==
    /\ files \in Trees
    /\ pending \subseteq DOMAIN files /\ skipped \subseteq DOMAIN files /\ panicked \subseteq DOMAIN files
    /\ overflow \in BOOLEAN
    /\ stack \in Seq(FrameType) /\ Len(stack) <= MaxDepth
    /\ \A k \in DOMAIN stack : FrameInv(stack[k])
    /\ \A m \in DOMAIN cache : LaidInv(cache[m])
    /\ \A m \in DOMAIN out : LaidInv(out[m])

\* A new call has nothing laid out.
LEMMA NewFrameInv ==
    ASSUME NEW path \in DOMAIN files
    PROVE  FrameInv(NewFrame(path))
<1> DEFINE f == NewFrame(path)
<1>1. f \in FrameType
  BY DEF NewFrame, FrameType
<1>2. Chain(<<>>, 0)
  BY DEF Chain, EndOf
<1> QED BY <1>1, <1>2 DEF FrameInv, NewFrame

\* Replacing the innermost call keeps the invariant if the new one has it.
LEMMA SetTopInv ==
    ASSUME LayoutInv, stack # <<>>, NEW f, FrameInv(f), SetTop(f)
    PROVE  LayoutInv'
<1>1. f \in FrameType
  BY DEF FrameInv
<1>2. stack' \in Seq(FrameType) /\ Len(stack') = Len(stack) /\ DOMAIN stack' = DOMAIN stack
  BY <1>1 DEF SetTop, LayoutInv
<1>3. \A k \in DOMAIN stack' : stack'[k] = IF k = Len(stack) THEN f ELSE stack[k]
  BY <1>2 DEF SetTop, LayoutInv
<1>4. \A k \in DOMAIN stack' : FrameInv(stack'[k])
  BY <1>2, <1>3 DEF LayoutInv
<1>5. UNCHANGED <<files, pending, skipped, panicked, overflow, cache, out>>
  BY DEF SetTop
<1>6. (\A k \in DOMAIN stack : FrameInv(stack[k]))'
  BY <1>4, <1>5 DEF FrameInv, FrameType
<1> QED BY <1>2, <1>5, <1>6 DEF LayoutInv, LaidInv, FrameType

\* An error throws away the calls and nothing else.
LEMMA FailInv ==
    ASSUME LayoutInv, stack # <<>>, Fail
    PROVE  LayoutInv'
<1>1. stack[1].path \in DOMAIN files
  <2>1. stack \in Seq(FrameType) /\ stack # <<>>
    BY DEF LayoutInv
  <2>2. stack[1] \in FrameType
    BY <2>1
  <2> QED BY <2>2 DEF FrameType
<1>2. /\ stack' = <<>> /\ skipped' = skipped \union {stack[1].path}
      /\ UNCHANGED <<files, pending, panicked, overflow, cache, out>>
  BY DEF Fail
<1>3. stack' \in Seq(FrameType)' /\ Len(stack') <= MaxDepth
  BY <1>2, CodegenAssumption
<1>4. skipped' \subseteq DOMAIN files'
  BY <1>1, <1>2 DEF LayoutInv
<1>5. \A k \in DOMAIN stack' : FALSE
  BY <1>2
<1> QED BY <1>2, <1>3, <1>4, <1>5 DEF LayoutInv, LaidInv

\* The innermost call and, while it parses, its line.
LEMMA TopInv ==
    ASSUME LayoutInv, stack # <<>>
    PROVE  FrameInv(Top) /\ Top \in FrameType
  BY DEF LayoutInv, Top, FrameInv

\* The line the innermost call is at has the type of a line.
LEMMA LineType ==
    ASSUME LayoutInv, stack # <<>>, ~EndOfFile
    PROVE  CurLine \in Line
<1>1. Top \in FrameType
  BY TopInv
<1>2. files[Top.path] \in Seq(Line)
  BY <1>1, CodegenAssumption DEF LayoutInv, FrameType
<1>3. Top.ln \in 1..Len(files[Top.path])
  BY <1>1, <1>2 DEF EndOfFile, FrameType
<1> QED BY <1>2, <1>3 DEF CurLine

\* Reading lines lays nothing out.
LEMMA ParseStepInv ==
    ASSUME LayoutInv, ParseStep
    PROVE  LayoutInv'
<1>0. stack # <<>> /\ Top.phase = "parse"
  BY DEF ParseStep, CommentLine, BlankLine, TopicsLine, ConstLine, FieldLine, ParseEnd, Parsing
<1>1. FrameInv(Top) /\ Top \in FrameType
  BY <1>0, TopInv
<1>2. Top.placed = <<>> /\ Top.accum = 0 /\ Top.todo = {} /\ Chain(<<>>, 0)
  BY <1>0, <1>1 DEF FrameInv
<1>3. ASSUME NEW f, f \in FrameType, f.phase = "parse", f.placed = <<>>, f.accum = 0, f.todo = {}, Advance(f)
      PROVE  LayoutInv'
  <2> DEFINE g == [f EXCEPT !.ln = @ + 1]
  <2>0. f.ln + 1 \in Nat \ {0}
    BY <1>3 DEF FrameType
  <2>1. g \in FrameType
    BY <1>3, <2>0 DEF FrameType
  <2>2. FrameInv(g)
    BY <1>2, <1>3, <2>1 DEF FrameInv, FrameType
  <2> QED BY <1>0, <1>3, <2>2, SetTopInv DEF Advance
<1>4. CASE CommentLine \/ BlankLine
  BY <1>0, <1>1, <1>2, <1>3, <1>4 DEF CommentLine, BlankLine
<1>5. CASE TopicsLine
  <2>1. CASE Fail
    BY <1>0, <2>1, FailInv
  <2>2. CASE Advance([Top EXCEPT !.topics = CurLine.rest])
    <3>1. CurLine \in Line
      BY <1>0, <1>5, LineType DEF TopicsLine, Parsing
    <3> DEFINE f == [Top EXCEPT !.topics = CurLine.rest]
    <3>2. f \in FrameType /\ f.phase = "parse" /\ f.placed = <<>> /\ f.accum = 0 /\ f.todo = {}
      BY <1>0, <1>1, <1>2, <3>1 DEF FrameType, Line
    <3> QED BY <1>3, <2>2, <3>2
  <2> QED BY <1>5, <2>1, <2>2 DEF TopicsLine
<1>6. CASE ConstLine
  <2>1. CASE Fail
    BY <1>0, <2>1, FailInv
  <2> DEFINE const == [name |-> CurLine.rest[1], value |-> CurLine.value]
             f == [Top EXCEPT !.consts = Append(@, const)]
  <2>2. CASE Len(CurLine.rest) = 1 /\ Advance(f)
    <3>1. CurLine \in Line
      BY <1>0, <1>6, LineType DEF ConstLine, Parsing
    <3>4. CurLine.rest \in Seq(Words) /\ CurLine.value \in Values
      BY <3>1 DEF Line
    <3>5. const \in ConstType
      BY <2>2, <3>4 DEF ConstType
    <3>2. Append(Top.consts, const) \in Seq(ConstType)
      BY <1>1, <3>5 DEF FrameType
    <3>3. f \in FrameType /\ f.phase = "parse" /\ f.placed = <<>> /\ f.accum = 0 /\ f.todo = {}
      BY <1>0, <1>1, <1>2, <3>2 DEF FrameType
    <3> QED BY <1>3, <2>2, <3>3
  <2> QED BY <1>6, <2>1, <2>2 DEF ConstLine
<1>7. CASE FieldLine
  <2> DEFINE field == [name |-> CurLine.rest[1], base |-> CurLine.ty.base, n |-> CurLine.ty.n]
             f == [Top EXCEPT !.fields = Append(@, field)]
  <2>1. CASE Fail
    BY <1>0, <2>1, FailInv
  <2>2. CASE IsFieldType(CurLine.ty) /\ Len(CurLine.rest) = 1 /\ Advance(f)
    <3>1. CurLine \in Line
      BY <1>0, <1>7, LineType DEF FieldLine, Parsing
    <3>4. CurLine.rest \in Seq(Words) /\ CurLine.ty \in TypeTok
      BY <3>1 DEF Line
    <3>5. CurLine.rest[1] \in Words
      BY <2>2, <3>4
    <3>6. CurLine.ty.n \in Nat /\ CurLine.ty.base \in Scalars \union Names
      BY <2>2, <3>4 DEF TypeTok, IsFieldType
    <3>7. field \in FieldType
      BY <3>5, <3>6 DEF FieldType
    <3>2. Append(Top.fields, field) \in Seq(FieldType)
      BY <1>1, <3>7 DEF FrameType
    <3>3. f \in FrameType /\ f.phase = "parse" /\ f.placed = <<>> /\ f.accum = 0 /\ f.todo = {}
      BY <1>0, <1>1, <1>2, <3>2 DEF FrameType
    <3> QED BY <1>3, <2>2, <3>3
  <2> QED BY <1>7, <2>1, <2>2 DEF FieldLine
<1>8. CASE ParseEnd
  <2> DEFINE f == [Top EXCEPT !.phase = "layout", !.todo = DOMAIN Top.fields,
                        !.topics = IF @ = <<>> THEN <<Top.path[2]>> ELSE @]
  <2>1. Top.path[2] \in Words
    BY <1>1, CodegenAssumption DEF LayoutInv, FrameType
  <2>6. DOMAIN Top.fields \in SUBSET Nat
    BY <1>1 DEF FrameType
  <2>7. (IF Top.topics = <<>> THEN <<Top.path[2]>> ELSE Top.topics) \in Seq(Words)
    BY <1>1, <2>1 DEF FrameType
  <2>2. f \in FrameType
    BY <1>1, <2>6, <2>7 DEF FrameType
  <2>3. /\ f.phase = "layout" /\ f.todo = DOMAIN f.fields
        /\ f.placed = <<>> /\ f.accum = 0
    BY <1>1, <1>2 DEF FrameType
  <2>4. \A i \in f.todo : f.accum % ScalarSize(f.fields[i].base) = 0
    <3>1. \A w \in Widths : 0 % w = 0
      BY DEF Widths
    <3> QED BY <2>3, <3>1, SizeRange
  <2>8. f.topics # <<>>
    BY <1>1, <2>2 DEF FrameType
  <2>9. Ordered(f.fields, f.placed, f.todo)
    BY <2>3 DEF Ordered
  <2>5. FrameInv(f)
    BY <1>2, <2>2, <2>3, <2>4, <2>8, <2>9 DEF FrameInv
  <2> QED BY <1>0, <1>8, <2>5, SetTopInv DEF ParseEnd
<1> QED BY <1>4, <1>5, <1>6, <1>7, <1>8 DEF ParseStep

\* Fields are placed in an order that keeps the rest aligned.
LEMMA PlaceScalarInv ==
    ASSUME LayoutInv, stack # <<>>, NEW i \in Top.todo, PlaceScalar(i)
    PROVE  LayoutInv'
<1> DEFINE field == Top.fields[i]
           w == ScalarSize(field.base)
           mb == Member(i, Top.accum, w * field.n, w)
           f == [Top EXCEPT !.todo = @ \ {i}, !.placed = Append(@, mb),
                            !.accum = @ + w * field.n, !.align = Larger(@, w)]
<1>1. FrameInv(Top) /\ Top \in FrameType
  BY TopInv
<1>2. Top.accum \in Nat /\ Top.align \in Widths /\ Top.fields \in Seq(FieldType) /\ Top.todo \in SUBSET Nat
  BY <1>1 DEF FrameType, Widths
<1>3. i \in DOMAIN Top.fields /\ i \in Nat /\ field \in FieldType
  BY <1>1, <1>2 DEF FrameInv
<1>4. w \in Widths /\ field.n \in Nat /\ ~IsNested(field)
  BY <1>3, SizeRange DEF FieldType, PlaceScalar
<1>5. w * field.n \in Nat /\ Top.accum + w * field.n \in Nat
  <2>1. \A n \in Nat : 1 * n \in Nat /\ 2 * n \in Nat /\ 4 * n \in Nat /\ 8 * n \in Nat
    OBVIOUS
  <2> QED BY <1>2, <1>4, <2>1 DEF Widths
<1>6. mb \in MemberType /\ mb.off = Top.accum /\ mb.align = w /\ mb.size = w * field.n
  BY <1>2, <1>3, <1>4, <1>5 DEF Member, MemberType, Widths
<1>7. Top.accum % w = 0 /\ Chain(Top.placed, Top.accum)
  BY <1>1, <1>4 DEF FrameInv
<1>8. Chain(Append(Top.placed, mb), Top.accum + w * field.n)
  BY <1>6, <1>7, ChainAppend
<1>9. Append(Top.placed, mb) \in Seq(MemberType)
  BY <1>8 DEF Chain
<1>10. Larger(Top.align, w) \in {1, 2, 4, 8} /\ Top.todo \ {i} \in SUBSET Nat
  BY <1>2, <1>4 DEF Larger, Widths
<1>11. f \in FrameType
  BY <1>1, <1>5, <1>9, <1>10 DEF FrameType
<1>12. /\ f.fields = Top.fields /\ f.todo = Top.todo \ {i} /\ f.phase = "layout" /\ f.topics = Top.topics
       /\ f.placed = Append(Top.placed, mb) /\ f.accum = Top.accum + w * field.n
  BY <1>1 DEF FrameType, PlaceScalar, Laying
<1>13. ASSUME NEW j \in Top.todo \ {i}, ~IsNested(Top.fields[j])
       PROVE  (Top.accum + w * field.n) % ScalarSize(Top.fields[j].base) = 0
  <2> DEFINE t == ScalarSize(Top.fields[j].base)
  <2>1. t \in Widths /\ Top.accum % t = 0
    BY <1>1, <1>13, SizeRange DEF FrameInv
  <2>2. t <= w
    <3>1. w > t \/ (w = t /\ i < j)
      BY <1>4, <1>13 DEF PlaceScalar, Laying, IsNext, FieldSortSize
    <3> HIDE DEF w, t
    <3> QED BY <1>4, <2>1, <3>1 DEF Widths
  <2> DEFINE n == field.n
             a == Top.accum
  <2>3. (a + w * n) % t = 0
    <3>1. a \in Nat /\ n \in Nat /\ w \in Widths /\ t \in Widths /\ t <= w /\ a % t = 0
      BY <1>2, <1>4, <2>1, <2>2
    <3> HIDE DEF w, t, n, a
    <3> QED BY <3>1, StillAligned
  <2> QED BY <2>3
<1>16. Top.topics # <<>> /\ Ordered(Top.fields, Top.placed, Top.todo) /\ Top.placed \in Seq(MemberType)
  BY <1>1 DEF FrameInv, PlaceScalar, Laying, Chain
<1>17. \A j \in Top.todo \ {i} : Before(Top.fields, i, j)
  BY DEF PlaceScalar, Laying, IsNext, Before
<1>18. Ordered(Top.fields, Append(Top.placed, mb), Top.todo \ {i})
  <2>1. mb.field = i /\ i # 0
    BY <1>2, <1>3 DEF Member
  <2> HIDE DEF mb
  <2> QED BY <1>6, <1>16, <1>17, <2>1, OrderedAppend
<1>14. FrameInv(f)
  <2>1. f.todo \subseteq DOMAIN f.fields
    BY <1>1, <1>12 DEF FrameInv
  <2> HIDE DEF f, w, mb
  <2> QED BY <1>8, <1>11, <1>12, <1>13, <1>16, <1>18, <2>1 DEF FrameInv
<1>15. SetTop(f)
  BY DEF PlaceScalar
<1> QED BY <1>14, <1>15, SetTopInv

\* Placing a nested message keeps the layout's invariant: its size and
\* alignment are those of a layout already in the cache.
LEMMA PlaceNestedInv ==
    ASSUME LayoutInv, stack # <<>>, NEW i \in Top.todo, PlaceNested(i)
    PROVE  LayoutInv'
<1> DEFINE field == Top.fields[i]
           laid == cache[field.base]
           pad == AlignGap(Top.accum)
           padded == WithPadding(Top.placed, Top.accum, pad)
           mb == Member(i, Top.accum + pad, laid.size * field.n, laid.align)
           f == [Top EXCEPT !.todo = @ \ {i}, !.placed = Append(WithPadding(@, Top.accum, pad), mb),
                            !.accum = @ + pad + laid.size * field.n, !.align = Larger(@, laid.align)]
<1>1. FrameInv(Top) /\ Top \in FrameType
  BY TopInv
<1>2. Top.accum \in Nat /\ Top.align \in Widths /\ Top.fields \in Seq(FieldType) /\ Top.todo \in SUBSET Nat
  BY <1>1 DEF FrameType, Widths
<1>3. i \in DOMAIN Top.fields /\ i \in Nat /\ field \in FieldType
  BY <1>1, <1>2 DEF FrameInv
<1>4. laid.size \in Nat /\ laid.align \in Widths /\ field.n \in Nat
  BY <1>3 DEF PlaceNested, LayoutInv, LaidInv, FieldType
<1>5. pad \in Nat /\ Top.accum + pad \in Nat /\ (Top.accum + pad) % 8 = 0
  <2> DEFINE a == Top.accum
  <2>1. a \in Nat
    BY <1>2
  <2> HIDE DEF a
  <2>2. AlignGap(a) \in Nat /\ (a + AlignGap(a)) % 8 = 0
    BY <2>1, GapAligns
  <2>3. a + AlignGap(a) \in Nat
    BY <2>1, <2>2
  <2> QED BY <2>2, <2>3 DEF a
<1>6. laid.size * field.n \in Nat /\ Top.accum + pad + laid.size * field.n \in Nat
  <2>1. \A a, b, c \in Nat : b * c \in Nat /\ a + b * c \in Nat
    OBVIOUS
  <2> DEFINE a == Top.accum + pad
             b == laid.size
             c == field.n
  <2>2. a \in Nat /\ b \in Nat /\ c \in Nat
    BY <1>4, <1>5
  <2>3. b * c \in Nat /\ a + b * c \in Nat
    <3> HIDE DEF a, b, c
    <3> QED BY <2>1, <2>2
  <2> QED BY <2>3
<1>7. mb \in MemberType /\ mb.off = Top.accum + pad /\ mb.align = laid.align
        /\ mb.size = laid.size * field.n
  BY <1>3, <1>4, <1>5, <1>6 DEF Member, MemberType, Widths
<1>8. Chain(padded, Top.accum + pad)
  BY <1>1, <1>2, <1>5, ChainPadding DEF FrameInv
<1>9. mb.off % mb.align = 0
  BY <1>4, <1>5, <1>7, EightSuitsAll
<1>10. Chain(Append(padded, mb), Top.accum + pad + laid.size * field.n)
  BY <1>7, <1>8, <1>9, ChainAppend, SMTT(60)
<1>11. Append(padded, mb) \in Seq(MemberType)
  BY <1>10 DEF Chain
<1>12. Larger(Top.align, laid.align) \in {1, 2, 4, 8} /\ Top.todo \ {i} \in SUBSET Nat
  BY <1>2, <1>4, SMTT(60) DEF Larger, Widths
<1>13. f \in FrameType
  BY <1>1, <1>6, <1>11, <1>12 DEF FrameType
<1>14. /\ f.fields = Top.fields /\ f.todo = Top.todo \ {i} /\ f.phase = "layout" /\ f.topics = Top.topics
       /\ f.placed = Append(padded, mb) /\ f.accum = Top.accum + pad + laid.size * field.n
  BY <1>1 DEF FrameType, PlaceNested, Laying
<1>15. ASSUME NEW j \in Top.todo \ {i}
       PROVE  IsNested(Top.fields[j])
  <2> DEFINE t == ScalarSize(Top.fields[j].base)
  <2>1. t \in Widths
    BY SizeRange
  <2>2. ~IsNested(Top.fields[j]) => 0 > t \/ 0 = t
    BY <1>15 DEF PlaceNested, Laying, IsNext, FieldSortSize
  <2> HIDE DEF t
  <2> QED BY <2>1, <2>2 DEF Widths
<1>18. Top.topics # <<>> /\ Ordered(Top.fields, Top.placed, Top.todo) /\ Top.placed \in Seq(MemberType)
  BY <1>1 DEF FrameInv, PlaceNested, Laying, Chain
<1>19. \A j \in Top.todo \ {i} : Before(Top.fields, i, j)
  BY DEF PlaceNested, Laying, IsNext, Before
<1>20. Ordered(Top.fields, Append(padded, mb), Top.todo \ {i})
  <2>1. mb.field = i /\ i # 0
    BY <1>2, <1>3 DEF Member
  <2>2. Ordered(Top.fields, padded, Top.todo) /\ padded \in Seq(MemberType)
    BY <1>8, <1>18, OrderedPadding DEF Chain
  <2> HIDE DEF mb, padded
  <2> QED BY <1>7, <1>19, <2>1, <2>2, OrderedAppend
<1>16. FrameInv(f)
  <2>1. f.todo \subseteq DOMAIN f.fields
    BY <1>1, <1>14 DEF FrameInv
  <2> HIDE DEF f, mb, padded, pad, laid
  <2> QED BY <1>10, <1>13, <1>14, <1>15, <1>18, <1>20, <2>1 DEF FrameInv
<1>17. SetTop(f)
  BY DEF PlaceNested
<1> QED BY <1>16, <1>17, SetTopInv

\* A nested type is laid out by a call of its own.
LEMMA ResolveInv ==
    ASSUME LayoutInv, stack # <<>>, NEW i \in Top.todo, Resolve(i)
    PROVE  LayoutInv'
<1> DEFINE name == Top.fields[i].base
<1>1. CASE Fail
  BY <1>1, FailInv
<1>2. CASE overflow' = TRUE /\ stack' = stack /\ UNCHANGED <<files, pending, skipped, panicked, cache, out>>
  BY <1>2 DEF LayoutInv, FrameInv, FrameType, LaidInv
<1>3. ASSUME NEW k \in Found(name), stack' = Append(stack, NewFrame(<<search[k], name>>)),
             Len(stack) < MaxDepth, UNCHANGED <<files, pending, skipped, panicked, overflow, cache, out>>
      PROVE  LayoutInv'
  <2> DEFINE f == NewFrame(<<search[k], name>>)
  <2>1. <<search[k], name>> \in DOMAIN files
    BY <1>3 DEF Found
  <2>2. FrameInv(f) /\ f \in FrameType
    BY <2>1, NewFrameInv DEF FrameInv
  <2> HIDE DEF f
  <2>6. Len(stack') <= MaxDepth
    BY <1>3, CodegenAssumption DEF LayoutInv
  <2>3. /\ stack' \in Seq(FrameType) /\ DOMAIN stack' = 1..(Len(stack) + 1)
        /\ \A l \in DOMAIN stack' : stack'[l] = IF l = Len(stack) + 1 THEN f ELSE stack[l]
    BY <1>3, <2>2 DEF LayoutInv, f
  <2>4. \A l \in DOMAIN stack' : FrameInv(stack'[l])
    BY <2>2, <2>3, SMTT(60) DEF LayoutInv
  <2>5. (\A l \in DOMAIN stack : FrameInv(stack[l]))'
    BY <1>3, <2>4 DEF FrameInv, FrameType
  <2> QED BY <1>3, <2>3, <2>5, <2>6 DEF LayoutInv, LaidInv, FrameType
<1> QED BY <1>1, <1>2, <1>3 DEF Resolve

\* Tail padding completes the struct.
LEMMA LayoutEndInv ==
    ASSUME LayoutInv, LayoutEnd
    PROVE  LayoutInv'
<1> DEFINE tail == AlignGap(Top.accum)
           laid == LaidOut(Top, tail)
           name == Top.path[2]
<1>0. stack # <<>>
  BY DEF LayoutEnd
<1>1. FrameInv(Top) /\ Top \in FrameType
  BY <1>0, TopInv
<1>2. Top.accum \in Nat /\ Top.align \in Widths /\ Chain(Top.placed, Top.accum)
  BY <1>1 DEF FrameType, Widths, FrameInv
<1>3. tail \in Nat /\ (Top.accum + tail) % 8 = 0
  BY <1>2, GapAligns
<1>4. Chain(WithPadding(Top.placed, Top.accum, tail), Top.accum + tail)
  BY <1>2, <1>3, ChainPadding
<1>5. Top.accum + tail \in Nat
  <2> DEFINE a == Top.accum
  <2>1. a \in Nat /\ tail \in Nat
    BY <1>2, <1>3
  <2> HIDE DEF a, tail
  <2> QED BY <2>1 DEF a
<1>6. LaidInv(laid)
  <2>1. /\ laid.members = WithPadding(Top.placed, Top.accum, tail)
        /\ laid.size = Top.accum + tail /\ laid.align = Top.align
        /\ laid.topics = Top.topics /\ laid.fields = Top.fields
    BY DEF LaidOut
  <2>2. Top.topics # <<>> /\ Ordered(Top.fields, Top.placed, {}) /\ Top.placed \in Seq(MemberType)
    BY <1>1 DEF FrameInv, LayoutEnd, Chain
  <2>3. Ordered(Top.fields, WithPadding(Top.placed, Top.accum, tail), {})
    BY <2>2, OrderedPadding
  <2> HIDE DEF laid, tail
  <2> QED BY <1>2, <1>3, <1>4, <1>5, <2>1, <2>2, <2>3 DEF LaidInv
<1> HIDE DEF laid
<1>7. /\ cache' = Insert(cache, name, laid)
      /\ out' = out \/ out' = Insert(out, name, laid)
      /\ panicked' = panicked \/ panicked' = {Top.path}
  BY DEF LayoutEnd, Emit, laid
<1>8. \A m \in DOMAIN cache' : cache'[m] = laid \/ (m \in DOMAIN cache /\ cache'[m] = cache[m])
  BY <1>7 DEF Insert
<1>9. \A m \in DOMAIN out' : out'[m] = laid \/ (m \in DOMAIN out /\ out'[m] = out[m])
  BY <1>7 DEF Insert
<1>10. \A m \in DOMAIN cache' : LaidInv(cache'[m])
  BY <1>6, <1>8 DEF LayoutInv
<1>11. \A m \in DOMAIN out' : LaidInv(out'[m])
  BY <1>6, <1>9 DEF LayoutInv
<1>12. /\ stack' \in Seq(FrameType) /\ Len(stack') <= Len(stack)
       /\ \A k \in DOMAIN stack' : k \in DOMAIN stack /\ stack'[k] = stack[k]
  BY <1>0 DEF LayoutEnd, LayoutInv, Front
<1>13. UNCHANGED <<files, pending, skipped, overflow>> /\ panicked' \subseteq DOMAIN files
  BY <1>1, <1>7 DEF LayoutEnd, LayoutInv, FrameType
<1>16. Len(stack') <= MaxDepth
  BY <1>12, CodegenAssumption DEF LayoutInv
<1>14. (\A k \in DOMAIN stack : FrameInv(stack[k]))'
  <2>1. \A k \in DOMAIN stack' : FrameInv(stack'[k])
    BY <1>12 DEF LayoutInv
  <2> QED BY <1>13, <2>1 DEF FrameInv, FrameType
<1>15. (\A m \in DOMAIN cache : LaidInv(cache[m]))' /\ (\A m \in DOMAIN out : LaidInv(out[m]))'
  BY <1>10, <1>11 DEF LaidInv
<1> QED BY <1>12, <1>13, <1>14, <1>15, <1>16 DEF LayoutInv, FrameType

\* Starting a file, or a directory.
LEMMA DriverInv ==
    ASSUME LayoutInv, NextDir \/ \E p \in pending : Generate(p)
    PROVE  LayoutInv'
<1>1. CASE NextDir
  BY <1>1 DEF LayoutInv, NextDir, FrameInv, FrameType, LaidInv
<1>2. ASSUME NEW p \in pending, Generate(p)
      PROVE  LayoutInv'
  <2>1. FrameInv(NewFrame(p)) /\ NewFrame(p) \in FrameType
    BY NewFrameInv DEF LayoutInv, FrameInv
  <2>2. stack' = <<NewFrame(p)>> /\ UNCHANGED <<files, skipped, panicked, overflow, out>> /\ pending' \subseteq pending /\ cache' = <<>>
    BY <1>2 DEF Generate
  <2>3. /\ stack' \in Seq(FrameType) /\ \A k \in DOMAIN stack' : FrameInv(stack'[k])
        /\ Len(stack') <= MaxDepth
    BY <2>1, <2>2, CodegenAssumption
  <2>4. (\A k \in DOMAIN stack : FrameInv(stack[k]))'
    BY <2>2, <2>3 DEF FrameInv, FrameType
  <2>5. (\A m \in DOMAIN cache : LaidInv(cache[m]))' /\ (\A m \in DOMAIN out : LaidInv(out[m]))'
    BY <2>2 DEF LayoutInv, LaidInv
  <2> QED BY <2>2, <2>3, <2>4, <2>5 DEF LayoutInv, FrameType
<1> QED BY <1>1, <1>2

\* The layouts keep their invariant.
LEMMA LayoutInvHolds == CodegenSpec => []LayoutInv
<1>1. CodegenInit => LayoutInv
  <2> SUFFICES ASSUME CodegenInit PROVE LayoutInv
    OBVIOUS
  <2>1. pending \subseteq DOMAIN files /\ files \in Trees /\ skipped = {} /\ panicked = {} /\ overflow = FALSE
    BY DEF CodegenInit, XtaskInit, MacroInit
  <2>2. stack = <<>> /\ cache = <<>> /\ out = <<>>
    BY DEF CodegenInit
  <2>3. stack \in Seq(FrameType) /\ Len(stack) <= MaxDepth
    BY <2>2, CodegenAssumption
  <2>4. DOMAIN stack = {} /\ DOMAIN cache = {} /\ DOMAIN out = {}
    BY <2>2
  <2> QED BY <2>1, <2>3, <2>4 DEF LayoutInv
<1>2. LayoutInv /\ [CodegenNext]_codegenVars => LayoutInv'
  <2> SUFFICES ASSUME LayoutInv, [CodegenNext]_codegenVars PROVE LayoutInv'
    OBVIOUS
  <2>1. CASE NextDir \/ \E p \in pending : Generate(p)
    BY <2>1, DriverInv
  <2>2. CASE ParseStep
    BY <2>2, ParseStepInv
  <2>3. CASE LayoutStep
    BY <2>3, PlaceScalarInv, PlaceNestedInv, ResolveInv, LayoutEndInv DEF LayoutStep
  <2>4. CASE UNCHANGED codegenVars
    BY <2>4 DEF codegenVars, LayoutInv, FrameInv, FrameType, LaidInv
  <2> QED BY <2>1, <2>2, <2>3, <2>4 DEF CodegenNext
<1> QED BY <1>1, <1>2, PTL DEF CodegenSpec

\* The generator's stack, cache and output are what layout.rs makes them, and
\* every struct written has a topic.
THEOREM CodegenTypeCorrect == CodegenSpec => []CodegenTypeOK
<1>1. LayoutInv => CodegenTypeOK
  <2> SUFFICES ASSUME LayoutInv PROVE CodegenTypeOK
    OBVIOUS
  <2>1. \A k \in DOMAIN stack : stack[k].todo \subseteq DOMAIN stack[k].fields
    BY DEF LayoutInv, FrameInv
  <2>2. \A laid : LaidInv(laid) => laid.members \in Seq(MemberType) /\ laid.size \in Nat /\ laid.topics # <<>>
    BY DEF LaidInv, Chain
  <2> QED BY <2>1, <2>2 DEF LayoutInv, CodegenTypeOK
<1> QED BY <1>1, LayoutInvHolds, PTL

\* Every struct the generator lays out is one that rustc's #[repr(C)] leaves as
\* it is: no implicit padding, for any tree of .msg files.
THEOREM LayoutsArePacked == CodegenSpec => []NoImplicitPadding
<1>1. LayoutInv => NoImplicitPadding
  BY DEF LayoutInv, NoImplicitPadding, LaidInv, Chain, IsPacked, AlignTo
<1> QED BY <1>1, LayoutInvHolds, PTL

\* Every struct written has each field of its file once, in the order of PX4's
\* own generator, for any tree of .msg files.
THEOREM FieldsInPX4Order == CodegenSpec => []PX4Order
<1>1. LayoutInv => \A m \in DOMAIN out : LaidInv(out[m])
  BY DEF LayoutInv
<1>2. (\A m \in DOMAIN out : LaidInv(out[m])) => PX4Order
  BY SMTT(60) DEF LaidInv, Ordered, Before, PX4Order
<1> QED BY <1>1, <1>2, LayoutInvHolds, PTL

-----------------------------------------------------------------------------
(* What is left out *)

\* The files of a tree and the directories of the search do not change.
Frozen == UNCHANGED <<files, search>>

\* No step of the generator changes them.
LEMMA FrozenStep == [CodegenNext]_codegenVars => Frozen
BY DEF CodegenNext, codegenVars, Frozen, NextDir, Generate, ParseStep, LayoutStep, LayoutEnd,
   CommentLine, BlankLine, TopicsLine, ConstLine, FieldLine, ParseEnd, Advance, SetTop, Fail,
   PlaceScalar, PlaceNested, Resolve

\* So the types a file names stay the same, ...
LEMMA SameUses ==
    ASSUME Frozen
    PROVE  \A p : Uses(p)' = Uses(p) /\ FieldLines(p)' = FieldLines(p)
BY DEF Frozen, Uses, FieldLines

\* ... and the files found for them, ...
LEMMA SameNeeds ==
    ASSUME Frozen
    PROVE  \A p : Needs(p)' = Needs(p)
<1> TAKE p
<1>1. Uses(p)' = Uses(p)
  BY SameUses
<1>2. \A n, k : IsFirst(k, n)' <=> IsFirst(k, n)
  BY DEF Frozen, IsFirst, Found
<1> QED BY <1>1, <1>2 DEF Frozen, Needs

\* ... and the files that are reached, ...
LEMMA SameReach ==
    ASSUME Frozen
    PROVE  \A p : Reach(p)' = Reach(p)
<1> TAKE p
<1>1. \A r : Needs(r)' = Needs(r)
  BY SameNeeds
<1> QED BY <1>1 DEF Frozen, Reach

\* ... and which of them are sound.
LEMMA SameSound ==
    ASSUME Frozen
    PROVE  \A p : Sound(p)' <=> Sound(p)
<1> TAKE p
<1>1. Reach(p)' = Reach(p)
  BY SameReach
<1>2. \A q : Uses(q)' = Uses(q)
  BY SameUses
<1>3. \A n : Found(n)' = Found(n)
  BY DEF Frozen, Found
<1> QED BY <1>1, <1>2, <1>3 DEF Frozen, Sound

\* ... and which of them are Rust.
LEMMA SameWritable ==
    ASSUME Frozen
    PROVE  \A p : Writable(p)' <=> Writable(p)
<1>1. \A p : /\ FieldLines(p)' = FieldLines(p) /\ ConstLines(p)' = ConstLines(p)
             /\ TopicLines(p)' = TopicLines(p)
  BY SameUses DEF Frozen, ConstLines, TopicLines
<1> QED BY <1>1 DEF Frozen, Writable

\* What is reached contains its start, ...
LEMMA ReachSelf == \A p \in DOMAIN files : p \in Reach(p)
BY DEF Reach

\* ... and is closed.
LEMMA ReachStep ==
    ASSUME NEW p, NEW q \in Reach(p)
    PROVE  Needs(q) \subseteq Reach(p)
<1> SUFFICES ASSUME NEW r \in Needs(q) PROVE r \in Reach(p)
  OBVIOUS
<1>1. r \in DOMAIN files
  BY DEF Needs
<1>2. ASSUME NEW S \in SUBSET DOMAIN files, p \in S, \A x \in S : Needs(x) \subseteq S
      PROVE  r \in S
  BY <1>2 DEF Reach
<1> QED BY <1>1, <1>2 DEF Reach

\* A file that follows the grammar and needs sound files only is sound.
LEMMA SoundFrom ==
    ASSUME NEW p \in DOMAIN files,
           \A k \in DOMAIN files[p] : Accepted(files[p][k]),
           \A n \in Uses(p) : Found(n) # {},
           \A q \in Needs(p) : Sound(q)
    PROVE  Sound(p)
<1> DEFINE S == {p} \union UNION {Reach(q) : q \in Needs(p)}
<1>1. S \in SUBSET DOMAIN files
  BY DEF Reach
<1>2. ASSUME NEW r \in S PROVE Needs(r) \subseteq S
  <2>1. CASE r = p
    <3>1. \A q \in Needs(p) : q \in Reach(q)
      BY ReachSelf DEF Needs
    <3> QED BY <2>1, <3>1
  <2>2. ASSUME NEW q \in Needs(p), r \in Reach(q) PROVE Needs(r) \subseteq S
    BY <2>2, ReachStep
  <2> QED BY <2>1, <2>2
<1>3. Reach(p) \subseteq S
  BY <1>1, <1>2 DEF Reach
<1>4. \A q \in Needs(p) : \A r \in Reach(q) :
        /\ \A k \in DOMAIN files[r] : Accepted(files[r][k])
        /\ \A n \in Uses(r) : Found(n) # {}
  BY DEF Sound
<1> HIDE DEF S
<1>5. \A r \in S :
        /\ \A k \in DOMAIN files[r] : Accepted(files[r][k])
        /\ \A n \in Uses(r) : Found(n) # {}
  BY <1>4 DEF S
<1> QED BY <1>3, <1>5 DEF Sound

-----------------------------------------------------------------------------
(* Names and values *)

\* A call is past line k.
ReadTo(f, k) == f.phase = "layout" \/ k < f.ln

\* The first entry of a line, as a name, and with the value as a constant.
NameAt(path, k) == files[path][k].rest[1]
ConstAt(path, k) == [name |-> files[path][k].rest[1], value |-> files[path][k].value]

\* What a call knows of names and values is what the lines say that it has read.
NamesOk(f) ==
    /\ {f.fields[i].name : i \in DOMAIN f.fields}
            = {NameAt(f.path, k) : k \in {l \in FieldLines(f.path) : ReadTo(f, l)}}
    /\ {f.consts[i] : i \in DOMAIN f.consts}
            = {ConstAt(f.path, k) : k \in {l \in ConstLines(f.path) : ReadTo(f, l)}}
    /\ \/ f.topics = <<>> /\ f.phase = "parse" /\ \A k \in TopicLines(f.path) : ~ReadTo(f, k)
       \/ f.topics = <<f.path[2]>> /\ f.phase = "layout" /\ TopicLines(f.path) = {}
       \/ \E k \in TopicLines(f.path) :
             /\ ReadTo(f, k) /\ \A j \in TopicLines(f.path) : ReadTo(f, j) => j <= k
             /\ f.topics = files[f.path][k].rest /\ f.topics # <<>>

\* The inductive invariant.
NamesInv == \A k \in DOMAIN stack : NamesOk(stack[k])

\* It depends on the tree only.
LEMMA SameNames ==
    ASSUME Frozen
    PROVE  \A f : NamesOk(f)' <=> NamesOk(f)
<1>1. \A f, k : ReadTo(f, k)' <=> ReadTo(f, k)
  BY DEF ReadTo
<1>2. \A p : /\ FieldLines(p)' = FieldLines(p) /\ ConstLines(p)' = ConstLines(p)
             /\ TopicLines(p)' = TopicLines(p)
  BY SameUses DEF Frozen, ConstLines, TopicLines
<1>3. \A p, k : NameAt(p, k)' = NameAt(p, k) /\ ConstAt(p, k)' = ConstAt(p, k)
  BY DEF Frozen, NameAt, ConstAt
<1>4. files' = files
  BY DEF Frozen
<1> QED BY <1>1, <1>2, <1>3, <1>4 DEF NamesOk

\* The innermost call, with its file.
LEMMA TopNames ==
    ASSUME LayoutInv, NamesInv, stack # <<>>
    PROVE  Top \in FrameType /\ files[Top.path] \in Seq(Line) /\ NamesOk(Top) /\ Top.path \in DOMAIN files
<1>1. Top \in FrameType
  BY TopInv
<1>2. Top.path \in DOMAIN files /\ files \in Trees
  BY <1>1 DEF FrameType, LayoutInv
<1>3. files[Top.path] \in Seq(Line)
  BY <1>2, CodegenAssumption
<1>4. Len(stack) \in DOMAIN stack
  BY DEF LayoutInv
<1> QED BY <1>1, <1>2, <1>3, <1>4 DEF Top, NamesInv

\* Replacing the innermost call.
LEMMA SetTopNames ==
    ASSUME LayoutInv, NamesInv, stack # <<>>, NEW f, SetTop(f), NamesOk(f)
    PROVE  NamesInv'
<1>1. \A k \in DOMAIN stack' : k \in DOMAIN stack /\ stack'[k] = IF k = Len(stack) THEN f ELSE stack[k]
  BY DEF SetTop, LayoutInv
<1>2. \A k \in DOMAIN stack' : NamesOk(stack'[k])
  BY <1>1 DEF NamesInv
<1>3. \A g : NamesOk(g)' <=> NamesOk(g)
  BY SameNames DEF SetTop, Frozen
<1> QED BY <1>2, <1>3 DEF NamesInv

\* What a sequence holds after an entry is appended.
LEMMA AppendHolds ==
    ASSUME NEW S, NEW s \in Seq(S), NEW x, NEW t, t = Append(s, x)
    PROVE  {t[i] : i \in DOMAIN t} = {s[i] : i \in DOMAIN s} \union {x}
<1> DEFINE n == Len(s)
<1>1. /\ n \in Nat /\ DOMAIN s = 1..n /\ DOMAIN t = 1..(n + 1) /\ t[n + 1] = x
      /\ \A i \in 1..n : t[i] = s[i]
  OBVIOUS
<1> HIDE DEF n
<1>2. \A i \in 1..(n + 1) : i \in 1..n \/ i = n + 1
  BY <1>1
<1>3. 1..n \subseteq 1..(n + 1) /\ n + 1 \in 1..(n + 1)
  BY <1>1
<1> QED BY <1>1, <1>2, <1>3

\* Reading one line more.
LEMMA ReadNames ==
    ASSUME LayoutInv, NamesInv, stack # <<>>, Top.phase = "parse", ~EndOfFile,
           NEW f, f.path = Top.path, f.phase = "parse", f.ln = Top.ln + 1,
           \/ Top.ln \notin FieldLines(Top.path) /\ f.fields = Top.fields
           \/ /\ Top.ln \in FieldLines(Top.path)
              /\ \E x : x.name = CurLine.rest[1] /\ f.fields = Append(Top.fields, x),
           \/ Top.ln \notin ConstLines(Top.path) /\ f.consts = Top.consts
           \/ /\ Top.ln \in ConstLines(Top.path)
              /\ f.consts = Append(Top.consts, [name |-> CurLine.rest[1], value |-> CurLine.value]),
           \/ Top.ln \notin TopicLines(Top.path) /\ f.topics = Top.topics
           \/ Top.ln \in TopicLines(Top.path) /\ f.topics = CurLine.rest /\ f.topics # <<>>
    PROVE  NamesOk(f)
<1> DEFINE p == Top.path
           ln == Top.ln
<1>1. Top \in FrameType /\ files[p] \in Seq(Line) /\ NamesOk(Top)
  BY TopNames
<1>2. ln \in Nat /\ Top.fields \in Seq(FieldType) /\ Top.consts \in Seq(ConstType)
  BY <1>1 DEF FrameType
<1>3. \A k \in Nat : (ReadTo(f, k) <=> ReadTo(Top, k) \/ k = ln) /\ (ReadTo(Top, k) => k < ln)
  BY <1>2 DEF ReadTo
<1>4. /\ FieldLines(p) \subseteq Nat /\ ConstLines(p) \subseteq Nat /\ TopicLines(p) \subseteq Nat
  <2>1. DOMAIN files[p] \subseteq Nat
    BY <1>1
  <2> QED BY <2>1 DEF FieldLines, ConstLines, TopicLines
<1>5. NameAt(p, ln) = CurLine.rest[1] /\ files[p][ln] = CurLine
      /\ ConstAt(p, ln) = [name |-> CurLine.rest[1], value |-> CurLine.value]
  BY DEF NameAt, ConstAt, CurLine
<1> HIDE DEF p, ln
<1>6. f.path = p /\ Top.path = p
  BY DEF p
<1>7. {f.fields[i].name : i \in DOMAIN f.fields} = {NameAt(p, k) : k \in {l \in FieldLines(p) : ReadTo(f, l)}}
  <2> DEFINE old == {Top.fields[i].name : i \in DOMAIN Top.fields}
  <2>1. old = {NameAt(p, k) : k \in {l \in FieldLines(p) : ReadTo(Top, l)}}
    BY <1>1, <1>6 DEF NamesOk
  <2>2. CASE ln \notin FieldLines(p) /\ f.fields = Top.fields
    <3>1. \A l \in FieldLines(p) : ReadTo(f, l) <=> ReadTo(Top, l)
      BY <1>3, <1>4, <2>2
    <3>2. {l \in FieldLines(p) : ReadTo(f, l)} = {l \in FieldLines(p) : ReadTo(Top, l)}
      BY <3>1
    <3> QED BY <2>1, <2>2, <3>2
  <2>3. ASSUME NEW x, ln \in FieldLines(p), x.name = CurLine.rest[1], f.fields = Append(Top.fields, x)
        PROVE  {f.fields[i].name : i \in DOMAIN f.fields} = {NameAt(p, k) : k \in {l \in FieldLines(p) : ReadTo(f, l)}}
    <3>1. {f.fields[i] : i \in DOMAIN f.fields} = {Top.fields[i] : i \in DOMAIN Top.fields} \union {x}
      <4>1. Top.fields \in Seq(FieldType) /\ f.fields = Append(Top.fields, x)
        BY <1>2, <2>3
      <4> HIDE DEF old
      <4> QED BY <4>1, AppendHolds
    <3>2. {f.fields[i].name : i \in DOMAIN f.fields} = old \union {x.name}
      <4>1. {f.fields[i].name : i \in DOMAIN f.fields} = {y.name : y \in {f.fields[i] : i \in DOMAIN f.fields}}
        OBVIOUS
      <4>2. old = {y.name : y \in {Top.fields[i] : i \in DOMAIN Top.fields}}
        OBVIOUS
      <4> HIDE DEF old
      <4> QED BY <3>1, <4>1, <4>2
    <3>3. {l \in FieldLines(p) : ReadTo(f, l)} = {l \in FieldLines(p) : ReadTo(Top, l)} \union {ln}
      BY <1>3, <1>4, <2>3
    <3>4. x.name = NameAt(p, ln)
      BY <1>5, <2>3
    <3> HIDE DEF old
    <3> QED BY <2>1, <3>2, <3>3, <3>4
  <2> QED BY <2>2, <2>3 DEF p, ln
<1>8. {f.consts[i] : i \in DOMAIN f.consts} = {ConstAt(p, k) : k \in {l \in ConstLines(p) : ReadTo(f, l)}}
  <2> DEFINE old == {Top.consts[i] : i \in DOMAIN Top.consts}
             x == [name |-> CurLine.rest[1], value |-> CurLine.value]
  <2>1. old = {ConstAt(p, k) : k \in {l \in ConstLines(p) : ReadTo(Top, l)}}
    BY <1>1, <1>6 DEF NamesOk
  <2>2. CASE ln \notin ConstLines(p) /\ f.consts = Top.consts
    <3>1. \A l \in ConstLines(p) : ReadTo(f, l) <=> ReadTo(Top, l)
      BY <1>3, <1>4, <2>2
    <3>2. {l \in ConstLines(p) : ReadTo(f, l)} = {l \in ConstLines(p) : ReadTo(Top, l)}
      BY <3>1
    <3> QED BY <2>1, <2>2, <3>2
  <2>3. CASE ln \in ConstLines(p) /\ f.consts = Append(Top.consts, x)
    <3>1. {f.consts[i] : i \in DOMAIN f.consts} = old \union {x}
      BY <1>2, <2>3, AppendHolds, SMTT(60)
    <3>2. {l \in ConstLines(p) : ReadTo(f, l)} = {l \in ConstLines(p) : ReadTo(Top, l)} \union {ln}
      BY <1>3, <1>4, <2>3
    <3>3. x = ConstAt(p, ln)
      BY <1>5
    <3> HIDE DEF old, x
    <3> QED BY <2>1, <3>1, <3>2, <3>3
  <2> QED BY <2>2, <2>3 DEF p, ln
<1>9. \/ f.topics = <<>> /\ \A k \in TopicLines(p) : ~ReadTo(f, k)
      \/ \E k \in TopicLines(p) :
            /\ ReadTo(f, k) /\ \A j \in TopicLines(p) : ReadTo(f, j) => j <= k
            /\ f.topics = files[p][k].rest /\ f.topics # <<>>
  <2>1. CASE ln \in TopicLines(p) /\ f.topics = CurLine.rest /\ f.topics # <<>>
    <3>1. ReadTo(f, ln) /\ \A j \in TopicLines(p) : ReadTo(f, j) => j <= ln
      BY <1>2, <1>3, <1>4, <2>1
    <3> QED BY <1>5, <2>1, <3>1
  <2>2. CASE ln \notin TopicLines(p) /\ f.topics = Top.topics
    <3>1. \A k \in TopicLines(p) : ReadTo(f, k) <=> ReadTo(Top, k)
      BY <1>3, <1>4, <2>2
    <3> QED BY <1>1, <1>6, <2>2, <3>1 DEF NamesOk
  <2> QED BY <2>1, <2>2 DEF p, ln
<1> QED BY <1>6, <1>7, <1>8, <1>9 DEF NamesOk

\* A new call knows nothing.
LEMMA NewNames ==
    ASSUME LayoutInv, NEW p \in DOMAIN files
    PROVE  NamesOk(NewFrame(p))
<1> DEFINE f == NewFrame(p)
<1>1. /\ f.path = p /\ f.phase = "parse" /\ f.ln = 1 /\ f.fields = <<>> /\ f.consts = <<>>
      /\ f.topics = <<>>
  BY DEF NewFrame
<1>2. files[p] \in Seq(Line)
  BY CodegenAssumption DEF LayoutInv
<1> HIDE DEF f
<1>3. \A k \in DOMAIN files[p] : ~ReadTo(f, k)
  BY <1>1, <1>2 DEF ReadTo
<1>4. /\ FieldLines(p) \subseteq DOMAIN files[p] /\ ConstLines(p) \subseteq DOMAIN files[p]
      /\ TopicLines(p) \subseteq DOMAIN files[p]
  BY DEF FieldLines, ConstLines, TopicLines
<1>5. {l \in FieldLines(p) : ReadTo(f, l)} = {} /\ {l \in ConstLines(p) : ReadTo(f, l)} = {}
  BY <1>3, <1>4
<1>6. DOMAIN f.fields = {} /\ DOMAIN f.consts = {}
  BY <1>1
<1>7. NamesOk(f)
  BY <1>1, <1>3, <1>4, <1>5, <1>6 DEF NamesOk
<1> QED BY <1>7 DEF f

\* Parsing reads names and values as they are.
LEMMA ParseNames ==
    ASSUME LayoutInv, NamesInv, ParseStep
    PROVE  NamesInv'
<1>0. stack # <<>> /\ Top.phase = "parse"
  BY DEF ParseStep, CommentLine, BlankLine, TopicsLine, ConstLine, FieldLine, ParseEnd, Parsing
<1>1. Top \in FrameType /\ files[Top.path] \in Seq(Line) /\ NamesOk(Top)
  BY <1>0, TopNames
<1>2. ASSUME ~EndOfFile
      PROVE  /\ Top.ln \in DOMAIN files[Top.path] /\ CurLine = files[Top.path][Top.ln]
             /\ Top.ln \in FieldLines(Top.path)
                    <=> CurLine.lead = "code" /\ ~HasEq(CurLine) /\ ~IsBlank(CurLine)
             /\ Top.ln \in ConstLines(Top.path) <=> CurLine.lead = "code" /\ HasEq(CurLine)
             /\ Top.ln \in TopicLines(Top.path) <=> CurLine.lead = "# TOPICS"
  <2>1. Top.ln \in DOMAIN files[Top.path] /\ CurLine = files[Top.path][Top.ln]
    BY <1>1, <1>2 DEF EndOfFile, FrameType, CurLine
  <2> QED BY <2>1 DEF FieldLines, ConstLines, TopicLines
<1>3. CASE Fail
  BY <1>3 DEF Fail, NamesInv
<1>4. ASSUME NEW f, DOMAIN f = DOMAIN Top, f = [x \in DOMAIN f |-> f[x]],
             f.path = Top.path, f.phase = "parse", f.ln = Top.ln, Advance(f), ~EndOfFile,
             \/ Top.ln \notin FieldLines(Top.path) /\ f.fields = Top.fields
             \/ /\ Top.ln \in FieldLines(Top.path)
                /\ \E x : x.name = CurLine.rest[1] /\ f.fields = Append(Top.fields, x),
             \/ Top.ln \notin ConstLines(Top.path) /\ f.consts = Top.consts
             \/ /\ Top.ln \in ConstLines(Top.path)
                /\ f.consts = Append(Top.consts, [name |-> CurLine.rest[1], value |-> CurLine.value]),
             \/ Top.ln \notin TopicLines(Top.path) /\ f.topics = Top.topics
             \/ Top.ln \in TopicLines(Top.path) /\ f.topics = CurLine.rest /\ f.topics # <<>>
      PROVE  NamesInv'
  <2> DEFINE g == [f EXCEPT !.ln = @ + 1]
  <2>1. SetTop(g)
    BY <1>4 DEF Advance
  <2>2. {"path", "phase", "ln", "fields", "consts", "topics"} \subseteq DOMAIN f
    BY <1>1, <1>4 DEF FrameType
  <2>3. /\ g.path = Top.path /\ g.phase = "parse" /\ g.ln = Top.ln + 1
        /\ g.fields = f.fields /\ g.consts = f.consts /\ g.topics = f.topics
    BY <1>4, <2>2
  <2> HIDE DEF g
  <2>4. NamesOk(g)
    BY <1>0, <1>4, <2>3, ReadNames
  <2> QED BY <1>0, <2>1, <2>4, SetTopNames
<1>5. Top = [x \in DOMAIN Top |-> Top[x]] /\ {"path", "phase", "ln", "fields", "topics", "consts"} \subseteq DOMAIN Top
  BY <1>1 DEF FrameType
<1>6. CASE CommentLine \/ BlankLine
  <2>1. /\ ~EndOfFile /\ Advance(Top)
        /\ CurLine.lead = "#" \/ (CurLine.lead = "code" /\ IsBlank(CurLine) /\ ~HasEq(CurLine))
    BY <1>6 DEF CommentLine, BlankLine, Parsing, IsBlank
  <2> QED BY <1>0, <1>2, <1>4, <1>5, <2>1
<1>7. CASE TopicsLine
  <2> DEFINE f == [Top EXCEPT !.topics = CurLine.rest]
  <2>1. ~EndOfFile /\ CurLine.lead = "# TOPICS"
    BY <1>7 DEF TopicsLine, Parsing
  <2>2. Fail \/ (CurLine.rest # <<>> /\ Advance(f))
    BY <1>7 DEF TopicsLine
  <2>3. /\ DOMAIN f = DOMAIN Top /\ f = [x \in DOMAIN f |-> f[x]] /\ f.path = Top.path
        /\ f.phase = "parse" /\ f.ln = Top.ln /\ f.fields = Top.fields
        /\ f.consts = Top.consts /\ f.topics = CurLine.rest
    BY <1>0, <1>5
  <2> HIDE DEF f
  <2> QED BY <1>2, <1>3, <1>4, <2>1, <2>2, <2>3
<1>8. CASE ConstLine
  <2> DEFINE const == [name |-> CurLine.rest[1], value |-> CurLine.value]
             f == [Top EXCEPT !.consts = Append(@, const)]
  <2>1. ~EndOfFile /\ CurLine.lead = "code" /\ HasEq(CurLine)
    BY <1>8 DEF ConstLine, Parsing
  <2>2. Fail \/ Advance(f)
    BY <1>8 DEF ConstLine
  <2>3. /\ DOMAIN f = DOMAIN Top /\ f = [x \in DOMAIN f |-> f[x]] /\ f.path = Top.path
        /\ f.phase = "parse" /\ f.ln = Top.ln /\ f.fields = Top.fields
        /\ f.consts = Append(Top.consts, const) /\ f.topics = Top.topics
    BY <1>0, <1>5
  <2> HIDE DEF f
  <2> QED BY <1>2, <1>3, <1>4, <2>1, <2>2, <2>3
<1>9. CASE FieldLine
  <2> DEFINE field == [name |-> CurLine.rest[1], base |-> CurLine.ty.base, n |-> CurLine.ty.n]
             f == [Top EXCEPT !.fields = Append(@, field)]
  <2>1. ~EndOfFile /\ CurLine.lead = "code" /\ ~HasEq(CurLine) /\ ~IsBlank(CurLine)
    BY <1>9 DEF FieldLine, Parsing
  <2>2. Fail \/ Advance(f)
    BY <1>9 DEF FieldLine
  <2>3. /\ DOMAIN f = DOMAIN Top /\ f = [x \in DOMAIN f |-> f[x]] /\ f.path = Top.path
        /\ f.phase = "parse" /\ f.ln = Top.ln /\ f.fields = Append(Top.fields, field)
        /\ f.consts = Top.consts /\ f.topics = Top.topics /\ field.name = CurLine.rest[1]
    BY <1>0, <1>5
  <2> HIDE DEF f, field
  <2> QED BY <1>2, <1>3, <1>4, <2>1, <2>2, <2>3
<1>10. CASE ParseEnd
  <2> DEFINE f == [Top EXCEPT !.phase = "layout", !.todo = DOMAIN Top.fields,
                        !.topics = IF @ = <<>> THEN <<Top.path[2]>> ELSE @]
  <2>1. /\ f.path = Top.path /\ f.phase = "layout" /\ f.fields = Top.fields /\ f.consts = Top.consts
        /\ f.topics = IF Top.topics = <<>> THEN <<Top.path[2]>> ELSE Top.topics
    BY <1>1 DEF FrameType
  <2>2. SetTop(f) /\ EndOfFile
    BY <1>10 DEF ParseEnd
  <2> HIDE DEF f
  <2>3. \A k \in DOMAIN files[Top.path] : ReadTo(Top, k) /\ ReadTo(f, k)
    BY <1>1, <2>1, <2>2 DEF EndOfFile, ReadTo, FrameType
  <2>4. /\ FieldLines(Top.path) \subseteq DOMAIN files[Top.path]
        /\ ConstLines(Top.path) \subseteq DOMAIN files[Top.path]
        /\ TopicLines(Top.path) \subseteq DOMAIN files[Top.path]
    BY DEF FieldLines, ConstLines, TopicLines
  <2>5. /\ {l \in FieldLines(Top.path) : ReadTo(Top, l)} = {l \in FieldLines(Top.path) : ReadTo(f, l)}
        /\ {l \in ConstLines(Top.path) : ReadTo(Top, l)} = {l \in ConstLines(Top.path) : ReadTo(f, l)}
    <3>1. /\ \A l \in FieldLines(Top.path) : ReadTo(Top, l) <=> ReadTo(f, l)
          /\ \A l \in ConstLines(Top.path) : ReadTo(Top, l) <=> ReadTo(f, l)
      BY <2>3, <2>4
    <3> QED BY <3>1
  <2>6. /\ {f.fields[i].name : i \in DOMAIN f.fields} = {Top.fields[i].name : i \in DOMAIN Top.fields}
        /\ {f.consts[i] : i \in DOMAIN f.consts} = {Top.consts[i] : i \in DOMAIN Top.consts}
    BY <2>1
  <2>7. /\ {f.fields[i].name : i \in DOMAIN f.fields}
                = {NameAt(f.path, k) : k \in {l \in FieldLines(f.path) : ReadTo(f, l)}}
        /\ {f.consts[i] : i \in DOMAIN f.consts}
                = {ConstAt(f.path, k) : k \in {l \in ConstLines(f.path) : ReadTo(f, l)}}
    BY <1>1, <2>1, <2>5, <2>6 DEF NamesOk
  <2>8. \/ f.topics = <<f.path[2]>> /\ f.phase = "layout" /\ TopicLines(f.path) = {}
        \/ \E k \in TopicLines(f.path) :
              /\ ReadTo(f, k) /\ \A j \in TopicLines(f.path) : ReadTo(f, j) => j <= k
              /\ f.topics = files[f.path][k].rest /\ f.topics # <<>>
    <3>1. \/ Top.topics = <<>> /\ \A k \in TopicLines(Top.path) : ~ReadTo(Top, k)
          \/ \E k \in TopicLines(Top.path) :
                /\ ReadTo(Top, k) /\ \A j \in TopicLines(Top.path) : ReadTo(Top, j) => j <= k
                /\ Top.topics = files[Top.path][k].rest /\ Top.topics # <<>>
      BY <1>0, <1>1 DEF NamesOk
    <3>2. \A k \in TopicLines(Top.path) : ReadTo(Top, k) /\ ReadTo(f, k)
      BY <2>3, <2>4
    <3> QED BY <2>1, <3>1, <3>2
  <2>9. NamesOk(f)
    BY <2>7, <2>8 DEF NamesOk
  <2> QED BY <1>0, <2>2, <2>9, SetTopNames
<1> QED BY <1>6, <1>7, <1>8, <1>9, <1>10 DEF ParseStep

\* Placing a field leaves them alone; a new call has none.
LEMMA PlaceNames ==
    ASSUME LayoutInv, NamesInv, stack # <<>>, NEW i \in Top.todo,
           PlaceScalar(i) \/ PlaceNested(i) \/ Resolve(i)
    PROVE  NamesInv'
<1> DEFINE name == Top.fields[i].base
<1>1. Top \in FrameType /\ NamesOk(Top) /\ Top.phase = "layout"
  BY TopNames DEF PlaceScalar, PlaceNested, Resolve, Laying
<1>2. CASE PlaceScalar(i) \/ PlaceNested(i)
  <2>1. PICK pl, ac, al : SetTop([Top EXCEPT !.todo = @ \ {i}, !.placed = pl, !.accum = ac, !.align = al])
    BY <1>2 DEF PlaceScalar, PlaceNested
  <2> DEFINE f == [Top EXCEPT !.todo = @ \ {i}, !.placed = pl, !.accum = ac, !.align = al]
  <2>2. /\ f.path = Top.path /\ f.phase = "layout" /\ f.fields = Top.fields
        /\ f.consts = Top.consts /\ f.topics = Top.topics
    BY <1>1 DEF FrameType
  <2> HIDE DEF f
  <2>3. \A k : ReadTo(Top, k) /\ ReadTo(f, k)
    BY <1>1, <2>2 DEF ReadTo
  <2>4. NamesOk(f)
    BY <1>1, <2>2, <2>3 DEF NamesOk
  <2> QED BY <2>1, <2>4, SetTopNames DEF f
<1>3. CASE Fail
  BY <1>3 DEF Fail, NamesInv
<1>4. CASE UNCHANGED <<files, search, stack>>
  <2>1. \A g : NamesOk(g)' <=> NamesOk(g)
    BY <1>4, SameNames DEF Frozen
  <2> QED BY <1>4, <2>1 DEF NamesInv
<1>5. ASSUME NEW k \in Found(name), stack' = Append(stack, NewFrame(<<search[k], name>>)), Frozen
      PROVE  NamesInv'
  <2> DEFINE q == <<search[k], name>>
             f == NewFrame(q)
             n == Len(stack)
  <2>1. q \in DOMAIN files
    BY DEF Found
  <2>2. NamesOk(f)
    BY <2>1, NewNames
  <2>3. /\ n \in Nat /\ DOMAIN stack = 1..n /\ DOMAIN stack' = 1..(n + 1)
        /\ \A l \in 1..n : stack'[l] = stack[l]
        /\ stack'[n + 1] = f
    BY <1>5 DEF LayoutInv
  <2> HIDE DEF f, q, n
  <2>4. \A l \in 1..(n + 1) : l \in 1..n \/ l = n + 1
    BY <2>3
  <2>5. \A l \in DOMAIN stack' : NamesOk(stack'[l])
    BY <2>2, <2>3, <2>4 DEF NamesInv
  <2>6. \A g : NamesOk(g)' <=> NamesOk(g)
    BY <1>5, SameNames
  <2> QED BY <2>5, <2>6 DEF NamesInv
<1> HIDE DEF name
<1>6. ASSUME Resolve(i) PROVE \/ Fail
                              \/ UNCHANGED <<files, search, stack>>
                              \/ \E k \in Found(name) : stack' = Append(stack, NewFrame(<<search[k], name>>)) /\ Frozen
  BY <1>6 DEF Resolve, Frozen, name
<1> QED BY <1>2, <1>3, <1>4, <1>5, <1>6

\* Names and values are what the files say.
LEMMA NamesInvHolds == CodegenSpec => []NamesInv
<1>1. CodegenInit => NamesInv
  BY DEF CodegenInit, NamesInv
<1>2. LayoutInv /\ NamesInv /\ [CodegenNext]_codegenVars => NamesInv'
  <2> SUFFICES ASSUME LayoutInv, NamesInv, [CodegenNext]_codegenVars PROVE NamesInv'
    OBVIOUS
  <2>0. \A g : NamesOk(g)' <=> NamesOk(g)
    BY FrozenStep, SameNames
  <2>1. CASE NextDir
    BY <2>1 DEF NextDir, NamesInv
  <2>2. ASSUME NEW p \in pending, Generate(p) PROVE NamesInv'
    <3> DEFINE f == NewFrame(p)
    <3>1. NamesOk(f)
      BY NewNames DEF LayoutInv
    <3> HIDE DEF f
    <3>2. DOMAIN stack' = {1} /\ stack'[1] = f
      BY <2>2 DEF Generate, f
    <3> QED BY <2>0, <3>1, <3>2 DEF NamesInv
  <2>3. CASE ParseStep
    BY <2>3, ParseNames
  <2>4. ASSUME stack # <<>>, NEW i \in Top.todo, PlaceScalar(i) \/ PlaceNested(i) \/ Resolve(i) PROVE NamesInv'
    BY <2>4, PlaceNames
  <2>5. CASE LayoutEnd
    <3>1. \A k \in DOMAIN stack' : k \in DOMAIN stack /\ stack'[k] = stack[k]
      BY <2>5 DEF LayoutEnd, LayoutInv, Front
    <3> QED BY <2>0, <3>1 DEF NamesInv
  <2>6. CASE UNCHANGED codegenVars
    BY <2>0, <2>6 DEF codegenVars, NamesInv
  <2> QED BY <2>1, <2>2, <2>3, <2>4, <2>5, <2>6 DEF CodegenNext, LayoutStep
<1> QED BY <1>1, <1>2, LayoutInvHolds, PTL DEF CodegenSpec

\* emit takes the layout of a file exactly if the names and values in the file are Rust.
LEMMA EmitsRust ==
    ASSUME LayoutInv, NamesInv, stack # <<>>, Top.phase = "layout", NEW tail
    PROVE  Emittable(Top.path[2], LaidOut(Top, tail)) <=> Writable(Top.path)
<1>1. PICK p, laid : p = Top.path /\ laid = LaidOut(Top, tail)
  OBVIOUS
<1>2. NamesOk(Top) /\ files[p] \in Seq(Line) /\ \A k : ReadTo(Top, k)
  BY <1>1, TopNames DEF ReadTo
<1>3. laid.fields = Top.fields /\ laid.consts = Top.consts /\ laid.topics = Top.topics
  BY <1>1 DEF LaidOut
<1>4. (\A i \in DOMAIN laid.fields : IsFieldIdent(laid.fields[i].name))
        <=> \A k \in FieldLines(p) : IsFieldIdent(files[p][k].rest[1])
  <2>1. {laid.fields[i].name : i \in DOMAIN laid.fields} = {NameAt(p, k) : k \in FieldLines(p)}
    <3>1. {l \in FieldLines(p) : ReadTo(Top, l)} = FieldLines(p)
      BY <1>2
    <3>2. {Top.fields[i].name : i \in DOMAIN Top.fields}
            = {NameAt(p, k) : k \in {l \in FieldLines(p) : ReadTo(Top, l)}}
      BY <1>1, <1>2 DEF NamesOk
    <3>3. {laid.fields[i].name : i \in DOMAIN laid.fields} = {Top.fields[i].name : i \in DOMAIN Top.fields}
      BY <1>3
    <3> QED BY <3>1, <3>2, <3>3
  <2>2. (\A i \in DOMAIN laid.fields : IsFieldIdent(laid.fields[i].name))
            <=> \A x \in {laid.fields[i].name : i \in DOMAIN laid.fields} : IsFieldIdent(x)
    OBVIOUS
  <2> QED BY <2>1, <2>2 DEF NameAt
<1>5. (\A i \in DOMAIN laid.consts : laid.consts[i].name \in Idents /\ laid.consts[i].value # "other")
        <=> \A k \in ConstLines(p) : files[p][k].rest[1] \in Idents /\ files[p][k].value # "other"
  <2>1. {laid.consts[i] : i \in DOMAIN laid.consts} = {ConstAt(p, k) : k \in ConstLines(p)}
    <3>1. {l \in ConstLines(p) : ReadTo(Top, l)} = ConstLines(p)
      BY <1>2
    <3> QED BY <1>1, <1>2, <1>3, <3>1 DEF NamesOk
  <2>2. (\A i \in DOMAIN laid.consts : laid.consts[i].name \in Idents /\ laid.consts[i].value # "other")
            <=> \A x \in {laid.consts[i] : i \in DOMAIN laid.consts} : x.name \in Idents /\ x.value # "other"
    OBVIOUS
  <2>3. \A k : ConstAt(p, k).name = files[p][k].rest[1] /\ ConstAt(p, k).value = files[p][k].value
    BY DEF ConstAt
  <2>4. (\A x \in {ConstAt(p, k) : k \in ConstLines(p)} : x.name \in Idents /\ x.value # "other")
            <=> \A k \in ConstLines(p) : ConstAt(p, k).name \in Idents /\ ConstAt(p, k).value # "other"
    OBVIOUS
  <2> QED BY <2>1, <2>2, <2>3, <2>4
<1>6. p[2] \in Idents =>
        ((\A i \in DOMAIN laid.topics : laid.topics[i] \in Idents)
            <=> \A k \in TopicLines(p) : (\A j \in TopicLines(p) : j <= k) =>
                    \A i \in DOMAIN files[p][k].rest : files[p][k].rest[i] \in Idents)
  <2>1. CASE laid.topics = <<p[2]>> /\ TopicLines(p) = {}
    BY <2>1
  <2>2. ASSUME NEW k \in TopicLines(p), \A j \in TopicLines(p) : j <= k, laid.topics = files[p][k].rest
        PROVE  (\A i \in DOMAIN laid.topics : laid.topics[i] \in Idents)
                <=> \A l \in TopicLines(p) : (\A j \in TopicLines(p) : j <= l) =>
                        \A i \in DOMAIN files[p][l].rest : files[p][l].rest[i] \in Idents
    <3>1. TopicLines(p) \subseteq Nat
      <4>1. DOMAIN files[p] \subseteq Nat
        BY <1>2
      <4> QED BY <4>1 DEF TopicLines
    <3>2. \A l \in TopicLines(p) : (\A j \in TopicLines(p) : j <= l) => l = k
      BY <2>2, <3>1
    <3> QED BY <2>2, <3>2
  <2> QED BY <1>1, <1>2, <1>3, <2>1, <2>2 DEF NamesOk
<1> QED BY <1>1, <1>4, <1>5, <1>6 DEF Emittable, Writable

-----------------------------------------------------------------------------
(* The calls in progress *)

\* The lines a call has read follow the grammar, and its fields are theirs.
ReadInv(f) ==
    /\ \A k \in DOMAIN files[f.path] : ReadTo(f, k) => Accepted(files[f.path][k])
    /\ \A k \in FieldLines(f.path) : ReadTo(f, k) =>
          \E i \in DOMAIN f.fields : f.fields[i].base = files[f.path][k].ty.base
    /\ \A i \in DOMAIN f.fields : f.fields[i].base \in Scalars \union Uses(f.path)

\* The nested types a call has placed are in the cache.
PlacedInv(f) ==
    f.phase = "layout" =>
        \A i \in DOMAIN f.fields \ f.todo : IsNested(f.fields[i]) => f.fields[i].base \in DOMAIN cache

\* The file found for a name.
FoundAt(q, n) == \E k \in DOMAIN search : IsFirst(k, n) /\ q = <<search[k], n>>

\* What is in the cache comes from the file found for its name, and is sound.
CacheInv == \A m \in DOMAIN cache : Found(m) # {} /\ \A q : FoundAt(q, m) => Sound(q)

\* The calls in progress are for files that the outermost one reaches, each for
\* the file found for the type it lays out.
CallsInv ==
    /\ \A k \in DOMAIN stack : ReadInv(stack[k])
    /\ \A k \in DOMAIN stack : PlacedInv(stack[k])
    /\ \A k \in DOMAIN stack : stack[k].path \in Reach(stack[1].path)
    /\ \A k \in DOMAIN stack : k > 1 => FoundAt(stack[k].path, stack[k].path[2])
    /\ stack # <<>> => CacheInv

\* What is skipped, written or ends the generator has its cause.
Causes ==
    /\ \A p \in skipped : ~Sound(p)
    /\ \A m \in DOMAIN out : \E p \in DOMAIN files : p[2] = m /\ Sound(p) /\ Writable(p)
    /\ \A p \in panicked : Sound(p) /\ ~Writable(p)

\* The inductive invariant.
CauseInv ==
    /\ DOMAIN search \subseteq Nat
    /\ CallsInv
    /\ Causes

\* All of it but the cache depends on the tree and the search only.
LEMMA SameFrame ==
    ASSUME Frozen
    PROVE  \A f : ReadInv(f)' <=> ReadInv(f)
<1>1. \A f, k : ReadTo(f, k)' <=> ReadTo(f, k)
  BY DEF ReadTo
<1>2. \A p : Uses(p)' = Uses(p) /\ FieldLines(p)' = FieldLines(p)
  BY SameUses
<1> QED BY <1>1, <1>2 DEF Frozen, ReadInv

\* The same for the file found for a name, ...
LEMMA SameFound ==
    ASSUME Frozen
    PROVE  \A q, n : (FoundAt(q, n)' <=> FoundAt(q, n)) /\ Found(n)' = Found(n)
BY DEF Frozen, FoundAt, IsFirst, Found

\* ... for the property itself, ...
LEMMA SameCause ==
    ASSUME Frozen, Causes, UNCHANGED <<skipped, panicked, out>>
    PROVE  Causes'
<1>1. \A p : (Sound(p)' <=> Sound(p)) /\ (Writable(p)' <=> Writable(p))
  BY SameSound, SameWritable
<1> QED BY <1>1 DEF Frozen, Causes

\* ... and for the cache.
LEMMA SameCache ==
    ASSUME Frozen, CacheInv, cache' = cache
    PROVE  CacheInv'
<1>1. \A p : Sound(p)' <=> Sound(p)
  BY SameSound
<1>2. \A q, n : (FoundAt(q, n)' <=> FoundAt(q, n)) /\ Found(n)' = Found(n)
  BY SameFound
<1> QED BY <1>1, <1>2 DEF CacheInv

\* Replacing the innermost call.
LEMMA SetTopCause ==
    ASSUME LayoutInv, CauseInv, stack # <<>>, NEW f, SetTop(f), f.path = Top.path,
           ReadInv(f), PlacedInv(f)
    PROVE  CauseInv'
<1>0. Frozen /\ UNCHANGED <<cache, out, skipped, panicked>>
  BY DEF SetTop, Frozen
<1>1. DOMAIN stack' = DOMAIN stack /\ stack # <<>> /\ 1 \in DOMAIN stack
  BY DEF SetTop, LayoutInv
<1>2. \A k \in DOMAIN stack' : stack'[k] = IF k = Len(stack) THEN f ELSE stack[k]
  BY <1>1 DEF SetTop, LayoutInv
<1>3. \A k \in DOMAIN stack' : stack'[k].path = stack[k].path
  BY <1>1, <1>2 DEF Top
<1>4. \A p : Reach(p)' = Reach(p)
  BY <1>0, SameReach
<1>5. \A q, n : FoundAt(q, n)' <=> FoundAt(q, n)
  BY <1>0, SameFound
<1>6. \A g : ReadInv(g)' <=> ReadInv(g)
  BY <1>0, SameFrame
<1>7. \A g : PlacedInv(g)' <=> PlacedInv(g)
  BY <1>0 DEF PlacedInv
<1>8. (\A k \in DOMAIN stack : ReadInv(stack[k]))'
  <2>1. \A k \in DOMAIN stack' : ReadInv(stack'[k])
    BY <1>1, <1>2 DEF CauseInv, CallsInv
  <2> QED BY <1>6, <2>1
<1>9. (\A k \in DOMAIN stack : PlacedInv(stack[k]))'
  <2>1. \A k \in DOMAIN stack' : PlacedInv(stack'[k])
    BY <1>1, <1>2 DEF CauseInv, CallsInv
  <2> QED BY <1>7, <2>1
<1>10. (\A k \in DOMAIN stack : stack[k].path \in Reach(stack[1].path))'
  BY <1>1, <1>3, <1>4 DEF CauseInv, CallsInv
<1>11. (\A k \in DOMAIN stack : k > 1 => FoundAt(stack[k].path, stack[k].path[2]))'
  BY <1>1, <1>3, <1>5 DEF CauseInv, CallsInv
<1>12. CacheInv'
  BY <1>0, <1>1, SameCache DEF CauseInv, CallsInv
<1>13. Causes'
  BY <1>0, SameCause DEF CauseInv
<1> QED BY <1>0, <1>8, <1>9, <1>10, <1>11, <1>12, <1>13 DEF CauseInv, CallsInv, Frozen

\* An error has its cause in a file that the outermost call reaches.
LEMMA FailCause ==
    ASSUME LayoutInv, CauseInv, stack # <<>>, Fail, ~Sound(stack[1].path)
    PROVE  CauseInv'
<1>0. Frozen /\ UNCHANGED <<cache, out, panicked>> /\ stack' = <<>> /\ skipped' = skipped \union {stack[1].path}
  BY DEF Fail, Frozen
<1>1. \A p : (Sound(p)' <=> Sound(p)) /\ (Writable(p)' <=> Writable(p))
  BY <1>0, SameSound, SameWritable
<1>2. Causes'
  BY <1>0, <1>1 DEF CauseInv, Causes, Frozen
<1>3. DOMAIN stack' = {}
  BY <1>0
<1> QED BY <1>0, <1>2, <1>3 DEF CauseInv, CallsInv, Frozen

\* A line that breaks the grammar is such a cause.
LEMMA BadLine ==
    ASSUME LayoutInv, CauseInv, stack # <<>>, ~EndOfFile, ~Accepted(CurLine)
    PROVE  ~Sound(stack[1].path)
<1>1. Top.path \in Reach(stack[1].path)
  BY DEF CauseInv, CallsInv, Top, LayoutInv
<1>2. Top \in FrameType /\ files[Top.path] \in Seq(Line)
  BY TopInv, CodegenAssumption DEF LayoutInv, FrameType
<1>3. Top.ln \in DOMAIN files[Top.path]
  BY <1>2 DEF EndOfFile, FrameType
<1> QED BY <1>1, <1>3 DEF Sound, CurLine

\* The innermost call.
LEMMA TopCause ==
    ASSUME LayoutInv, CauseInv, stack # <<>>
    PROVE  /\ Top \in FrameType /\ files[Top.path] \in Seq(Line)
           /\ ReadInv(Top) /\ PlacedInv(Top) /\ Top.path \in Reach(stack[1].path) /\ CacheInv
<1>1. Top \in FrameType
  BY TopInv
<1>2. Top.path \in DOMAIN files /\ files \in Trees
  BY <1>1 DEF FrameType, LayoutInv
<1>3. files[Top.path] \in Seq(Line)
  BY <1>2, CodegenAssumption
<1>4. Len(stack) \in DOMAIN stack
  BY DEF LayoutInv
<1> QED BY <1>1, <1>3, <1>4 DEF Top, CauseInv, CallsInv

\* Reading a line that follows the grammar.
LEMMA ReadOn ==
    ASSUME LayoutInv, CauseInv, stack # <<>>, Top.phase = "parse", ~EndOfFile, Accepted(CurLine),
           NEW f, f.path = Top.path, f.phase = "parse", f.ln = Top.ln + 1,
           \/ Top.ln \notin FieldLines(Top.path) /\ f.fields = Top.fields
           \/ /\ CurLine.ty.base \in Scalars \union Uses(Top.path)
              /\ \E x : x.base = CurLine.ty.base /\ f.fields = Append(Top.fields, x)
    PROVE  ReadInv(f)
<1>1. Top \in FrameType /\ files[Top.path] \in Seq(Line) /\ ReadInv(Top)
  BY TopCause
<1>2. Top.ln \in Nat /\ Top.fields \in Seq(FieldType)
  BY <1>1 DEF FrameType
<1>3. \A k \in Nat : ReadTo(f, k) <=> ReadTo(Top, k) \/ k = Top.ln
  BY <1>2 DEF ReadTo
<1>4. DOMAIN files[Top.path] \subseteq Nat /\ FieldLines(Top.path) \subseteq DOMAIN files[Top.path]
  BY <1>1 DEF FieldLines
<1>5. \A k \in DOMAIN files[f.path] : ReadTo(f, k) => Accepted(files[f.path][k])
  BY <1>1, <1>3, <1>4 DEF ReadInv, CurLine
<1>6. CASE Top.ln \notin FieldLines(Top.path) /\ f.fields = Top.fields
  BY <1>1, <1>3, <1>4, <1>5, <1>6 DEF ReadInv
<1>7. ASSUME NEW x, x.base = CurLine.ty.base, f.fields = Append(Top.fields, x),
             CurLine.ty.base \in Scalars \union Uses(Top.path)
      PROVE  ReadInv(f)
  <2> DEFINE n == Len(Top.fields)
  <2>1. /\ n \in Nat /\ DOMAIN Top.fields = 1..n /\ DOMAIN f.fields = 1..(n + 1)
        /\ \A i \in 1..n : f.fields[i] = Top.fields[i]
        /\ f.fields[n + 1] = x
    BY <1>2, <1>7
  <2> HIDE DEF n
  <2>2. \A i \in 1..(n + 1) : i \in 1..n \/ i = n + 1
    BY <2>1
  <2>3. 1..n \subseteq 1..(n + 1) /\ n + 1 \in 1..(n + 1)
    BY <2>1
  <2>4. \A k \in FieldLines(f.path) : ReadTo(f, k) =>
          \E i \in DOMAIN f.fields : f.fields[i].base = files[f.path][k].ty.base
    <3> SUFFICES ASSUME NEW k \in FieldLines(Top.path), ReadTo(f, k)
                 PROVE  \E i \in DOMAIN f.fields : f.fields[i].base = files[Top.path][k].ty.base
      OBVIOUS
    <3>1. CASE k = Top.ln
      BY <1>7, <2>1, <2>3, <3>1 DEF CurLine
    <3>2. CASE ReadTo(Top, k)
      <4>1. PICK i \in DOMAIN Top.fields : Top.fields[i].base = files[Top.path][k].ty.base
        BY <1>1, <3>2 DEF ReadInv
      <4> QED BY <2>1, <2>3, <4>1
    <3> QED BY <1>3, <1>4, <3>1, <3>2
  <2>5. \A i \in DOMAIN f.fields : f.fields[i].base \in Scalars \union Uses(f.path)
    BY <1>1, <1>7, <2>1, <2>2 DEF ReadInv
  <2> QED BY <1>5, <2>4, <2>5 DEF ReadInv
<1> QED BY <1>6, <1>7

\* Parsing keeps the invariant: an error is a line that breaks the grammar.
LEMMA ParseCause ==
    ASSUME LayoutInv, CauseInv, ParseStep
    PROVE  CauseInv'
<1>0. stack # <<>> /\ Top.phase = "parse"
  BY DEF ParseStep, CommentLine, BlankLine, TopicsLine, ConstLine, FieldLine, ParseEnd, Parsing
<1>1. Top \in FrameType /\ files[Top.path] \in Seq(Line)
  BY <1>0, TopCause
<1>2. ASSUME ~EndOfFile PROVE CurLine \in Line /\ Top.ln \in DOMAIN files[Top.path]
  BY <1>0, <1>1, <1>2, LineType DEF EndOfFile, FrameType
<1>3. ASSUME ~EndOfFile, Fail, ~Accepted(CurLine) PROVE CauseInv'
  BY <1>0, <1>3, BadLine, FailCause
<1>4. ASSUME NEW f, DOMAIN f = DOMAIN Top, f = [x \in DOMAIN f |-> f[x]],
             f.path = Top.path, f.phase = "parse", f.ln = Top.ln,
             Advance(f), ~EndOfFile, Accepted(CurLine),
             \/ Top.ln \notin FieldLines(Top.path) /\ f.fields = Top.fields
             \/ /\ CurLine.ty.base \in Scalars \union Uses(Top.path)
                /\ \E x : x.base = CurLine.ty.base /\ f.fields = Append(Top.fields, x)
      PROVE  CauseInv'
  <2> DEFINE g == [f EXCEPT !.ln = @ + 1]
  <2>1. SetTop(g)
    BY <1>4 DEF Advance
  <2>2. {"path", "phase", "ln", "fields"} \subseteq DOMAIN f
    BY <1>1, <1>4 DEF FrameType
  <2>3. g.path = Top.path /\ g.phase = "parse" /\ g.ln = Top.ln + 1 /\ g.fields = f.fields
    BY <1>4, <2>2
  <2> HIDE DEF g
  <2>4. ReadInv(g)
    BY <1>0, <1>4, <2>3, ReadOn
  <2>5. PlacedInv(g)
    BY <2>3 DEF PlacedInv
  <2> QED BY <1>0, <2>1, <2>3, <2>4, <2>5, SetTopCause
<1>5. Top = [x \in DOMAIN Top |-> Top[x]] /\ {"path", "phase", "ln", "fields", "topics", "consts"} \subseteq DOMAIN Top
  BY <1>1 DEF FrameType
<1>6. CASE CommentLine \/ BlankLine
  <2>1. ~EndOfFile /\ Accepted(CurLine) /\ Advance(Top)
    BY <1>6 DEF CommentLine, BlankLine, Parsing, Accepted
  <2>2. Top.ln \notin FieldLines(Top.path)
    BY <1>6 DEF CommentLine, BlankLine, Parsing, FieldLines, CurLine
  <2> QED BY <1>0, <1>4, <1>5, <2>1, <2>2
<1>7. CASE TopicsLine
  <2>0. ~EndOfFile /\ CurLine.lead = "# TOPICS" /\ Top.ln \notin FieldLines(Top.path)
    BY <1>7 DEF TopicsLine, Parsing, FieldLines, CurLine
  <2>1. CASE Fail /\ CurLine.rest = <<>>
    BY <1>3, <2>0, <2>1 DEF Accepted
  <2>2. CASE CurLine.rest # <<>> /\ Advance([Top EXCEPT !.topics = CurLine.rest])
    <3> DEFINE f == [Top EXCEPT !.topics = CurLine.rest]
    <3>1. /\ DOMAIN f = DOMAIN Top /\ f = [x \in DOMAIN f |-> f[x]] /\ f.path = Top.path
          /\ f.phase = "parse" /\ f.ln = Top.ln /\ f.fields = Top.fields
      BY <1>0, <1>5
    <3>2. Accepted(CurLine)
      BY <2>0, <2>2 DEF Accepted
    <3> HIDE DEF f
    <3>3. Advance(f)
      BY <2>2 DEF f
    <3> QED BY <1>4, <2>0, <3>1, <3>2, <3>3
  <2> QED BY <1>7, <2>1, <2>2 DEF TopicsLine
<1>8. CASE ConstLine
  <2>0. ~EndOfFile /\ CurLine.lead = "code" /\ HasEq(CurLine) /\ Top.ln \notin FieldLines(Top.path)
    BY <1>8 DEF ConstLine, Parsing, FieldLines, CurLine
  <2> DEFINE ok == IsScalarTok(CurLine.ty) /\ Len(CurLine.rest) = 1
             const == [name |-> CurLine.rest[1], value |-> CurLine.value]
             f == [Top EXCEPT !.consts = Append(@, const)]
  <2>1. CASE Fail /\ ~ok
    BY <1>3, <2>0, <2>1 DEF Accepted, IsBlank
  <2>2. CASE ok /\ Advance(f)
    <3>1. /\ DOMAIN f = DOMAIN Top /\ f = [x \in DOMAIN f |-> f[x]] /\ f.path = Top.path
          /\ f.phase = "parse" /\ f.ln = Top.ln /\ f.fields = Top.fields
      BY <1>0, <1>5
    <3>2. Accepted(CurLine)
      BY <2>0, <2>2 DEF Accepted
    <3> HIDE DEF f
    <3> QED BY <1>4, <2>0, <2>2, <3>1, <3>2
  <2> QED BY <1>8, <2>1, <2>2 DEF ConstLine
<1>9. CASE FieldLine
  <2>0. ~EndOfFile /\ CurLine.lead = "code" /\ ~HasEq(CurLine) /\ ~IsBlank(CurLine)
    BY <1>9 DEF FieldLine, Parsing
  <2> DEFINE ok == IsFieldType(CurLine.ty) /\ Len(CurLine.rest) = 1
             field == [name |-> CurLine.rest[1], base |-> CurLine.ty.base, n |-> CurLine.ty.n]
             f == [Top EXCEPT !.fields = Append(@, field)]
  <2>1. CASE Fail /\ ~ok
    BY <1>3, <2>0, <2>1 DEF Accepted
  <2>2. CASE ok /\ Advance(f)
    <3>1. /\ DOMAIN f = DOMAIN Top /\ f = [x \in DOMAIN f |-> f[x]] /\ f.path = Top.path
          /\ f.phase = "parse" /\ f.ln = Top.ln /\ f.fields = Append(Top.fields, field)
      BY <1>0, <1>5, SMTT(60)
    <3>2. Accepted(CurLine)
      BY <2>0, <2>2 DEF Accepted
    <3>3. Top.ln \in FieldLines(Top.path)
      BY <1>2, <2>0 DEF FieldLines, CurLine
    <3>4. CurLine.ty.base \in Scalars \union Uses(Top.path)
      BY <2>2, <3>3 DEF Uses, IsFieldType, CurLine
    <3>5. field.base = CurLine.ty.base
      OBVIOUS
    <3> HIDE DEF f, field
    <3> QED BY <1>4, <2>0, <2>2, <3>1, <3>2, <3>4, <3>5
  <2> QED BY <1>9, <2>1, <2>2 DEF FieldLine
<1>10. CASE ParseEnd
  <2> DEFINE f == [Top EXCEPT !.phase = "layout", !.todo = DOMAIN Top.fields,
                        !.topics = IF @ = <<>> THEN <<Top.path[2]>> ELSE @]
  <2>1. f.path = Top.path /\ f.phase = "layout" /\ f.fields = Top.fields /\ f.todo = DOMAIN Top.fields
    BY <1>1 DEF FrameType
  <2>2. SetTop(f) /\ EndOfFile
    BY <1>10 DEF ParseEnd
  <2> HIDE DEF f
  <2>3. PlacedInv(f)
    BY <2>1 DEF PlacedInv
  <2>4. \A k \in DOMAIN files[Top.path] : ReadTo(Top, k)
    BY <1>1, <2>2 DEF EndOfFile, ReadTo, FrameType
  <2>5. FieldLines(Top.path) \subseteq DOMAIN files[Top.path]
    BY DEF FieldLines
  <2>6. ReadInv(f)
    BY <1>0, <2>1, <2>4, <2>5, TopCause DEF ReadInv
  <2> QED BY <1>0, <2>1, <2>2, <2>3, <2>6, SetTopCause
<1> QED BY <1>6, <1>7, <1>8, <1>9, <1>10 DEF ParseStep

\* A new call has read nothing.
LEMMA NewFrameCause ==
    ASSUME LayoutInv, NEW p \in DOMAIN files
    PROVE  ReadInv(NewFrame(p)) /\ PlacedInv(NewFrame(p)) /\ NewFrame(p).path = p
<1> DEFINE f == NewFrame(p)
<1>1. f.path = p /\ f.phase = "parse" /\ f.ln = 1 /\ f.fields = <<>>
  BY DEF NewFrame
<1>2. files[p] \in Seq(Line)
  BY CodegenAssumption DEF LayoutInv
<1> HIDE DEF f
<1>3. \A k \in DOMAIN files[p] : ~ReadTo(f, k)
  BY <1>1, <1>2 DEF ReadTo
<1>4. FieldLines(p) \subseteq DOMAIN files[p]
  BY DEF FieldLines
<1>5. ReadInv(f) /\ PlacedInv(f)
  BY <1>1, <1>3, <1>4 DEF ReadInv, PlacedInv
<1> QED BY <1>1, <1>5 DEF f

\* A field is placed: a nested one from the cache.
LEMMA PlaceCause ==
    ASSUME LayoutInv, CauseInv, stack # <<>>, NEW i \in Top.todo, PlaceScalar(i) \/ PlaceNested(i)
    PROVE  CauseInv'
<1>1. Top \in FrameType /\ ReadInv(Top) /\ PlacedInv(Top) /\ Top.phase = "layout"
  BY TopCause DEF PlaceScalar, PlaceNested, Laying
<1>2. PICK f : /\ SetTop(f) /\ f.path = Top.path /\ f.phase = "layout" /\ f.fields = Top.fields
               /\ f.todo = Top.todo \ {i}
  <2>1. PICK pl, ac, al : SetTop([Top EXCEPT !.todo = @ \ {i}, !.placed = pl, !.accum = ac, !.align = al])
    BY DEF PlaceScalar, PlaceNested
  <2> DEFINE f == [Top EXCEPT !.todo = @ \ {i}, !.placed = pl, !.accum = ac, !.align = al]
  <2>2. f.path = Top.path /\ f.phase = "layout" /\ f.fields = Top.fields /\ f.todo = Top.todo \ {i}
    BY <1>1 DEF FrameType
  <2> QED BY <2>1, <2>2
<1>3. IsNested(Top.fields[i]) => Top.fields[i].base \in DOMAIN cache
  BY DEF PlaceScalar, PlaceNested
<1>4. PlacedInv(f)
  BY <1>1, <1>2, <1>3 DEF PlacedInv
<1>5. \A k : ReadTo(Top, k) /\ ReadTo(f, k)
  BY <1>1, <1>2 DEF ReadTo
<1>6. ReadInv(f)
  BY <1>1, <1>2, <1>5 DEF ReadInv
<1> QED BY <1>2, <1>4, <1>6, SetTopCause

\* A nested type without a file is a cause; one with a file is reached.
LEMMA ResolveCause ==
    ASSUME LayoutInv, CauseInv, stack # <<>>, NEW i \in Top.todo, Resolve(i)
    PROVE  CauseInv'
<1> DEFINE name == Top.fields[i].base
<1>1. /\ Top \in FrameType /\ ReadInv(Top) /\ PlacedInv(Top) /\ Top.path \in Reach(stack[1].path)
      /\ CacheInv
  BY TopCause
<1>2. name \in Uses(Top.path)
  <2>1. i \in DOMAIN Top.fields
    BY TopInv DEF FrameInv
  <2>2. name \notin Scalars
    BY DEF Resolve, IsNested
  <2> QED BY <1>1, <2>1, <2>2 DEF ReadInv
<1> HIDE DEF name
<1>3. CASE Fail /\ Found(name) = {}
  BY <1>1, <1>2, <1>3, FailCause DEF Sound
<1>4. CASE UNCHANGED <<files, search, stack, cache, out, skipped, panicked>>
  <2>1. Frozen
    BY <1>4 DEF Frozen
  <2>2. \A g : (ReadInv(g)' <=> ReadInv(g)) /\ (PlacedInv(g)' <=> PlacedInv(g))
    BY <1>4, <2>1, SameFrame DEF PlacedInv
  <2>3. \A p : Reach(p)' = Reach(p)
    BY <2>1, SameReach
  <2>4. \A q, n : FoundAt(q, n)' <=> FoundAt(q, n)
    BY <2>1, SameFound
  <2>5. CacheInv' /\ Causes'
    BY <1>1, <1>4, <2>1, SameCache, SameCause DEF CauseInv
  <2> QED BY <1>4, <2>2, <2>3, <2>4, <2>5 DEF CauseInv, CallsInv
<1>5. ASSUME NEW k \in Found(name), IsFirst(k, name), stack' = Append(stack, NewFrame(<<search[k], name>>)),
             UNCHANGED <<files, search, cache, out, skipped, panicked>>
      PROVE  CauseInv'
  <2> DEFINE q == <<search[k], name>>
             f == NewFrame(q)
             n == Len(stack)
  <2>1. q \in DOMAIN files /\ k \in DOMAIN search /\ q[2] = name
    BY <1>5 DEF Found
  <2>2. FoundAt(q, q[2])
    BY <1>5, <2>1 DEF FoundAt
  <2>3. q \in Needs(Top.path)
    BY <1>2, <1>5, <2>1 DEF Needs
  <2>4. q \in Reach(stack[1].path)
    BY <1>1, <2>3, ReachStep
  <2>5. ReadInv(f) /\ PlacedInv(f) /\ f.path = q
    BY <2>1, NewFrameCause
  <2> HIDE DEF f, q
  <2>6. Frozen
    BY <1>5 DEF Frozen
  <2>7. \A g : (ReadInv(g)' <=> ReadInv(g)) /\ (PlacedInv(g)' <=> PlacedInv(g))
    BY <1>5, <2>6, SameFrame DEF PlacedInv
  <2>8. \A p : Reach(p)' = Reach(p)
    BY <2>6, SameReach
  <2>9. \A x, y : FoundAt(x, y)' <=> FoundAt(x, y)
    BY <2>6, SameFound
  <2>10. CacheInv' /\ Causes'
    BY <1>1, <1>5, <2>6, SameCache, SameCause DEF CauseInv
  <2>11. /\ n \in Nat /\ n > 0 /\ DOMAIN stack = 1..n /\ DOMAIN stack' = 1..(n + 1)
         /\ \A l \in 1..n : stack'[l] = stack[l]
         /\ stack'[n + 1] = f
    BY <1>5 DEF LayoutInv, f, q
  <2> HIDE DEF n
  <2>12. \A l \in 1..(n + 1) : l \in 1..n \/ l = n + 1
    BY <2>11
  <2>13. stack'[1] = stack[1]
    BY <2>11
  <2>14. (\A l \in DOMAIN stack : ReadInv(stack[l]))' /\ (\A l \in DOMAIN stack : PlacedInv(stack[l]))'
    <3>1. \A l \in DOMAIN stack' : ReadInv(stack'[l]) /\ PlacedInv(stack'[l])
      BY <2>5, <2>11, <2>12 DEF CauseInv, CallsInv
    <3> QED BY <2>7, <3>1
  <2>15. (\A l \in DOMAIN stack : stack[l].path \in Reach(stack[1].path))'
    BY <2>4, <2>5, <2>8, <2>11, <2>12, <2>13 DEF CauseInv, CallsInv
  <2>16. (\A l \in DOMAIN stack : l > 1 => FoundAt(stack[l].path, stack[l].path[2]))'
    <3>1. \A l \in DOMAIN stack' : l > 1 => FoundAt(stack'[l].path, stack'[l].path[2])
      BY <2>2, <2>5, <2>11, <2>12 DEF CauseInv, CallsInv
    <3> QED BY <2>9, <3>1
  <2> QED BY <1>5, <2>10, <2>14, <2>15, <2>16 DEF CauseInv, CallsInv
<1> QED BY <1>3, <1>4, <1>5 DEF Resolve, name

\* One file is found for a name.
LEMMA FoundOnce ==
    ASSUME DOMAIN search \subseteq Nat, NEW n, NEW p, NEW q, FoundAt(p, n), FoundAt(q, n)
    PROVE  p = q
<1>1. PICK k \in DOMAIN search : IsFirst(k, n) /\ p = <<search[k], n>>
  BY DEF FoundAt
<1>2. PICK l \in DOMAIN search : IsFirst(l, n) /\ q = <<search[l], n>>
  BY DEF FoundAt
<1>3. k <= l /\ l <= k /\ k \in Nat /\ l \in Nat
  BY <1>1, <1>2 DEF IsFirst
<1> QED BY <1>1, <1>2, <1>3

\* A call that has placed every field has a sound file.
LEMMA EndSound ==
    ASSUME LayoutInv, CauseInv, stack # <<>>, Top.phase = "layout", Top.todo = {}
    PROVE  Sound(Top.path)
<1>1. Top \in FrameType /\ ReadInv(Top) /\ PlacedInv(Top) /\ CacheInv
  BY TopCause
<1>2. Top.path \in DOMAIN files
  BY <1>1 DEF FrameType
<1>3. \A k : ReadTo(Top, k)
  BY DEF ReadTo
<1>4. ASSUME NEW n \in Uses(Top.path) PROVE n \in DOMAIN cache
  <2>1. PICK k \in FieldLines(Top.path) : files[Top.path][k].ty.base = n /\ n \notin Scalars
    BY DEF Uses
  <2>2. PICK i \in DOMAIN Top.fields : Top.fields[i].base = n
    BY <1>1, <1>3, <2>1 DEF ReadInv
  <2> QED BY <1>1, <2>1, <2>2 DEF PlacedInv, IsNested
<1>5. \A n \in Uses(Top.path) : Found(n) # {}
  BY <1>1, <1>4 DEF CacheInv
<1>6. \A q \in Needs(Top.path) : Sound(q)
  BY <1>1, <1>4 DEF CacheInv, Needs, FoundAt
<1>7. \A k \in DOMAIN files[Top.path] : Accepted(files[Top.path][k])
  BY <1>1, <1>3 DEF ReadInv
<1> QED BY <1>2, <1>5, <1>6, <1>7, SoundFrom

\* A finished call leaves a sound layout in the cache and, the outermost, one in
\* the output.
LEMMA LayoutEndCause ==
    ASSUME LayoutInv, NamesInv, CauseInv, LayoutEnd
    PROVE  CauseInv'
<1> DEFINE name == Top.path[2]
           n == Len(stack)
<1>0. stack # <<>> /\ Top.phase = "layout" /\ Top.todo = {}
  BY DEF LayoutEnd
<1>1. Sound(Top.path)
  BY <1>0, EndSound
<1>2. Top.path \in DOMAIN files
  BY <1>0, TopInv DEF FrameType
<1>3. Frozen /\ skipped' = skipped
  BY DEF LayoutEnd, Frozen
<1>4. DOMAIN cache' = DOMAIN cache \union {name}
  BY DEF LayoutEnd, Insert
<1>5. \/ UNCHANGED <<out, panicked>>
      \/ DOMAIN out' = DOMAIN out \union {name} /\ UNCHANGED panicked /\ Writable(Top.path)
      \/ panicked' = {Top.path} /\ UNCHANGED out /\ ~Writable(Top.path)
  <2>1. PICK laid : laid = LaidOut(Top, AlignGap(Top.accum))
    OBVIOUS
  <2>2. Emittable(name, laid) <=> Writable(Top.path)
    BY <1>0, <2>1, EmitsRust
  <2> QED BY <2>1, <2>2 DEF LayoutEnd, Emit, Insert
<1>6. \A p : (Sound(p)' <=> Sound(p)) /\ (Writable(p)' <=> Writable(p))
  BY <1>3, SameSound, SameWritable
<1>7. Causes'
  BY <1>1, <1>2, <1>3, <1>5, <1>6 DEF CauseInv, Causes, Frozen
<1>8. /\ n \in Nat /\ n > 0 /\ DOMAIN stack = 1..n /\ DOMAIN stack' = 1..(n - 1)
      /\ \A l \in 1..(n - 1) : stack'[l] = stack[l]
  BY <1>0 DEF LayoutEnd, LayoutInv, Front
<1>9. CASE n = 1
  <2>1. DOMAIN stack' = {} /\ stack' = <<>>
    BY <1>0, <1>8, <1>9 DEF LayoutEnd, Front, LayoutInv
  <2> QED BY <1>3, <1>7, <2>1 DEF CauseInv, CallsInv, Frozen
<1>10. CASE n > 1
  <2>1. FoundAt(Top.path, name) /\ CacheInv
    BY <1>0, <1>8, <1>10 DEF CauseInv, CallsInv, Top
  <2>2. Found(name) # {}
    BY <2>1 DEF FoundAt, IsFirst
  <2>3. \A q : FoundAt(q, name) => Sound(q)
    BY <1>1, <2>1, FoundOnce DEF CauseInv
  <2>4. \A q, m : (FoundAt(q, m)' <=> FoundAt(q, m)) /\ Found(m)' = Found(m)
    BY <1>3, SameFound
  <2> HIDE DEF n, name
  <2>5. CacheInv'
    BY <1>4, <1>6, <2>1, <2>2, <2>3, <2>4 DEF CacheInv
  <2>6. \A g : ReadInv(g)' <=> ReadInv(g)
    BY <1>3, SameFrame
  <2>7. \A g : PlacedInv(g) => PlacedInv(g)'
    BY <1>4 DEF PlacedInv
  <2>8. \A p : Reach(p)' = Reach(p)
    BY <1>3, SameReach
  <2>9. \A l \in 1..(n - 1) : l \in DOMAIN stack
    BY <1>8
  <2>10. (\A l \in DOMAIN stack : ReadInv(stack[l]))' /\ (\A l \in DOMAIN stack : PlacedInv(stack[l]))'
    <3>1. \A l \in DOMAIN stack' : ReadInv(stack'[l]) /\ PlacedInv(stack'[l])
      BY <1>8, <2>9 DEF CauseInv, CallsInv
    <3> QED BY <2>6, <2>7, <3>1
  <2>11. stack'[1] = stack[1]
    BY <1>8, <1>10
  <2>12. (\A l \in DOMAIN stack : stack[l].path \in Reach(stack[1].path))'
    BY <1>8, <2>8, <2>9, <2>11 DEF CauseInv, CallsInv
  <2>13. (\A l \in DOMAIN stack : l > 1 => FoundAt(stack[l].path, stack[l].path[2]))'
    <3>1. \A l \in DOMAIN stack' : l > 1 => FoundAt(stack'[l].path, stack'[l].path[2])
      BY <1>8, <2>9 DEF CauseInv, CallsInv
    <3> QED BY <2>4, <3>1
  <2> QED BY <1>3, <1>7, <2>5, <2>10, <2>12, <2>13 DEF CauseInv, CallsInv, Frozen
<1> QED BY <1>8, <1>9, <1>10

\* Every file begins with an empty cache.
LEMMA DriverCause ==
    ASSUME LayoutInv, CauseInv, NextDir \/ \E p \in pending : Generate(p)
    PROVE  CauseInv'
<1>1. Frozen /\ UNCHANGED <<out, skipped, panicked>>
  BY DEF NextDir, Generate, Frozen
<1>2. Causes'
  BY <1>1, SameCause DEF CauseInv
<1>3. CASE NextDir
  <2>1. stack' = <<>>
    BY <1>3 DEF NextDir
  <2>2. DOMAIN stack' = {}
    BY <2>1
  <2> QED BY <1>1, <1>2, <2>1, <2>2 DEF CauseInv, CallsInv, Frozen
<1>4. ASSUME NEW p \in pending, Generate(p) PROVE CauseInv'
  <2> DEFINE f == NewFrame(p)
  <2>1. p \in DOMAIN files
    BY DEF LayoutInv
  <2>2. ReadInv(f) /\ f.path = p /\ f.phase = "parse"
    BY <2>1, NewFrameCause DEF NewFrame
  <2> HIDE DEF f
  <2>3. DOMAIN stack' = {1} /\ stack'[1] = f /\ cache' = <<>>
    BY <1>4 DEF Generate, f
  <2>4. (\A l \in DOMAIN stack : ReadInv(stack[l]))'
    BY <1>1, <2>2, <2>3, SameFrame
  <2>5. (\A l \in DOMAIN stack : PlacedInv(stack[l]))'
    BY <2>2, <2>3 DEF PlacedInv
  <2>6. (\A l \in DOMAIN stack : stack[l].path \in Reach(stack[1].path))'
    BY <1>1, <2>1, <2>2, <2>3, ReachSelf, SameReach
  <2>7. CacheInv'
    BY <2>3 DEF CacheInv
  <2>8. \A l \in DOMAIN stack' : ~(l > 1)
    BY <2>3
  <2> QED BY <1>1, <1>2, <2>4, <2>5, <2>6, <2>7, <2>8 DEF CauseInv, CallsInv, Frozen
<1> QED BY <1>3, <1>4

\* A run keeps the invariant.
LEMMA CauseInvHolds == CodegenSpec => []CauseInv
<1>1. CodegenInit => CauseInv
  <2> SUFFICES ASSUME CodegenInit PROVE CauseInv
    OBVIOUS
  <2>1. stack = <<>> /\ out = <<>> /\ skipped = {} /\ panicked = {}
    BY DEF CodegenInit
  <2>2. DOMAIN stack = {} /\ DOMAIN out = {}
    BY <2>1
  <2>3. DOMAIN search \subseteq Nat
    BY DEF CodegenInit, XtaskInit, MacroInit, MsgDirs
  <2> QED BY <2>1, <2>2, <2>3 DEF CauseInv, CallsInv, Causes
<1>2. LayoutInv /\ NamesInv /\ CauseInv /\ [CodegenNext]_codegenVars => CauseInv'
  <2> SUFFICES ASSUME LayoutInv, NamesInv, CauseInv, [CodegenNext]_codegenVars PROVE CauseInv'
    OBVIOUS
  <2>1. CASE NextDir \/ \E p \in pending : Generate(p)
    BY <2>1, DriverCause
  <2>2. CASE ParseStep
    BY <2>2, ParseCause
  <2>3. CASE LayoutStep
    BY <2>3, PlaceCause, ResolveCause, LayoutEndCause DEF LayoutStep
  <2>4. CASE UNCHANGED codegenVars
    <3>1. Frozen /\ UNCHANGED <<stack, cache, out, skipped, panicked>>
      BY <2>4 DEF codegenVars, Frozen
    <3>2. \A g : (ReadInv(g)' <=> ReadInv(g)) /\ (PlacedInv(g)' <=> PlacedInv(g))
      BY <3>1, SameFrame DEF PlacedInv
    <3>3. \A p : Reach(p)' = Reach(p)
      BY <3>1, SameReach
    <3>4. \A q, n : FoundAt(q, n)' <=> FoundAt(q, n)
      BY <3>1, SameFound
    <3>5. CacheInv => CacheInv'
      BY <3>1, SameCache
    <3>6. Causes'
      BY <3>1, SameCause DEF CauseInv
    <3> QED BY <3>1, <3>2, <3>3, <3>4, <3>5, <3>6 DEF CauseInv, CallsInv, Frozen
  <2> QED BY <2>1, <2>2, <2>3, <2>4 DEF CodegenNext
<1> QED BY <1>1, <1>2, LayoutInvHolds, NamesInvHolds, PTL DEF CodegenSpec

-----------------------------------------------------------------------------
(* Nothing is lost *)

\* Every file that was to be generated is settled or still to come, unless emit
\* has ended the generator with it.
AccountInv ==
    /\ asked \subseteq DOMAIN files
    /\ dirs \in Seq({"msg", "versioned"})
    /\ panicked # {} => stack = <<>>
    /\ \A p \in asked :
          \/ p \in skipped \/ p[2] \in DOMAIN out
          \/ p \in pending \/ \E i \in DOMAIN dirs : dirs[i] = p[1]
          \/ stack # <<>> /\ p = stack[1].path
          \/ p \in panicked

\* Parsing and placing leave the outermost call to its file, or are an error.
LEMMA StepOuter ==
    ASSUME LayoutInv, stack # <<>>,
           ParseStep \/ \E i \in Top.todo : PlaceScalar(i) \/ PlaceNested(i) \/ Resolve(i)
    PROVE  \/ Fail
           \/ /\ stack' # <<>> /\ stack'[1].path = stack[1].path
              /\ UNCHANGED <<files, asked, dirs, pending, out, skipped, panicked>>
<1>1. Top \in FrameType /\ Len(stack) \in Nat /\ Len(stack) > 0 /\ stack \in Seq(FrameType)
  BY TopInv DEF LayoutInv
<1>2. ASSUME NEW f, SetTop(f), f.path = Top.path
      PROVE  /\ stack' # <<>> /\ stack'[1].path = stack[1].path
             /\ UNCHANGED <<files, asked, dirs, pending, out, skipped, panicked>>
  BY <1>1, <1>2 DEF SetTop, Top
<1>3. ASSUME ParseStep PROVE Fail \/ \E f : SetTop(f) /\ f.path = Top.path
  <2>2. CASE CommentLine \/ BlankLine
    <3>1. SetTop([Top EXCEPT !.ln = @ + 1]) /\ [Top EXCEPT !.ln = @ + 1].path = Top.path
      BY <1>1, <2>2 DEF CommentLine, BlankLine, Advance, FrameType
    <3> QED BY <3>1
  <2>3. CASE TopicsLine
    <3> DEFINE f == [[Top EXCEPT !.topics = CurLine.rest] EXCEPT !.ln = @ + 1]
    <3>1. Fail \/ (SetTop(f) /\ f.path = Top.path)
      BY <1>1, <2>3 DEF TopicsLine, Advance, FrameType
    <3> QED BY <3>1
  <2>4. CASE ConstLine
    <3> DEFINE f == [[Top EXCEPT !.consts = Append(@, [name |-> CurLine.rest[1], value |-> CurLine.value])]
                        EXCEPT !.ln = @ + 1]
    <3>1. Fail \/ (SetTop(f) /\ f.path = Top.path)
      BY <1>1, <2>4 DEF ConstLine, Advance, FrameType
    <3> QED BY <3>1
  <2>5. CASE FieldLine
    <3> DEFINE f == [[Top EXCEPT !.fields = Append(@,
                            [name |-> CurLine.rest[1], base |-> CurLine.ty.base, n |-> CurLine.ty.n])]
                        EXCEPT !.ln = @ + 1]
    <3>1. Fail \/ (SetTop(f) /\ f.path = Top.path)
      BY <1>1, <2>5 DEF FieldLine, Advance, FrameType
    <3> QED BY <3>1
  <2>6. CASE ParseEnd
    <3> DEFINE f == [Top EXCEPT !.phase = "layout", !.todo = DOMAIN Top.fields,
                        !.topics = IF @ = <<>> THEN <<Top.path[2]>> ELSE @]
    <3>1. SetTop(f) /\ f.path = Top.path
      BY <1>1, <2>6 DEF ParseEnd, FrameType
    <3> QED BY <3>1
  <2> QED BY <1>3, <2>2, <2>3, <2>4, <2>5, <2>6 DEF ParseStep
<1>4. ASSUME NEW i \in Top.todo, PlaceScalar(i) \/ PlaceNested(i)
      PROVE  \E f : SetTop(f) /\ f.path = Top.path
  <2>1. PICK pl, ac, al : SetTop([Top EXCEPT !.todo = @ \ {i}, !.placed = pl, !.accum = ac, !.align = al])
    BY <1>4 DEF PlaceScalar, PlaceNested
  <2>2. [Top EXCEPT !.todo = @ \ {i}, !.placed = pl, !.accum = ac, !.align = al].path = Top.path
    BY <1>1 DEF FrameType
  <2> QED BY <2>1, <2>2
<1>5. ASSUME NEW i \in Top.todo, Resolve(i)
      PROVE  \/ Fail
             \/ /\ stack' # <<>> /\ stack'[1].path = stack[1].path
                /\ UNCHANGED <<files, asked, dirs, pending, out, skipped, panicked>>
  <2>1. \/ Fail
        \/ stack' = stack /\ UNCHANGED <<files, asked, dirs, pending, out, skipped, panicked>>
        \/ \E f : stack' = Append(stack, f) /\ UNCHANGED <<files, asked, dirs, pending, out, skipped, panicked>>
    BY <1>5 DEF Resolve
  <2>2. \A f : Append(stack, f) # <<>> /\ Append(stack, f)[1] = stack[1]
    BY <1>1
  <2> QED BY <2>1, <2>2
<1> QED BY <1>2, <1>3, <1>4, <1>5

\* A run loses no file.
LEMMA AccountInvHolds == CodegenSpec => []AccountInv
<1>1. CodegenInit => AccountInv
  <2> SUFFICES ASSUME CodegenInit PROVE AccountInv
    OBVIOUS
  <2>1. files \in Trees /\ DOMAIN files \subseteq {"msg", "versioned"} \X Words /\ panicked = {}
    BY CodegenAssumption DEF CodegenInit
  <2>2. CASE MacroInit
    <3>1. PICK p \in DOMAIN files : dirs = <<>> /\ pending = {p} /\ asked = {p}
      BY <2>2 DEF MacroInit
    <3>2. dirs \in Seq({"msg", "versioned"}) /\ asked \subseteq DOMAIN files /\ (\A q \in asked : q \in pending)
      BY <3>1
    <3> QED BY <2>1, <3>2 DEF AccountInv
  <2>3. CASE XtaskInit
    <3>1. asked = DOMAIN files /\ dirs \in Seq({"msg", "versioned"})
      <4>1. asked = DOMAIN files /\ (dirs = <<"msg", "versioned">> \/ dirs = <<"msg">>)
        BY <2>3 DEF XtaskInit, MsgDirs
      <4>2. <<"msg", "versioned">> \in Seq({"msg", "versioned"}) /\ <<"msg">> \in Seq({"msg", "versioned"})
        OBVIOUS
      <4> QED BY <4>1, <4>2
    <3>2. ASSUME NEW p \in asked PROVE \E i \in DOMAIN dirs : dirs[i] = p[1]
      <4>1. p[1] \in {"msg", "versioned"}
        BY <2>1, <3>1
      <4>2. CASE p[1] = "versioned"
        <5>1. dirs = <<"msg", "versioned">>
          BY <2>3, <3>1, <4>2 DEF XtaskInit, MsgDirs
        <5> QED BY <4>2, <5>1
      <4>3. CASE p[1] = "msg"
        <5>1. dirs = <<"msg", "versioned">> \/ dirs = <<"msg">>
          BY <2>3 DEF XtaskInit, MsgDirs
        <5>2. 1 \in DOMAIN dirs /\ dirs[1] = "msg"
          BY <5>1
        <5> QED BY <4>3, <5>2
      <4> QED BY <4>1, <4>2, <4>3
    <3> QED BY <2>1, <3>1, <3>2 DEF AccountInv
  <2> QED BY <2>2, <2>3 DEF CodegenInit
<1>2. LayoutInv /\ AccountInv /\ [CodegenNext]_codegenVars => AccountInv'
  <2> SUFFICES ASSUME LayoutInv, AccountInv, [CodegenNext]_codegenVars PROVE AccountInv'
    OBVIOUS
  <2>1. CASE NextDir
    <3>1. /\ UNCHANGED <<files, asked, skipped, out, stack, panicked>> /\ pending = {} /\ stack = <<>>
          /\ pending' = {p \in DOMAIN files : p[1] = Head(dirs)} /\ dirs' = Tail(dirs) /\ dirs # <<>>
      BY <2>1 DEF NextDir
    <3>2. dirs' \in Seq({"msg", "versioned"}) /\ \A i \in DOMAIN dirs : dirs[i] = Head(dirs) \/ \E j \in DOMAIN dirs' : dirs'[j] = dirs[i]
      <4>1. /\ dirs' \in Seq({"msg", "versioned"}) /\ DOMAIN dirs = 1..Len(dirs) /\ Len(dirs) \in Nat
            /\ DOMAIN dirs' = 1..(Len(dirs) - 1) /\ \A j \in DOMAIN dirs' : dirs'[j] = dirs[j + 1]
        BY <3>1 DEF AccountInv
      <4>2. \A i \in DOMAIN dirs : i = 1 \/ (i - 1 \in DOMAIN dirs' /\ dirs'[i - 1] = dirs[i])
        BY <4>1
      <4>3. Head(dirs) = dirs[1]
        BY <3>1 DEF AccountInv
      <4> QED BY <4>1, <4>2, <4>3
    <3> QED BY <3>1, <3>2 DEF AccountInv
  <2>2. ASSUME NEW p \in pending, Generate(p) PROVE AccountInv'
    <3>1. /\ UNCHANGED <<files, asked, skipped, out, dirs, panicked>> /\ stack = <<>> /\ panicked = {}
          /\ pending' = pending \ {p} /\ stack' = <<NewFrame(p)>>
      BY <2>2 DEF Generate
    <3>2. stack' # <<>> /\ stack'[1].path = p
      BY <3>1 DEF NewFrame
    <3> QED BY <3>1, <3>2 DEF AccountInv
  <2>3. CASE stack # <<>> /\ (ParseStep \/ \E i \in Top.todo : PlaceScalar(i) \/ PlaceNested(i) \/ Resolve(i))
    <3>1. CASE Fail
      BY <2>3, <3>1 DEF Fail, AccountInv
    <3>2. CASE /\ stack' # <<>> /\ stack'[1].path = stack[1].path
               /\ UNCHANGED <<files, asked, dirs, pending, out, skipped, panicked>>
      BY <2>3, <3>2 DEF AccountInv
    <3> QED BY <2>3, <3>1, <3>2, StepOuter
  <2>4. CASE LayoutEnd
    <3> DEFINE n == Len(stack)
    <3>1. /\ UNCHANGED <<files, asked, dirs, pending, skipped>> /\ stack # <<>>
          /\ n \in Nat /\ n > 0 /\ stack' = Front(stack)
      BY <2>4 DEF LayoutEnd, LayoutInv
    <3>2. CASE n = 1
      <4>1. Top = stack[1]
        BY <3>2 DEF Top
      <4>2. \/ DOMAIN out' = DOMAIN out \union {stack[1].path[2]} /\ panicked' = panicked
            \/ out' = out /\ panicked' = {stack[1].path}
        BY <2>4, <3>2, <4>1 DEF LayoutEnd, Emit, Insert
      <4>3. stack' = <<>>
        BY <3>1, <3>2 DEF Front, LayoutInv
      <4> QED BY <3>1, <4>2, <4>3 DEF AccountInv
    <3>3. CASE n > 1
      <4>1. UNCHANGED <<out, panicked>>
        <5>1. n # 1
          <6> n \in Nat
            BY <3>1
          <6> HIDE DEF n
          <6> QED BY <3>3
        <5>2. n = 1 \/ UNCHANGED <<out, panicked>>
          BY <2>4, Zenon DEF LayoutEnd
        <5> QED BY <5>1, <5>2
      <4>2. stack' # <<>> /\ stack'[1] = stack[1]
        <5>1. DOMAIN stack' = 1..(n - 1) /\ \A l \in 1..(n - 1) : stack'[l] = stack[l]
          BY <3>1 DEF Front, LayoutInv
        <5>2. 1 \in DOMAIN stack'
          BY <3>1, <3>3, <5>1
        <5> QED BY <5>1, <5>2
      <4> QED BY <3>1, <4>1, <4>2 DEF AccountInv
    <3>4. n = 1 \/ n > 1
      BY <3>1
    <3> HIDE DEF n
    <3> QED BY <3>2, <3>3, <3>4
  <2>5. CASE UNCHANGED codegenVars
    BY <2>5 DEF codegenVars, AccountInv
  <2>6. ParseStep => stack # <<>>
    BY DEF ParseStep, CommentLine, BlankLine, TopicsLine, ConstLine, FieldLine, ParseEnd, Parsing
  <2> QED BY <2>1, <2>2, <2>3, <2>4, <2>5, <2>6 DEF CodegenNext, LayoutStep
<1> QED BY <1>1, <1>2, LayoutInvHolds, PTL DEF CodegenSpec

\* In every tree of .msg files a bad file costs exactly the messages that need it:
\* gen_msgs leaves out a message only if a file it reaches has a line that the
\* parser refuses or names a type without a file, writes one only if none does and
\* the file's own names and values are Rust, panics only on a file that parses and
\* is not Rust, and if it does not, ends with every file written or left out.
THEOREM SkipsForCause == CodegenSpec => []SkippedForCause
<1>1. CauseInv /\ AccountInv => SkippedForCause
  <2> SUFFICES ASSUME CauseInv, AccountInv PROVE SkippedForCause
    OBVIOUS
  <2>1. Finished => Settled
    <3>1. dirs = <<>> => DOMAIN dirs = {}
      OBVIOUS
    <3> QED BY <3>1 DEF AccountInv, Finished, Settled
  <2> QED BY <2>1 DEF CauseInv, Causes, SkippedForCause
<1> QED BY <1>1, CauseInvHolds, AccountInvHolds, PTL

-----------------------------------------------------------------------------
(* The layout of a file, given those of the types it uses *)

\* The field on line k of a file.
FieldAt(path, k) ==
    LET line == files[path][k] IN [name |-> line.rest[1], base |-> line.ty.base, n |-> line.ty.n]

\* The fields of the first k lines: h holds those after every line.
Parses(h, path, k) ==
    /\ h[0] = <<>>
    /\ \A j \in 1..k : h[j] = IF j \in FieldLines(path) THEN Append(h[j - 1], FieldAt(path, j)) ELSE h[j - 1]
Parsed(path, k, fields) == \E h : Parses(h, path, k) /\ fields = h[k]

\* A layout in progress, before the first field, and after field i.
Start(fields) == [todo |-> DOMAIN fields, placed |-> <<>>, accum |-> 0, align |-> 1]
PlaceOne(fields, K, r, i) ==
    LET field == fields[i]
        pad   == IF IsNested(field) THEN AlignGap(r.accum) ELSE 0
        size  == IF IsNested(field) THEN K[field.base].size * field.n ELSE ScalarSize(field.base) * field.n
        align == IF IsNested(field) THEN K[field.base].align ELSE ScalarSize(field.base)
    IN  [todo   |-> r.todo \ {i},
         placed |-> Append(WithPadding(r.placed, r.accum, pad), Member(i, r.accum + pad, size, align)),
         accum  |-> r.accum + pad + size,
         align  |-> Larger(r.align, align)]
Places(fields, K, r, s) ==
    /\ r.todo \subseteq Nat
    /\ \E i \in r.todo :
          /\ \A j \in r.todo \ {i} : Before(fields, i, j)
          /\ IsNested(fields[i]) => fields[i].base \in DOMAIN K
          /\ s = PlaceOne(fields, K, r, i)

\* The layouts that come one after the other, h, and the ones that come at all.
Lays(h, fields, K, n) == h[0] = Start(fields) /\ \A j \in 1..n : Places(fields, K, h[j - 1], h[j])
LaidSoFar(fields, K, r) == \E n \in Nat : \E h : Lays(h, fields, K, n) /\ r = h[n]

\* Nothing has been parsed before the first line.
LEMMA ParsedStart == \A p : Parsed(p, 0, <<>>)
<1> TAKE p
<1>1. Parses([j \in 0..0 |-> <<>>], p, 0)
  BY DEF Parses
<1> QED BY <1>1 DEF Parsed

\* The next line.
LEMMA ParsedNext ==
    ASSUME NEW p, NEW k \in Nat, NEW f, Parsed(p, k, f), NEW g,
           g = IF k + 1 \in FieldLines(p) THEN Append(f, FieldAt(p, k + 1)) ELSE f
    PROVE  Parsed(p, k + 1, g)
<1>1. PICK h : Parses(h, p, k) /\ f = h[k]
  BY DEF Parsed
<1> DEFINE e == [j \in 0..(k + 1) |-> IF j = k + 1 THEN g ELSE h[j]]
<1>2. e[k + 1] = g /\ \A j \in 0..k : e[j] = h[j]
  OBVIOUS
<1> HIDE DEF e
<1>3. \A j \in 1..(k + 1) : (j \in 1..k /\ j \in 0..k /\ j - 1 \in 0..k) \/ (j = k + 1 /\ j - 1 = k /\ k \in 0..k)
  OBVIOUS
<1>4. Parses(e, p, k + 1)
  BY <1>1, <1>2, <1>3 DEF Parses
<1> QED BY <1>2, <1>4 DEF Parsed

\* The fields are a function of the lines.
LEMMA ParsedOnce ==
    ASSUME NEW p, NEW k \in Nat, NEW f, NEW g, Parsed(p, k, f), Parsed(p, k, g)
    PROVE  f = g
<1>1. PICK h : Parses(h, p, k) /\ f = h[k]
  BY DEF Parsed
<1>2. PICK e : Parses(e, p, k) /\ g = e[k]
  BY DEF Parsed
<1> DEFINE S == {j \in Nat : j <= k => h[j] = e[j]}
<1>3. 0 \in S
  BY <1>1, <1>2 DEF Parses
<1>4. ASSUME NEW j \in Nat, j \in S PROVE j + 1 \in S
  <2> SUFFICES ASSUME j + 1 <= k PROVE h[j + 1] = e[j + 1]
    OBVIOUS
  <2>1. j + 1 \in 1..k /\ (j + 1) - 1 = j /\ h[j] = e[j]
    BY <1>4
  <2> QED BY <1>1, <1>2, <2>1 DEF Parses
<1>5. \A j \in Nat : j \in S
  <2> HIDE DEF S
  <2> QED BY <1>3, <1>4, SetInduction
<1> QED BY <1>1, <1>2, <1>5

\* The first layout.
LEMMA LaidStart == \A fields, K : LaidSoFar(fields, K, Start(fields))
<1> TAKE fields, K
<1>1. Lays([j \in 0..0 |-> Start(fields)], fields, K, 0)
  BY DEF Lays
<1> QED BY <1>1 DEF LaidSoFar

\* The next one.
LEMMA LaidNext ==
    ASSUME NEW fields, NEW K, NEW r, NEW s, LaidSoFar(fields, K, r), Places(fields, K, r, s)
    PROVE  LaidSoFar(fields, K, s)
<1>1. PICK k \in Nat : \E h : Lays(h, fields, K, k) /\ r = h[k]
  BY DEF LaidSoFar
<1>2. PICK h : Lays(h, fields, K, k) /\ r = h[k]
  BY <1>1
<1> DEFINE e == [j \in 0..(k + 1) |-> IF j = k + 1 THEN s ELSE h[j]]
<1>3. e[k + 1] = s /\ \A j \in 0..k : e[j] = h[j]
  OBVIOUS
<1> HIDE DEF e
<1>4. \A j \in 1..(k + 1) : (j \in 1..k /\ j \in 0..k /\ j - 1 \in 0..k) \/ (j = k + 1 /\ j - 1 = k /\ k \in 0..k)
  OBVIOUS
<1>5. e[0] = h[0]
  BY <1>3
<1>6. \A j \in 1..(k + 1) : Places(fields, K, e[j - 1], e[j])
  BY <1>2, <1>3, <1>4 DEF Lays
<1>7. Lays(e, fields, K, k + 1)
  BY <1>2, <1>5, <1>6 DEF Lays
<1> QED BY <1>3, <1>7 DEF LaidSoFar

\* One field comes next.
LEMMA PlacesOnce ==
    ASSUME NEW fields, NEW K, NEW r, NEW s, NEW t, Places(fields, K, r, s), Places(fields, K, r, t)
    PROVE  s = t
<1>1. PICK i \in r.todo : s = PlaceOne(fields, K, r, i) /\ \A j \in r.todo \ {i} : Before(fields, i, j)
  BY DEF Places
<1>2. PICK k \in r.todo : t = PlaceOne(fields, K, r, k) /\ \A j \in r.todo \ {k} : Before(fields, k, j)
  BY DEF Places
<1>3. i = k
  <2> SUFFICES ASSUME i # k PROVE FALSE
    OBVIOUS
  <2>1. Before(fields, i, k) /\ Before(fields, k, i)
    BY <1>1, <1>2
  <2>2. i \in Nat /\ k \in Nat
    BY DEF Places
  <2>3. FieldSortSize(fields[i]) \in Nat /\ FieldSortSize(fields[k]) \in Nat
    BY SizeRange DEF FieldSortSize, Widths
  <2> HIDE DEF FieldSortSize
  <2> QED BY <2>1, <2>2, <2>3 DEF Before
<1> QED BY <1>1, <1>2, <1>3

\* Layouts that come after as many steps are equal.
LEMMA LaysAgree ==
    ASSUME NEW fields, NEW K, NEW m \in Nat, NEW n \in Nat, m <= n
    PROVE  \A g, h : Lays(g, fields, K, m) /\ Lays(h, fields, K, n) => g[m] = h[m]
<1> SUFFICES ASSUME NEW g, NEW h, Lays(g, fields, K, m), Lays(h, fields, K, n) PROVE g[m] = h[m]
  OBVIOUS
<1> DEFINE S == {j \in Nat : j <= m => g[j] = h[j]}
<1>1. 0 \in S
  BY DEF Lays
<1>2. ASSUME NEW j \in Nat, j \in S PROVE j + 1 \in S
  <2> SUFFICES ASSUME j + 1 <= m PROVE g[j + 1] = h[j + 1]
    OBVIOUS
  <2>1. j + 1 \in 1..m /\ j + 1 \in 1..n /\ (j + 1) - 1 = j /\ g[j] = h[j]
    BY <1>2
  <2>2. Places(fields, K, g[j], g[j + 1]) /\ Places(fields, K, g[j], h[j + 1])
    BY <2>1 DEF Lays
  <2> QED BY <2>2, PlacesOnce
<1>3. \A j \in Nat : j \in S
  <2> HIDE DEF S
  <2> QED BY <1>1, <1>2, SetInduction
<1> QED BY <1>3

\* A complete layout is a function of the fields and the nested layouts.
LEMMA LaidOnce ==
    ASSUME NEW fields, NEW K, NEW r, NEW s, LaidSoFar(fields, K, r), LaidSoFar(fields, K, s),
           r.todo = {}, s.todo = {}
    PROVE  r = s
<1>1. PICK m \in Nat : \E h : Lays(h, fields, K, m) /\ r = h[m]
  BY DEF LaidSoFar
<1>2. PICK g : Lays(g, fields, K, m) /\ r = g[m]
  BY <1>1
<1>3. PICK n \in Nat : \E h : Lays(h, fields, K, n) /\ s = h[n]
  BY DEF LaidSoFar
<1>4. PICK h : Lays(h, fields, K, n) /\ s = h[n]
  BY <1>3
<1>5. ASSUME m < n PROVE FALSE
  <2>1. g[m] = h[m]
    <3>1. \A x, y : Lays(x, fields, K, m) /\ Lays(y, fields, K, n) => x[m] = y[m]
      BY <1>5, LaysAgree
    <3> QED BY <1>2, <1>4, <3>1
  <2>2. m + 1 \in 1..n /\ (m + 1) - 1 = m
    BY <1>5
  <2>3. Places(fields, K, h[m], h[m + 1])
    BY <1>4, <2>2 DEF Lays
  <2> QED BY <1>2, <2>1, <2>3 DEF Places
<1>6. ASSUME n < m PROVE FALSE
  <2>1. h[n] = g[n]
    <3>1. \A x, y : Lays(x, fields, K, n) /\ Lays(y, fields, K, m) => x[n] = y[n]
      BY <1>6, LaysAgree
    <3> QED BY <1>2, <1>4, <3>1
  <2>2. n + 1 \in 1..m /\ (n + 1) - 1 = n
    BY <1>6
  <2>3. Places(fields, K, g[n], g[n + 1])
    BY <1>2, <2>2 DEF Lays
  <2> QED BY <1>4, <2>1, <2>3 DEF Places
<1>7. m = n
  BY <1>5, <1>6
<1> QED BY <1>2, <1>4, <1>7, LaysAgree

\* K is a part of L.
Within(K, L) == DOMAIN K \subseteq DOMAIN L /\ \A n \in DOMAIN K : L[n] = K[n]

\* Layouts stay when more nested ones become known.
LEMMA LaidMore ==
    ASSUME NEW fields, NEW K, NEW L, Within(K, L), NEW r, LaidSoFar(fields, K, r)
    PROVE  LaidSoFar(fields, L, r)
<1>1. \A x, i : (IsNested(fields[i]) => fields[i].base \in DOMAIN K)
                  => PlaceOne(fields, K, x, i) = PlaceOne(fields, L, x, i)
  <2> SUFFICES ASSUME NEW x, NEW i, IsNested(fields[i]) => fields[i].base \in DOMAIN K
               PROVE  PlaceOne(fields, K, x, i) = PlaceOne(fields, L, x, i)
    OBVIOUS
  <2>1. CASE IsNested(fields[i])
    <3>1. K[fields[i].base] = L[fields[i].base]
      BY <2>1 DEF Within
    <3> QED BY <2>1, <3>1 DEF PlaceOne
  <2>2. CASE ~IsNested(fields[i])
    BY <2>2 DEF PlaceOne
  <2> QED BY <2>1, <2>2
<1>2. \A x, y : Places(fields, K, x, y) => Places(fields, L, x, y)
  <2> SUFFICES ASSUME NEW x, NEW y, Places(fields, K, x, y) PROVE Places(fields, L, x, y)
    OBVIOUS
  <2> QED BY <1>1 DEF Places, Within
<1> QED BY <1>2 DEF LaidSoFar, Lays

-----------------------------------------------------------------------------
(* The struct of a file *)

\* What is hashed for a field, and for all of them, with the nested structs K.
Block(field, K) == <<field>> \o (IF IsNested(field) THEN K[field.base].hashed ELSE <<>>)
HashOf(fields, K) == FlattenSeq([i \in DOMAIN fields |-> Block(fields[i], K)])

\* The types of all fields are known.
Known(fields, K) == \A i \in DOMAIN fields : IsNested(fields[i]) => fields[i].base \in DOMAIN K

\* Members have the size of their fields.
SizeOf(field, K) == (IF IsNested(field) THEN K[field.base].size ELSE ScalarSize(field.base)) * field.n
Sized(fields, K, members) ==
    \A k \in DOMAIN members : members[k].field # 0 =>
        LET field == fields[members[k].field]
        IN  /\ IsNested(field) => field.base \in DOMAIN K
            /\ members[k].size = SizeOf(field, K)

\* The part of a struct that depends on the file and on the nested structs K.
Core(laid) == [members |-> laid.members, size |-> laid.size, align |-> laid.align,
               fields |-> laid.fields, hashed |-> laid.hashed]
Completed(r, laid) ==
    LET tail == AlignGap(r.accum)
    IN  /\ r.todo = {}
        /\ laid.members = WithPadding(r.placed, r.accum, tail)
        /\ laid.size = r.accum + tail
        /\ laid.align = r.align
Derived(path, K, laid) ==
    /\ Parsed(path, Len(files[path]), laid.fields)
    /\ laid.fields \in Seq(FieldType)
    /\ Known(laid.fields, K)
    /\ Sized(laid.fields, K, laid.members)
    /\ laid.hashed = HashOf(laid.fields, K)
    /\ \E r : LaidSoFar(laid.fields, K, r) /\ Completed(r, laid)

\* Structs of equal fields are equal.
LEMMA SameFields ==
    ASSUME NEW p, NEW q, NEW K, NEW l, NEW m, Derived(p, K, l), Derived(q, K, m), l.fields = m.fields
    PROVE  Core(l) = Core(m)
<1>1. PICK r : LaidSoFar(l.fields, K, r) /\ Completed(r, l)
  BY DEF Derived
<1>2. PICK s : LaidSoFar(l.fields, K, s) /\ Completed(s, m)
  BY DEF Derived
<1>3. r = s
  BY <1>1, <1>2, LaidOnce DEF Completed
<1>4. l.members = m.members /\ l.size = m.size /\ l.align = m.align
  BY <1>1, <1>2, <1>3 DEF Completed
<1>5. l.hashed = m.hashed
  BY DEF Derived
<1> QED BY <1>4, <1>5 DEF Core

\* A file has one struct.
LEMMA DerivedOnce ==
    ASSUME NEW p, Len(files[p]) \in Nat, NEW K, NEW l, NEW m, Derived(p, K, l), Derived(p, K, m)
    PROVE  Core(l) = Core(m)
<1>1. l.fields = m.fields
  BY ParsedOnce DEF Derived
<1> QED BY <1>1, SameFields

\* When more structs become known, members keep the size of their fields.
LEMMA SizedMore ==
    ASSUME NEW K, NEW L, Within(K, L), NEW fields, NEW members, Sized(fields, K, members)
    PROVE  Sized(fields, L, members)
BY DEF Within, Sized, SizeOf

\* The string of known fields stays the same, ...
LEMMA HashMore ==
    ASSUME NEW K, NEW L, Within(K, L), NEW fields, Known(fields, K)
    PROVE  HashOf(fields, L) = HashOf(fields, K)
<1>1. \A i \in DOMAIN fields : Block(fields[i], L) = Block(fields[i], K)
  BY DEF Within, Known, Block
<1>2. [i \in DOMAIN fields |-> Block(fields[i], L)] = [i \in DOMAIN fields |-> Block(fields[i], K)]
  BY <1>1
<1> QED BY <1>2 DEF HashOf

\* ... and with it the struct.
LEMMA DerivedMore ==
    ASSUME NEW p, NEW K, NEW L, Within(K, L), NEW l, Derived(p, K, l)
    PROVE  Derived(p, L, l)
<1>1. Known(l.fields, L)
  BY DEF Derived, Known, Within
<1>2. Sized(l.fields, L, l.members)
  BY SizedMore DEF Derived
<1>3. l.hashed = HashOf(l.fields, L)
  BY HashMore DEF Derived
<1>4. PICK r : LaidSoFar(l.fields, K, r) /\ Completed(r, l)
  BY DEF Derived
<1>5. LaidSoFar(l.fields, L, r)
  BY <1>4, LaidMore
<1> QED BY <1>1, <1>2, <1>3, <1>4, <1>5 DEF Derived

\* The strings of known structs are sequences of fields.
Hashed(K) == \A n \in DOMAIN K : K[n].hashed \in Seq(FieldType)

\* A field's part of the string is a sequence of fields that begins with it, ...
LEMMA BlockType ==
    ASSUME NEW K, Hashed(K), NEW f \in FieldType, IsNested(f) => f.base \in DOMAIN K
    PROVE  Block(f, K) \in Seq(FieldType) /\ Len(Block(f, K)) > 0 /\ Block(f, K)[1] = f
<1>1. PICK t \in Seq(FieldType) : t = IF IsNested(f) THEN K[f.base].hashed ELSE <<>>
  <2>1. (IF IsNested(f) THEN K[f.base].hashed ELSE <<>>) \in Seq(FieldType)
    <3>1. CASE IsNested(f)
      BY <3>1 DEF Hashed
    <3>2. CASE ~IsNested(f)
      BY <3>2
    <3> QED BY <3>1, <3>2
  <2> QED BY <2>1, Zenon
<1>2. Block(f, K) = <<f>> \o t
  BY <1>1 DEF Block
<1> QED BY <1>2

\* ... and the string is the parts of all fields joined.
LEMMA BlocksType ==
    ASSUME NEW K, Hashed(K), NEW fields \in Seq(FieldType), Known(fields, K)
    PROVE  [i \in DOMAIN fields |-> Block(fields[i], K)] \in Seq(Seq(FieldType))
<1>1. \A i \in 1..Len(fields) : Block(fields[i], K) \in Seq(FieldType)
  <2>1. ASSUME NEW i \in 1..Len(fields) PROVE Block(fields[i], K) \in Seq(FieldType)
    <3>1. fields[i] \in FieldType
      OBVIOUS
    <3>2. IsNested(fields[i]) => fields[i].base \in DOMAIN K
      BY DEF Known
    <3> QED BY <3>1, <3>2, BlockType
  <2> QED BY <2>1
<1>2. [i \in 1..Len(fields) |-> Block(fields[i], K)] \in Seq(Seq(FieldType))
  BY <1>1
<1>3. DOMAIN fields = 1..Len(fields)
  OBVIOUS
<1> QED BY <1>2, <1>3

\* The string tells the fields: each is followed by that of its type, which the
\* field names.
LEMMA HashTellsFields ==
    ASSUME NEW K, Hashed(K), NEW f \in Seq(FieldType), NEW g \in Seq(FieldType),
           Known(f, K), Known(g, K), HashOf(f, K) = HashOf(g, K)
    PROVE  f = g
<1> DEFINE s == [i \in DOMAIN f |-> Block(f[i], K)]
           t == [i \in DOMAIN g |-> Block(g[i], K)]
<1>1. s \in Seq(Seq(FieldType)) /\ t \in Seq(Seq(FieldType))
  BY BlocksType
<1>2. FlattenSeq(s) = FlattenSeq(t)
  BY DEF HashOf
<1>3. \A i \in DOMAIN f : s[i] = Block(f[i], K) /\ Len(s[i]) > 0 /\ s[i][1] = f[i]
  <2> SUFFICES ASSUME NEW i \in DOMAIN f PROVE Len(Block(f[i], K)) > 0 /\ Block(f[i], K)[1] = f[i]
    OBVIOUS
  <2>1. f[i] \in FieldType /\ (IsNested(f[i]) => f[i].base \in DOMAIN K)
    BY DEF Known
  <2> QED BY <2>1, BlockType
<1>4. \A i \in DOMAIN g : t[i] = Block(g[i], K) /\ Len(t[i]) > 0 /\ t[i][1] = g[i]
  <2> SUFFICES ASSUME NEW i \in DOMAIN g PROVE Len(Block(g[i], K)) > 0 /\ Block(g[i], K)[1] = g[i]
    OBVIOUS
  <2>1. g[i] \in FieldType /\ (IsNested(g[i]) => g[i].base \in DOMAIN K)
    BY DEF Known
  <2> QED BY <2>1, BlockType
<1>5. DOMAIN s = DOMAIN f /\ DOMAIN t = DOMAIN g
  OBVIOUS
<1> HIDE DEF s, t
<1>6. \A i \in DOMAIN s, j \in DOMAIN t : s[i][1] = t[j][1] => s[i] = t[j]
  BY <1>3, <1>4, <1>5
<1>7. s = t
  BY <1>1, <1>2, <1>3, <1>4, <1>5, <1>6, FlattenDecodes
<1>8. DOMAIN f = DOMAIN g /\ \A i \in DOMAIN f : f[i] = g[i]
  BY <1>3, <1>4, <1>5, <1>7
<1>9. Len(f) = Len(g) /\ \A i \in 1..Len(f) : f[i] = g[i]
  BY <1>8
<1> QED BY <1>9, SeqEqual

-----------------------------------------------------------------------------
(* The structs of a run *)

\* What a call has laid out so far.
Rest(f) == [todo |-> f.todo, placed |-> f.placed, accum |-> f.accum, align |-> f.align]

\* A call has parsed the lines before its own, or lays out the fields of the file.
CallOk(f, K) ==
    /\ f.phase = "parse" =>
          /\ f.ln <= Len(files[f.path]) + 1 /\ f.align = 1
          /\ Parsed(f.path, f.ln - 1, f.fields)
    /\ f.phase = "layout" =>
          /\ Parsed(f.path, Len(files[f.path]), f.fields)
          /\ LaidSoFar(f.fields, K, Rest(f))
          /\ Sized(f.fields, K, f.placed)

\* K is a set of structs by name, each of the file found for the name, ...
KnownOk(K) ==
    /\ Hashed(K)
    /\ \A n \in DOMAIN K :
          K[n] = Core(K[n]) /\ \E p \in DOMAIN files : FoundAt(p, n) /\ Derived(p, K, K[n])

\* ... the cache is part of it, and everything written was laid out with it.
CacheOk(K) == \A m \in DOMAIN cache : m \in DOMAIN K /\ K[m] = Core(cache[m])
OutOk(K) == \A m \in DOMAIN out : \E p \in DOMAIN files : p[2] = m /\ Derived(p, K, out[m])

\* The known structs K explain the calls, the cache and the output.
StructInv(K) ==
    /\ KnownOk(K) /\ OutOk(K)
    /\ \A k \in DOMAIN stack : CallOk(stack[k], K)
    /\ stack # <<>> => CacheOk(K)

\* What the lines of a file parse to depends on the tree only, ...
LEMMA SameParsed ==
    ASSUME Frozen
    PROVE  \A p, k, f : Parsed(p, k, f)' <=> Parsed(p, k, f)
<1>1. \A p : FieldLines(p)' = FieldLines(p)
  BY SameUses
<1>2. \A p, k : FieldAt(p, k)' = FieldAt(p, k)
  BY DEF Frozen, FieldAt
<1>3. \A h, p, k : Parses(h, p, k)' <=> Parses(h, p, k)
  BY <1>1, <1>2 DEF Parses
<1> QED BY <1>3 DEF Parsed

\* ... so do the struct of a file, ...
LEMMA SameDerived ==
    ASSUME Frozen
    PROVE  \A p, K, l : Derived(p, K, l)' <=> Derived(p, K, l)
<1>1. \A p, k, f : Parsed(p, k, f)' <=> Parsed(p, k, f)
  BY SameParsed
<1> QED BY <1>1 DEF Frozen, Derived

\* ... what is said of a call, ...
LEMMA SameCall ==
    ASSUME Frozen
    PROVE  \A f, K : CallOk(f, K)' <=> CallOk(f, K)
<1>1. \A p, k, f : Parsed(p, k, f)' <=> Parsed(p, k, f)
  BY SameParsed
<1> QED BY <1>1 DEF Frozen, CallOk

\* ... what is said of the known structs, ...
LEMMA SameKnown ==
    ASSUME Frozen, NEW K, KnownOk(K)
    PROVE  KnownOk(K)'
<1>1. \A p, L, l : Derived(p, L, l)' <=> Derived(p, L, l)
  BY SameDerived
<1>2. \A p, n : FoundAt(p, n)' <=> FoundAt(p, n)
  BY SameFound
<1> QED BY <1>1, <1>2 DEF Frozen, KnownOk

\* ... and of the output.
LEMMA SameOut ==
    ASSUME Frozen, NEW K, OutOk(K), out' = out
    PROVE  OutOk(K)'
<1>1. \A p, L, l : Derived(p, L, l)' <=> Derived(p, L, l)
  BY SameDerived
<1> QED BY <1>1 DEF Frozen, OutOk

\* Replacing the innermost call.
LEMMA SetTopStruct ==
    ASSUME LayoutInv, stack # <<>>, NEW K, StructInv(K), NEW f, SetTop(f), CallOk(f, K)
    PROVE  StructInv(K)'
<1>1. Frozen /\ UNCHANGED <<cache, out>>
  BY DEF SetTop, Frozen
<1>2. DOMAIN stack' = DOMAIN stack /\ \A k \in DOMAIN stack' : stack'[k] = IF k = Len(stack) THEN f ELSE stack[k]
  BY DEF SetTop, LayoutInv
<1>3. \A g, L : CallOk(g, L)' <=> CallOk(g, L)
  BY <1>1, SameCall
<1>4. (\A k \in DOMAIN stack : CallOk(stack[k], K))'
  <2>1. \A k \in DOMAIN stack' : CallOk(stack'[k], K)
    BY <1>2 DEF StructInv
  <2> QED BY <1>3, <2>1
<1>5. KnownOk(K)' /\ OutOk(K)'
  BY <1>1, SameKnown, SameOut DEF StructInv
<1>6. CacheOk(K)'
  BY <1>1 DEF StructInv, CacheOk
<1> QED BY <1>4, <1>5, <1>6 DEF StructInv

\* An error, or any step after which no call is in progress and no struct is new.
LEMMA NoCallStruct ==
    ASSUME Frozen, out' = out, stack' = <<>>, NEW K, StructInv(K)
    PROVE  StructInv(K)'
<1>1. DOMAIN stack' = {}
  OBVIOUS
<1>2. KnownOk(K)' /\ OutOk(K)'
  BY SameKnown, SameOut DEF StructInv
<1> QED BY <1>1, <1>2 DEF StructInv

\* The innermost call.
LEMMA TopStruct ==
    ASSUME LayoutInv, stack # <<>>, NEW K, StructInv(K)
    PROVE  /\ Top \in FrameType /\ FrameInv(Top) /\ CallOk(Top, K) /\ CacheOk(K)
           /\ Top.path \in DOMAIN files /\ files[Top.path] \in Seq(Line)
<1>1. Top \in FrameType /\ FrameInv(Top)
  BY TopInv
<1>2. Top.path \in DOMAIN files /\ files \in Trees
  BY <1>1 DEF FrameType, LayoutInv
<1>3. files[Top.path] \in Seq(Line)
  BY <1>2, CodegenAssumption
<1>4. Len(stack) \in DOMAIN stack
  BY DEF LayoutInv
<1> QED BY <1>1, <1>2, <1>3, <1>4 DEF Top, StructInv

\* Parsing collects the fields.
LEMMA ParseStruct ==
    ASSUME LayoutInv, NEW K, StructInv(K), ParseStep
    PROVE  StructInv(K)'
<1>0. stack # <<>> /\ Top.phase = "parse"
  BY DEF ParseStep, CommentLine, BlankLine, TopicsLine, ConstLine, FieldLine, ParseEnd, Parsing
<1>1. /\ Top \in FrameType /\ FrameInv(Top) /\ files[Top.path] \in Seq(Line)
      /\ Top.ln <= Len(files[Top.path]) + 1 /\ Top.align = 1
      /\ Parsed(Top.path, Top.ln - 1, Top.fields)
  BY <1>0, TopStruct DEF CallOk
<1>2. /\ Top.ln \in Nat /\ Top.ln > 0 /\ Top.ln - 1 \in Nat /\ (Top.ln - 1) + 1 = Top.ln
      /\ Len(files[Top.path]) \in Nat
  <2>1. Top.ln \in Nat \ {0}
    BY <1>1 DEF FrameType
  <2> QED BY <1>1, <2>1
<1>3. ASSUME Fail PROVE StructInv(K)'
  BY <1>3, NoCallStruct DEF Fail, Frozen
<1>4. ASSUME NEW f, DOMAIN f = DOMAIN Top, f = [x \in DOMAIN f |-> f[x]],
             f.path = Top.path, f.phase = "parse", f.ln = Top.ln, f.align = 1,
             Advance(f), ~EndOfFile,
             f.fields = IF Top.ln \in FieldLines(Top.path)
                        THEN Append(Top.fields, FieldAt(Top.path, Top.ln)) ELSE Top.fields
      PROVE  StructInv(K)'
  <2> DEFINE g == [f EXCEPT !.ln = @ + 1]
  <2>1. SetTop(g)
    BY <1>4 DEF Advance
  <2>2. {"path", "phase", "ln", "fields", "align"} \subseteq DOMAIN f
    BY <1>1, <1>4 DEF FrameType
  <2>3. /\ g.path = Top.path /\ g.phase = "parse" /\ g.ln = Top.ln + 1 /\ g.fields = f.fields
        /\ g.align = 1
    BY <1>4, <2>2
  <2> HIDE DEF g
  <2>4. Parsed(Top.path, Top.ln, f.fields)
    <3>1. PICK k \in Nat : k = Top.ln - 1 /\ k + 1 = Top.ln
      BY <1>2
    <3>2. Parsed(Top.path, k + 1, f.fields)
      BY <1>1, <1>4, <3>1, ParsedNext
    <3> QED BY <3>1, <3>2
  <2>5. g.ln - 1 = Top.ln /\ g.ln <= Len(files[g.path]) + 1
    BY <1>2, <1>4, <2>3 DEF EndOfFile
  <2>6. CallOk(g, K)
    BY <2>3, <2>4, <2>5 DEF CallOk
  <2> QED BY <1>0, <2>1, <2>6, SetTopStruct
<1>5. /\ Top = [x \in DOMAIN Top |-> Top[x]]
      /\ {"path", "phase", "ln", "fields", "topics", "consts", "align"} \subseteq DOMAIN Top
  BY <1>1 DEF FrameType
<1>6. CASE CommentLine \/ BlankLine
  <2>1. ~EndOfFile /\ Advance(Top)
    BY <1>6 DEF CommentLine, BlankLine, Parsing
  <2>2. Top.ln \notin FieldLines(Top.path)
    BY <1>6 DEF CommentLine, BlankLine, Parsing, FieldLines, CurLine
  <2> QED BY <1>0, <1>1, <1>4, <1>5, <2>1, <2>2
<1>7. CASE TopicsLine
  <2> DEFINE f == [Top EXCEPT !.topics = CurLine.rest]
  <2>1. Fail \/ Advance(f)
    BY <1>7 DEF TopicsLine
  <2>2. ~EndOfFile /\ Top.ln \notin FieldLines(Top.path)
    BY <1>7 DEF TopicsLine, Parsing, FieldLines, CurLine
  <2>3. /\ DOMAIN f = DOMAIN Top /\ f = [x \in DOMAIN f |-> f[x]] /\ f.path = Top.path
        /\ f.phase = "parse" /\ f.ln = Top.ln /\ f.fields = Top.fields /\ f.align = 1
    BY <1>0, <1>1, <1>5
  <2> HIDE DEF f
  <2> QED BY <1>3, <1>4, <2>1, <2>2, <2>3
<1>8. CASE ConstLine
  <2> DEFINE const == [name |-> CurLine.rest[1], value |-> CurLine.value]
             f == [Top EXCEPT !.consts = Append(@, const)]
  <2>1. Fail \/ Advance(f)
    BY <1>8 DEF ConstLine
  <2>2. ~EndOfFile /\ Top.ln \notin FieldLines(Top.path)
    BY <1>8 DEF ConstLine, Parsing, FieldLines, CurLine
  <2>3. /\ DOMAIN f = DOMAIN Top /\ f = [x \in DOMAIN f |-> f[x]] /\ f.path = Top.path
        /\ f.phase = "parse" /\ f.ln = Top.ln /\ f.fields = Top.fields /\ f.align = 1
    BY <1>0, <1>1, <1>5
  <2> HIDE DEF f
  <2> QED BY <1>3, <1>4, <2>1, <2>2, <2>3
<1>9. CASE FieldLine
  <2> DEFINE field == [name |-> CurLine.rest[1], base |-> CurLine.ty.base, n |-> CurLine.ty.n]
             f == [Top EXCEPT !.fields = Append(@, field)]
  <2>1. Fail \/ Advance(f)
    BY <1>9 DEF FieldLine
  <2>2. ~EndOfFile /\ CurLine.lead = "code" /\ ~HasEq(CurLine) /\ ~IsBlank(CurLine)
    BY <1>9 DEF FieldLine, Parsing
  <2>3. Top.ln \in DOMAIN files[Top.path]
    BY <1>1, <1>2, <2>2 DEF EndOfFile
  <2>4. Top.ln \in FieldLines(Top.path)
    BY <2>2, <2>3 DEF FieldLines, CurLine
  <2>5. field = FieldAt(Top.path, Top.ln)
    BY DEF FieldAt, CurLine
  <2>6. /\ DOMAIN f = DOMAIN Top /\ f = [x \in DOMAIN f |-> f[x]] /\ f.path = Top.path
        /\ f.phase = "parse" /\ f.ln = Top.ln /\ f.fields = Append(Top.fields, field) /\ f.align = 1
    BY <1>0, <1>1, <1>5
  <2> HIDE DEF f, field
  <2> QED BY <1>3, <1>4, <2>1, <2>2, <2>4, <2>5, <2>6
<1>10. CASE ParseEnd
  <2> DEFINE f == [Top EXCEPT !.phase = "layout", !.todo = DOMAIN Top.fields,
                        !.topics = IF @ = <<>> THEN <<Top.path[2]>> ELSE @]
  <2>1. /\ f.path = Top.path /\ f.phase = "layout" /\ f.fields = Top.fields /\ f.todo = DOMAIN Top.fields
        /\ f.placed = Top.placed /\ f.accum = Top.accum /\ f.align = Top.align
    BY <1>1 DEF FrameType
  <2>2. SetTop(f) /\ EndOfFile
    BY <1>10 DEF ParseEnd
  <2> HIDE DEF f
  <2>3. Top.ln - 1 = Len(files[Top.path])
    BY <1>1, <1>2, <2>2 DEF EndOfFile
  <2>4. f.placed = <<>> /\ f.accum = 0 /\ f.align = 1
    BY <1>0, <1>1, <2>1 DEF FrameInv
  <2>5. Rest(f) = Start(f.fields)
    BY <2>1, <2>4 DEF Rest, Start
  <2>6. LaidSoFar(f.fields, K, Rest(f))
    BY <2>5, LaidStart
  <2>7. Sized(f.fields, K, f.placed)
    BY <2>4 DEF Sized
  <2>8. CallOk(f, K)
    BY <1>1, <2>1, <2>3, <2>6, <2>7 DEF CallOk
  <2> QED BY <1>0, <2>2, <2>8, SetTopStruct
<1> QED BY <1>6, <1>7, <1>8, <1>9, <1>10 DEF ParseStep

\* One more member of the right size.
LEMMA SizedAppend ==
    ASSUME NEW fields, NEW K, NEW members \in Seq(MemberType), Sized(fields, K, members), NEW mb,
           mb.field # 0 =>
                /\ IsNested(fields[mb.field]) => fields[mb.field].base \in DOMAIN K
                /\ mb.size = SizeOf(fields[mb.field], K)
    PROVE  Sized(fields, K, Append(members, mb))
<1> DEFINE longer == Append(members, mb)
           n == Len(members) + 1
<1>1. DOMAIN longer = 1..n /\ DOMAIN members = 1..(n - 1) /\ n \in Nat
  OBVIOUS
<1>2. \A k \in DOMAIN members : longer[k] = members[k]
  OBVIOUS
<1>3. longer[n] = mb
  OBVIOUS
<1>4. \A k \in DOMAIN longer : k \in DOMAIN members \/ k = n
  BY <1>1
<1> HIDE DEF longer, n
<1>5. Sized(fields, K, longer)
  <2> SUFFICES ASSUME NEW k \in DOMAIN longer, longer[k].field # 0
               PROVE  /\ IsNested(fields[longer[k].field]) => fields[longer[k].field].base \in DOMAIN K
                      /\ longer[k].size = SizeOf(fields[longer[k].field], K)
    BY DEF Sized
  <2>1. CASE k \in DOMAIN members
    BY <1>2, <2>1 DEF Sized
  <2>2. CASE k = n
    BY <1>3, <2>2
  <2> QED BY <1>4, <2>1, <2>2
<1> QED BY <1>5 DEF longer

\* Padding is no field.
LEMMA SizedPadding ==
    ASSUME NEW fields, NEW K, NEW members \in Seq(MemberType), Sized(fields, K, members),
           NEW off, NEW size
    PROVE  Sized(fields, K, WithPadding(members, off, size))
<1>1. CASE size = 0
  BY <1>1 DEF WithPadding
<1>2. CASE size # 0
  <2>1. Member(0, off, size, 1).field = 0
    BY DEF Member
  <2> QED BY <1>2, <2>1, SizedAppend DEF WithPadding
<1> QED BY <1>1, <1>2

\* A field is placed the way PlaceOne says.
LEMMA PlaceOneStruct ==
    ASSUME LayoutInv, stack # <<>>, NEW K, StructInv(K), NEW i \in Top.todo, Laying(i),
           IsNested(Top.fields[i]) => Top.fields[i].base \in DOMAIN K,
           NEW f, SetTop(f), f.path = Top.path, f.phase = "layout", f.fields = Top.fields,
           Rest(f) = PlaceOne(Top.fields, K, Rest(Top), i)
    PROVE  StructInv(K)'
<1>1. /\ Top \in FrameType /\ FrameInv(Top) /\ Top.phase = "layout"
      /\ Parsed(Top.path, Len(files[Top.path]), Top.fields)
      /\ LaidSoFar(Top.fields, K, Rest(Top)) /\ Sized(Top.fields, K, Top.placed)
  BY TopStruct DEF CallOk, Laying
<1>2. /\ Top.accum \in Nat /\ Top.todo \in SUBSET Nat /\ Top.placed \in Seq(MemberType)
      /\ i \in DOMAIN Top.fields /\ Top.fields \in Seq(FieldType)
  BY <1>1 DEF FrameType, FrameInv
<1>3. \A j \in Top.todo \ {i} : Before(Top.fields, i, j)
  BY DEF Laying, IsNext, Before
<1>4. Rest(Top).todo = Top.todo /\ Rest(Top).placed = Top.placed /\ Rest(Top).accum = Top.accum
  BY DEF Rest
<1>5. Places(Top.fields, K, Rest(Top), Rest(f))
  BY <1>2, <1>3, <1>4 DEF Places
<1>6. LaidSoFar(f.fields, K, Rest(f))
  BY <1>1, <1>5, LaidNext
<1>7. Sized(f.fields, K, f.placed)
  <2> DEFINE field == Top.fields[i]
             pad == IF IsNested(field) THEN AlignGap(Top.accum) ELSE 0
             size == IF IsNested(field) THEN K[field.base].size * field.n ELSE ScalarSize(field.base) * field.n
             align == IF IsNested(field) THEN K[field.base].align ELSE ScalarSize(field.base)
             mb == Member(i, Top.accum + pad, size, align)
             padded == WithPadding(Top.placed, Top.accum, pad)
  <2>1. f.placed = Append(padded, mb)
    <3>1. f.placed = Rest(f).placed
      BY DEF Rest
    <3> QED BY <1>4, <3>1 DEF PlaceOne
  <2>2. Sized(Top.fields, K, padded)
    BY <1>1, <1>2, SizedPadding
  <2>3. padded \in Seq(MemberType)
    <3>1. pad \in Nat
      BY <1>2, GapAligns
    <3>2. Chain(Top.placed, Top.accum)
      BY <1>1 DEF FrameInv
    <3> HIDE DEF pad
    <3> QED BY <1>2, <3>1, <3>2, ChainPadding DEF Chain
  <2>4. size = SizeOf(field, K)
    BY DEF SizeOf
  <2>5. mb.field = i /\ mb.size = size
    BY DEF Member
  <2> HIDE DEF mb, padded, size
  <2> QED BY <2>1, <2>2, <2>3, <2>4, <2>5, SizedAppend, SMTT(60)
<1>8. CallOk(f, K)
  BY <1>1, <1>6, <1>7 DEF CallOk
<1> QED BY <1>8, SetTopStruct

\* Fields are placed that way, the nested ones with what is known of their types.
LEMMA PlaceStruct ==
    ASSUME LayoutInv, stack # <<>>, NEW K, StructInv(K), NEW i \in Top.todo, PlaceScalar(i) \/ PlaceNested(i)
    PROVE  StructInv(K)'
<1> DEFINE field == Top.fields[i]
<1>1. Top \in FrameType /\ Laying(i) /\ CacheOk(K)
  BY TopStruct DEF PlaceScalar, PlaceNested
<1>2. Top.accum \in Nat
  BY <1>1 DEF FrameType
<1>3. PICK r : r = Rest(Top)
  OBVIOUS
<1>4. r.todo = Top.todo /\ r.placed = Top.placed /\ r.accum = Top.accum /\ r.align = Top.align
  BY <1>3 DEF Rest
<1>5. CASE PlaceScalar(i)
  <2> DEFINE w == ScalarSize(field.base)
             mb == Member(i, Top.accum, w * field.n, w)
             f == [Top EXCEPT !.todo = @ \ {i}, !.placed = Append(@, mb),
                              !.accum = @ + w * field.n, !.align = Larger(@, w)]
  <2>1. SetTop(f) /\ ~IsNested(field)
    BY <1>5 DEF PlaceScalar
  <2>2. /\ f.path = Top.path /\ f.phase = "layout" /\ f.fields = Top.fields
        /\ f.todo = Top.todo \ {i} /\ f.placed = Append(Top.placed, mb)
        /\ f.accum = Top.accum + w * field.n /\ f.align = Larger(Top.align, w)
    BY <1>1 DEF FrameType, Laying
  <2>3. Top.accum + 0 = Top.accum
    BY <1>2
  <2>4. WithPadding(Top.placed, Top.accum, 0) = Top.placed
    BY DEF WithPadding
  <2>5. PlaceOne(Top.fields, K, r, i)
            = [todo |-> Top.todo \ {i}, placed |-> Append(Top.placed, mb),
               accum |-> Top.accum + w * field.n, align |-> Larger(Top.align, w)]
    <3> DEFINE size == w * field.n
    <3>0. size = ScalarSize(field.base) * field.n
      OBVIOUS
    <3> HIDE DEF size
    <3>1. PlaceOne(Top.fields, K, r, i)
            = [todo |-> r.todo \ {i}, placed |-> Append(WithPadding(r.placed, r.accum, 0), Member(i, r.accum + 0, size, w)),
               accum |-> r.accum + 0 + size, align |-> Larger(r.align, w)]
      BY <2>1, <3>0 DEF PlaceOne
    <3> QED BY <1>4, <2>3, <2>4, <3>0, <3>1
  <2> HIDE DEF f
  <2>6. Rest(f) = PlaceOne(Top.fields, K, r, i)
    BY <2>2, <2>5 DEF Rest
  <2> QED BY <1>1, <1>3, <2>1, <2>2, <2>6, PlaceOneStruct
<1>6. CASE PlaceNested(i)
  <2> DEFINE laid == cache[field.base]
             pad == AlignGap(Top.accum)
             size == laid.size * field.n
             mb == Member(i, Top.accum + pad, size, laid.align)
             f == [Top EXCEPT !.todo = @ \ {i}, !.placed = Append(WithPadding(@, Top.accum, pad), mb),
                              !.accum = @ + pad + size, !.align = Larger(@, laid.align)]
  <2>1. SetTop(f) /\ IsNested(field) /\ field.base \in DOMAIN cache
    BY <1>6 DEF PlaceNested
  <2>2. /\ f.path = Top.path /\ f.phase = "layout" /\ f.fields = Top.fields
        /\ f.todo = Top.todo \ {i} /\ f.placed = Append(WithPadding(Top.placed, Top.accum, pad), mb)
        /\ f.accum = Top.accum + pad + size /\ f.align = Larger(Top.align, laid.align)
    BY <1>1 DEF FrameType, Laying
  <2>3. field.base \in DOMAIN K /\ K[field.base] = Core(laid)
    BY <1>1, <2>1 DEF CacheOk
  <2>4. K[field.base].size = laid.size /\ K[field.base].align = laid.align
    BY <2>3 DEF Core
  <2>5. PlaceOne(Top.fields, K, r, i)
            = [todo |-> Top.todo \ {i}, placed |-> Append(WithPadding(Top.placed, Top.accum, pad), mb),
               accum |-> Top.accum + pad + size, align |-> Larger(Top.align, laid.align)]
    BY <1>4, <2>1, <2>4 DEF PlaceOne
  <2> HIDE DEF f
  <2>6. Rest(f) = PlaceOne(Top.fields, K, r, i)
    BY <2>2, <2>5 DEF Rest
  <2> QED BY <1>1, <1>3, <2>1, <2>2, <2>3, <2>6, PlaceOneStruct
<1> QED BY <1>5, <1>6

\* A new call is for a file of the tree.
LEMMA NewCallOk ==
    ASSUME LayoutInv, NEW p \in DOMAIN files, NEW K
    PROVE  CallOk(NewFrame(p), K)
<1> DEFINE f == NewFrame(p)
<1>1. f.path = p /\ f.phase = "parse" /\ f.ln = 1 /\ f.fields = <<>> /\ f.align = 1
  BY DEF NewFrame
<1>2. files[p] \in Seq(Line)
  BY CodegenAssumption DEF LayoutInv
<1> HIDE DEF f
<1>3. f.ln <= Len(files[f.path]) + 1 /\ f.ln - 1 = 0
  BY <1>1, <1>2
<1>4. Parsed(p, 0, <<>>)
  BY ParsedStart
<1>5. CallOk(f, K)
  BY <1>1, <1>3, <1>4 DEF CallOk
<1> QED BY <1>5 DEF f

\* A nested type begins a new call.
LEMMA ResolveStruct ==
    ASSUME LayoutInv, stack # <<>>, NEW K, StructInv(K), NEW i \in Top.todo, Resolve(i)
    PROVE  StructInv(K)'
<1> DEFINE name == Top.fields[i].base
<1>1. CASE Fail
  BY <1>1, NoCallStruct DEF Fail, Frozen
<1>2. CASE UNCHANGED <<files, search, stack, cache, out>>
  <2>1. Frozen
    BY <1>2 DEF Frozen
  <2>2. \A f, L : CallOk(f, L)' <=> CallOk(f, L)
    BY <2>1, SameCall
  <2>3. KnownOk(K)' /\ OutOk(K)'
    BY <1>2, <2>1, SameKnown, SameOut DEF StructInv
  <2>4. CacheOk(K) => CacheOk(K)'
    BY <1>2 DEF CacheOk
  <2> QED BY <1>2, <2>2, <2>3, <2>4 DEF StructInv
<1>3. ASSUME NEW k \in Found(name), stack' = Append(stack, NewFrame(<<search[k], name>>)),
             UNCHANGED <<files, search, cache, out>>
      PROVE  StructInv(K)'
  <2> DEFINE q == <<search[k], name>>
             f == NewFrame(q)
             n == Len(stack)
  <2>1. q \in DOMAIN files
    BY <1>3 DEF Found
  <2>2. CallOk(f, K)
    BY <2>1, NewCallOk
  <2> HIDE DEF f, q
  <2>3. Frozen
    BY <1>3 DEF Frozen
  <2>4. \A g, L : CallOk(g, L)' <=> CallOk(g, L)
    BY <2>3, SameCall
  <2>5. /\ n \in Nat /\ n > 0 /\ DOMAIN stack = 1..n /\ DOMAIN stack' = 1..(n + 1)
        /\ \A l \in 1..n : stack'[l] = stack[l]
        /\ stack'[n + 1] = f
    BY <1>3 DEF LayoutInv, f, q
  <2> HIDE DEF n
  <2>6. \A l \in 1..(n + 1) : l \in 1..n \/ l = n + 1
    BY <2>5
  <2>7. (\A l \in DOMAIN stack : CallOk(stack[l], K))'
    <3>1. \A l \in DOMAIN stack' : CallOk(stack'[l], K)
      BY <2>2, <2>5, <2>6 DEF StructInv
    <3> QED BY <2>4, <3>1
  <2>8. KnownOk(K)' /\ OutOk(K)'
    BY <1>3, <2>3, SameKnown, SameOut DEF StructInv
  <2>9. CacheOk(K)'
    BY <1>3 DEF StructInv, CacheOk
  <2> QED BY <2>7, <2>8, <2>9 DEF StructInv
<1> QED BY <1>1, <1>2, <1>3 DEF Resolve, name

\* A call that has placed every field has the struct of its file.
LEMMA EndDerived ==
    ASSUME LayoutInv, CauseInv, stack # <<>>, NEW K, StructInv(K), Top.phase = "layout", Top.todo = {},
           NEW laid, laid = LaidOut(Top, AlignGap(Top.accum))
    PROVE  Derived(Top.path, K, laid) /\ laid.hashed \in Seq(FieldType)
<1>1. /\ Top \in FrameType /\ FrameInv(Top) /\ CacheOk(K) /\ PlacedInv(Top)
      /\ Parsed(Top.path, Len(files[Top.path]), Top.fields)
      /\ LaidSoFar(Top.fields, K, Rest(Top)) /\ Sized(Top.fields, K, Top.placed)
  BY TopStruct, TopCause DEF CallOk
<1>2. Top.placed \in Seq(MemberType) /\ Top.fields \in Seq(FieldType)
  BY <1>1 DEF FrameType
<1>3. PICK a, tail, fields : a = Top.accum /\ tail = AlignGap(a) /\ fields = Top.fields
  OBVIOUS
<1>4. /\ laid.members = WithPadding(Top.placed, a, tail) /\ laid.size = a + tail /\ laid.align = Top.align
      /\ laid.fields = fields /\ laid.hashed = HashString(fields)
  BY <1>3 DEF LaidOut
<1>5. Known(fields, K)
  BY <1>1, <1>3 DEF PlacedInv, CacheOk, Known
<1>6. HashString(fields) = HashOf(fields, K)
  <2>1. \A i \in DOMAIN fields :
            <<fields[i]>> \o (IF IsNested(fields[i]) THEN cache[fields[i].base].hashed ELSE <<>>)
                = Block(fields[i], K)
    <3> SUFFICES ASSUME NEW i \in DOMAIN fields, IsNested(fields[i])
                 PROVE  cache[fields[i].base].hashed = K[fields[i].base].hashed
      BY DEF Block
    <3>1. fields[i].base \in DOMAIN cache
      BY <1>1, <1>3 DEF PlacedInv
    <3>2. K[fields[i].base] = Core(cache[fields[i].base])
      BY <1>1, <3>1 DEF CacheOk
    <3> QED BY <3>2 DEF Core
  <2>2. [i \in DOMAIN fields |->
            <<fields[i]>> \o (IF IsNested(fields[i]) THEN cache[fields[i].base].hashed ELSE <<>>)]
          = [i \in DOMAIN fields |-> Block(fields[i], K)]
    BY <2>1
  <2> QED BY <2>2 DEF HashString, HashOf
<1>7. Sized(fields, K, laid.members)
  BY <1>1, <1>2, <1>3, <1>4, SizedPadding
<1>8. Completed(Rest(Top), laid)
  BY <1>3, <1>4 DEF Completed, Rest
<1>9. Derived(Top.path, K, laid)
  BY <1>1, <1>2, <1>3, <1>4, <1>5, <1>6, <1>7, <1>8 DEF Derived
<1>10. HashOf(fields, K) \in Seq(FieldType)
  BY <1>2, <1>3, <1>5, BlocksType, FlattenType DEF StructInv, KnownOk, HashOf
<1> QED BY <1>4, <1>6, <1>9, <1>10

\* A struct is derived if its core is.
LEMMA DerivedCore ==
    ASSUME NEW p, NEW K, NEW l, Derived(p, K, l)
    PROVE  Derived(p, K, Core(l)) /\ Core(Core(l)) = Core(l)
<1>1. /\ Core(l).members = l.members /\ Core(l).size = l.size /\ Core(l).align = l.align
      /\ Core(l).fields = l.fields /\ Core(l).hashed = l.hashed
  BY DEF Core
<1>2. PICK c : c = Core(l)
  OBVIOUS
<1>3. Derived(p, K, c)
  <2>1. PICK r : LaidSoFar(l.fields, K, r) /\ Completed(r, l)
    BY DEF Derived
  <2>2. LaidSoFar(c.fields, K, r) /\ Completed(r, c)
    BY <1>1, <1>2, <2>1 DEF Completed
  <2> QED BY <1>1, <1>2, <2>2 DEF Derived
<1> QED BY <1>1, <1>2, <1>3 DEF Core

\* A struct that becomes known changes nothing for the rest.
LEMMA Extend ==
    ASSUME LayoutInv, NEW K, StructInv(K), NEW p \in DOMAIN files, NEW name, name \notin DOMAIN K,
           FoundAt(p, name), NEW laid, Derived(p, K, laid), laid.hashed \in Seq(FieldType)
    PROVE  \E L : /\ Within(K, L) /\ name \in DOMAIN L /\ L[name] = Core(laid)
                  /\ KnownOk(L) /\ OutOk(L) /\ \A f : CallOk(f, K) => CallOk(f, L)
<1> DEFINE L == [m \in DOMAIN K \union {name} |-> IF m = name THEN Core(laid) ELSE K[m]]
<1>1. /\ Within(K, L) /\ name \in DOMAIN L /\ L[name] = Core(laid)
      /\ \A m \in DOMAIN L : m = name \/ (m \in DOMAIN K /\ L[m] = K[m])
  BY DEF Within
<1> HIDE DEF L
<1>2. KnownOk(K) /\ OutOk(K)
  BY DEF StructInv
<1>3. Hashed(L)
  <2>1. Core(laid).hashed = laid.hashed
    BY DEF Core
  <2> QED BY <1>1, <1>2, <2>1 DEF KnownOk, Hashed
<1>4. ASSUME NEW m \in DOMAIN L
      PROVE  L[m] = Core(L[m]) /\ \E q \in DOMAIN files : FoundAt(q, m) /\ Derived(q, L, L[m])
  <2>1. CASE m = name
    BY <1>1, <2>1, DerivedCore, DerivedMore
  <2>2. CASE m \in DOMAIN K /\ L[m] = K[m]
    <3>1. K[m] = Core(K[m])
      BY <1>2, <2>2 DEF KnownOk
    <3>2. PICK q \in DOMAIN files : FoundAt(q, m) /\ Derived(q, K, K[m])
      BY <1>2, <2>2 DEF KnownOk
    <3>3. Derived(q, L, K[m])
      BY <1>1, <3>2, DerivedMore
    <3> QED BY <2>2, <3>1, <3>2, <3>3
  <2> QED BY <1>1, <2>1, <2>2
<1>5. OutOk(L)
  BY <1>1, <1>2, DerivedMore DEF OutOk
<1>6. \A f : CallOk(f, K) => CallOk(f, L)
  BY <1>1, LaidMore, SizedMore DEF CallOk
<1> QED BY <1>1, <1>3, <1>4, <1>5, <1>6 DEF KnownOk

\* A finished call's struct is the one known for its type, or becomes known.
LEMMA LayoutEndStruct ==
    ASSUME LayoutInv, CauseInv, NEW K, StructInv(K), LayoutEnd
    PROVE  \E L : StructInv(L)'
<1> DEFINE name == Top.path[2]
           n == Len(stack)
<1>0. stack # <<>> /\ Top.phase = "layout" /\ Top.todo = {}
  BY DEF LayoutEnd
<1>1. PICK laid : laid = LaidOut(Top, AlignGap(Top.accum))
  OBVIOUS
<1>2. Derived(Top.path, K, laid) /\ laid.hashed \in Seq(FieldType)
  BY <1>0, <1>1, EndDerived
<1>3. Top.path \in DOMAIN files /\ files[Top.path] \in Seq(Line)
  BY <1>0, TopStruct
<1>4. Frozen
  BY DEF LayoutEnd, Frozen
<1>5. /\ cache' = Insert(cache, name, laid)
      /\ out' = out \/ (n = 1 /\ out' = Insert(out, name, laid))
  BY <1>1 DEF LayoutEnd, Emit
<1>6. /\ n \in Nat /\ n > 0 /\ DOMAIN stack = 1..n /\ DOMAIN stack' = 1..(n - 1)
      /\ \A l \in 1..(n - 1) : stack'[l] = stack[l] /\ l \in DOMAIN stack
  BY <1>0 DEF LayoutEnd, LayoutInv, Front
<1>7. CASE n = 1
  <2>1. DOMAIN stack' = {} /\ stack' = <<>>
    BY <1>0, <1>6, <1>7 DEF LayoutEnd, Front, LayoutInv
  <2>2. KnownOk(K)'
    BY <1>4, SameKnown DEF StructInv
  <2>3. \A m \in DOMAIN out' : \E p \in DOMAIN files : p[2] = m /\ Derived(p, K, out'[m])
    <3>1. \A m \in DOMAIN out' : (m = name /\ out'[m] = laid) \/ (m \in DOMAIN out /\ out'[m] = out[m])
      BY <1>5, <1>7 DEF Insert
    <3> QED BY <1>2, <1>3, <3>1 DEF StructInv, OutOk
  <2>4. OutOk(K)'
    <3>1. \A p, l : Derived(p, K, l)' <=> Derived(p, K, l)
      BY <1>4, SameDerived
    <3>2. files' = files
      BY <1>4 DEF Frozen
    <3> QED BY <2>3, <3>1, <3>2 DEF OutOk
  <2> QED BY <2>1, <2>2, <2>4 DEF StructInv
<1>8. CASE n > 1
  <2>1. FoundAt(Top.path, name)
    BY <1>0, <1>6, <1>8 DEF CauseInv, CallsInv, Top
  <2>2. /\ KnownOk(K) /\ OutOk(K) /\ CacheOk(K) /\ \A k \in DOMAIN stack : CallOk(stack[k], K)
    BY <1>0 DEF StructInv
  <2>3. PICK L : /\ Within(K, L) /\ name \in DOMAIN L /\ L[name] = Core(laid)
                 /\ KnownOk(L) /\ OutOk(L) /\ \A f : CallOk(f, K) => CallOk(f, L)
    <3>1. CASE name \notin DOMAIN K
      BY <1>2, <1>3, <2>1, <3>1, Extend
    <3>2. CASE name \in DOMAIN K
      <4>1. PICK p \in DOMAIN files : FoundAt(p, name) /\ Derived(p, K, K[name]) /\ K[name] = Core(K[name])
        BY <2>2, <3>2 DEF KnownOk
      <4>2. p = Top.path
        BY <2>1, <4>1, FoundOnce DEF CauseInv
      <4>3. Len(files[p]) \in Nat
        BY <1>3, <4>2
      <4>4. Core(laid) = K[name]
        BY <1>2, <4>1, <4>2, <4>3, DerivedOnce
      <4>5. Within(K, K)
        BY DEF Within
      <4> QED BY <2>2, <3>2, <4>4, <4>5
    <3> QED BY <3>1, <3>2
  <2> HIDE DEF n, name
  <2>4. KnownOk(L)' /\ OutOk(L)'
    BY <1>4, <1>5, <1>8, <2>3, SameKnown, SameOut
  <2>5. \A l \in DOMAIN stack' : CallOk(stack'[l], L)
    BY <1>6, <2>2, <2>3
  <2>6. (\A l \in DOMAIN stack : CallOk(stack[l], L))'
    <3>1. \A g : CallOk(g, L)' <=> CallOk(g, L)
      BY <1>4, SameCall
    <3> QED BY <2>5, <3>1
  <2>7. CacheOk(L)'
    <3>1. \A m \in DOMAIN cache' : (m = name /\ cache'[m] = laid) \/ (m \in DOMAIN cache /\ cache'[m] = cache[m])
      BY <1>5 DEF Insert
    <3>2. \A m \in DOMAIN cache' : m \in DOMAIN L /\ L[m] = Core(cache'[m])
      BY <2>2, <2>3, <3>1 DEF CacheOk, Within
    <3> QED BY <3>2 DEF CacheOk, Core
  <2> QED BY <2>4, <2>6, <2>7 DEF StructInv
<1> QED BY <1>6, <1>7, <1>8

\* A file is begun with nothing in the cache.
LEMMA DriverStruct ==
    ASSUME LayoutInv, NEW K, StructInv(K), NextDir \/ \E p \in pending : Generate(p)
    PROVE  StructInv(K)'
<1>1. Frozen /\ out' = out
  BY DEF NextDir, Generate, Frozen
<1>2. CASE NextDir
  BY <1>1, <1>2, NoCallStruct DEF NextDir
<1>3. ASSUME NEW p \in pending, Generate(p) PROVE StructInv(K)'
  <2> DEFINE f == NewFrame(p)
  <2>1. CallOk(f, K)
    BY NewCallOk DEF LayoutInv
  <2> HIDE DEF f
  <2>2. DOMAIN stack' = {1} /\ stack'[1] = f /\ DOMAIN cache' = {}
    BY <1>3 DEF Generate, f
  <2>3. (\A l \in DOMAIN stack : CallOk(stack[l], K))'
    BY <1>1, <2>1, <2>2, SameCall
  <2>4. CacheOk(K)'
    BY <2>2 DEF CacheOk
  <2>5. KnownOk(K)' /\ OutOk(K)'
    BY <1>1, SameKnown, SameOut DEF StructInv
  <2> QED BY <2>3, <2>4, <2>5 DEF StructInv
<1> QED BY <1>2, <1>3

\* The inductive invariant.
Structs == \E K : StructInv(K)

\* The inductive invariant: some set of structs explains the run so far.
StructsInv == \E K : StructInv(K)

\* A run keeps it.
LEMMA StructsInvHolds == CodegenSpec => []StructsInv
<1>1. CodegenInit => StructsInv
  <2> SUFFICES ASSUME CodegenInit PROVE \E K : StructInv(K)
    BY DEF StructsInv
  <2>1. DOMAIN stack = {} /\ stack = <<>> /\ DOMAIN out = {}
    BY DEF CodegenInit
  <2>2. DOMAIN [n \in {} |-> 0] = {}
    OBVIOUS
  <2>3. KnownOk([n \in {} |-> 0])
    BY <2>2 DEF KnownOk, Hashed
  <2> QED BY <2>1, <2>3 DEF StructInv, OutOk
<1>2. LayoutInv /\ CauseInv /\ StructsInv /\ [CodegenNext]_codegenVars => StructsInv'
  <2> SUFFICES ASSUME LayoutInv, CauseInv, NEW K, StructInv(K), [CodegenNext]_codegenVars
               PROVE  \E L : StructInv(L)'
    BY DEF StructsInv
  <2>1. CASE NextDir \/ \E p \in pending : Generate(p)
    BY <2>1, DriverStruct
  <2>2. CASE ParseStep
    BY <2>2, ParseStruct
  <2>3. CASE LayoutEnd
    BY <2>3, LayoutEndStruct
  <2>4. ASSUME stack # <<>>, NEW i \in Top.todo, PlaceScalar(i) \/ PlaceNested(i) \/ Resolve(i)
        PROVE  StructInv(K)'
    BY <2>4, PlaceStruct, ResolveStruct
  <2>5. CASE UNCHANGED codegenVars
    <3>1. Frozen /\ UNCHANGED <<stack, cache, out>>
      BY <2>5 DEF codegenVars, Frozen
    <3>2. \A f : CallOk(f, K)' <=> CallOk(f, K)
      BY <3>1, SameCall
    <3>3. KnownOk(K)' /\ OutOk(K)'
      BY <3>1, SameKnown, SameOut DEF StructInv
    <3>4. CacheOk(K) => CacheOk(K)'
      BY <3>1 DEF CacheOk
    <3> QED BY <3>1, <3>2, <3>3, <3>4 DEF StructInv
  <2> QED BY <2>1, <2>2, <2>3, <2>4, <2>5 DEF CodegenNext, LayoutStep
<1> QED BY <1>1, <1>2, LayoutInvHolds, CauseInvHolds, PTL DEF CodegenSpec

\* In every tree of .msg files the assertions on size_of that emit writes hold for
\* nested types with a single file: the size a struct reserves for one is that of
\* the struct written for it.  A name with a file in msg/ and one in msg/versioned/
\* is left out: there the struct written may be that of the other file.
THEOREM SizesAgree == CodegenSpec => []SizeAssertHolds
<1>1. LayoutInv /\ StructsInv => SizeAssertHolds
  <2> SUFFICES ASSUME LayoutInv, NEW K, StructInv(K), NEW m \in DOMAIN out, NEW k \in DOMAIN out[m].members,
                      out[m].members[k].field # 0
               PROVE  LET mb    == out[m].members[k]
                          field == out[m].fields[mb.field]
                      IN  IF ~IsNested(field) THEN mb.size = ScalarSize(field.base) * field.n
                          ELSE (field.base \in DOMAIN out /\ ~Shadowed(field.base))
                                  => mb.size = out[field.base].size * field.n
    BY DEF StructsInv, SizeAssertHolds
  <2> DEFINE mb == out[m].members[k]
             field == out[m].fields[mb.field]
             base == field.base
  <2>1. KnownOk(K) /\ OutOk(K)
    BY DEF StructInv
  <2>2. (IsNested(field) => base \in DOMAIN K) /\ mb.size = SizeOf(field, K)
    BY <2>1 DEF OutOk, Derived, Sized
  <2>3. CASE ~IsNested(field)
    BY <2>2, <2>3 DEF SizeOf
  <2>4. ASSUME IsNested(field), base \in DOMAIN out, ~Shadowed(base)
        PROVE  mb.size = out[base].size * field.n
    <3> HIDE DEF base
    <3>1. PICK p \in DOMAIN files : FoundAt(p, base) /\ Derived(p, K, K[base])
      BY <2>1, <2>2, <2>4 DEF KnownOk
    <3>2. PICK q \in DOMAIN files : q[2] = base /\ Derived(q, K, out[base])
      BY <2>1, <2>4 DEF OutOk
    <3>3. p = q
      <4>1. DOMAIN files \subseteq {"msg", "versioned"} \X Words
        BY CodegenAssumption DEF LayoutInv
      <4>2. p[2] = base
        BY <3>1 DEF FoundAt
      <4>3. p = <<p[1], base>> /\ q = <<q[1], base>> /\ p[1] \in {"msg", "versioned"} /\ q[1] \in {"msg", "versioned"}
        BY <3>2, <4>1, <4>2
      <4> QED BY <2>4, <4>3 DEF Shadowed
    <3>4. files[p] \in Seq(Line)
      BY CodegenAssumption DEF LayoutInv
    <3>5. Core(K[base]) = Core(out[base])
      BY <3>1, <3>2, <3>3, <3>4, DerivedOnce
    <3>6. K[base].size = out[base].size
      BY <3>5 DEF Core
    <3> QED BY <2>2, <2>4, <3>6 DEF SizeOf, base
  <2> QED BY <2>3, <2>4
<1> QED BY <1>1, LayoutInvHolds, StructsInvHolds, PTL

\* Two messages that hash the same string have the same members, at the same
\* offsets, for any tree of .msg files.
THEOREM HashDecidesLayout == CodegenSpec => []HashTellsLayouts
<1>1. StructsInv => HashTellsLayouts
  <2> SUFFICES ASSUME NEW K, StructInv(K), NEW m1 \in DOMAIN out, NEW m2 \in DOMAIN out,
                      out[m1].hashed = out[m2].hashed
               PROVE  out[m1].members = out[m2].members
    BY DEF StructsInv, HashTellsLayouts
  <2>1. PICK p : Derived(p, K, out[m1])
    BY DEF StructInv, OutOk
  <2>2. PICK q : Derived(q, K, out[m2])
    BY DEF StructInv, OutOk
  <2>3. Hashed(K)
    BY DEF StructInv, KnownOk
  <2>4. out[m1].fields = out[m2].fields
    BY <2>1, <2>2, <2>3, HashTellsFields DEF Derived
  <2>5. Core(out[m1]) = Core(out[m2])
    BY <2>1, <2>2, <2>4, SameFields
  <2> QED BY <2>5 DEF Core
<1> QED BY <1>1, StructsInvHolds, PTL

-----------------------------------------------------------------------------
(* Both parts *)

\* The generator and the entry point together keep their types.
THEOREM ToolsTypeCorrect == CodegenSpec /\ EntrySpec => []ToolsTypeOK
<1>1. CodegenTypeOK /\ EntryTypeOK => ToolsTypeOK
  BY DEF ToolsTypeOK
<1> QED BY <1>1, CodegenTypeCorrect, EntryTypeCorrect, PTL
=============================================================================
