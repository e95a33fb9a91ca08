-------------------------------- MODULE Entry --------------------------------
(***************************************************************************)
(* A module's C entry point (px4-macros) and what it rests on in px4-log:  *)
(* Args over (argc, argv), ModuleResult, the logging macros with their     *)
(* stack buffer, and the backend for the `log` crate.  The user's main()   *)
(* iterates over its arguments, looks at the subcommand, logs and installs *)
(* the backend in any order, and returns.                                  *)
(*                                                                         *)
(* Text is a sequence of characters, a character is [id, w] with its width *)
(* w in UTF-8, and a byte is [ch, j], the j-th of its character.           *)
(***************************************************************************)
EXTENDS Integers, Sequences, SequencesExt, FiniteSets

CONSTANTS
    BufLen,         \* BUF_LEN
    NameLen,        \* the size of name_buf
    Chars,          \* the characters of the texts
    ArgVectors,     \* the (argc, argv) to start with; a slot may be Null
    Messages,       \* what is logged: the pieces write_fmt hands to write_str
    Targets,        \* log::Record::target(), as text
    Results,        \* what main() returns: Ok `oks` times around a leaf
    Null, Nul,      \* the null pointer; the character '\0'
    MaxLogs         \* bound: log calls of main()

ASSUME EntryAssumption ==
    /\ BufLen \in Nat \ {0} /\ NameLen \in Nat \ {0} /\ MaxLogs \in Nat
    /\ \A c \in Chars : c.w \in 1..4
    /\ Nul.w = 1
    /\ \A a \in ArgVectors : a.argc \in Int /\ (a.argv = Null \/ Len(a.argv) >= a.argc)
    /\ Messages \subseteq Seq(Seq(Chars)) /\ Targets \subseteq Seq(Chars)
    /\ \A r \in Results : /\ r.leaf = "int" => r.val \in Int
                          /\ r.leaf = "err" => r.pieces \in Seq(Seq(Chars))

VARIABLES
    host,       \* "std": messages go to stderr; "px4": to px4_log_modulename
    args,       \* Args: argc and argv
    epc,        \* where <name>_main is
    idx,        \* Iter.idx of the iterator over args
    yielded,    \* what the iterator has returned
    exhausted,  \* ... and whether that included None
    sub,        \* what subcommand() returned
    logger,     \* the backend of the log crate: "none", "px4" or "other"
    maxLevel,   \* the log crate's maximum level
    msg,        \* the message being logged
    buf,        \* StackBuf: buf[..pos]
    sink,       \* what has been logged
    result,     \* the value main() returned
    ret         \* the C int

entryVars == <<host, args, epc, idx, yielded, exhausted, sub, logger, maxLevel, msg, buf, sink, result, ret>>

-----------------------------------------------------------------------------
(* Text *)

BytesOf(chars) == FlattenSeq([k \in DOMAIN chars |-> [j \in 1..chars[k].w |-> [ch |-> chars[k], j |-> j]]])
Clip(bytes, n) == SubSeq(bytes, 1, IF Len(bytes) < n THEN Len(bytes) ELSE n)

\* from_utf8: no character is cut.
IsUtf8(bytes) == bytes = <<>> \/ Last(bytes).j = Last(bytes).ch.w

\* What C makes of bytes that end with the first NUL.
CString(bytes) ==
    LET nuls == {k \in DOMAIN bytes : bytes[k].ch = Nul}
    IN  IF nuls = {} THEN bytes
        ELSE Clip(bytes, (CHOOSE k \in nuls : \A l \in nuls : k <= l) - 1)

-----------------------------------------------------------------------------
(* Args *)

ArgsLen == IF args.argc <= 0 \/ args.argv = Null THEN 0 ELSE args.argc

\* Args::get, with n counted from 0.
Get(n) == IF n >= ArgsLen THEN Null ELSE args.argv[n + 1]

Subcommand ==
    /\ epc = "main"
    /\ sub' = Get(1)
    /\ UNCHANGED <<host, args, epc, idx, yielded, exhausted, logger, maxLevel, msg, buf, sink, result, ret>>

\* Seeded fault: a NULL slot ends the iteration.
IterNextStops ==
    /\ epc = "main" /\ ~exhausted
    /\ \/ Get(idx) # Null /\ yielded' = Append(yielded, Get(idx)) /\ idx' = idx + 1 /\ UNCHANGED exhausted
       \/ Get(idx) = Null /\ exhausted' = TRUE /\ UNCHANGED <<idx, yielded>>
    /\ UNCHANGED <<host, args, epc, sub, logger, maxLevel, msg, buf, sink, result, ret>>

\* Iter::next: on to the first slot that is not NULL.
IterNext ==
    LET left == {i \in idx..ArgsLen - 1 : Get(i) # Null}
    IN  /\ epc = "main" /\ ~exhausted
        /\ \/ \E i \in left :
                /\ \A j \in left : i <= j
                /\ yielded' = Append(yielded, Get(i))
                /\ idx' = i + 1
                /\ UNCHANGED exhausted
           \/ /\ left = {}
              /\ exhausted' = TRUE /\ idx' = ArgsLen
              /\ UNCHANGED yielded
        /\ UNCHANGED <<host, args, epc, sub, logger, maxLevel, msg, buf, sink, result, ret>>

-----------------------------------------------------------------------------
(* Logging *)

Levels == {"Debug", "Info", "Warn", "Error"}
Admitted == [Off |-> {}, Info |-> Levels \ {"Debug"}, Debug |-> Levels]

\* __log_impl begins with an empty buffer; back is where it returns to.
LogBegin(level, name, pieces, back) ==
    /\ msg' = [level |-> level, name |-> name, pieces |-> pieces, k |-> 1, back |-> back]
    /\ buf' = <<>>
    /\ epc' = "write"

\* Seeded fault: a piece that does not fit is left out.
WriteStrWhole ==
    LET bytes == BytesOf(msg.pieces[msg.k])
    IN  /\ epc = "write" /\ msg.k <= Len(msg.pieces)
        /\ buf' = IF Len(buf) + Len(bytes) <= BufLen - 1 THEN buf \o bytes ELSE buf
        /\ msg' = [msg EXCEPT !.k = @ + 1]
        /\ UNCHANGED <<host, args, epc, idx, yielded, exhausted, sub, logger, maxLevel, sink, result, ret>>

\* Seeded fault: the terminator's byte is filled too.
WriteStrFull ==
    /\ epc = "write" /\ msg.k <= Len(msg.pieces)
    /\ buf' = buf \o Clip(BytesOf(msg.pieces[msg.k]), BufLen - Len(buf))
    /\ msg' = [msg EXCEPT !.k = @ + 1]
    /\ UNCHANGED <<host, args, epc, idx, yielded, exhausted, sub, logger, maxLevel, sink, result, ret>>

\* StackBuf::write_str, once per piece: what does not fit is cut off.
WriteStr ==
    /\ epc = "write" /\ msg.k <= Len(msg.pieces)
    /\ buf' = buf \o Clip(BytesOf(msg.pieces[msg.k]), (BufLen - 1) - Len(buf))
    /\ msg' = [msg EXCEPT !.k = @ + 1]
    /\ UNCHANGED <<host, args, epc, idx, yielded, exhausted, sub, logger, maxLevel, sink, result, ret>>

\* On the host a message, or a module name, that is not UTF-8 is replaced; on
\* PX4 the buffer is passed as a C string.
Shown(bytes) ==
    LET bad == host = "std" /\ ~IsUtf8(bytes)
    IN  [bytes |-> IF bad THEN <<>> ELSE IF host = "px4" THEN CString(bytes) ELSE bytes, replaced |-> bad]

Flush ==
    /\ epc = "write" /\ msg.k > Len(msg.pieces)
    /\ sink' = Append(sink, [level |-> msg.level, name |-> Shown(msg.name),
                             text |-> Shown(buf), pieces |-> msg.pieces])
    /\ epc' = msg.back
    /\ ret' = IF msg.back = "done" THEN 1 ELSE ret
    /\ msg' = Null /\ buf' = <<>>
    /\ UNCHANGED <<host, args, idx, yielded, exhausted, sub, logger, maxLevel, result>>

MayLog == epc = "main" /\ Len(sink) < MaxLogs

\* info!, warn!, err!, debug! log under MODULE_NAME.
LogMacro(level, pieces) ==
    /\ MayLog
    /\ LogBegin(level, <<>>, pieces, "main")
    /\ UNCHANGED <<host, args, idx, yielded, exhausted, sub, logger, maxLevel, sink, result, ret>>

\* log_backend::init, which yields to a logger that is already there but sets
\* the level for it too.
LoggerInit ==
    /\ epc = "main"
    /\ logger' = IF logger = "none" THEN "px4" ELSE logger
    /\ maxLevel' = "Info"
    /\ UNCHANGED <<host, args, epc, idx, yielded, exhausted, sub, msg, buf, sink, result, ret>>

\* PX4Logger::log.  The log crate hands over what the maximum level admits,
\* and the name is cut to fit name_buf.
LogRecord(level, target, pieces) ==
    /\ MayLog
    /\ logger = "px4" /\ level \in Admitted[maxLevel]
    /\ LogBegin(level, CString(Clip(BytesOf(target), NameLen - 1)), pieces, "main")
    /\ UNCHANGED <<host, args, idx, yielded, exhausted, sub, logger, maxLevel, sink, result, ret>>

-----------------------------------------------------------------------------
(* The entry point *)

EntryInit ==
    /\ host \in {"std", "px4"}
    /\ args \in ArgVectors
    /\ epc = "main"
    /\ idx = 0 /\ yielded = <<>> /\ exhausted = FALSE /\ sub = Null
    /\ \/ logger = "none" /\ maxLevel = "Off"
       \/ logger = "other" /\ maxLevel \in DOMAIN Admitted
    /\ msg = Null /\ buf = <<>> /\ sink = <<>>
    /\ result = Null /\ ret = 0

\* main() returns; into_c_int is next.
Return(r) ==
    /\ epc = "main"
    /\ result' = r
    /\ epc' = "convert"
    /\ UNCHANGED <<host, args, idx, yielded, exhausted, sub, logger, maxLevel, msg, buf, sink, ret>>

\* Seeded fault: only an outermost Err is logged.
IntoCIntShallow ==
    /\ epc = "convert"
    /\ \/ /\ result.leaf # "err" \/ result.oks > 0
          /\ ret' = IF result.leaf = "int" THEN result.val ELSE IF result.leaf = "err" THEN 1 ELSE 0
          /\ epc' = "done"
          /\ UNCHANGED <<msg, buf>>
       \/ /\ result.leaf = "err" /\ result.oks = 0
          /\ LogBegin("Error", <<>>, result.pieces, "done")
          /\ UNCHANGED ret
    /\ UNCHANGED <<host, args, idx, yielded, exhausted, sub, logger, maxLevel, sink, result>>

\* ModuleResult::into_c_int, through any number of Ok to the leaf: (), a C int,
\* or an Err, which is logged and becomes 1.
IntoCInt ==
    /\ epc = "convert"
    /\ \/ /\ result.leaf = "unit" /\ ret' = 0 /\ epc' = "done"
          /\ UNCHANGED <<msg, buf>>
       \/ /\ result.leaf = "int" /\ ret' = result.val /\ epc' = "done"
          /\ UNCHANGED <<msg, buf>>
       \/ /\ result.leaf = "err"
          /\ LogBegin("Error", <<>>, result.pieces, "done")
          /\ UNCHANGED ret
    /\ UNCHANGED <<host, args, idx, yielded, exhausted, sub, logger, maxLevel, sink, result>>

\* A panic in main(), where panic_handler!() is installed: log, then abort().
Panic(pieces) ==
    /\ host = "px4" /\ epc = "main"
    /\ LogBegin("Panic", <<>>, pieces, "aborted")
    /\ UNCHANGED <<host, args, idx, yielded, exhausted, sub, logger, maxLevel, sink, result, ret>>

EntryNext ==
    \/ Subcommand \/ IterNext
    \/ \E l \in Levels, m \in Messages :
          LogMacro(l, m) \/ \E t \in Targets : LogRecord(l, t, m)
    \/ \E m \in Messages : Panic(m)
    \/ LoggerInit \/ WriteStr \/ Flush
    \/ \E r \in Results : Return(r)
    \/ IntoCInt

EntrySpec == EntryInit /\ [][EntryNext]_entryVars

-----------------------------------------------------------------------------
(* Properties *)

\* The values of the variables: the index stays within argc, and the message
\* buffer keeps a byte for its terminator.
EntryTypeOK ==
    /\ epc \in {"main", "write", "convert", "done", "aborted"}
    /\ idx \in Nat /\ idx <= ArgsLen
    /\ {exhausted} \subseteq BOOLEAN
    /\ logger \in {"none", "px4", "other"} /\ maxLevel \in DOMAIN Admitted
    /\ Len(buf) <= BufLen - 1
    /\ ret \in Int

\* The bytes of a logged message are those of its text, from the first on and
\* as many as the buffer takes, however write_fmt splits it, with the
\* terminator still in the buffer.  Only a cut through a character loses the
\* whole message, and only on the host.
LogIsPrefix ==
    \A k \in DOMAIN sink :
        LET cut == Clip(BytesOf(FlattenSeq(sink[k].pieces)), BufLen - 1)
        IN  /\ sink[k].text.replaced <=> (host = "std" /\ ~IsUtf8(cut))
            /\ ~sink[k].text.replaced =>
                  sink[k].text.bytes = IF host = "px4" THEN CString(cut) ELSE cut

\* The iterator yields the arguments in order, each once, NULL slots left out
\* and nothing beyond argc.
ArgsInOrder ==
    LET slots   == {i \in 1..ArgsLen : args.argv[i] # Null}
        Rank(i) == Cardinality({j \in slots : j <= i})
    IN  /\ Len(yielded) <= Cardinality(slots)
        /\ \A i \in slots : Rank(i) <= Len(yielded) => yielded[Rank(i)] = args.argv[i]
        /\ exhausted => Len(yielded) = Cardinality(slots)

\* A module does not fail in silence: one that returns an error, at any depth
\* of Ok, or panics has said so in the log, last of all.
ErrorsAreLogged ==
    /\ (epc = "done" /\ result.leaf = "err") =>
          /\ ret = 1
          /\ sink # <<>> /\ Last(sink).level = "Error" /\ Last(sink).pieces = result.pieces
    /\ epc = "aborted" => sink # <<>> /\ Last(sink).level = "Panic"
=============================================================================
