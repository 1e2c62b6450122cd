------------------------------ MODULE RestoreArgs ------------------------------
(***************************************************************************)
(* How the paths selected in a diff reach restic restore                   *)
(* (internal/resticx/extract_tree.go, buildExtractTreeArgs): as literal    *)
(* patterns, one on the command line, more of them in a file that restic   *)
(* reads line by line, trims, and expands variables in.  A path is a       *)
(* sequence of characters: letters, "*" for all that patterns give a       *)
(* meaning, "\\", "$", "\n" and " ".                                       *)
(***************************************************************************)
EXTENDS Integers, Arrange, SequencesExt

Meta == {"*", "\\"}

LiteralIncludePattern(p) == FoldLeft(LAMBDA out, c : out \o (IF c \in Meta THEN <<"\\", c>> ELSE <<c>>), <<>>, p)

Blanks == {" ", "\n"}

\* strings.TrimSpace, here and in restic.
TrimSpace(p) ==
    LET solid == {i \in DOMAIN p : p[i] \notin Blanks}
    IN  IF solid = {} THEN <<>> ELSE SubSeq(p, Min(solid), Max(solid))

FileSafePattern(p) == Range(p) \cap {"$", "\n"} = {} /\ p = TrimSpace(p)

\* --include and two terminators count with every pattern on the command line.
Overhead == 11
Bytes(patterns) == FoldLeft(LAMBDA sum, n : sum + n, 0, [i \in DOMAIN patterns |-> Len(patterns[i]) + Overhead])


Literals(paths) == [i \in DOMAIN paths |-> LiteralIncludePattern(paths[i])]

BuildExtractTreeArgs(includes, maxBytes) ==
    LET safe == [i \in DOMAIN includes |-> FileSafePattern(includes[i])]
        argv == KeptOf(Literals(includes), [i \in DOMAIN includes |-> ~safe[i]])
        lines == KeptOf(Literals(includes), safe)
    IN  IF Len(includes) = 1 THEN [refused |-> FALSE, argv |-> Literals(includes), file |-> <<>>]
        ELSE IF Bytes(argv) > maxBytes THEN [refused |-> TRUE, argv |-> <<>>, file |-> <<>>]
        ELSE [refused |-> FALSE, argv |-> argv,
              file |-> FlattenSeq([i \in DOMAIN lines |-> Append(lines[i], "\n")])]

-----------------------------------------------------------------------------
(* restic's side.                                                          *)

\* What a pattern stands for: a path, unless a character with a meaning is left.
Meaning(pattern) ==
    LET Take(st, c) ==
            IF st.quoted THEN [st EXCEPT !.quoted = FALSE, !.path = Append(@, c)]
            ELSE IF c = "\\" THEN [st EXCEPT !.quoted = TRUE]
            ELSE [st EXCEPT !.path = Append(@, c), !.wild = @ \/ c \in Meta]
        end == FoldLeft(Take, [quoted |-> FALSE, wild |-> FALSE, path |-> <<>>], pattern)
    IN  [wild |-> end.wild, path |-> end.path]

\* os.Expand, with no variable set.
Expand(line) == KeptOf(line, [i \in DOMAIN line |-> line[i] # "$"])

\* The lines of the file, trimmed, without empty ones and with variables expanded.
FilePatterns(file) ==
    LET ends == {0, Len(file) + 1} \cup {i \in DOMAIN file : file[i] = "\n"}
        Line(i) == TrimSpace(SubSeq(file, i + 1, Min({j \in ends : j > i}) - 1))
    IN  {Expand(Line(i)) : i \in {i \in ends \ {Len(file) + 1} : Line(i) # <<>>}}

-----------------------------------------------------------------------------
\* restic is told to restore the selected paths and no others, or the call is
\* refused, which takes several paths and a full command line; with no selection
\* there is no pattern and the whole source is restored (buildExtractTreeArgs).
IncludesArrive(includes, maxBytes) ==
    LET args == BuildExtractTreeArgs(includes, maxBytes)
        told == {Meaning(p) : p \in Range(args.argv) \cup FilePatterns(args.file)}
    IN  IF args.refused THEN Len(includes) > 1 /\ maxBytes < Bytes(Literals(includes))
        ELSE told = {[wild |-> FALSE, path |-> p] : p \in Range(includes)}
===============================================================================
