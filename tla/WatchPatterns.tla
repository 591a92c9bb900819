------------------------------ MODULE WatchPatterns ------------------------------
(***************************************************************************)
(* Which paths the watcher follows (internal/watcher/watcher.go): glob     *)
(* patterns of the registrations, and what is excluded whatever they say.  *)
(*                                                                         *)
(* Names and patterns are sequences of words; "." and "/" and the special  *)
(* signs of a pattern are words of their own.  A path is the sequence of   *)
(* the names on it, from the root.                                         *)
(***************************************************************************)
EXTENDS Naturals, SequencesExt

Slash == "/"
Star == "*"
Anywhere == "**"

Split(text, sep) ==
  LET step(parts, word) == IF word = sep THEN Append(parts, <<>>)
                           ELSE [parts EXCEPT ![Len(parts)] = Append(@, word)]
  IN  FoldLeft(step, << <<>> >>, text)

Join(names) == FoldLeft(LAMBDA text, name : IF text = <<>> THEN name ELSE text \o <<Slash>> \o name, <<>>, names)

Absolute(path) == <<Slash>> \o Join(path)

HasWord(text, word) == \E i \in 1..Len(text) : text[i] = word
After(text, prefix) == SubSeq(text, Len(prefix) + 1, Len(text))

(* filepath.Match *)
Match(pattern, text) ==
  LET m[i \in 1..(Len(pattern) + 1), j \in 1..(Len(text) + 1)] ==
        IF i > Len(pattern) THEN j > Len(text)
        ELSE IF pattern[i] \in {Star, Anywhere}
             THEN m[i + 1, j] \/ (j <= Len(text) /\ text[j] # Slash /\ m[i, j + 1])
             ELSE j <= Len(text) /\ text[j] = pattern[i] /\ m[i + 1, j + 1]
  IN  m[1, 1]

(* filepath.Rel *)
Rel(base, path) ==
  LET same[n \in 0..Len(base)] == IF n < Len(base) /\ n < Len(path) /\ base[n + 1] = path[n + 1] THEN same[n + 1] ELSE n
      shared == same[0]
  IN  [i \in 1..(Len(base) - shared) |-> <<"..">>] \o SubSeq(path, shared + 1, Len(path))

-----------------------------------------------------------------------------
(* A pattern that begins with "**" and a slash is taken for one of a       *)
(* suffix: each part of the path that could match ends as the path does.   *)
MatchesSimpleGlob(pattern, text) ==
  LET parts == Split(pattern, Anywhere)
      rest == After(pattern, <<Anywhere, Slash>>)
  IN  IF IsPrefix(<<Anywhere, Slash>>, pattern)
      THEN IsSuffix(IF IsPrefix(<<Star, ".">>, rest) THEN Tail(rest) ELSE rest, text)
      ELSE IF Len(parts) > 1 /\ ~IsPrefix(parts[1], text) THEN FALSE
      ELSE IF Len(parts) = 2 THEN IsSuffix(parts[2], After(text, parts[1]))
      ELSE IF IsPrefix(<<Star, ".">>, pattern) THEN IsSuffix(Tail(pattern), text)
      ELSE Match(pattern, text)

(* The first group in braces stands for each of its alternatives.          *)
MatchesGlob(pattern, text) ==
  LET opened == Split(pattern, "{")
      after == After(pattern, opened[1] \o <<"{">>)
      closed == Split(after, "}")
      alternatives == Split(closed[1], ",")
  IN  IF HasWord(pattern, "{") /\ HasWord(after, "}")
      THEN \E i \in 1..Len(alternatives) :
             MatchesSimpleGlob(opened[1] \o alternatives[i] \o After(after, closed[1] \o <<"}">>), text)
      ELSE MatchesSimpleGlob(pattern, text)

NoBase == <<>>

(* glob.base is NoBase for a pattern that is a string.                    *)
MatchesPattern(path, glob) ==
  LET anywhere == IsPrefix(<<Anywhere, Slash>>, glob.text)
      rest == After(glob.text, <<Anywhere, Slash>>)
  IN  /\ glob.readable
      /\ IF anywhere THEN IsPrefix(<<Star, ".">>, rest) => IsSuffix(Tail(rest), Absolute(path))
         ELSE IF glob.base = NoBase
              THEN MatchesGlob(glob.text, Absolute(path)) \/ MatchesGlob(glob.text, Last(path))
              ELSE MatchesGlob(glob.text, Join(Rel(glob.base, path)))

AllKinds == {"create", "change", "delete"}

(* The kinds of change that are watched: those of the first registration   *)
(* that matches, or all when there is none at all.                         *)
IsPathWatched(registrations, path) ==
  LET matching == SelectSeq(registrations, LAMBDA r : MatchesPattern(path, r.glob))
  IN  IF registrations = <<>> THEN AllKinds
      ELSE IF matching = <<>> THEN {}
      ELSE matching[1].kind

-----------------------------------------------------------------------------
(* The extension, as filepath.Ext has it: from the last dot on.            *)
Ext(name) ==
  LET parts == Split(name, ".")
  IN  IF Len(parts) = 1 THEN <<>> ELSE <<".">> \o Last(parts)

ExcludedDirs ==
  {<<".", "git">>, <<"node_modules">>, <<"dist">>, <<"build">>, <<"out">>, <<"bin">>, <<".", "idea">>,
   <<".", "vscode">>, <<".", "cache">>, <<"coverage">>, <<"target">>, <<"vendor">>}

ExcludedFileExtensions ==
  {<<".", e>> : e \in {"swp", "swo", "tmp", "temp", "bak", "log", "o", "so", "dylib", "dll", "a", "exe", "lock"}}

LargeBinaryExtensions ==
  {<<".", e>> : e \in {"png", "jpg", "jpeg", "gif", "bmp", "ico", "zip", "tar", "gz", "rar", "7z", "pdf", "mp3",
                       "mp4", "mov", "wav", "wasm"}}

DotFirst(name) == name[1] = "."

(* ignored: the paths that .gitignore names, which go-gitignore decides.   *)
ShouldExcludeDir(path, ignored) ==
  DotFirst(Last(path)) \/ Last(path) \in ExcludedDirs \/ path \in ignored

(* disk tells what is there: its size class.                               *)
ShouldExcludeFile(path, ignored, disk) ==
  \/ DotFirst(Last(path))
  \/ Ext(Last(path)) \in ExcludedFileExtensions \cup LargeBinaryExtensions
  \/ Last(Last(path)) = "~"
  \/ path \in ignored
  \/ path \notin DOMAIN disk \/ disk[path] = "large"

-----------------------------------------------------------------------------
(* What a pattern means to the protocol: "*" is any part of a name, "**"   *)
(* any names, braces any one of what is between them; the pattern speaks   *)
(* of the path from its base on.                                           *)
Alternatives(text) ==
  IF ~HasWord(text, "{") THEN {text}
  ELSE LET from == CHOOSE i \in 1..Len(text) : text[i] = "{"
           to == CHOOSE i \in 1..Len(text) : text[i] = "}"
       IN  {SubSeq(text, 1, from - 1) \o e \o SubSeq(text, to + 1, Len(text)) :
              e \in ToSet(Split(SubSeq(text, from + 1, to - 1), ","))}

Means(text, names) ==
  \E t \in Alternatives(text) :
    LET segments == SelectSeq(Split(t, Slash), LAMBDA s : s # <<>>)
        m[i \in 1..(Len(segments) + 1), j \in 1..(Len(names) + 1)] ==
          IF i > Len(segments) THEN j > Len(names)
          ELSE IF segments[i] = <<Anywhere>> THEN m[i + 1, j] \/ (j <= Len(names) /\ m[i, j + 1])
          ELSE j <= Len(names) /\ Match(segments[i], names[j]) /\ m[i + 1, j + 1]
    IN  m[1, 1]

Asked(glob, path) == IsPrefix(glob.base, path) /\ Means(glob.text, After(path, glob.base))
=============================================================================
