-------------------------------- MODULE Meanings --------------------------------
(***************************************************************************)
(* Questions to the parts of the tools that read what a server says: its   *)
(* answers as JSON, whose decoding is recursive, and the patterns of files *)
(* that it registers.                                                      *)
(***************************************************************************)
EXTENDS Tools

Lsp == INSTANCE LspUnions

(* What a server answers in one of the forms that the protocol allows is   *)
(* understood: some alternative of the union takes all of it, and what the *)
(* tools then read -- locations, symbols, edits, patterns, changes -- is   *)
(* what the server meant, even where two forms cannot be told apart.       *)
UnionsRead ==
  /\ Lsp!Understood(question.name, Lsp!Unions[question.name], question.way, question.value)
  /\ Lsp!ReadRight(question.name, question.way, question.value)

StarBeyond(text, n) == \E i \in (n + 1)..Len(text) : text[i] \in {Star, Anywhere}

(* The patterns that are read in full.  What follows "**/" is looked at    *)
(* only if it begins with "*.", and then it is the end of a path, so that  *)
(* another star or braces in it are taken literally.  Else "**" can be the *)
(* last word, after a directory without stars, what begins with "*." is    *)
(* the end of a path as well, and a pattern of more than one name begins   *)
(* at the root exactly if it has no base.                                  *)
ReadInFull(glob) ==
  LET text == glob.text
  IN  IF IsPrefix(<<Anywhere, Slash>>, text)
      THEN IsPrefix(<<Anywhere, Slash, Star, ".">>, text) => ~StarBeyond(text, 3) /\ ~HasWord(text, "{")
      ELSE /\ ~HasWord(SubSeq(text, 1, Len(text) - 1), Anywhere)
           /\ Last(text) = Anywhere => ~HasWord(text, Star)
           /\ IsPrefix(<<Star, ".">>, text) => ~StarBeyond(text, 1)
           /\ HasWord(text, Slash) => (text[1] = Slash <=> glob.base = NoBase)

(* A path that such a pattern means is watched.  One for an extension that *)
(* is read in full means nothing else.                                     *)
PatternsRead ==
  LET glob == question.glob
      extension == IsPrefix(<<Anywhere, Slash, Star, ".">>, glob.text)
      watched == IsPathWatched(<<[glob |-> glob, kind |-> AllKinds]>>, question.path) # {}
  IN  ReadInFull(glob) =>
        /\ Asked(glob, question.path) => watched
        /\ watched /\ extension => \E n \in 0..Len(glob.base) :
                                     Asked([glob EXCEPT !.base = SubSeq(@, 1, n)], question.path)

(* What a server says is read as it was meant: its answers, and the        *)
(* patterns of the files that it wants to hear of.                         *)
MeantIsRead ==
  /\ question.topic = "union" => UnionsRead
  /\ question.topic = "pattern" => PatternsRead
=============================================================================
