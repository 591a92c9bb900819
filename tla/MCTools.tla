-------------------------------- MODULE MCTools --------------------------------
(***************************************************************************)
(* Tools for TLC: the questions, from small sets, as further initial       *)
(* states of the specification.                                            *)
(***************************************************************************)
EXTENDS Meanings

UpTo(n, S) == UNION {[1..k -> S] : k \in 0..n}

(* Texts of one or two lines of up to two characters, and of two with a    *)
(* newline at the end; one edit, or two.                                   *)
EditLines == {<<>>, <<"a">>, <<"a", "b">>}
EditTexts == (UpTo(2, EditLines) \ {<<>>}) \cup {<<x, y, <<>> >> : x, y \in EditLines}
NewTexts == {Empty, << <<"x">> >>, << <<>>, <<>> >>, << <<"x">>, <<"y">> >>, << <<"b">> >>, << <<"x">>, <<>> >>}

ServerEdits(text) ==
  LET places == {<<l, c>> : l \in 0..(Len(text) - 1), c \in 0..2}
      all == {[sl |-> p[1], sc |-> p[2], el |-> q[1], ec |-> q[2], new |-> w] :
                p \in places, q \in places, w \in NewTexts}
  IN  {e \in all : InText(text, e) /\ (e.sl < e.el \/ (e.sl = e.el /\ e.sc <= e.ec))}

EditQuestion ==
  \E text \in EditTexts : \E e \in ServerEdits(text) :
    \/ question = [topic |-> "edits", text |-> text, edits |-> <<e>>]
    \/ /\ Len(text) = 2
       /\ \E d \in ServerEdits(text) :
            /\ d.new \in {Empty, << <<"x">> >>, << <<>>, <<>> >>}
            /\ question = [topic |-> "edits", text |-> text, edits |-> <<e, d>>]

(* Edits of whole lines, up to three, some beyond the file.                *)
LineEdits(n) == [s : 0..(n + 1), e : 0..(n + 1), new : {<<>>, << <<"x">>, <<>> >>}]

LineQuestion ==
  \E text \in {<< <<"a">> >>, << <<"a">>, <<>> >>, << <<"a">>, <<"b">>, <<"c">> >>} :
    \E edits \in UpTo(2, LineEdits(Len(text))) \cup {t \in UpTo(3, LineEdits(2)) : Len(text) = 3 /\ Len(t) = 3} :
      question = [topic |-> "lines", text |-> text, edits |-> edits]

(* Up to two changes of two files, both, one or none of which is there.    *)
Insert(text) == <<[sl |-> 0, sc |-> 0, el |-> 0, ec |-> 0, new |-> << <<text>> >>]>>
Options(S) == SUBSET S \cup {NoOptions}
FileChange ==
  {[kind |-> "create", path |-> p, options |-> o] : p \in {"a", "b"}, o \in Options({"overwrite", "ignoreIfExists"})}
  \cup {[kind |-> "delete", path |-> p, options |-> o] : p \in {"a", "b"}, o \in Options({"recursive", "ignoreIfNotExists"})}
  \cup {[kind |-> "rename", path |-> p, to |-> q, options |-> o] :
           p \in {"a", "b"}, q \in {"a", "b"}, o \in Options({"overwrite", "ignoreIfExists"})}
  \cup {[kind |-> "edit", path |-> p, options |-> {}, edits |-> Insert("x")] : p \in {"a", "b"}}

ChangeQuestion ==
  \E changes \in UpTo(2, FileChange), there \in {{}, {"a"}, {"a", "b"}} :
    question = [topic |-> "changes", changes |-> changes, disk |-> [p \in there |-> << <<p>> >>]]

(* A file with up to three diagnostics that had up to two, next to one     *)
(* that cannot be read.                                                    *)
Kinds == {[at |-> 1, code |-> "E", sev |-> 1], [at |-> 1, code |-> NoCode, sev |-> 2],
          [at |-> 2, code |-> "E", sev |-> 0]}
FileOf(now, before, synced) ==
  [routed |-> TRUE, synced |-> synced, now |-> now, before |-> before, fixes |-> {1},
   indexed |-> FALSE, indexing |-> synced]

DiagnosticQuestion ==
  \E now \in UpTo(3, Kinds), before \in UpTo(1, Kinds) \cup {<<k, k>> : k \in Kinds}, limit \in 0..3,
     only \in {[exclude |-> {}, min |-> 0], [exclude |-> {"E"}, min |-> 0], [exclude |-> {}, min |-> 1]} :
    question = [topic |-> "diagnostics", limit |-> limit, filter |-> only,
                files |-> <<FileOf(<<>>, << [at |-> 2, code |-> "E", sev |-> 1] >>, FALSE),
                            FileOf(now, before, TRUE)>>]

(* Outlines of up to two symbols of two kinds, with or without children. *)
OutlineSymbols == {[kind |-> k, flat |-> f, children |-> c] : k \in {"f", "g"}, f \in BOOLEAN,
                     c \in UpTo(2, {[kind |-> "f"], [kind |-> "g"]})}

OutlineQuestion ==
  \E ss \in UpTo(2, OutlineSymbols), ok \in BOOLEAN :
    question = [topic |-> "outline",
                file |-> [routed |-> TRUE, opens |-> TRUE, synced |-> TRUE, symbols |-> [ok |-> ok, symbols |-> ss],
                          hovers |-> [k \in {"f", "g"} |-> [ok |-> k = "f", content |-> k]]]]

(* A file of six lines with nested, adjacent or flat symbols, the last of  *)
(* which may go beyond its end.                                            *)
Symbol(d, a, b, n) == [depth |-> d, range |-> [from |-> <<a, 0>>, to |-> <<b, 1>>], name |-> n]

Trees ==
  {<<Symbol(0, 0, 4, "C"), Symbol(1, 1, 1, "f"), Symbol(1, 2, 3, "g")>>,
   <<Symbol(0, 0, 4, "C"), Symbol(1, 1, 3, "D"), Symbol(2, 2, 2, "f"), Symbol(2, 3, 3, "C"),
     Symbol(1, 4, 4, "g"), Symbol(0, 5, 5, "f")>>,
   <<Symbol(0, 0, 2, "f"), Symbol(0, 3, 5, "g"), Symbol(1, 3, 5, "g")>>,
   <<Symbol(0, 0, 0, "f"), Symbol(0, 1, 3, "g"), Symbol(0, 4, 6, "C")>>}

RangeQuestion ==
  \E tree \in Trees, brackets \in {[l \in 0..5 |-> l], [l \in 0..5 |-> IF l = 2 THEN 4 ELSE l]},
     p \in (0..6) \X (0..1), q \in {<<0, 0>>, <<2, 1>>, <<3, 0>>, <<6, 0>>}, c \in 0..1, n \in {"", "f", "g"} :
    question = [topic |-> "ranges", symbols |-> tree, brackets |-> brackets, places |-> <<p, q>>,
                context |-> c, name |-> n, total |-> 6]

(* One or two servers; symbols that can or cannot be opened and resolved.  *)
Loc(f, l) == [file |-> f, line |-> l, defined |-> TRUE, hover |-> FALSE]
Locs(n) == [i \in 1..n |-> Loc(IF i % 2 = 0 THEN 1 ELSE 2, i)]
Good(n) == [ok |-> TRUE, locs |-> Locs(n)]
Bad == [ok |-> FALSE, locs |-> <<>>]
Down == [ok |-> FALSE, symbols |-> <<>>]
Found(ss) == [ok |-> TRUE, symbols |-> ss]

FoundSymbols ==
  {[name |-> n, container |-> c, method |-> TRUE, flat |-> fl, opens |-> o, defined |-> o,
    types |-> t, impls |-> t, refs |-> t] :
     n \in {<<"m">>, <<"A", Dot, "m">>, <<"m", Colons, "m">>},
     c \in {<<>>, <<"A">>, <<"A", Colons, "m">>}, fl \in BOOLEAN, o \in BOOLEAN, t \in {Bad, Good(1)}}

NameQuestion ==
  \E s \in FoundSymbols, o \in BOOLEAN, first \in {Found(<<>>), Down},
     query \in {<<"m">>, <<"A", Dot, "m">>, <<"A", Colons, "m">>, <<"A", Colons, "m", Colons, "m">>} :
    LET other == [name |-> <<"m">>, container |-> <<"A">>, method |-> FALSE, flat |-> TRUE, opens |-> o,
                  defined |-> o, types |-> Good(2), impls |-> Bad, refs |-> Good(2)]
    IN  \E servers \in {<<first, Found(<<s, other>>)>>, <<Found(<<other, s>>), first>>} :
          question = [topic |-> "names", servers |-> servers, query |-> query]

PageQuestion ==
  \E n \in 0..8, limit \in 0..5 :
    question = [topic |-> "pages", refs |-> Locs(n), limit |-> limit]

(* A file where only one place is anything to the server.                  *)
Answering(there) ==
  LET locs == [ok |-> there, locs |-> Locs(1)]
      calls == [ok |-> there, unknown |-> FALSE, calls |-> <<1>>]
  IN  [definition |-> locs, type |-> locs, implementation |-> locs, references |-> locs,
       hover |-> [ok |-> there, contents |-> [kind |-> "markup", text |-> "text"]],
       batch |-> [ok |-> there, content |-> "text"], renamed |-> [ok |-> there, changes |-> <<1>>],
       calls |-> [ok |-> there, items |-> << [incoming |-> calls, outgoing |-> calls, synthetic |-> calls] >>],
       graph |-> [ok |-> there, roots |-> <<1>>, callees |-> << <<>> >>, callers |-> << <<>> >>, key |-> <<1>>]]

PlaceQuestion ==
  \E p \in (0..2) \X (0..2), given \in SUBSET {"line", "column"}, l, c \in 0..3 :
    question = [topic |-> "places", place |-> p,
                args |-> [a \in given \cup {"filePath"} |-> IF a = "line" THEN l ELSE IF a = "column" THEN c ELSE 1],
                file |-> [routed |-> TRUE, opens |-> TRUE, synced |-> TRUE, text |-> << <<>>, <<>>, <<>> >>,
                          flagged |-> <<[from |-> p, to |-> p, code |-> {}]>>,
                          fixes |-> [ok |-> TRUE, actions |->
                            <<[title |-> 1, preferred |-> FALSE, enabled |-> TRUE, has |-> "edit", resolves |-> "edit"]>>],
                          at |-> [x \in ((0..2) \X (0..2)) \cup {Nowhere} |-> Answering(x = p)]]]

(* Two or three diagnostics around a place, and up to three actions.       *)
Places == {<<1, 1>>, <<1, 2>>, <<2, 0>>}
Fixable == {[from |-> f, to |-> t, code |-> c] : f \in Places, t \in {<<1, 2>>, <<2, 3>>}, c \in {{}, {"E"}}}
Actions(n) == {[title |-> n, preferred |-> p, enabled |-> e, has |-> h, resolves |-> "edit"] :
                 p \in BOOLEAN, e \in BOOLEAN, h \in {"edit", "data", "command"}}

FixQuestion ==
  \/ \E d1, d2 \in {d \in Fixable : ~Follows(d.from, d.to)}, at \in Places, code \in {Anything, "E"} :
       question = [topic |-> "fix", diagnostics |-> <<d1, d2>>, at |-> at, code |-> code,
                   answer |-> [ok |-> TRUE, actions |-> <<>>]]
  \/ \E a \in Actions(1), b \in Actions(2), c \in Actions(3), ok \in BOOLEAN :
       question = [topic |-> "fix", at |-> <<1, 1>>, code |-> Anything,
                   diagnostics |-> << [from |-> <<1, 1>>, to |-> <<1, 2>>, code |-> {}] >>,
                   answer |-> [ok |-> ok, actions |-> <<b, a, c>>]]

(* Three items that call up to two each; two of them may share a node.     *)
Calls == UpTo(2, 1..3)

GraphQuestion ==
  \E callees \in [1..3 -> Calls], key \in {<<1, 2, 3>>, <<1, 2, 2>>}, depth \in 0..3 :
    question = [topic |-> "graph", callees |-> callees, key |-> key, depth |-> depth,
                callers |-> [i \in 1..3 |-> SetToSortSeq({j \in 1..3 : i \in ToSet(callees[j])}, <)]]

(* Up to four tokens: the item's own name, two in it, one after it.        *)
Spots == << <<1, 2>>, <<1, 4>>, <<3, 1>>, <<4, 0>> >>

TokenQuestion ==
  \E S \in SUBSET (1..4) :
    LET at == SetToSortSeq(S, <)
    IN  \E type \in [1..Len(at) -> {"variable", "function", "method"}], target \in [S -> 0..2] :
          question = [topic |-> "tokens", types |-> <<"variable", "function", "method">>,
                      item |-> [range |-> [from |-> <<1, 0>>, to |-> <<4, 0>>],
                                selection |-> [from |-> <<1, 2>>, to |-> <<1, 3>>]],
                      tokens |-> [i \in 1..Len(at) |->
                        [line |-> Spots[at[i]][1], char |-> Spots[at[i]][2], type |-> type[i]]],
                      definition |-> [p \in (0..4) \X (0..8) |->
                        IF \E i \in S : Spots[i] = p /\ target[i] > 0
                        THEN <<target[CHOOSE i \in S : Spots[i] = p], 1>> ELSE <<>>],
                      prepared |-> [t \in 1..2 |-> t]]

(* Every union, with what is written for each of its alternatives.         *)
UnionQuestion ==
  \E name \in DOMAIN Lsp!Unions : \E way \in 1..Len(Lsp!Unions[name][2]) :
    \E value \in Lsp!Written(Lsp!Unions[name][2][way]) :
      question = [topic |-> "union", name |-> name, way |-> way, value |-> value]

(* Patterns that servers register, of a directory or of none, and paths.   *)
Go == <<"go">>
Src(name) == <<name, ".", "go">>
PathsWatched == {<< <<"w">> >> \o p : p \in {<<Src("m")>>, << <<"a">>, Src("m")>>, << <<"a">>, <<"b">>, Src("m")>>,
                                            << <<"a">>, <<"go", ".", "mod">> >>, << <<"m", ".", "go", ".", "bak">> >>}}
PatternHeads == {<<>>, <<"**", "/">>, <<"a", "/">>, <<"a", "/", "**", "/">>, <<"**", "/", "a", "/">>,
                 <<"w", "/">>, <<"*", "/">>, <<"/", "w", "/">>, <<"/", "w", "/", "**", "/">>,
                 <<"**", "/", "{", "a", ",", "b", "}", "/">>}
PatternTails == {<<"*">>, <<"**">>, <<"*", ".", "go">>, <<"*", ".", "{", "go", ",", "mod", "}">>, Src("m"),
                 <<"go", ".", "mod">>, <<"m", ".", "*">>, <<"*", ".", "*">>}

PatternQuestion ==
  \E h \in PatternHeads, t \in PatternTails, base \in {<<>>, << <<"w">> >>, << <<"w">>, <<"a">> >>},
     path \in PathsWatched, readable \in {TRUE} :
    question = [topic |-> "pattern", glob |-> [text |-> h \o t, base |-> base, readable |-> readable], path |-> path]

(* A workspace of up to two files, in one directory or below one of        *)
(* several kinds, and the servers there are; up to two flags.             *)
SourceFiles(root) ==
  {root \o d \o <<f>> : d \in {<<>>, << <<"build">> >>, << <<".", "x">> >>, << <<"a">> >>},
                        f \in {<<"x", ".", "cpp">>, <<"x", ".", "h">>, <<"x", ".", "py">>}}
  \cup {root \o <<f>> : f \in {<<"x", ".", "tsx">>, <<"x", ".", "jsx">>, <<"x", ".", "log">>, <<"x">>,
                               <<".", "go">>, <<"x", ".", "go">>}}

WorkspaceQuestion ==
  \/ \E root \in {<< <<"w">> >>, << <<"w">>, <<"build">> >>},
        installed \in {{"clangd"}, {"pylsp"}, {"clangd", "pyright-langserver", "pylsp", "gopls"},
                      {"typescript-language-server", "pylsp"}} :
       \E F \in UNION {kSubset(n, SourceFiles(root)) : n \in 0..2}, ignored \in {{}, {root \o << <<"a">> >>}} :
         question = [topic |-> "workspace", installed |-> installed,
                     workspace |-> [exists |-> TRUE, root |-> root, files |-> F, ignored |-> ignored]]
  \/ \E flags \in UpTo(2, [lang : {"", "c", "cpp", "python"}, command : {"clangd", "pylsp", "pyright-langserver", "x"}]),
        installed \in SUBSET {"clangd", "pylsp", "x"} :
       question = [topic |-> "flags", flags |-> flags, installed |-> installed,
                   workspace |-> [exists |-> TRUE, root |-> << <<"w">> >>, files |-> {}, ignored |-> {}]]

MCInit ==
  /\ Init
  /\ \/ question = NoQuestion
     \/ EditQuestion \/ LineQuestion \/ ChangeQuestion \/ DiagnosticQuestion \/ OutlineQuestion \/ RangeQuestion
     \/ FixQuestion \/ NameQuestion \/ PageQuestion \/ PlaceQuestion \/ GraphQuestion \/ TokenQuestion
     \/ UnionQuestion \/ PatternQuestion \/ WorkspaceQuestion
  /\ WellFormed

MCSpec == MCInit /\ [][ToolsNext]_ToolsVars

FileSymmetry == Permutations(Files)
=============================================================================
