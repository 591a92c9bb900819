-------------------------------- MODULE Languages --------------------------------
(***************************************************************************)
(* Languages and their servers: which language a file is written in        *)
(* (lsp/detect-language.go), which servers are started for a workspace     *)
(* (lsp/autodetect.go) or named on the command line (main.go), and which   *)
(* of them a language is routed to (lsp/router.go).                        *)
(*                                                                         *)
(* Paths are those of WatchPatterns.  Every language with a server or in   *)
(* a group is here, and of the others a few.                               *)
(***************************************************************************)
EXTENDS WatchPatterns, Selections

Unknown == ""

Extensions ==
  [c |-> {"c", "h"}, cpp |-> {"cpp", "cxx", "cc", "c++", "hpp", "hxx", "h++"}, go |-> {"go"},
   rust |-> {"rs"}, python |-> {"py"}, markdown |-> {"md", "markdown"}, typescript |-> {"ts"},
   typescriptreact |-> {"tsx"}, javascript |-> {"js"}, javascriptreact |-> {"jsx"},
   json |-> {"json"}, yaml |-> {"yaml", "yml"}, java |-> {"java"}]

DetectLanguageID(name) ==
  LET named == {l \in DOMAIN Extensions : \E e \in Extensions[l] : Ext(name) = <<".", e>>}
  IN  IF named = {} THEN Unknown ELSE CHOOSE l \in named : TRUE

KnownLSPServers ==
  [go |-> <<"gopls">>, rust |-> <<"rust-analyzer">>, python |-> <<"pyright-langserver", "pylsp">>,
   c |-> <<"clangd">>, typescript |-> <<"typescript-language-server">>, markdown |-> <<"marksman">>]

Arguments(command) ==
  IF command \in {"pyright-langserver", "typescript-language-server"} THEN <<"--stdio">> ELSE <<>>

KnownLSPCommands ==
  {<<"gopls", "go">>, <<"pyright-langserver", "python">>, <<"pylsp", "python">>, <<"rust-analyzer", "rust">>,
   <<"clangd", "c">>, <<"typescript-language-server", "typescript">>, <<"tsserver", "typescript">>,
   <<"marksman", "markdown">>}

ConfigFileLanguages == {<< <<".", "clang-tidy">>, "c">>, << <<".", "clangd">>, "c">>, << <<".", "clang-format">>, "c">>}

LanguageGroups == [c |-> "cpp", cpp |-> "c", typescriptreact |-> "typescript", javascriptreact |-> "javascript"]

NormalizeLangID(lang) ==
  IF lang \notin DOMAIN KnownLSPServers /\ lang \in DOMAIN LanguageGroups THEN LanguageGroups[lang] ELSE lang

(* The files that a walk from the root on comes to, which are all but those*)
(* in a directory that is skipped.  The root itself may be one, by its     *)
(* name.                                                                   *)
Walked(root, files, ignored) ==
  LET skipped(dir) == Last(dir) \in ExcludedDirs \/ dir \in ignored
  IN  {f \in files : ~\E n \in Len(root)..(Len(f) - 1) : skipped(SubSeq(f, 1, n))}

(* The languages with a server that it finds.  It ends when it has found   *)
(* all there are, after which it would find no other.                      *)
ScanWorkspaceLanguages(root, files, ignored) ==
  LET counted == {f \in Walked(root, files, ignored) :
                    Ext(Last(f)) \notin ExcludedFileExtensions \cup LargeBinaryExtensions /\ f \notin ignored}
  IN  {NormalizeLangID(DetectLanguageID(Last(f))) : f \in counted} \cap DOMAIN KnownLSPServers

Sorted == <<"c", "go", "markdown", "python", "rust", "typescript">>

(* One server for each language found: the first of its servers that is    *)
(* installed, unless a language before it has got that one.                *)
Able(lang, installed) == {i \in 1..Len(KnownLSPServers[lang]) : KnownLSPServers[lang][i] \in installed}

ServerOf(lang, installed) == KnownLSPServers[lang][First(Able(lang, installed))]

ServersFor(found, installed) ==
  LET able == {n \in 1..Len(Sorted) : Sorted[n] \in found /\ Able(Sorted[n], installed) # {}}
      command(n) == ServerOf(Sorted[n], installed)
      langs == Chosen(Sorted, {n \in able : \A m \in able : m < n => command(m) # command(n)})
  IN  [n \in 1..Len(langs) |-> [lang |-> langs[n], command |-> ServerOf(langs[n], installed),
                                args |-> Arguments(ServerOf(langs[n], installed))]]

DetectLSPConfigs(root, files, ignored, installed) ==
  LET configs == ServersFor(ScanWorkspaceLanguages(root, files, ignored), installed)
  IN  [ok |-> configs # <<>>, configs |-> configs]

(* The flags: a command, with its language or without.                     *)
ParseLSPFlags(flags, trailing, installed) ==
  LET known(command) == {p \in KnownLSPCommands : p[1] = command}
      lang(f) == IF f.lang # Unknown THEN f.lang
                 ELSE IF known(f.command) = {} THEN "unknown"
                 ELSE (CHOOSE p \in known(f.command) : TRUE)[2]
  IN  [ok |-> flags # <<>> /\ \A i \in 1..Len(flags) : flags[i].command \in installed,
       configs |-> [i \in 1..Len(flags) |->
                      [lang |-> lang(flags[i]), command |-> flags[i].command,
                       args |-> IF i = Len(flags) THEN trailing ELSE <<>>]]]

ParseConfig(workspace, flags, trailing, installed) ==
  IF ~workspace.exists THEN [ok |-> FALSE, configs |-> <<>>]
  ELSE IF flags # <<>> THEN ParseLSPFlags(flags, trailing, installed)
  ELSE DetectLSPConfigs(workspace.root, workspace.files, workspace.ignored, installed)

FirstFor(configs, lang) ==
  LET I == {i \in 1..Len(configs) : configs[i].lang = lang}
  IN  IF I = {} THEN 0 ELSE First(I)

(* Seeded fault: only the language itself is looked for, not its group.    *)
FindConfigExact(configs, lang) == FirstFor(configs, lang)

(* The place of the configuration a language is routed to; 0 when there is *)
(* none.                                                                   *)
FindConfig(configs, lang) ==
  IF FirstFor(configs, lang) > 0 \/ lang \notin DOMAIN LanguageGroups THEN FirstFor(configs, lang)
  ELSE FirstFor(configs, LanguageGroups[lang])

(* A change of a configuration file restarts what is stored under its      *)
(* language; a server is stored under the language it is configured for.   *)
Restarted(configs, name) ==
  {i \in 1..Len(configs) : <<name, configs[i].lang>> \in ConfigFileLanguages}

(* The watcher follows the directories that are not excluded, from the     *)
(* root on, and in them the files that are not.                            *)
Followed(root, file, ignored, disk) ==
  /\ \A n \in (Len(root) + 1)..(Len(file) - 1) : ~ShouldExcludeDir(SubSeq(file, 1, n), ignored)
  /\ ~ShouldExcludeFile(file, ignored, disk)
=============================================================================
