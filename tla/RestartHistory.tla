---------------------------- MODULE RestartHistory ----------------------------
(***************************************************************************)
(* RestartableClient with history: which files the old client of a         *)
(* configuration restart had open when it was stopped, which of them tool  *)
(* handlers had opened since Restart looked, and which of them Restart has *)
(* skipped with a warning.  The history takes no part in what happens.     *)
(***************************************************************************)
EXTENDS RestartableClient, TLC

VARIABLES
  had,  \* the files open on the old client of each Restart, when it was stopped
  late, \* those opened on it after they were captured
  skipped \* those Restart could not open on the new client

historyVars == <<vars, had, late, skipped>>

HistoryInit ==
  /\ Init
  /\ had = [c \in Callers |-> {}]
  /\ late = [c \in Callers |-> {}]
  /\ skipped = [c \in Callers |-> {}]

HistoryNext ==
  /\ Next
  /\ had' = [c \in Callers |-> IF pc'[c] = "idle" THEN {}
                               ELSE IF pc[c] = "shutdown" /\ pc'[c] = "closing" THEN open[cli[c]]
                               ELSE had[c]]
  /\ late' = [c \in Callers |-> IF pc'[c] = "idle" THEN {}
                                ELSE IF pc[c] = "shutdown" /\ pc'[c] = "shutdown"
                                THEN late[c] \cup (open'[cli[c]] \ open[cli[c]])
                                ELSE late[c]]
  /\ skipped' = [c \in Callers |-> IF pc'[c] = "idle" THEN {}
                                   ELSE IF pc[c] = "reopen"
                                   THEN skipped[c] \cup ((captured[c] \ captured'[c]) \ open'[cli[c]])
                                   ELSE skipped[c]]

HistorySpec == HistoryInit /\ [][HistoryNext]_historyVars

(* restartable.go:175: Restart preserves open files.  When it is through   *)
(* and its client still takes notifications, that client has every file    *)
(* the old one had, except those that a handler opened after they were     *)
(* captured and those that could not be opened again, of which only the    *)
(* log tells -- across whatever monitors, Close and other handlers do.     *)
FilesKept ==
  \A c \in Callers :
    pc[c] = "spawn" /\ Takes(cli[c]) => had[c] \subseteq open[cli[c]] \cup late[c] \cup skipped[c]
===============================================================================
