------------------------------- MODULE MCWatcher -------------------------------
(* Instances of Watcher for TLC.                                           *)
EXTENDS Watcher

CONSTANTS source, conf

SomeMasks == {{"change"}, WatchKinds}
==============================================================================
