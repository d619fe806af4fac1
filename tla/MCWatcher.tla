------------------------------ MODULE MCWatcher ------------------------------
(* Instances of Watcher for TLC. *)
EXTENDS Watcher

Second == {1}
SubSecond == {0, 1}
Writes == {"write"}
WritesAndDeletes == {"write", "delete"}
AllOps == {"write", "delete", "move"}

(* The paths differ in nothing: if there is one file at first, it is at this *)
(* path.                                                                     *)
FirstPath == CHOOSE p \in Paths : TRUE

StormInit == Init /\ (disk[FirstPath] = Gone => \A p \in Paths : disk[p] = Gone)

StormSpec == StormInit /\ [][Next]_vars /\ Fairness
=============================================================================
