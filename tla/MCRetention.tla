---------------------------- MODULE MCRetention ----------------------------
(* Small instances of Retention: one torrent, or two of one name; and one     *)
(* whose name has blanks around it, or is refused.                            *)
EXTENDS Retention, TLC
CONSTANTS c1, jan, sed, h1, h2, f1, f2
OneClient == {c1}
OneHash   == {h1}
TwoHashes == {h1, h2}
NoneOf    == {}
OneFolder == {f1}
TwoFolders == {f1, f2}
OneName   == [h \in Hash |-> f1]
AsItIs    == [f \in Folder |-> f]
Trimmed   == [f \in Folder |-> f2]
Refuses   == [f \in Folder |-> None]

(* The same, whatever safeDataPath makes of the name.  A folder whose name    *)
(* has blanks around it is missed: the record goes and the files stay.        *)
ReclaimedByAnyName == \A h \in Hash : Claimed(h) ~> Disposed(h)

(* deleteRecordFiles refuses "an unsafe delete path", keeping the record      *)
(* (janitor.go:277-280): nobody takes such a folder, and its record goes only *)
(* when a request deletes the torrent.                                        *)
RefusedStay ==
    [][/\ \A f \in onDisk : Refused(f) => f \in onDisk'
       /\ \A h \in Hash : Refused(Name[h]) /\ rec[h] # None /\ rec'[h] = None
            => \E p \in Proc : IsDelete(p) /\ hash[p] = h]_vars
=============================================================================
