------------------------------ MODULE MCEvents ------------------------------
EXTENDS Events, TLC

CONSTANTS a, b

\* The engine gets its first torrent.
Starting == << {}, {a} >>

\* The engine loses its only torrent, and later has another one.
Changing == << {a}, {}, {b} >>

\* The engine loses its only torrent.
Emptying == << {a}, {} >>

EventsOver(versions) == [type : {"stats"}, v : versions]
                          \cup [type : {"added", "dropped"}, v : {0}]
Events2 == EventsOver(1 .. 2)
Events3 == EventsOver(1 .. 3)

ConnSymmetry == Permutations(Conns)
=============================================================================
