---------------------------- MODULE MCSensors ----------------------------
(* Sensors for TLC: one configuration for each detector. *)
EXTENDS Sensors

Off == [feeds |-> {"malwarebazaar", "virustotal"}, quarantine |-> TRUE, canary |-> FALSE,
        ransomware |-> FALSE, netmon |-> FALSE, ticks |-> 0, writes |-> 0, touches |-> 0, faults |-> 1]

Feed == [Off EXCEPT !.writes = 1]
Rewritten == [Off EXCEPT !.feeds = {"malwarebazaar"}, !.writes = 2, !.faults = 0]
Unkept == [Off EXCEPT !.feeds = {}, !.quarantine = FALSE, !.writes = 1]
Canaries == [Off EXCEPT !.canary = TRUE, !.touches = 2]
Bursts == [Off EXCEPT !.ransomware = TRUE, !.ticks = 5, !.touches = 6]
Net == [Off EXCEPT !.netmon = TRUE]

Configurations == {Feed, Rewritten, Unkept, Canaries, Bursts, Net}
Interchange == Permutations(DeepScan) \cup Permutations(Content)
===========================================================================
