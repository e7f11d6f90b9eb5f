---------------------------- MODULE MCRainmaker ----------------------------
(* Two devices, two registry entries, an API task, task_hap and the boot    *)
(* restore; the queue holds two items instead of eight.  The type map is    *)
(* evaluated over its whole range and over all devices of three exposes.    *)
EXTENDS Rainmaker, RmkTypemap, TLC

MCSlots == 1..2
MCSdk == 1..3
MCSymmetry == Permutations(Ieee) \cup Permutations(Vals)

ExposeNames == DOMAIN Map \cup {"color_x", "child_lock"}
Exposes == [name : ExposeNames, writable : BOOLEAN]
Devices == {ex \in UNION {[1..n -> Exposes] : n \in 0..3} :
                \A i, j \in DOMAIN ex : ex[i].name = ex[j].name => i = j}
Knobs == [name : {"child_lock"}, writable : BOOLEAN]

ASSUME Values == BrightnessStays /\ InBounds /\ WriteBackIsClose
ASSUME Types == KnobsDoNotMatter(Devices, Knobs) /\ PrimaryPresent(Devices)
=============================================================================
